----------------------------- MODULE NamedLists -----------------------------
(***************************************************************************)
(* Lists of things that have a name, as the checker and the code generator *)
(* keep symbols, members and type parameters: searched from the front.     *)
(***************************************************************************)
EXTENDS Integers, Sequences, FiniteSetsExt

\* a sequence, whatever its elements
IsList(s) == s \in Seq({s[i] : i \in DOMAIN s})

\* the first declaration of a name
Has(list, name) == \E i \in DOMAIN list : list[i].name = name
FirstAt(list, name) == Min({i \in DOMAIN list : list[i].name = name})
Get(list, name) == list[FirstAt(list, name)]

\* type arguments for type parameters
NoBinding == [p \in {} |-> p]
Bind(names, args) ==
    [p \in {names[i] : i \in DOMAIN names \cap DOMAIN args} |->
        args[Min({i \in DOMAIN names : names[i] = p})]]

\* x, next[x], next[next[x]], ...
Iterate(next, x) == LET turn[n \in Nat] == IF n = 0 THEN x ELSE next[turn[n - 1]] IN turn
=============================================================================
