---------------------------- MODULE DepthRounds ----------------------------
(***************************************************************************)
(* The intervals of DepthAnalysis as ver_chunk computes them               *)
(* (source/compiler/xbc.c, pass 3): round after round, each in the order   *)
(* of the instructions, until one changes nothing.  A chunk takes a few    *)
(* such rounds where DepthAnalysis takes its length.                       *)
(***************************************************************************)
EXTENDS Bytecode, FiniteSetsExt

Nowhere == [lo |-> -1, hi |-> -1]

Widened(old, lo, hi) ==
    IF old = Nowhere THEN [lo |-> lo, hi |-> hi] ELSE [lo |-> Min({old.lo, lo}), hi |-> Max({old.hi, hi})]

Visit(code, d, pc) ==
    FoldSet(LAMBDA e, s : [s EXCEPT ![e.to] = Widened(@, d[pc].lo + e.min, d[pc].hi + e.max)],
            d, {e \in Edges(code[pc], pc) : e.to \in DOMAIN d})

RECURSIVE Round(_, _, _)
Round(code, d, pc) ==
    IF pc > Len(code) THEN d
    ELSE IF d[pc] = Nowhere THEN Round(code, d, pc + 1)
    ELSE Round(code, Visit(code, d, pc), pc + 1)

\* a depth out of bounds ends the analysis
Bounded(d, max) == \A pc \in DOMAIN d : d[pc].lo >= -1 /\ d[pc].hi <= max

RECURSIVE Swept(_, _, _)
Swept(code, d, max) ==
    LET new == Round(code, d, 1) IN IF new = d \/ ~Bounded(new, max) THEN new ELSE Swept(code, new, max)

Entry(code) == [pc \in 1..Len(code) |-> IF pc = 1 THEN [lo |-> 0, hi |-> 0] ELSE Nowhere]

\* what pass 3 asks of the chunk
AcceptedBy(code, max) ==
    LET d == Swept(code, Entry(code), max) IN
    \A pc \in 1..Len(code) : d[pc] # Nowhere =>
      /\ code[pc].pops <= d[pc].lo /\ d[pc].hi <= max
      /\ \A e \in Edges(code[pc], pc) : e.to \in 1..Len(code)
=============================================================================
