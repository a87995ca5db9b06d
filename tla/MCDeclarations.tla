--------------------------- MODULE MCDeclarations ---------------------------
(***************************************************************************)
(* Programs of up to three classes and three interfaces: what the checker  *)
(* takes a method, a field or an interface for, against what the class     *)
(* table holds at run time.                                                *)
(***************************************************************************)
EXTENDS CheckerDecls, Types

(***************************************************************************)
(* Programs                                                                *)
(***************************************************************************)
Base_(name) == [name |-> name, args |-> <<>>]
Of(name, type) == [name |-> name, args |-> <<type>>]
Param(type) == [name |-> "x", type |-> type, default |-> <<>>]
Method(name, params, ret) ==
    [name |-> name, params |-> params, ret |-> ret, access |-> "public", static |-> FALSE,
     virtual |-> FALSE, override |-> FALSE]
Class(name, bases, fields, methods) ==
    [kind |-> "class", name |-> name, bases |-> bases, tparams |-> <<>>, fields |-> fields, methods |-> methods,
     parent |-> ""]
Iface(name, parent, tparams, methods) ==
    [kind |-> "interface", name |-> name, bases |-> <<>>, tparams |-> tparams, fields |-> <<>>,
     methods |-> methods, parent |-> parent]
Other(kind, name) == [Class(name, <<>>, <<>>, <<>>) EXCEPT !.kind = kind]

TakesInt == Method("m", <<Param(IntT)>>, IntT)
TakesText == Method("m", <<Param(StringT)>>, IntT)
Virtual(m)  == [m EXCEPT !.virtual = TRUE]
Override(m) == [m EXCEPT !.override = TRUE]
Static(m)   == [m EXCEPT !.static = TRUE]
Also(m) == <<Method("n", <<>>, IntT), m>>
Methods == {<<>>, <<TakesInt>>, <<TakesText>>, <<Virtual(TakesInt)>>, <<Override(TakesInt)>>, <<Override(TakesText)>>,
            <<Static(TakesInt)>>, Also(TakesInt)}

NoIfaces == [n \in {} |-> <<>>]
Given(decls) ==
    [decls |-> decls, seeded |-> [n \in {"Attribute"} |-> "class"], ifaces |-> NoIfaces, topLevel |-> FALSE]

\* three classes, the first above the second above the third, or in a circle
I == Iface("I", "", <<>>, <<TakesInt>>)
InOrder(order, c) == <<I>> \o [i \in 1..3 |-> c[order[i]]]
Chains ==
    {Given(InOrder(order, <<Class("A", a, <<>>, ma), Class("B", b, <<>>, mb), Class("C", <<Base_("B")>>, <<>>, mc)>>)) :
       order \in {<<1, 2, 3>>, <<2, 1, 3>>, <<1, 3, 2>>},
       a \in {<<Base_("I")>>, <<>>}, b \in {<<Base_("A")>>, <<Base_("I"), Base_("A")>>},
       ma \in {<<>>, <<TakesInt>>, <<Virtual(TakesInt)>>, Also(TakesInt)}, mb \in Methods,
       mc \in Methods}
Circles ==
    {Given(<<I, Class("A", <<Base_("B"), Base_("I")>>, <<>>, ma), Class("B", <<Base_("A")>>, <<>>, mb)>>) :
       ma \in Methods, mb \in Methods}

\* fields, one of them maybe redeclared or static
Field(name, type, static) == [name |-> name, type |-> type, static |-> static, access |-> "public"]
FieldLists == {<<>>, <<Field("f", IntT, FALSE)>>, <<Field("f", StringT, FALSE)>>, <<Field("f", IntT, TRUE)>>,
               <<Field("s", IntT, TRUE), Field("g", IntT, FALSE)>>, <<Field("g", IntT, FALSE), Field("h", IntT, FALSE)>>}
WithFields ==
    {Given(<<Class("A", <<>>, fa, <<>>), Class("B", <<Base_("A")>>, fb, <<>>), Class("C", <<Base_("B")>>, fc, <<>>)>>) :
       fa \in FieldLists, fb \in FieldLists, fc \in FieldLists}

\* a class with a parameter, below another, above a third that gives it an argument
Boxed ==
    {Given(<<Class("A", <<>>, <<Field("g", IntT, FALSE)>>, <<>>),
             [Class("B", <<Base_("A")>>, fb, <<Method("m", <<>>, ObjectT("T"))>>) EXCEPT !.tparams = <<"T">>],
             Class("C", <<Of("B", IntT)>>, fc, mc)>>) :
       fb \in {<<Field("f", ObjectT("T"), FALSE)>>, <<Field("f", ArrayT(ObjectT("T")), FALSE), Field("s", IntT, TRUE)>>},
       fc \in FieldLists, mc \in Methods}

\* more methods than a class may have, and a class compiled twice
Crowded ==
    {Given(<<Class("A", <<>>, <<>>, ma), Class("B", <<Base_("A")>>, <<>>, <<Method("o", <<>>, IntT), TakesInt>>)>>) :
       ma \in Methods}
Doubled ==
    {Given(<<Other("enum", "A"), Class("A", <<>>, fa, <<TakesInt>>), Class("A", <<>>, fb, <<TakesText>>)>>) :
       fa \in FieldLists, fb \in FieldLists}

\* an interface with a parameter, one that extends it, and classes that list them
T == ObjectT("T")
Takes_(t) == Method("m", <<Param(t)>>, t)
Generics ==
    {Given(<<Iface("G", "", <<"T">>, <<Takes_(T)>>), Iface("H", "G", <<>>, <<Method("n", <<>>, ObjectT("G"))>>),
             Class("A", <<base>>, <<>>, <<Takes_(t), Method("n", <<>>, n)>>)>>) :
       base \in {Of("G", IntT), Of("G", StringT), Base_("G"), Base_("H"), Of("H", IntT)},
       t \in {IntT, StringT, T}, n \in {IntT, ObjectT("G"), GenericT("G", <<IntT>>)}}

\* a library's interface, listed or extended
Library ==
    {[Given(<<Iface("H", "L", <<>>, <<Method("n", <<>>, IntT)>>), Class("A", a, <<>>, ma),
              Class("B", <<Base_("A"), Base_(b)>>, <<>>, mb)>>)
        EXCEPT !.seeded = [n \in {"L"} |-> "interface"], !.ifaces = [n \in {"L"} |-> <<"m">>]] :
       a \in {<<>>, <<Base_("L")>>}, b \in {"L", "H"}, ma \in Methods, mb \in Methods}

\* names declared twice, by declarations of every kind, seeded or not
Kinds == {"class", "interface", "enum", "event", "fn"}
Called(kind, name) == IF kind = "interface" THEN Iface(name, "", <<>>, <<>>) ELSE Other(kind, name)
\* what the libraries have under the name A: its kind, whether they have an interface of that name
Seedings == {<<{}, {}>>, <<{"class"}, {}>>, <<{"fn"}, {}>>, <<{"fn"}, {"A"}>>, <<{"interface"}, {"A"}>>}
Names ==
    {[decls |-> <<Called(a, "A"), Called(b, "A")>>, seeded |-> [n \in {"A" : k \in s[1]} |-> CHOOSE k \in s[1] : TRUE],
      ifaces |-> [n \in s[2] |-> <<>>], topLevel |-> top] :
       a \in Kinds, b \in Kinds, top \in BOOLEAN, s \in Seedings}
Bases ==
    {[Given(<<Other("enum", "E"), Called(k, "B"), Class("A", bases, <<>>, <<>>)>>) EXCEPT !.seeded = [n \in libs |-> "class"]] :
       k \in {"class", "interface"}, libs \in {{}, {"Attribute"}},
       bases \in {<<Base_("E")>>, <<Base_("B"), Base_("Attribute")>>, <<Base_("Nowhere")>>}}

MCPrograms == Chains \cup Circles \cup WithFields \cup Boxed \cup Crowded \cup Doubled \cup Generics \cup Library \cup Names \cup Bases

=============================================================================
