------------------------------ MODULE Members ------------------------------
(***************************************************************************)
(* How the checker (source/core/checker.c, check_expr) finds a member: in  *)
(* the class, or in the nearest of its ancestors that declares it, with    *)
(* type arguments bound on the way.  Found gives how it was reached: here  *)
(* (in a declaration, of class owner), library (in the ClassDef of a       *)
(* library's class above it) or none; binding is that of the type          *)
(* parameters there.                                                       *)
(***************************************************************************)
EXTENDS NamedLists

CONSTANT Classes

\* checker_class_type_context, of a class
Binding(t) == Bind(Classes[t.n].tparams, t.args)
\* of the parent's parameters, as the class that extends it gives them
ParentBinding(cls) ==
    LET parent == Classes[cls].parent IN
    IF parent \in DOMAIN Classes THEN Bind(Classes[parent].tparams, Classes[cls].pargs) ELSE NoBinding

Found(how, owner, list, name, binding) ==
    [how |-> how, owner |-> owner, binding |-> binding,
     member |-> IF Has(list, name) THEN Get(list, name) ELSE [name |-> ""]]

\* above these no declaration is looked for
Highest(cls) ==
    LET parent == Classes[cls].parent IN
    Classes[cls].lib \/ parent \notin DOMAIN Classes \/ Classes[parent].lib

\* Where a walk is after n steps.  One that is not over after as many steps as there
\* are classes goes round in a circle, and is never over in the code.
Walked(list, name, cls) ==
    LET next == [c \in DOMAIN Classes |->
                   IF Has(Classes[c][list], name) \/ Highest(c) THEN c ELSE Classes[c].parent]
    IN Iterate(next, cls)

Walk(list, cls, name, binding) ==
    LET walked == Walked(list, name, cls)
        steps == Cardinality(DOMAIN Classes)
        owner == walked[steps]
        parent == Classes[owner].parent
        given == {n \in 0..(steps - 1) : walked[n] # owner /\ Classes[walked[n]].pargs # <<>>}
        entered == IF given = {} THEN binding ELSE ParentBinding(walked[Max(given)])
    IN IF Has(Classes[owner][list], name) THEN Found("here", owner, Classes[owner][list], name, entered)
       ELSE IF Classes[owner].lib \/ parent \notin DOMAIN Classes THEN Found("none", "", <<>>, name, NoBinding)
       ELSE Found("library", parent, Classes[parent][list], name, NoBinding)

FieldOf(t, name) ==
    LET found == Walk("fields", t.n, name, Binding(t)) IN
    IF found.how = "library" /\ found.member.name = "" THEN [found EXCEPT !.how = "none"] ELSE found
MethodOf(t, name) == Walk("methods", t.n, name, Binding(t))
=============================================================================
