---------------------------- MODULE ClassRegistry ----------------------------
(***************************************************************************)
(* The class table of a program, as the first pass of compile_staged       *)
(* (source/compiler/compiler.c) leaves it.  Order has the classes as the   *)
(* module gets them, those of a library first.  A class is known to those  *)
(* after it.                                                               *)
(***************************************************************************)
EXTENDS Declarations, ClassLayout

CONSTANT Order

OwnMembers(cls, class, def) ==
    LET fields  == FoldLeft(AddField, def, class.fields)
        methods == FoldLeft(LAMBDA d, m : AddMethod(cls, d, m), fields, class.methods)
    IN [methods EXCEPT !.ctor = IF class.ctor # <<>> THEN cls ELSE @]

\* a library's class lists what it inherits in its own declaration
Register(defs, cls) ==
    LET class == Classes[cls]
        def == IF class.lib THEN [NoClass EXCEPT !.params = class.tparams, !.parent = class.parent]
               ELSE Inherit(defs, class)
    IN IF cls \in DOMAIN Ifaces THEN defs
       ELSE [k \in DOMAIN defs \cup {cls} |-> IF k = cls THEN OwnMembers(cls, class, def) ELSE defs[k]]

Registered == LET none == [k \in {} |-> NoClass] IN FoldLeft(Register, none, Order)
=============================================================================
