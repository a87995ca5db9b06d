---------------------------- MODULE Declarations ----------------------------
(***************************************************************************)
(* What the checker (source/core/checker.c) looks up: the symbols of the   *)
(* global scope and the helpers that walk from a class to its parents.     *)
(*                                                                         *)
(* A class has a parent with type arguments pargs, type parameters tparams *)
(* (names), interfaces, fields, methods, a constructor (a sequence of at   *)
(* most one), events; lib says that it is known by its ClassDef alone, as  *)
(* the classes of a library are: that one lists what it inherits.          *)
(***************************************************************************)
EXTENDS Types, Members

CONSTANTS Ifaces, Enums, Functions, Events

RequiredCount(params) == Len(SelectSeq(params, LAMBDA p : p.default = <<>>))

\* checker_class_type_context, of an interface
IfaceBinding(t) == Bind(Ifaces[t.n].tparams, t.args)

(***************************************************************************)
(* Subtypes and interfaces                                                 *)
(***************************************************************************)
RECURSIVE IsSubtype(_, _)
IsSubtype(cls, name) ==
    cls = name \/ (cls \in DOMAIN Classes /\ Classes[cls].parent # "" /\ IsSubtype(Classes[cls].parent, name))

RECURSIVE IfaceExtends(_, _)
IfaceExtends(iface, name) ==
    \/ iface = name
    \/ /\ iface \in DOMAIN Ifaces /\ ~Ifaces[iface].lib
       /\ Ifaces[iface].parent # "" /\ IfaceExtends(Ifaces[iface].parent, name)

RECURSIVE Implements(_, _)
Implements(cls, iface) ==
    /\ cls \in DOMAIN Classes
    /\ \/ \E i \in Classes[cls].interfaces : i \in DOMAIN Ifaces /\ IfaceExtends(i, iface)
       \/ Classes[cls].parent # "" /\ Implements(Classes[cls].parent, iface)

AssignableToIface(t, iface) == t.k = "object" /\ t.n # "" /\ t.args = <<>> /\ Implements(t.n, iface)

\* what a slot of one type takes of another, inheritance left aside; both
\* families of numbers mix freely, whether the value may be null or not
RECURSIVE TypesAssignable(_, _)
TypesAssignable(to, from) ==
    IF from.k = "null" THEN to.opt
    ELSE \/ to.opt /\ ~from.opt /\ TypeEquals(Base(to), from)
         \/ TypeEquals(to, from)
         \/ to.k = "array" /\ from.k = "array" /\ to.el # <<>> /\ from.el # <<>>
              /\ TypesAssignable(to.el[1], from.el[1])
         \/ IsIntFamily(to) /\ IsIntFamily(from)
         \/ {to.k, from.k} \subseteq FloatFamily
         \/ /\ to.k = "object" /\ from.k = "object" /\ to.n # "" /\ to.n = from.n
            /\ to.args # <<>> \/ from.args # <<>>

\* a value of a class goes where its parent or one of its interfaces is declared;
\* one with type arguments, Box<int>, is neither a class nor an interface by that name
Fits(to, from) ==
    \/ TypesAssignable(to, from)
    \/ /\ {to.k, from.k} = {"object"} /\ to.args = <<>>
       /\ \/ from.args = <<>> /\ IsSubtype(from.n, to.n)
          \/ to.n \in DOMAIN Ifaces /\ AssignableToIface(from, to.n)

(***************************************************************************)
(* The types of members                                                    *)
(***************************************************************************)
\* a ClassDef keeps the kind and the class of a type, not what its elements are
Erased(t) == [k |-> t.k, n |-> IF t.k = "object" THEN t.n ELSE "", args |-> <<>>, el |-> <<>>, opt |-> t.opt]

FieldType(found) ==
    CASE found.how = "library"          -> Base(Erased(found.member.type))
      [] Classes[found.owner].lib       -> Substituted(Erased(found.member.type), found.binding)
      [] OTHER                          -> Substituted(found.member.type, found.binding)

\* checker_method_return_type: the class's own methods
MethodReturn(cls, name, binding) ==
    IF ~Has(Classes[cls].methods, name) THEN UnknownT
    ELSE LET ret == Get(Classes[cls].methods, name).ret IN
         Substituted(IF Classes[cls].lib THEN Erased(ret) ELSE ret, binding)

\* of an inherited method of a library only these kinds are told apart
LibraryReturn(found) ==
    IF found.member.name # "" /\ found.member.ret.k \in {"int", "float", "bool", "string", "void"}
      THEN Prim(found.member.ret.k)
    ELSE AnyT

HasCtor(cls) == Classes[cls].ctor # <<>>
CtorOf(cls)  == Classes[cls].ctor[1]

\* private: within the class itself; protected: in its subclasses also
Accessible(env, found) ==
    \/ found.member.access = "public"
    \/ env.cls = found.owner
    \/ found.member.access = "protected" /\ env.cls # "" /\ IsSubtype(env.cls, found.owner)

(***************************************************************************)
(* An interface's methods, those of its parents included                   *)
(***************************************************************************)
NoSignature == [how |-> "none", ret |-> UnknownT, params |-> <<>>]
RECURSIVE IfaceMethod(_, _)
IfaceMethod(iface, name) ==
    IF iface \notin DOMAIN Ifaces THEN NoSignature
    ELSE IF Has(Ifaces[iface].methods, name)
      THEN LET m == Get(Ifaces[iface].methods, name) IN
           [how |-> "found", ret |-> m.ret, params |-> [i \in DOMAIN m.params |-> m.params[i].type]]
    ELSE IfaceMethod(Ifaces[iface].parent, name)

\* the constraint of a type parameter in scope, "" where it has none
ConstraintOf(env, name) == env.constraints[name]

\* check_type_constraint
MeetsConstraint(t, constraint) ==
    \/ constraint = ""
    \/ t.k = "object" /\ t.n # "" /\ t.args = <<>>
         /\ (IsSubtype(t.n, constraint) \/ Implements(t.n, constraint))

\* the class a value of a primitive type borrows its methods from
Wrapper == [byte |-> "Byte", sbyte |-> "SByte", short |-> "Short", ushort |-> "UShort", int |-> "Int",
            uint |-> "UInt", long |-> "Long", ulong |-> "ULong", float |-> "Float", double |-> "Double",
            bool |-> "Bool", string |-> "String"]
=============================================================================
