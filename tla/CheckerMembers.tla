--------------------------- MODULE CheckerMembers ---------------------------
(***************************************************************************)
(* check_expr (source/core/checker.c), second half: casts, null operators, *)
(* arrays, fields, methods, super and events.                              *)
(*                                                                         *)
(* Every rule is given a node whose operands k are checked already, and    *)
(* resolves it to a type, refuses it (its type is then unknown) or         *)
(* complains and resolves it nevertheless.  A rule may rewrite the node.   *)
(***************************************************************************)
EXTENDS Declarations

TypeT == ObjectT("Type")

(***************************************************************************)
(* Casts and null                                                          *)
(***************************************************************************)
CheckAs(y) == Complain(Resolve(y, y.t), y.t.k = "void", "cast to void")

CheckNullAssert(y) ==
    LET inner == y.k[1].ty IN
    IF inner.k = "null" THEN Complain(Resolve(y, AnyT), TRUE, "null literal")
    ELSE Complain(Resolve(y, Base(inner)), ~inner.opt /\ inner.k # "any", "not nullable")

CheckNullCoalesce(y) ==
    LET left == y.k[1].ty  right == y.k[2].ty
        mixed == /\ left.k \notin {"null", "unknown"} /\ right.k \notin {"null", "unknown"}
                 /\ ~TypeEquals(Base(left), Base(right))
    IN Complain(Complain(Resolve(y, Base(IF left.k = "null" THEN right ELSE left)),
                         ~left.opt /\ left.k \notin {"null", "any"}, "not nullable"),
                mixed, "base types")

CheckTernary(y) ==
    LET cond == y.k[1].ty  then == y.k[2].ty  else == y.k[3].ty
        known == {then.k, else.k} \cap {"unknown", "any"} = {}
        result == IF Unknown(then) THEN else ELSE then
    IN Complain(Complain(Resolve(y, [result EXCEPT !.opt = @ \/ then.opt \/ else.opt]),
                         cond.k \notin {"bool", "any", "unknown"}, "condition"),
                known /\ ~TypeEquals(Base(then), Base(else)) /\ then.k # else.k, "branches")

\* the class of the value before ?., if its symbol has one with a declaration
DeclaredClass(t) == t.args = <<>> /\ t.n \in DOMAIN Classes /\ ~Classes[t.n].lib

CheckNullSafe(y, members, typeOf(_)) ==
    LET t == y.k[1].ty
        z == Complain(y, ~t.opt /\ t.k # "any", "not nullable")
    IN CASE t.k = "any"        -> Resolve(z, AnyT)
         [] t.k # "object"     -> Refuse(z, "not an object")
         [] ~DeclaredClass(t)  -> Resolve(z, AnyT)
         [] Has(members, y.n)  -> Resolve(z, Nullable(typeOf(Get(members, y.n))))
         [] OTHER              -> Refuse(z, "no member")

\* the own members only, without access control or substitution
CheckNullSafeGet(y) ==
    CheckNullSafe(y, IF DeclaredClass(y.k[1].ty) THEN Classes[y.k[1].ty.n].fields ELSE <<>>,
                  LAMBDA f : f.type)
CheckNullSafeCall(y) ==
    CheckNullSafe(y, IF DeclaredClass(y.k[1].ty) THEN Classes[y.k[1].ty.n].methods ELSE <<>>,
                  LAMBDA m : m.ret)

(***************************************************************************)
(* Arrays                                                                  *)
(***************************************************************************)
\* the element type grows to what both types are; a list without one is refused
WiderElement(elem, t) ==
    CASE elem.k = "unknown"                          -> elem
      [] TypesAssignable(elem, t) \/ Unknown(t)      -> elem
      [] {elem.k, t.k} # {"object"}                  -> UnknownT
      [] elem.n = "" \/ t.n = ""                     -> elem
      [] IsSubtype(t.n, elem.n)                      -> elem
      [] IsSubtype(elem.n, t.n)                      -> t
      [] OTHER                                       -> ObjectT("")

CheckArrayLit(y) ==
    LET elem == FoldLeft(WiderElement, y.k[1].ty, [i \in 1..(Len(y.k) - 1) |-> y.k[i + 1].ty]) IN
    CASE y.k = <<>> -> Refuse(y, "empty array")
      [] Unknown(elem) /\ \A i \in DOMAIN y.k : ~Unknown(y.k[i].ty) -> Refuse(y, "elements")
      [] OTHER -> Resolve(y, ArrayT(elem))

\* obj[i] is obj.get(i) where the class itself declares get; the index is not
\* looked at then, nor are the arguments of set.  Of a class without type arguments
\* generic_base_name leaves the buffer for the class's name as it was, and the class
\* looked up is the one that is named there, env.stale.
Subscript(env, t, name) ==
    LET generic == t.args # <<>>
        base == IF generic THEN t.n ELSE env.stale
    IN IF t.k # "object" \/ t.n = "" \/ base \notin DOMAIN Classes THEN UnknownT
       ELSE MethodReturn(base, name, IF generic THEN Binding(t) ELSE NoBinding)

CheckIndex(env, y) ==
    LET a == y.k[1].ty  i == y.k[2].ty  get == Subscript(env, a, "get") IN
    CASE ~Unknown(get)                           -> Resolve([y EXCEPT !.e = "subscript"], get)
      [] a.k \notin {"unknown", "array"}         -> Refuse(y, "not an array")
      [] ~Unknown(i) /\ ~IsIntFamily(i)          -> Refuse(y, "index")
      [] a.k = "array" /\ a.el # <<>>            -> Resolve(y, a.el[1])
      [] OTHER                                   -> Resolve(y, IntT)

CheckIndexAssign(env, y) ==
    LET a == y.k[1].ty  i == y.k[2].ty  v == y.k[3].ty IN
    CASE ~Unknown(Subscript(env, a, "set"))      -> Resolve([y EXCEPT !.e = "subscript_set"], v)
      [] a.k \notin {"unknown", "array"}         -> Refuse(y, "not an array")
      [] ~Unknown(i) /\ ~IsIntFamily(i)          -> Refuse(y, "index")
      [] a.k = "array" /\ a.el # <<>> /\ ~Unknown(v) /\ ~TypesAssignable(a.el[1], v) -> Refuse(y, "element")
      [] a.k = "array" /\ a.el # <<>>            -> Resolve(y, a.el[1])
      [] OTHER                                   -> Resolve(y, v)

(***************************************************************************)
(* Reflection: the fields and methods of Type, Field, Method and Parameter *)
(***************************************************************************)
ReflectedFields ==
    [Type |-> [name |-> StringT, kind |-> StringT, isArray |-> BoolT, isPrimitive |-> BoolT,
               isEnum |-> BoolT, isClass |-> BoolT, isNullable |-> BoolT,
               base |-> Nullable(TypeT), elementType |-> Nullable(TypeT)],
     Field |-> [name |-> StringT, type |-> TypeT, isStatic |-> BoolT, isFinal |-> BoolT,
                isNullable |-> BoolT],
     Method |-> [name |-> StringT, returnType |-> TypeT, isStatic |-> BoolT, isVirtual |-> BoolT,
                 paramCount |-> IntT],
     Parameter |-> [name |-> StringT, type |-> TypeT, isNullable |-> BoolT, index |-> IntT]]

Sig(argc, ret) == [argc |-> argc, ret |-> ret]
ReflectedMethods ==
    [Type |-> [hasAttribute |-> Sig(1, BoolT), getAttributeArg |-> Sig(2, Nullable(StringT)),
               isAssignableFrom |-> Sig(1, BoolT), isInstance |-> Sig(1, BoolT),
               interfaces |-> Sig(0, ArrayT(StringT)), fields |-> Sig(0, ArrayT(StringT)),
               methods |-> Sig(0, ArrayT(StringT)), enumMembers |-> Sig(0, ArrayT(StringT)),
               getField |-> Sig(1, Nullable(ObjectT("Field"))),
               getMethod |-> Sig(1, Nullable(ObjectT("Method")))],
     Method |-> [paramAt |-> Sig(1, Nullable(ObjectT("Parameter")))]]

Reflected(t, table) ==
    /\ t.n \in DOMAIN table
    /\ t.k = "object" \/ (t.k = "class_ref" /\ t.n = "Type")

CheckReflectedField(y) ==
    LET fields == ReflectedFields[y.k[1].ty.n] IN
    IF y.n \in DOMAIN fields THEN Resolve(y, fields[y.n]) ELSE Refuse(y, "no such field")

\* the arguments' types are not looked at
CheckReflectedMethod(y) ==
    LET methods == ReflectedMethods[y.k[1].ty.n] IN
    CASE y.n \notin DOMAIN methods             -> Refuse(y, "no such method")
      [] Len(y.k) - 1 # methods[y.n].argc      -> Refuse(y, "argument count")
      [] OTHER                                 -> Resolve(y, methods[y.n].ret)

(***************************************************************************)
(* Fields                                                                  *)
(***************************************************************************)
\* int.MaxValue and its like become literals
WithLimits == {"int", "ulong", "float"}
CheckLimit(y, kind) ==
    IF y.n \in {"MaxValue", "MinValue"}
      THEN Resolve([y EXCEPT !.e = IF kind = "float" THEN "float" ELSE "int", !.k = <<>>], Prim(kind))
    ELSE Refuse(y, "no such limit")

CheckStaticGet(y, cls) ==
    CASE cls \notin DOMAIN Classes                 -> Refuse(y, "unknown class")
      [] Classes[cls].lib                          -> Refuse(y, "unknown class")
      [] ~Has(Classes[cls].fields, y.n)            -> Refuse(y, "no static field")
      [] ~Get(Classes[cls].fields, y.n).static     -> Refuse(y, "not static")
      [] OTHER -> Resolve([y EXCEPT !.e = "static_get", !.c = cls, !.k = <<>>],
                          Get(Classes[cls].fields, y.n).type)

CheckEnumMember(y, enum) ==
    IF y.n \in DOMAIN Enums[enum]
      THEN Resolve([y EXCEPT !.e = "enum", !.c = enum, !.v = Enums[enum][y.n], !.k = <<>>], EnumT(enum))
    ELSE Refuse(y, "no such member")

\* the nearest class of the chain that declares the field or method; of a
\* library parent only the kind of the type is known
CheckMember(env, y, found, type) ==
    CASE found.how = "none"                                  -> Refuse(y, "no such member")
      [] found.how = "here" /\ ~Accessible(env, found)       -> Refuse(y, "access")
      [] OTHER                                               -> Resolve(y, type)

CheckInstanceGet(env, y) ==
    LET t == y.k[1].ty  found == FieldOf(t, y.n) IN
    IF t.n \notin DOMAIN Classes THEN Refuse(y, "unknown class")
    ELSE CheckMember(env, y, found, FieldType(found))

CheckFieldGet(env, y) ==
    LET t == y.k[1].ty IN
    CASE Reflected(t, ReflectedFields)     -> CheckReflectedField(y)
      [] y.n = "class"                     -> Resolve(y, TypeT)
      [] t.k = "array"                     -> IF y.n = "length" THEN Resolve(y, IntT) ELSE Refuse(y, "no such field")
      [] t.k \in WithLimits                -> CheckLimit(y, t.k)
      [] t.k = "class_ref"                 -> CheckStaticGet(y, t.n)
      [] t.k = "enum"                      -> CheckEnumMember(y, t.n)
      [] t.k # "object"                    -> Refuse(y, "not an object")
      [] OTHER                             -> CheckInstanceGet(env, y)

CheckStaticSet(y, cls) ==
    LET value == y.k[2].ty  f == Get(Classes[cls].fields, y.n) IN
    CASE cls \notin DOMAIN Classes                                     -> Refuse(y, "unknown class")
      [] ~Has(Classes[cls].fields, y.n)                                -> Refuse(y, "no static field")
      [] ~f.static                                                     -> Refuse(y, "not static")
      [] f.final                                                       -> Refuse(y, "final")
      [] ~TypesAssignable(f.type, value) /\ ~Unknown(value)            -> Refuse(y, "value")
      [] OTHER -> Resolve([y EXCEPT !.e = "static_set", !.c = cls, !.k = <<y.k[2]>>], f.type)

\* a final field is set in a constructor, whichever class's
CheckInstanceSet(env, y) ==
    LET t == y.k[1].ty  value == y.k[2].ty  found == FieldOf(t, y.n)
        misfit == ~TypesAssignable(FieldType(found), value) /\ ~Unknown(value) IN
    CASE t.n \notin DOMAIN Classes -> Refuse(y, "unknown class")
      \* a class of a library: neither its access nor final is looked at
      [] Classes[t.n].lib /\ found.how = "here" -> IF misfit THEN Refuse(y, "value") ELSE Resolve(y, FieldType(found))
      [] found.how = "here" /\ Accessible(env, found) /\ found.member.final /\ ~env.ctor -> Refuse(y, "final")
      [] found.how = "here" /\ Accessible(env, found) /\ misfit /\ value.k # "any" -> Refuse(y, "value")
      [] OTHER -> CheckMember(env, y, found, FieldType(found))

CheckFieldSet(env, y) ==
    LET t == y.k[1].ty IN
    CASE t.k = "class_ref" -> CheckStaticSet(y, t.n)
      [] t.k # "object"    -> Refuse(y, "not an object")
      [] OTHER             -> CheckInstanceSet(env, y)

(***************************************************************************)
(* Methods.  k[1] is the receiver, the arguments follow.                   *)
(***************************************************************************)
Args(y) == Tail(y.k)
ArgsFit(args, params, binding, fits(_, _)) ==
    \A i \in DOMAIN args \cap DOMAIN params :
       Unknown(args[i].ty) \/ fits(Substituted(params[i], binding), args[i].ty)
CountFits(params, n) == n >= RequiredCount(params) /\ n <= Len(params)
TypesOf(params) == [i \in DOMAIN params |-> params[i].type]

\* the arguments' types are not compared with the parameters'
CheckStaticCall(y, cls) ==
    LET statics == SelectSeq(Classes[cls].methods, LAMBDA m : m.static)
        m == Get(statics, y.n)
        call == [y EXCEPT !.e = "static_call", !.c = cls, !.k = Args(y)]
    IN CASE cls \notin DOMAIN Classes -> Refuse(y, "unknown class")
         [] Classes[cls].lib /\ Has(Classes[cls].methods, y.n) ->
              Resolve(call, MethodReturn(cls, y.n, NoBinding))
         [] ~Has(statics, y.n) -> Refuse(y, "no static method")
         [] ~CountFits(m.params, Len(Args(y))) -> Refuse(y, "argument count")
         [] OTHER -> Resolve(call, m.ret)

\* x.m(a) of a primitive is the function type_m(x, a), or Wrapper.m(x, a)
CheckExtension(y, kind) ==
    LET wrapper == Wrapper[kind]
        fns == {f \in DOMAIN Functions : Functions[f].extends = <<wrapper, y.n>>}
        viaClass == IF wrapper \in DOMAIN Classes THEN MethodReturn(wrapper, y.n, NoBinding) ELSE UnknownT
    IN CASE fns # {} -> LET fn == CHOOSE f \in fns : TRUE IN
                        Resolve([y EXCEPT !.e = "call", !.n = fn], Functions[fn].ret)
         [] ~Unknown(viaClass) -> Resolve([y EXCEPT !.e = "static_call", !.c = wrapper], viaClass)
         [] OTHER -> Refuse(y, "no such method")

\* an interface: the count is compared only where it has no type arguments
CheckIfaceCall(y, t) ==
    LET sig == IfaceMethod(t.n, y.n)
        z == Resolve(y, Substituted(sig.ret, IfaceBinding(t)))
    IN IF sig.how = "none" THEN Refuse(y, "no such method")
       ELSE Complain(Complain(z, ~ArgsFit(Args(y), sig.params, IfaceBinding(t), TypesAssignable), "argument"),
                     t.args = <<>> /\ Len(Args(y)) # Len(sig.params), "argument count")

\* operands from the n-th on are left as they were parsed
Unchecked(y, raw, n) == [y EXCEPT !.k = [i \in DOMAIN @ |-> IF i < n THEN @[i] ELSE raw[i]]]

\* a value of a type parameter has the methods of its constraint; its arguments
\* are not counted
CheckConstrainedCall(env, y, t, raw) ==
    LET constraint == ConstraintOf(env, t.n)
        sig == IfaceMethod(constraint, y.n)
    IN CASE constraint = ""       -> Refuse(y, "unconstrained")
         [] sig.how = "none"      -> Refuse(y, "no such method")
         [] OTHER -> Complain(Resolve(Unchecked(y, raw, Len(sig.params) + 2), sig.ret),
                              ~ArgsFit(Args(y), sig.params, NoBinding, TypesAssignable), "argument")

\* a class of a library, known by its ClassDef: what is not found there is any
CheckLibraryCall(y, cls, binding) ==
    IF ~Has(Classes[cls].methods, y.n) THEN Resolve(y, AnyT)
    ELSE Complain(Resolve(y, MethodReturn(cls, y.n, binding)),
                  Len(Args(y)) # Len(Get(Classes[cls].methods, y.n).params), "argument count")

\* the arguments are compared with the parameters as the receiver's own type
\* arguments make them, and the parameters kept for the missing defaults
CheckClassCall(env, y, t) ==
    LET found == MethodOf(t, y.n)
        m == found.member
        fits(want, got) == Unknown(want) \/ TypeEquals(got, want) \/ TypesAssignable(want, got)
    IN CASE found.how = "none"    -> Refuse(y, "no such method")
         [] found.how = "library" -> Resolve(y, LibraryReturn(found))
         [] ~Accessible(env, found) -> Refuse(y, "access")
         [] OTHER ->
              LET z == Resolve([y EXCEPT !.ps = m.params], Substituted(m.ret, found.binding)) IN
              Complain(Complain(z, ~ArgsFit(Args(y), TypesOf(m.params), found.binding, fits), "argument"),
                       ~CountFits(m.params, Len(Args(y))), "argument count")

CheckMethodCall(env, y, raw) ==
    LET t == y.k[1].ty IN
    CASE Reflected(t, ReflectedMethods)     -> CheckReflectedMethod(y)
      [] t.k = "class_ref"                  -> CheckStaticCall(y, t.n)
      [] t.k \in DOMAIN Wrapper             -> CheckExtension(y, t.k)
      [] t.k # "object"                     -> Refuse(y, "not an object")
      [] t.n \in DOMAIN Ifaces              -> CheckIfaceCall(y, t)
      [] t.n \in DOMAIN env.constraints                -> CheckConstrainedCall(env, y, t, raw)
      [] t.n \notin DOMAIN Classes          -> Refuse(y, "unknown class")
      [] Classes[t.n].lib                   -> CheckLibraryCall(y, t.n, Binding(t))
      [] OTHER                              -> CheckClassCall(env, y, t)

(***************************************************************************)
(* super(...): the number of arguments is not compared, and the types of   *)
(* those that have a parameter must be the parameter's exactly.            *)
(***************************************************************************)
CheckSuper(env, y, raw) ==
    LET parent == IF env.cls = "" THEN "" ELSE Classes[env.cls].parent
        params == CtorOf(parent).params
        binding == ParentBinding(env.cls)
    IN CASE parent = ""                          -> Refuse(y, "no parent")
         [] parent \notin DOMAIN Classes         -> Refuse(y, "unknown class")
         [] Classes[parent].lib                  -> Resolve(y, VoidT)
         [] ~HasCtor(parent)                     -> Resolve(Unchecked(y, raw, 1), VoidT)
         [] OTHER -> Complain(Resolve([Unchecked(y, raw, Len(params) + 1) EXCEPT !.ps = params], VoidT),
                              ~ArgsFit(y.k, TypesOf(params), binding,
                                       LAMBDA want, got : Unknown(want) \/ TypeEquals(got, want)), "argument")

(***************************************************************************)
(* Events.  n is the event, c the handler, k the receiver if it has one.   *)
(***************************************************************************)
\* a local variable of its name hides a global event, but not one of the class
GlobalEvent(env, name) == name \in DOMAIN Events \ DOMAIN env.locals
IsEvent(env, name) == GlobalEvent(env, name) \/ (env.cls # "" /\ name \in DOMAIN Classes[env.cls].events)
EventParams(env, name) == IF GlobalEvent(env, name) THEN Events[name] ELSE Classes[env.cls].events[name]

\* a bound handler: only the number of its parameters is compared
CheckBoundHandler(y, want) ==
    LET t == y.k[1].ty IN
    CASE t.k # "object" -> Refuse(y, "receiver")
      [] t.args # <<>> \/ t.n \notin DOMAIN Classes -> Refuse(y, "no such method")
      [] ~Has(Classes[t.n].methods, y.c) -> Refuse(y, "no such method")
      [] ~Classes[t.n].lib /\ Len(Get(Classes[t.n].methods, y.c).params) # Len(want) -> Refuse(y, "parameter count")
      [] OTHER -> Resolve(y, VoidT)

CheckHandler(env, y, want) ==
    LET statics == IF env.cls = "" THEN <<>> ELSE SelectSeq(Classes[env.cls].methods, LAMBDA m : m.static)
        params == IF y.c \in DOMAIN Functions THEN Functions[y.c].params ELSE Get(statics, y.c).params
    IN CASE y.c \notin DOMAIN Functions /\ ~Has(statics, y.c) -> Refuse(y, "no such function")
         [] Len(params) # Len(want) -> Refuse(y, "parameter count")
         [] \E i \in DOMAIN want : ~TypeEquals(params[i].type, want[i]) -> Refuse(y, "parameter")
         [] OTHER -> Resolve(y, VoidT)

CheckSubscription(env, y) ==
    CASE ~IsEvent(env, y.n) -> Refuse(y, "no such event")
      [] y.k # <<>>         -> CheckBoundHandler(y, EventParams(env, y.n))
      [] OTHER              -> CheckHandler(env, y, EventParams(env, y.n))

CheckEventFire(env, y) ==
    LET want == EventParams(env, y.n) IN
    CASE ~IsEvent(env, y.n)       -> Refuse(y, "no such event")
      [] Len(y.k) # Len(want)     -> Refuse(y, "argument count")
      [] OTHER -> Complain(Resolve(y, VoidT), \E i \in DOMAIN want : ~TypesAssignable(want[i], y.k[i].ty), "argument")
=============================================================================
