------------------------------ MODULE Checker ------------------------------
(***************************************************************************)
(* check_expr (source/core/checker.c): the operands first, then the rule   *)
(* of the expression's kind.                                               *)
(*                                                                         *)
(* env has the locals in scope with their types, the class and the kind of *)
(* method the expression is in, and the constraints of the type            *)
(* parameters in scope; stale is the class a subscript finds named in a    *)
(* buffer that nothing has written yet, "" where it names none.            *)
(***************************************************************************)
EXTENDS CheckerMembers

(***************************************************************************)
(* Names                                                                   *)
(***************************************************************************)
Types == DOMAIN Classes \cup DOMAIN Ifaces
Symbols(env) == DOMAIN env.locals \cup DOMAIN Functions \cup DOMAIN Events \cup DOMAIN Enums \cup Types

\* the declared class above (or at) the current one that has the member
OwnerInChain(env, list, name) ==
    IF env.cls = "" THEN ""
    ELSE LET found == Walk(list, env.cls, name, NoBinding) IN
         IF found.how = "here" /\ ~Classes[found.owner].lib THEN found.owner ELSE ""
InChain(env, list, name) == OwnerInChain(env, list, name) # ""

This == Node("this", "", <<>>)
\* an unqualified member is one of `this`
OnThis(x, kind, operands) == [Node(kind, x.n, <<This>> \o operands) EXCEPT !.t = x.t]

CheckBareField(env, y) ==
    LET owner == OwnerInChain(env, "fields", y.n)
        field == Get(Classes[owner].fields, y.n)
    IN IF ~field.static THEN Refuse(y, "instance field")
       ELSE Resolve([y EXCEPT !.e = "static_get", !.c = owner], field.type)

CheckName(env, y) ==
    CASE y.n \in DOMAIN env.locals -> Resolve(y, env.locals[y.n])
      [] y.n \in DOMAIN Functions  -> Refuse(y, "a function")
      [] y.n \in DOMAIN Classes    -> Resolve(y, ClassRefT(y.n))
      [] y.n \in DOMAIN Enums      -> Resolve(y, EnumT(y.n))
      [] y.n \in DOMAIN Ifaces     -> Resolve(y, ObjectT(y.n))
      [] y.n \in DOMAIN Events     -> Resolve(y, VoidT)
      [] InChain(env, "fields", y.n) -> CheckBareField(env, y)
      [] OTHER                     -> Refuse(y, "undefined")

Keywords == IntFamily \cup FloatFamily \cup {"bool", "string"}
CheckTypeRef(y) ==
    CASE y.n \in Keywords      -> Resolve(y, Prim(y.n))
      [] y.n \in DOMAIN Enums  -> Resolve(y, EnumT(y.n))
      [] y.n \in Types         -> Resolve(y, ObjectT(y.n))
      [] OTHER                 -> Refuse(y, "unknown type")

CheckThis(env, y) ==
    CASE env.cls = "" -> Refuse(y, "outside a class")
      [] env.static   -> Refuse(y, "in a static method")
      [] OTHER        -> Resolve(y, ObjectT(env.cls))

(***************************************************************************)
(* Operators                                                               *)
(***************************************************************************)
Arithmetic == {"+", "-", "*", "/", "%"}
Ordering   == {"<", "<=", ">", ">="}
Equality   == {"==", "!="}
OperatorMethod ==
    [x \in Arithmetic \cup Ordering \cup Equality |->
       CASE x = "+" -> "op_add" [] x = "-" -> "op_sub" [] x = "*" -> "op_mul" [] x = "/" -> "op_div"
         [] x = "%" -> "op_mod" [] x = "==" -> "op_eq" [] x = "!=" -> "op_neq" [] x = "<" -> "op_lt"
         [] x = "<=" -> "op_lte" [] x = ">" -> "op_gt" [] x = ">=" -> "op_gte"]

\* the class's own operators only; a ClassDef does not tell them from its methods
Overloads(t, method) ==
    /\ t.k = "object" /\ t.n \in DOMAIN Classes
    /\ Has(SelectSeq(Classes[t.n].methods, LAMBDA m : m.operator \/ Classes[t.n].lib), method)
AsMethodCall(y, method) == Node("method_call", method, y.k)

\* int ranks above uint
Rank == [sbyte |-> 1, byte |-> 2, char |-> 2, short |-> 3, ushort |-> 4, uint |-> 5, int |-> 6,
         long |-> 7, ulong |-> 8]
Wider(a, b) == IF Rank[a.k] >= Rank[b.k] THEN a ELSE b

IsFloat(t) == t.k \in FloatFamily
Mixed(a, b) == IsFloat(a) # IsFloat(b)
Numbers(a, b) == IsNumeric(a) /\ IsNumeric(b)

CheckUnary(y) ==
    LET t == y.k[1].ty IN
    CASE Unknown(t)                        -> Resolve(y, t)
      [] y.n = "-" /\ ~IsNumeric(t)        -> Refuse(y, "operand")
      [] y.n = "!" /\ t.k # "bool"         -> Refuse(y, "operand")
      [] OTHER                             -> Resolve(y, IF y.n = "!" THEN BoolT ELSE t)

CheckEquality(y, a, b) ==
    LET other == IF a.k = "null" THEN b ELSE a IN
    CASE "null" \in {a.k, b.k} ->
           Complain(Resolve(y, BoolT), ~other.opt /\ other.k \notin {"any", "null"}, "not nullable")
      [] IsIntFamily(a) /\ IsIntFamily(b) -> Resolve(y, BoolT)
      [] ~TypeEquals(Base(a), Base(b))    -> Refuse(y, "operands")
      [] OTHER                            -> Resolve(y, BoolT)

CheckBinary(y) ==
    LET a == y.k[1].ty  b == y.k[2].ty IN
    CASE Unknown(a) \/ Unknown(b)          -> Resolve(y, a)
      [] y.n = "+" /\ "string" \in {a.k, b.k} -> Resolve(y, StringT)
      [] y.n \in Equality                  -> CheckEquality(y, a, b)
      [] y.n \in {"&&", "||"}              -> IF {a.k, b.k} = {"bool"} THEN Resolve(y, BoolT)
                                              ELSE Refuse(y, "operands")
      [] ~Numbers(a, b) \/ Mixed(a, b)     -> Refuse(y, "operands")
      [] y.n \in Ordering                  -> Resolve(y, BoolT)
      [] IsFloat(a)                        -> Resolve(y, Prim("float"))
      [] OTHER                             -> Resolve(y, Wider(a, b))

\* an operator of the left operand's class becomes a call of its method
Overloaded(y) ==
    LET a == y.k[1].ty IN
    CASE y.e = "unary"  -> y.n = "-" /\ Overloads(a, "op_neg")
      [] y.e = "binary" -> /\ ~Unknown(y.k[2].ty) /\ y.n \in DOMAIN OperatorMethod
                           /\ Overloads(a, OperatorMethod[y.n])
MethodOfOperator(y) == IF y.e = "unary" THEN "op_neg" ELSE OperatorMethod[y.n]

(***************************************************************************)
(* Variables.  A postfix operator has a variable, or an object in k and a  *)
(* field.                                                                  *)
(***************************************************************************)
Counts(y, t) == IF IsIntFamily(t) THEN Resolve(y, t) ELSE Refuse(y, "not an int")

SymbolType(env, name) == IF name \in DOMAIN env.locals THEN env.locals[name] ELSE VoidT

\* the class's own fields, as they are declared: whatever their access, final or not
CheckPostfixField(y) ==
    LET t == y.k[1].ty
        fields == Classes[t.n].fields
        static == t.k = "class_ref"
    IN CASE t.k \notin {"class_ref", "object"}       -> Refuse(y, "not an object")
         [] t.args # <<>> \/ t.n \notin DOMAIN Classes -> Refuse(y, "unknown class")
         [] ~Has(fields, y.n)                        -> Refuse(y, "no such field")
         [] static /\ ~Classes[t.n].lib /\ ~Get(fields, y.n).static -> Refuse(y, "not static")
         [] OTHER -> Counts([y EXCEPT !.c = IF static THEN t.n ELSE ""], Get(fields, y.n).type)

\* a narrowing assignment is only warned of
CheckAssign(env, y) ==
    LET value == y.k[1].ty  t == env.locals[y.n] IN
    CASE y.n \notin Symbols(env)      -> Refuse(y, "undefined")
      [] y.n \notin DOMAIN env.locals -> Refuse(y, "not a variable")
      [] Unknown(value)               -> Resolve(y, t)
      [] ~Fits(t, value)              -> Refuse(y, "value")
      [] OTHER                        -> Resolve(y, t)

(***************************************************************************)
(* Calls and objects                                                       *)
(***************************************************************************)
\* the type arguments against the parameters: their number, then the constraints
TypeArgs(y, tparams, constraints) ==
    LET args == y.t.args IN
    Complain(Complain(y, Len(args) # Len(tparams), "type argument count"),
             Len(args) = Len(tparams) /\ \E i \in DOMAIN args : ~MeetsConstraint(args[i], constraints[tparams[i]]),
             "constraint")

CheckCall(env, y) ==
    LET f == Functions[y.n]
        binding == IF Len(y.t.args) = Len(f.tparams) THEN Bind(f.tparams, y.t.args) ELSE NoBinding
        takes(want, got) == want.k \in {"any", "param"} \/ TypesAssignable(want, got)
        z == TypeArgs([y EXCEPT !.ps = f.params], f.tparams, f.constraints)
    IN CASE y.n \notin DOMAIN Functions /\ y.n \notin Symbols(env) -> Refuse(y, "undefined")
         [] y.n \in DOMAIN env.locals \/ y.n \notin DOMAIN Functions -> Refuse(y, "not a function")
         [] ~CountFits(f.params, Len(y.k))                    -> Refuse(y, "argument count")
         [] ~ArgsFit(y.k, TypesOf(f.params), binding, takes)  -> Refuse(z, "argument")
         [] OTHER                                             -> Resolve(z, Substituted(f.ret, binding))

\* only the number of arguments is compared, and only with a constructor that has
\* parameters; the type has no type arguments
CheckNew(y) ==
    LET class == Classes[y.n]
        params == IF ~class.lib /\ HasCtor(y.n) THEN CtorOf(y.n).params ELSE <<>>
        z == TypeArgs([y EXCEPT !.ps = params], class.tparams, class.constraints)
    IN IF y.n \notin DOMAIN Classes THEN Refuse(y, "unknown class")
       ELSE Complain(Resolve(z, ObjectT(y.n)), params # <<>> /\ ~CountFits(params, Len(y.k)), "argument count")

CheckNewArray(y) ==
    LET t == y.k[1].ty IN
    IF Unknown(t) \/ IsIntFamily(t) THEN Resolve(y, ArrayT(y.t)) ELSE Refuse(y, "length")

CheckIs(y) == Complain(Resolve(y, BoolT), y.t.k = "void", "void")

CheckInterp(y) == Complain(Resolve(y, StringT), \E i \in DOMAIN y.k : y.k[i].ty.k = "void", "void")

(***************************************************************************)
(* Every kind of expression                                                *)
(***************************************************************************)
Literals == {"int", "char", "float", "bool", "string"}

\* kinds a rule has made: their type stays
Made == {"static_get", "static_set", "static_call"}

Rule(env, y, raw) ==
    CASE y.e \in Literals      -> Resolve(y, Prim(y.e))
      [] y.e = "interp"        -> CheckInterp(y)
      [] y.e = "ident"         -> CheckName(env, y)
      [] y.e = "type"          -> CheckTypeRef(y)
      [] y.e = "unary"         -> CheckUnary(y)
      [] y.e = "binary"        -> CheckBinary(y)
      [] y.e = "postfix"       -> CheckPostfixField(y)
      [] y.e = "assign"        -> CheckAssign(env, y)
      [] y.e = "call"          -> CheckCall(env, y)
      [] y.e = "new"           -> CheckNew(y)
      [] y.e = "this"          -> CheckThis(env, y)
      [] y.e = "new_array"     -> CheckNewArray(y)
      [] y.e = "is"            -> CheckIs(y)
      [] y.e = "as"            -> CheckAs(y)
      [] y.e = "typeof"        -> Resolve(y, TypeT)
      [] y.e = "null"          -> Resolve(y, NullT)
      [] y.e = "null_assert"   -> CheckNullAssert(y)
      [] y.e = "null_coalesce" -> CheckNullCoalesce(y)
      [] y.e = "ternary"       -> CheckTernary(y)
      [] y.e = "null_safe_get" -> CheckNullSafeGet(y)
      [] y.e = "null_safe_call" -> CheckNullSafeCall(y)
      [] y.e = "array_lit"     -> CheckArrayLit(y)
      [] y.e \in {"index", "subscript"} -> CheckIndex(env, y)
      [] y.e \in {"index_assign", "subscript_set"} -> CheckIndexAssign(env, y)
      [] y.e = "enum"          -> Resolve(y, EnumT(y.c))
      [] y.e = "field_get"     -> CheckFieldGet(env, y)
      [] y.e = "field_set"     -> CheckFieldSet(env, y)
      [] y.e = "method_call"   -> CheckMethodCall(env, y, raw)
      [] y.e = "super"         -> CheckSuper(env, y, raw)
      [] y.e \in {"subscribe", "unsubscribe"} -> CheckSubscription(env, y)
      [] y.e = "fire"          -> CheckEventFire(env, y)

\* x += y and x -= y parse as subscriptions
AsAssign(x) ==
    LET op == IF x.e = "subscribe" THEN "+" ELSE "-" IN
    Node("assign", x.n, <<Node("binary", op, <<Node("ident", x.n, <<>>), Node("ident", x.c, <<>>)>>)>>)

\* a name that is no symbol may be a member of the current class; the expression is
\* then another one, and checked as that
Rewritten(env, x) ==
    LET free == x.n \notin Symbols(env) IN
    CASE x.e = "ident" /\ free /\ InChain(env, "fields", x.n) /\ ~env.static -> <<OnThis(x, "field_get", <<>>)>>
      [] x.e = "assign" /\ free /\ InChain(env, "fields", x.n) -> <<OnThis(x, "field_set", x.k)>>
      [] x.e = "postfix" /\ x.k = <<>> /\ free /\ InChain(env, "fields", x.n) -> <<[x EXCEPT !.k = <<This>>]>>
      [] x.e = "call" /\ (GlobalEvent(env, x.n) \/ (free /\ IsEvent(env, x.n))) -> <<[x EXCEPT !.e = "fire"]>>
      [] x.e = "call" /\ free /\ InChain(env, "methods", x.n) -> <<OnThis(x, "method_call", x.k)>>
      [] x.e \in {"subscribe", "unsubscribe"} /\ x.k = <<>> /\ ~IsEvent(env, x.n) -> <<AsAssign(x)>>
      [] OTHER -> <<>>

RECURSIVE Check(_, _)
Check(env, x) ==
    LET again == Rewritten(env, x)
        y == [x EXCEPT !.k = [i \in DOMAIN x.k |-> Check(env, x.k[i])]]
    IN CASE again # <<>>  -> Check(env, again[1])
         [] x.e \in Made  -> x
         [] x.e = "postfix" /\ x.k = <<>> -> IF x.n \in Symbols(env) THEN Counts(x, SymbolType(env, x.n))
                                             ELSE Refuse(x, "undefined")
         [] x.e \in {"unary", "binary"} /\ Overloaded(y) -> Check(env, AsMethodCall(y, MethodOfOperator(y)))
         [] OTHER         -> Rule(env, y, x.k)
=============================================================================
