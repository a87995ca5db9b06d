---------------------------- MODULE CodeGenExpr ----------------------------
(***************************************************************************)
(* compile_expr (source/compiler/compiler.c): the operands in order, then  *)
(* the instruction that the types the checker left on them ask for.        *)
(***************************************************************************)
EXTENDS Emitter, Declarations, ClassLayout

CONSTANTS Hosts

RECURSIVE CompileExpr(_, _)

CompileArgs(c, args) == FoldLeft(CompileExpr, c, args)
Operand(x, i) == x.k[i].ty
Arguments(x) == Tail(x.k)

\* the class name as the module knows it, and the name with its type arguments
Raw(t) == IF t.args = <<>> THEN t.n ELSE ""
FullName(t) == IF t.args = <<>> THEN t.n ELSE t.n \o "<>"
Misnamed(c) == CompileError(c, "no such member")

TypeParams(c) == IF c.cls = "" THEN <<>> ELSE Classes[c.cls].tparams
IsTypeParam(c, t) == t.k \in {"object", "param"} /\ \E i \in DOMAIN TypeParams(c) : TypeParams(c)[i] = t.n

(***************************************************************************)
(* Arguments: each is truncated to the width of its parameter, and the     *)
(* missing ones are the defaults of the parameters beyond them.            *)
(***************************************************************************)
EmitFitted_AsItIs(c, arg, params, i) == CompileExpr(c, arg)
EmitFitted(c, arg, params, i) ==
    LET d == CompileExpr(c, arg) IN IF i \in DOMAIN params THEN EmitTrunc(d, params[i].type.k) ELSE d
CompileFitted(c, args, params) ==
    FoldLeft(LAMBDA d, i : EmitFitted(d, args[i], params, i), c, [i \in DOMAIN args |-> i])

Missing(params, given) ==
    SelectSeq(SubSeq(params, given + 1, Len(params)), LAMBDA p : p.default # <<>>)
EmitDefaults(c, params, given) ==
    FoldLeft(LAMBDA d, p : EmitTrunc(CompileExpr(d, p.default[1]), p.type.k), c, Missing(params, given))
Total(params, given) == given + Len(Missing(params, given))

(***************************************************************************)
(* Conversions to text                                                     *)
(***************************************************************************)
SignedKinds   == {"int", "sbyte", "short", "long"}
UnsignedKinds == {"byte", "ushort", "uint", "ulong"}
StrKind(t) ==
    CASE t.k \in SignedKinds -> 0 [] t.k \in FloatFamily -> 1 [] t.k = "char" -> 3
      [] t.k = "enum" -> 4 [] t.k \in UnsignedKinds -> 5 [] OTHER -> 2
InterpKind(t) == IF t.k \in UnsignedKinds THEN 0 ELSE StrKind(t)
CastKind(t) == IF t.k \in IntFamily \cup FloatFamily \cup {"bool"} THEN StrKind(t) ELSE 255

EmitToStr(c, kind) == EmitArg(c, "TO_STR", kind)
EmitAsText(c, t) == IF t.k = "string" THEN c ELSE EmitToStr(c, StrKind(t))

\* pairs of segments are joined as they come
CompileInterp(c, x) ==
    LET segment(d, i) ==
          LET s == x.k[i]
              text == IF s.ty.k = "string" THEN CompileExpr(d, s)
                      ELSE EmitToStr(CompileExpr(d, s), InterpKind(s.ty))
          IN IF i > 1 THEN EmitOp(text, "CONCAT_STR") ELSE text
    IN IF x.k = <<>> THEN EmitArg(c, "LOAD_CONST_STR", 0)
       ELSE FoldLeft(segment, c, [i \in DOMAIN x.k |-> i])

(***************************************************************************)
(* Types at run time                                                       *)
(***************************************************************************)
\* the tag of an element that is a type parameter of the class names the parameter
CompileNewArray(c, x) ==
    Emit(CompileExpr(c, x.k[1]),
         Instr("NEW_ARRAY", 0, 0, CASE IsTypeParam(c, x.t) -> x.t.n
                                    [] x.t.k \in {"unknown", "param"} -> "any"
                                    [] OTHER -> x.t.k))

ElemKind(t) == IF t.k = "array" /\ t.el # <<>> THEN t.el[1].k ELSE ""
AlwaysIs(src, tgt) ==
    \/ src.k = tgt.k
    \/ IsIntFamily(src) /\ IsIntFamily(tgt) /\ "char" \notin {src.k, tgt.k}

CompileIs(c, x) ==
    LET d == CompileExpr(c, x.k[1]) IN
    IF x.t.k \in {"object", "class_ref"} THEN Emit(d, Instr("IS_TYPE", 0, 0, FullName(x.t)))
    ELSE EmitArg(EmitOp(d, "POP"), "LOAD_CONST_BOOL", IF AlwaysIs(Operand(x, 1), x.t) THEN 1 ELSE 0)

CompileAs(c, x) ==
    LET d == CompileExpr(c, x.k[1])  src == Operand(x, 1)  tgt == x.t IN
    CASE tgt.k = "string"                             -> EmitToStr(d, CastKind(src))
      [] IsIntFamily(src) /\ tgt.k \in FloatFamily    -> EmitOp(d, "I2F")
      [] src.k \in FloatFamily /\ IsIntFamily(tgt)    -> EmitOp(d, "F2I")
      [] OTHER -> Emit(d, [Instr("AS_TYPE", 0, 0, FullName(tgt)) EXCEPT !.kinds = <<tgt.k>>])

\* a class has no value: a null takes its place
CompileTypeOf(c, x) ==
    LET d == IF Operand(x, 1).k = "class_ref" THEN EmitOp(c, "PUSH_NULL") ELSE CompileExpr(c, x.k[1])
    IN Emit(d, Instr("TYPEOF", 0, 0, Operand(x, 1).n))

(***************************************************************************)
(* Choices                                                                 *)
(***************************************************************************)
CompileTernary(c, x) ==
    LET test == EmitJump(CompileExpr(c, x.k[1]), "JUMP_IF_FALSE")
        skip == EmitJump(CompileExpr(test, x.k[2]), "JUMP")
    IN PatchJump(CompileExpr(PatchJump(skip, Newest(test)), x.k[3]), Newest(skip))

\* NULL_COALESCE jumps, keeping the value, unless it is null; its offset has no sign
CompileCoalesce(c, x) ==
    LET test == EmitJump(CompileExpr(c, x.k[1]), "NULL_COALESCE")
        both == CompileExpr(test, x.k[2])
        offset == Distance(Newest(test), Here(both)) % (2 * (JumpReach + 1))
    IN [both EXCEPT !.code[Newest(test)].to = Here(test) + offset]

\* obj?. keeps the object in a slot; what the class does not list is at 0
FoundOr0(i) == IF i < 0 THEN 0 ELSE i

CompileNullSafe(c, x, use(_)) ==
    LET obj  == CompileExpr(c, x.k[1])
        slot == SlotDeclared(obj)
        kept == EmitSlot(DeclareAndStore(obj, "$ns"), "LOAD_LOCAL", slot)
        test == EmitJump(EmitOp(kept, "IS_NULL"), "JUMP_IF_TRUE")
        over == EmitJump(use(EmitSlot(test, "LOAD_LOCAL", slot)), "JUMP")
        null == EmitOp(LeadTo(over, Newest(test), Here(over)), "PUSH_NULL")
    IN LeadTo(null, Newest(over), Here(null))

\* the slot of a static field, -1, is cast to a byte
SafeSlot(t, name) == IF FieldIndex(Raw(t), name) < 0 THEN 0 ELSE InstanceSlot(Raw(t), name) % 256
CompileNullSafeGet(c, x) ==
    CompileNullSafe(c, x, LAMBDA d : EmitArg(d, "GET_FIELD", SafeSlot(Operand(x, 1), x.n)))
CompileNullSafeCall(c, x) ==
    CompileNullSafe(c, x, LAMBDA d : Emit(CompileArgs(d, Arguments(x)),
        Instr("CALL_METHOD", Len(Arguments(x)), FoundOr0(MethodSlot(Raw(Operand(x, 1)), x.n)), "")))

(***************************************************************************)
(* Arrays                                                                  *)
(***************************************************************************)
CompileArrayLit(c, x) ==
    LET d == CompileArgs(c, x.k)
        many == IF Len(x.k) > 255 THEN CompileError(d, "elements") ELSE d
    IN Emit(many, Instr("ARRAY_LIT", Len(x.k), 0,
                        IF ElemKind(x.ty) \in {"", "unknown", "param"} THEN "any" ELSE ElemKind(x.ty)))

\* the element is read back: the array and the index are evaluated once more
CompileIndex(c, x) == EmitOp(CompileArgs(c, <<x.k[1], x.k[2]>>), "ARRAY_GET")
CompileIndexAssign(c, x) ==
    CompileIndex(EmitOp(EmitTrunc(CompileArgs(c, x.k), ElemKind(Operand(x, 1))), "ARRAY_SET"), x)

CallSlot(c, slot, argc) == Emit(c, Instr("CALL_METHOD", argc, slot, ""))
CompileSubscript(c, x) ==
    LET get == MethodSlot(Operand(x, 1).n, "get") IN
    IF get < 0 THEN Misnamed(c) ELSE CallSlot(CompileArgs(c, <<x.k[1], x.k[2]>>), get, 1)
\* without a get its slot is -1, which the operand's 16 bits turn into 65535
CompileSubscriptSet(c, x) ==
    LET set == MethodSlot(Operand(x, 1).n, "set")
        get == MethodSlot(Operand(x, 1).n, "get") % 65536
        stored == CallSlot(CompileArgs(c, x.k), set, 2)
    IN IF set < 0 THEN Misnamed(c) ELSE CallSlot(CompileArgs(stored, <<x.k[1], x.k[2]>>), get, 1)

(***************************************************************************)
(* Operators                                                               *)
(***************************************************************************)
CompileUnary(c, x) ==
    EmitOp(CompileExpr(c, x.k[1]),
           CASE x.n # "-"       -> "NOT_BOOL"
             [] x.ty.k = "int"  -> "NEGATE_INT"
             [] OTHER           -> "NEGATE_FLOAT")

\* the kind that chooses among the instructions of an operator
OperatorKind(c, x) ==
    LET left == Operand(x, 1) IN
    CASE x.ty.k # "bool"                                        -> x.ty.k
      [] left.k = "object" /\ IsTypeParam(c, left)              -> "param"
      [] left.k \in {"unknown", "object", "param", "any"}       -> "bool"
      [] OTHER                                                  -> left.k

Families == [int |-> "_INT", float |-> "_FLOAT", string |-> "_STR", bool |-> "_BOOL", any |-> "_VAL"]
ArithmeticOp == ("+" :> "ADD") @@ ("-" :> "SUB") @@ ("*" :> "MUL") @@ ("/" :> "DIV") @@ ("%" :> "MOD")
OrderOp == ("<" :> "CMP_LT") @@ ("<=" :> "CMP_LTE") @@ (">" :> "CMP_GT") @@ (">=" :> "CMP_GTE")
EqualityOp == ("==" :> "CMP_EQ") @@ ("!=" :> "CMP_NEQ")
NumberFamily(kind) == IF kind \in IntFamily THEN "int" ELSE "float"
EqualityFamily(kind) ==
    CASE kind \in {"param", "any"}                          -> "any"
      [] kind \in IntFamily \cup {"enum", "unknown"}        -> "int"
      [] kind \in FloatFamily                               -> "float"
      [] kind = "bool"                                      -> "bool"
      [] OTHER                                              -> "string"

NeitherNumber(kind) == kind \notin IntFamily \cup FloatFamily
BinaryInstruction(op, kind) ==
    CASE op = "+" /\ NeitherNumber(kind) -> "CONCAT_STR"
      [] op \in DOMAIN ArithmeticOp -> ArithmeticOp[op] \o Families[NumberFamily(kind)]
      [] op \in DOMAIN OrderOp      -> OrderOp[op] \o Families[NumberFamily(kind)]
      [] op \in DOMAIN EqualityOp   -> EqualityOp[op] \o Families[EqualityFamily(kind)]
      [] op = "&&"                  -> "AND_BOOL"
      [] op = "||"                  -> "OR_BOOL"

CompareNull_KeepsNull(c, x) ==
    LET test == EmitOp(c, "IS_NULL") IN IF x.n = "==" THEN test ELSE EmitOp(test, "NOT_BOOL")
\* x == null drops the null it has pushed
CompareNull(c, x) ==
    LET test == EmitOp(EmitOp(c, "POP"), "IS_NULL") IN
    CASE Operand(x, 2).k # "null" -> EmitOp(c, EqualityOp[x.n] \o "_VAL")
      [] x.n = "=="               -> test
      [] OTHER                    -> EmitOp(test, "NOT_BOOL")

Concatenates(x) == x.n = "+" /\ "string" \in {Operand(x, 1).k, Operand(x, 2).k}
CompileBinary(c, x) ==
    LET both == CompileArgs(c, x.k)
        left == EmitAsText(CompileExpr(c, x.k[1]), Operand(x, 1))
    IN CASE Concatenates(x) -> EmitOp(EmitAsText(CompileExpr(left, x.k[2]), Operand(x, 2)), "CONCAT_STR")
         [] x.n \in DOMAIN EqualityOp /\ "null" \in {Operand(x, 1).k, Operand(x, 2).k} -> CompareNull(both, x)
         [] OTHER -> EmitOp(both, BinaryInstruction(x.n, OperatorKind(c, x)))

(***************************************************************************)
(* Variables                                                               *)
(***************************************************************************)
Undefined(c) == CompileError(c, "undefined")

CompileName(c, x) ==
    IF ResolveLocal(c, x.n) < 0 THEN Undefined(c) ELSE EmitSlot(c, "LOAD_LOCAL", ResolveLocal(c, x.n))

StoreBack(c, slot) == EmitSlot(EmitSlot(c, "STORE_LOCAL", slot), "LOAD_LOCAL", slot)
CompileAssign(c, x) ==
    LET value == EmitTrunc(CompileExpr(c, x.k[1]), x.ty.k)
        slot == ResolveLocal(value, x.n)
    IN IF slot < 0 THEN Undefined(value) ELSE StoreBack(value, slot)

Count(c, x) == EmitOp(EmitConstInt(c, 1), IF x.v > 0 THEN "ADD_INT" ELSE "SUB_INT")

Static(c, name, cls, index) == Emit(c, Instr(name, 0, index, cls))
StoreStatic(c, cls, index) == Static(Static(c, "STORE_STATIC", cls, index), "LOAD_STATIC", cls, index)
CompilePostfixStatic(c, x) ==
    LET cls == Operand(x, 1).n
        index == FieldIndex(cls, x.n)
        counted == Count(Static(c, "LOAD_STATIC", cls, index), x)
    IN IF index < 0 THEN Misnamed(c)
       ELSE StoreStatic(EmitTrunc(counted, FieldKind(cls, x.n)), cls, index)

\* the object is evaluated twice, the new value kept in a slot meanwhile
CompilePostfixField(c, x) ==
    LET field == InstanceSlot(Operand(x, 1).n, x.n)
        value == EmitTrunc(Count(EmitArg(CompileExpr(c, x.k[1]), "GET_FIELD", field), x), x.ty.k)
        slot  == SlotDeclared(value)
        again == EmitSlot(CompileExpr(DeclareAndStore(value, "$tmp"), x.k[1]), "LOAD_LOCAL", slot)
    IN IF field < 0 THEN Misnamed(c)
       ELSE EmitSlot(EmitArg(again, "SET_FIELD", field), "LOAD_LOCAL", slot)

CompilePostfix(c, x) ==
    LET slot == ResolveLocal(c, x.n) IN
    CASE x.k # <<>> /\ x.c # "" -> CompilePostfixStatic(c, x)
      [] x.k # <<>>             -> CompilePostfixField(c, x)
      [] slot < 0               -> Undefined(c)
      [] OTHER -> StoreBack(EmitTrunc(Count(EmitSlot(c, "LOAD_LOCAL", slot), x), x.ty.k), slot)

(***************************************************************************)
(* Fields                                                                  *)
(***************************************************************************)
CompileStaticGet(c, x) ==
    IF FieldIndex(x.c, x.n) < 0 THEN Misnamed(c) ELSE Static(c, "LOAD_STATIC", x.c, FieldIndex(x.c, x.n))
CompileStaticSet(c, x) ==
    LET value == EmitTrunc(CompileExpr(c, x.k[1]), FieldKind(x.c, x.n)) IN
    IF FieldIndex(x.c, x.n) < 0 THEN Misnamed(value) ELSE StoreStatic(value, x.c, FieldIndex(x.c, x.n))

Property == [Type |-> "TYPE_FIELD", Field |-> "FIELD_PROP", Method |-> "METHOD_PROP", Parameter |-> "PARAM_PROP"]
IsReflection(t) == t.n \in DOMAIN Property /\ (t.k = "object" \/ (t.k = "class_ref" /\ t.n = "Type"))
Properties == [Type |-> {"name", "isArray", "isPrimitive", "isEnum", "isClass", "kind", "base", "elementType", "isNullable"},
               Field |-> {"name", "type", "isStatic", "isFinal", "isNullable"},
               Method |-> {"name", "returnType", "isStatic", "isVirtual", "paramCount"},
               Parameter |-> {"name", "type", "isNullable", "index"}]

CompileInstanceGet(c, x) ==
    LET obj == CompileExpr(c, x.k[1])
        slot == InstanceSlot(Raw(Operand(x, 1)), x.n)
    IN IF slot < 0 THEN Misnamed(obj) ELSE EmitArg(obj, "GET_FIELD", slot)

CompileFieldGet(c, x) ==
    LET t == Operand(x, 1) IN
    CASE IsReflection(t) /\ x.n \in Properties[t.n] -> Emit(CompileExpr(c, x.k[1]), Instr(Property[t.n], 0, 0, x.n))
      [] IsReflection(t) /\ t.n = "Type" -> Misnamed(CompileExpr(c, x.k[1]))
      \* the object is left under whatever comes of the second attempt
      [] IsReflection(t)     -> CompileInstanceGet(CompileExpr(c, x.k[1]), x)
      [] x.n = "class"       -> CompileTypeOf(c, x)
      [] t.k = "array"       -> EmitOp(CompileExpr(c, x.k[1]), "ARRAY_LEN")
      [] OTHER               -> CompileInstanceGet(c, x)

CompileFieldSet(c, x) ==
    LET cls == Operand(x, 1).n
        slot == InstanceSlot(cls, x.n)
        value == EmitTrunc(CompileArgs(c, x.k), FieldKind(cls, x.n))
    IN IF slot < 0 THEN Misnamed(value)
       ELSE EmitArg(CompileExpr(EmitArg(value, "SET_FIELD", slot), x.k[1]), "GET_FIELD", slot)

(***************************************************************************)
(* Calls                                                                   *)
(***************************************************************************)
\* a host function with a parameter of any type gets text
TakesAny(f) == \E i \in DOMAIN f.params : f.params[i].type.k = "any"
CompileForHost(c, x) ==
    LET text(d, arg) == IF arg.ty.k = "any" THEN CompileExpr(d, arg) ELSE EmitAsText(CompileExpr(d, arg), arg.ty)
        args == IF TakesAny(Functions[x.n]) THEN FoldLeft(text, c, x.k) ELSE CompileFitted(c, x.k, x.ps)
    IN Emit(args, Instr("CALL_HOST", Len(x.k), 0, x.n))

CompileCall(c, x) ==
    LET args == CompileFitted(c, x.k, x.ps) IN
    CASE x.n \in Hosts               -> CompileForHost(c, x)
      [] x.n \notin DOMAIN Functions -> Undefined(args)
      [] OTHER -> Emit(EmitDefaults(args, x.ps, Len(x.k)), Instr("CALL", Total(x.ps, Len(x.k)), 0, x.n))

CompileNew(c, x) ==
    LET args == CompileFitted(c, x.k, x.ps) IN
    IF x.n \notin DOMAIN Defs THEN Misnamed(args)
    ELSE Emit(EmitDefaults(args, x.ps, Len(x.k)),
              [Instr("NEW", Total(x.ps, Len(x.k)), 0, x.n)
                 EXCEPT !.kinds = [i \in DOMAIN x.t.args |->
                          IF x.t.args[i].k \in {"param", "unknown"} THEN "any" ELSE x.t.args[i].k]])

\* neither truncated nor completed
CompileStaticCall(c, x) ==
    LET args == CompileArgs(c, x.k)  slot == MethodSlot(x.c, x.n) IN
    IF slot < 0 \/ slot > 255 THEN Misnamed(args) ELSE Emit(args, Instr("CALL_STATIC", Len(x.k), slot, x.c))

CompileSuper(c, x) ==
    LET parent == Defs[c.cls].parent IN
    CASE c.cls = "" \/ parent = ""   -> CompileError(c, "super")
      [] Defs[parent].ctor = ""      -> c
      [] OTHER -> Emit(CompileFitted(c, x.k, x.ps), Instr("CALL_SUPER", Len(x.k), 0, parent))

\* what the instruction expects first is pushed first
ArgumentFirst == [hasAttribute |-> "TYPE_HAS_ATTR", isAssignableFrom |-> "TYPE_IS_ASSIGNABLE",
                  isInstance |-> "TYPE_IS_INSTANCE"]
ReceiverFirst == [getField |-> "TYPE_GET_FIELD", getMethod |-> "TYPE_GET_METHOD"]
NamesOf == {"interfaces", "fields", "methods", "enumMembers"}
Special(t, name) ==
    \/ t.n = "Type" /\ t.k \in {"object", "class_ref"}
         /\ name \in DOMAIN ArgumentFirst \cup DOMAIN ReceiverFirst \cup NamesOf \cup {"getAttributeArg"}
    \/ t.n = "Method" /\ t.k = "object" /\ name = "paramAt"
CompileReflection(c, x) ==
    CASE x.n \in DOMAIN ArgumentFirst -> EmitOp(CompileArgs(c, <<x.k[2], x.k[1]>>), ArgumentFirst[x.n])
      [] x.n \in DOMAIN ReceiverFirst -> EmitOp(CompileArgs(c, x.k), ReceiverFirst[x.n])
      [] x.n = "paramAt"              -> EmitOp(CompileArgs(c, x.k), "METHOD_PARAM_AT")
      [] x.n = "getAttributeArg"      -> EmitOp(CompileArgs(c, <<x.k[3], x.k[2], x.k[1]>>), "TYPE_GET_ATTR_ARG")
      [] OTHER                        -> Emit(CompileExpr(c, x.k[1]), Instr("TYPE_NAMES", 0, 0, x.n))

\* by name for an interface, and for a class the module does not have
CompileMethodCall(c, x) ==
    LET cls == Operand(x, 1).n
        given == Len(Arguments(x))
        slot == MethodSlot(cls, x.n)
        args == CompileFitted(CompileExpr(c, x.k[1]), Arguments(x), x.ps)
        full == EmitDefaults(args, x.ps, given)
        argc == Total(x.ps, given)
    IN CASE Special(Operand(x, 1), x.n) -> CompileReflection(c, x)
         [] cls \notin DOMAIN Defs      -> Emit(full, Instr("CALL_IFACE", argc, 0, x.n))
         [] slot < 0                    -> Misnamed(args)
         [] OTHER                       -> CallSlot(full, slot, argc)

(***************************************************************************)
(* Events                                                                  *)
(***************************************************************************)
Bound == [subscribe |-> "EVENT_SUBSCRIBE_BOUND", unsubscribe |-> "EVENT_UNSUBSCRIBE_BOUND"]
Free  == [subscribe |-> "EVENT_SUBSCRIBE", unsubscribe |-> "EVENT_UNSUBSCRIBE"]
CompileSubscription(c, x) ==
    IF x.k = <<>> THEN Emit(c, Instr(Free[x.e], 0, 0, x.n))
    ELSE Emit(CompileExpr(c, x.k[1]), Instr(Bound[x.e], 0, 0, x.n))

(***************************************************************************)
(* Every kind of expression                                                *)
(***************************************************************************)
CompileExpr(c, x) ==
    CASE x.e \in {"int", "char", "enum"} -> EmitConstInt(c, x.v)
      [] x.e = "float"          -> EmitArg(c, "LOAD_CONST_FLOAT", x.v)
      [] x.e = "bool"           -> EmitArg(c, "LOAD_CONST_BOOL", x.v)
      [] x.e = "string"         -> EmitArg(c, "LOAD_CONST_STR", x.v)
      [] x.e = "type"           -> CompileError(c, "a type")
      [] x.e = "interp"         -> CompileInterp(c, x)
      [] x.e = "new_array"      -> CompileNewArray(c, x)
      [] x.e = "is"             -> CompileIs(c, x)
      [] x.e = "as"             -> CompileAs(c, x)
      [] x.e = "typeof"         -> CompileTypeOf(c, x)
      [] x.e = "null"           -> EmitOp(c, "PUSH_NULL")
      [] x.e = "null_assert"    -> EmitOp(CompileExpr(c, x.k[1]), "NULL_ASSERT")
      [] x.e = "ternary"        -> CompileTernary(c, x)
      [] x.e = "null_coalesce"  -> CompileCoalesce(c, x)
      [] x.e = "null_safe_get"  -> CompileNullSafeGet(c, x)
      [] x.e = "null_safe_call" -> CompileNullSafeCall(c, x)
      [] x.e \in {"subscribe", "unsubscribe"} -> CompileSubscription(c, x)
      [] x.e = "fire"           -> Emit(CompileArgs(c, x.k), Instr("EVENT_FIRE", Len(x.k), 0, x.n))
      [] x.e = "array_lit"      -> CompileArrayLit(c, x)
      [] x.e = "index"          -> CompileIndex(c, x)
      [] x.e = "subscript"      -> CompileSubscript(c, x)
      [] x.e = "index_assign"   -> CompileIndexAssign(c, x)
      [] x.e = "subscript_set"  -> CompileSubscriptSet(c, x)
      [] x.e = "ident"          -> CompileName(c, x)
      [] x.e = "unary"          -> CompileUnary(c, x)
      [] x.e = "binary"         -> CompileBinary(c, x)
      [] x.e = "postfix"        -> CompilePostfix(c, x)
      [] x.e = "assign"         -> CompileAssign(c, x)
      [] x.e = "call"           -> CompileCall(c, x)
      [] x.e = "new"            -> CompileNew(c, x)
      [] x.e = "this"           -> EmitOp(c, "LOAD_THIS")
      [] x.e = "static_get"     -> CompileStaticGet(c, x)
      [] x.e = "static_set"     -> CompileStaticSet(c, x)
      [] x.e = "static_call"    -> CompileStaticCall(c, x)
      [] x.e = "super"          -> CompileSuper(c, x)
      [] x.e = "field_get"      -> CompileFieldGet(c, x)
      [] x.e = "field_set"      -> CompileFieldSet(c, x)
      [] x.e = "method_call"    -> CompileMethodCall(c, x)
=============================================================================
