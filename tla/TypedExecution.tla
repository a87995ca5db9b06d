--------------------------- MODULE TypedExecution ---------------------------
(***************************************************************************)
(* xeno_execute (source/vm/vm.c) on one expression, with values that know  *)
(* what they are.  A Value of the machine has a number, a pointer and a    *)
(* tag for pointers; what it was meant to be is known to the checker only. *)
(* Here a value carries its type ty, so that a step can tell when the      *)
(* instruction reads it as something else.                                 *)
(*                                                                         *)
(* A run is done, has trapped (an error of the running program: a null     *)
(* dereference, an index out of bounds, a division by zero, a failed cast) *)
(* or has gone wrong: an operand is not what the instruction reads, or is  *)
(* stored where its type does not belong.  A run stops there.              *)
(***************************************************************************)
EXTENDS CodeGenExpr

O == INSTANCE Opcodes

VARIABLES code, pc, stack, slots, declared, elemKind, outcome

machine == <<code, pc, stack, slots, declared, elemKind, outcome>>

(***************************************************************************)
(* Values                                                                  *)
(***************************************************************************)
Val(type, v) == [ty |-> type, v |-> v]
NullVal == Val(NullT, 0)
IsNull(a) == a.ty.k = "null"

Records == {"Type", "Field", "Method", "Parameter"}
Rep(a) ==
    CASE a.ty.k \in IntFamily \cup {"enum"}  -> "int"
      [] a.ty.k \in FloatFamily              -> "float"
      [] a.ty.k = "object" /\ a.ty.n \in Records -> a.ty.n
      [] OTHER                               -> a.ty.k
Scalars == {"int", "float", "bool"}

Modulus == [byte |-> 256, ushort |-> 65536]
Half    == [sbyte |-> 128, short |-> 32768]
InRange(v, kind) ==
    CASE kind \in DOMAIN Modulus -> v \in 0..(Modulus[kind] - 1)
      [] kind \in DOMAIN Half    -> v \in (-Half[kind])..(Half[kind] - 1)
      [] kind = "char"           -> v \in 0..1114111
      [] OTHER                   -> TRUE

\* the casts of OP_TRUNC_*; TRUNC_CHAR masks with 0x10FFFF
TruncatedTo == [TRUNC_U8 |-> "byte", TRUNC_I8 |-> "sbyte", TRUNC_U16 |-> "ushort", TRUNC_I16 |-> "short",
                TRUNC_CHAR |-> "char", TRUNC_U32 |-> "uint", TRUNC_U64 |-> "ulong"]
Truncated(v, kind) ==
    CASE kind \in DOMAIN Modulus -> v % Modulus[kind]
      [] kind \in DOMAIN Half    -> ((v + Half[kind]) % (2 * Half[kind])) - Half[kind]
      [] kind = "char"           -> (v % 65536) + 65536 * (((v \div 65536) % 32) \div 16)
      [] OTHER                   -> v

(***************************************************************************)
(* What a value of a type can be, and where it belongs                     *)
(***************************************************************************)
Sample == [int |-> {-1, 300}, byte |-> {200}, char |-> {300}, long |-> {-1}]
Instances == {<<IntT>>, <<StringT>>}

\* a class seen as one of its ancestors
AsParent(type) ==
    LET class == Classes[type.n] IN
    GenericT(class.parent, [i \in DOMAIN class.pargs |-> Substituted(class.pargs[i], Binding(type))])
RECURSIVE AsClass(_, _)
AsClass(type, cls) == IF type.n = cls THEN type ELSE AsClass(AsParent(type), cls)

\* an instance of the class is one of the type, with the arguments the type names
IsOne(own, type) ==
    \/ Implements(own.n, type.n)
    \/ IsSubtype(own.n, type.n) /\ type.args \in {<<>>, AsClass(own, type.n).args}
Instantiated(cls) == {GenericT(cls, a) : a \in IF Classes[cls].tparams = <<>> THEN {<<>>} ELSE Instances}
ObjectsOf(type) == {Val(own, 0) : own \in {t \in UNION {Instantiated(cls) : cls \in DOMAIN Classes} : IsOne(t, type)}}
Opaque == {Val(IntT, -1), Val(StringT, 0), Val(ObjectT("B"), 0)}

\* what only the checker's caller knows
Opaquely(type) ==
    \/ type.k \in {"param", "any", "unknown"}
    \/ type.k = "object" /\ type.n \notin Records \cup DOMAIN Classes \cup DOMAIN Ifaces

AnyOf(type) ==
    (IF type.opt THEN {NullVal} ELSE {}) \cup
    CASE type.k \in DOMAIN Sample                      -> {Val(Prim(type.k), v) : v \in Sample[type.k]}
      [] Opaquely(type)                                -> Opaque
      [] type.k = "object" /\ type.n \notin Records    -> ObjectsOf(type)
      [] type.k = "void"                               -> {Val(IntT, 0)}
      [] OTHER                                         -> {Val(Base(type), 0)}

SameElements(a, b) == Opaquely(b) \/ (a.k = b.k /\ (a.n = b.n \/ "" \in {a.n, b.n}))
\* is a the kind of value the type speaks of?
Agrees(a, type) ==
    CASE Opaquely(type) \/ type.k = "void"              -> TRUE
      [] IsNull(a)                                      -> type.opt \/ type.k = "null"
      [] type.k = "object" /\ type.n \notin Records     ->
           Rep(a) = "object" /\ IsOne(a.ty, type)
      [] type.k = "array" -> Rep(a) = "array" /\ SameElements(a.ty.el[1], type.el[1])
      [] OTHER            -> Rep(a) = Rep(Val(type, 0))
Belongs(a, type) == Agrees(a, type) /\ (Rep(a) = "int" => InRange(a.v, type.k))

(***************************************************************************)
(* Objects: what a class keeps in a slot, from its own declaration or from *)
(* that of the parent it has the slot from.                                *)
(***************************************************************************)
InSlot(cls, slot) == SelectSeq(Defs[cls].fields, LAMBDA f : f.slot = slot)
RECURSIVE SlotType(_, _)
SlotType(type, slot) ==
    LET class == Classes[type.n] IN
    IF class.parent # "" /\ ~class.lib /\ InSlot(class.parent, slot) # <<>> THEN SlotType(AsParent(type), slot)
    ELSE Substituted(InSlot(type.n, slot)[1].type, Binding(type))

(***************************************************************************)
(* Calls: the types of the parameters and of the result                    *)
(***************************************************************************)
Signature(params, ret, binding) ==
    [params |-> [i \in DOMAIN params |-> Substituted(params[i].type, binding)], ret |-> Substituted(ret, binding)]

\* a generic function's parameter is what it is given
FunctionCallee(f, given) ==
    LET names == [i \in DOMAIN f.params |-> IF f.params[i].type.n \in {f.tparams[j] : j \in DOMAIN f.tparams}
                                            THEN f.params[i].type.n ELSE ""]
    IN Signature(f.params, f.ret, Bind(names, [i \in DOMAIN given |-> given[i].ty]))
MethodCallee(type, entry) ==
    LET m == Get(Classes[entry.owner].methods, entry.name)
    IN Signature(m.params, m.ret, Binding(AsClass(type, entry.owner)))
CtorCallee(type) ==
    LET owner == Defs[type.n].ctor IN
    IF owner = "" THEN Signature(<<>>, VoidT, NoBinding)
    ELSE Signature(CtorOf(owner).params, VoidT, Binding(AsClass(type, owner)))
EventCallee(name) ==
    LET types == IF name \in DOMAIN Events THEN Events[name]
                 ELSE (CHOOSE c \in {Classes[k] : k \in DOMAIN Classes} : name \in DOMAIN c.events).events[name]
    IN [params |-> types, ret |-> VoidT]

NewType(i) == GenericT(i.sym, [j \in DOMAIN i.kinds |-> Prim(i.kinds[j])])

\* the method that an instruction finds: by its slot, or by its name
Receives(i) == i.name \in {"CALL_METHOD", "CALL_IFACE"}
Given(i, args) == IF Receives(i) THEN Tail(args) ELSE args
Entries(i, args) ==
    LET methods == Defs[IF i.name = "CALL_STATIC" THEN i.sym ELSE args[1].ty.n].methods IN
    IF i.name = "CALL_IFACE" THEN SelectSeq(methods, LAMBDA m : m.name = i.sym /\ ~m.static)
    ELSE SubSeq(methods, i.arg + 1, i.arg + 1)

Callee(i, args) ==
    CASE i.name \in {"CALL", "CALL_HOST"}   -> FunctionCallee(Functions[i.sym], args)
      [] i.name = "NEW"                     -> CtorCallee(NewType(i))
      [] i.name = "CALL_SUPER"              -> CtorCallee(AsClass(slots[0].ty, i.sym))
      [] i.name = "EVENT_FIRE"              -> EventCallee(i.sym)
      [] i.name = "CALL_STATIC"             -> MethodCallee(ObjectT(i.sym), Entries(i, args)[1])
      [] OTHER                              -> MethodCallee(args[1].ty, Entries(i, args)[1])

(***************************************************************************)
(* What an instruction reads its operands as: * is anything, and a string  *)
(* marked ? may be null.                                                   *)
(***************************************************************************)
Two(rep) == <<rep, rep>>
ReadsOf ==
    [GET_FIELD |-> <<"object">>, SET_FIELD |-> <<"object", "*">>, NEW_ARRAY |-> <<"int">>,
     ARRAY_LEN |-> <<"array">>, ARRAY_GET |-> <<"array", "int">>, ARRAY_SET |-> <<"array", "int", "*">>,
     NEGATE_INT |-> <<"int">>, NEGATE_FLOAT |-> <<"float">>, NOT_BOOL |-> <<"bool">>,
     I2F |-> <<"int">>, F2I |-> <<"float">>, CONCAT_STR |-> Two("string"),
     CMP_EQ_BOOL |-> Two("bool"), CMP_NEQ_BOOL |-> Two("bool"),
     CMP_EQ_STR |-> Two("string?"), CMP_NEQ_STR |-> Two("string?"),
     JUMP_IF_TRUE |-> <<"bool">>, JUMP_IF_FALSE |-> <<"bool">>,
     TYPE_FIELD |-> <<"Type">>, TYPE_NAMES |-> <<"Type">>, FIELD_PROP |-> <<"Field">>,
     METHOD_PROP |-> <<"Method">>, PARAM_PROP |-> <<"Parameter">>, METHOD_PARAM_AT |-> <<"Method", "int">>,
     TYPE_GET_FIELD |-> <<"Type", "string">>, TYPE_GET_METHOD |-> <<"Type", "string">>,
     TYPE_HAS_ATTR |-> <<"string", "Type">>, TYPE_IS_ASSIGNABLE |-> Two("Type"),
     TYPE_IS_INSTANCE |-> <<"*", "Type">>, TYPE_GET_ATTR_ARG |-> <<"int", "string", "Type">>,
     EVENT_SUBSCRIBE_BOUND |-> <<"object">>, EVENT_UNSUBSCRIBE_BOUND |-> <<"object">>]
TextReads == <<"int", "float", "bool", "int", "int", "int">>
Reads(i) ==
    CASE i.name \in DOMAIN ReadsOf                  -> ReadsOf[i.name]
      [] i.name \in DOMAIN TruncatedTo              -> <<"int">>
      [] i.name \in O!IntArith \cup O!IntOrder      -> Two("int")
      [] i.name \in O!FloatArith \cup O!FloatOrder  -> Two("float")
      [] i.name \in O!Logic                         -> Two("bool")
      [] i.name = "TO_STR" /\ i.arg < 6             -> <<TextReads[i.arg + 1]>>
      [] i.name \in {"CALL_METHOD", "CALL_IFACE"}   -> <<"object">>
      [] OTHER                                      -> <<>>

\* a null reference is found out, a null number is read as 0
Misreads(want, a) ==
    CASE want = "*"       -> FALSE
      [] IsNull(a)        -> want \in Scalars
      [] want = "string?" -> Rep(a) # "string"
      [] OTHER            -> Rep(a) # want
Dereferences(want, a) == IsNull(a) /\ want \notin Scalars \cup {"*", "string?"}

\* CMP_*_VAL compares as the last array element read would be compared
ComparesAs(kind) ==
    CASE kind = "string" -> {"string", "null"} [] kind \in FloatFamily -> {"float"} [] kind = "bool" -> {"bool"}
      [] OTHER -> {"int", "object", "array", "null"}
Compares(args) ==
    /\ \A j \in {1, 2} : Rep(args[j]) \in ComparesAs(elemKind)
    /\ "int" \in {Rep(args[1]), Rep(args[2])} => Rep(args[1]) = Rep(args[2])

(***************************************************************************)
(* How an instruction goes wrong, "" if it does not                        *)
(***************************************************************************)
Misfit(a, type) == CASE ~Agrees(a, type) -> "misfit" [] ~Belongs(a, type) -> "width" [] OTHER -> ""
FirstOf(problems) == IF \E j \in DOMAIN problems : problems[j] # ""
                     THEN SelectSeq(problems, LAMBDA p : p # "")[1] ELSE ""

Called == {"CALL", "CALL_HOST", "CALL_STATIC", "CALL_METHOD", "CALL_IFACE", "CALL_SUPER", "NEW", "EVENT_FIRE"}
CallProblem(i, args) ==
    LET given == Given(i, args)  params == Callee(i, args).params IN
    CASE i.name \in {"CALL_METHOD", "CALL_IFACE", "CALL_STATIC"} /\ Entries(i, args) = <<>> -> "missing"
      \* the receiver takes the place of the first parameter
      [] i.name = "CALL_METHOD" /\ Entries(i, args)[1].static   -> "static"
      \* the arguments stay on the stack
      [] i.name = "NEW" /\ Defs[i.sym].ctor = "" /\ args # <<>> -> "left"
      [] Len(given) # Len(params)                               -> "count"
      [] OTHER -> FirstOf([j \in DOMAIN params |-> Misfit(given[j], params[j])])

ReadProblem(want, a) ==
    CASE ~Misreads(want, a) -> "" [] IsNull(a) -> "null" [] OTHER -> "kind"

StaticType(i) == Defs[i.sym].fields[i.arg + 1].type
OnNull(i, args) == \E j \in DOMAIN Reads(i) : Dereferences(Reads(i)[j], args[j])
Problem(i, args) ==
    LET reads == FirstOf([j \in DOMAIN Reads(i) |-> ReadProblem(Reads(i)[j], args[j])]) IN
    CASE reads # ""               -> reads
      [] OnNull(i, args)          -> ""
      [] i.name \in Called        -> CallProblem(i, args)
      [] i.name = "GET_FIELD"     -> IF InSlot(args[1].ty.n, i.arg) = <<>> THEN "missing" ELSE ""
      [] i.name = "SET_FIELD"     -> IF InSlot(args[1].ty.n, i.arg) = <<>> THEN "missing"
                                     ELSE Misfit(args[2], SlotType(args[1].ty, i.arg))
      [] i.name = "ARRAY_SET"     -> Misfit(args[3], args[1].ty.el[1])
      [] i.name = "ARRAY_LIT"     -> FirstOf([j \in DOMAIN args |-> IF InRange(args[j].v, i.sym) THEN "" ELSE "width"])
      [] i.name = "STORE_STATIC"  -> Misfit(args[1], StaticType(i))
      [] i.name = "STORE_LOCAL"   -> IF i.arg \in DOMAIN declared THEN Misfit(args[1], declared[i.arg]) ELSE ""
      [] i.name \in O!Generic     -> IF Compares(args) THEN "" ELSE "generic"
      [] OTHER                    -> ""

\* class_matches_name: the class, its parents and the interfaces they list
RECURSIVE Matches(_, _)
Matches(cls, name) ==
    cls \in DOMAIN Classes
      /\ (cls = name \/ name \in Classes[cls].interfaces \/ Matches(Classes[cls].parent, name))
Numbered == (IntFamily \ {"char"}) \cup FloatFamily \cup {"bool", "string", "array"}
CastFails(i, a) ==
    IF i.kinds[1] = "object" THEN ~(Rep(a) = "object" /\ Matches(a.ty.n, i.sym))
    ELSE IsNull(a) \/ i.kinds[1] \notin Numbered

\* errors the operands are bound to meet, and those their numbers may
MustTrap(i, args) ==
    \/ OnNull(i, args)
    \/ i.name = "AS_TYPE" /\ CastFails(i, args[1])
    \/ i.name = "NULL_ASSERT" /\ IsNull(args[1])
MayTrap(i, args) ==
    MustTrap(i, args) \/ i.name \in {"DIV_INT", "MOD_INT", "ARRAY_GET", "ARRAY_SET"}

(***************************************************************************)
(* What an instruction leaves                                              *)
(***************************************************************************)
Some(kind) == AnyOf(Prim(kind))
Flags == {Val(BoolT, 0), Val(BoolT, 1)}
Flag(b) == {Val(BoolT, IF b THEN 1 ELSE 0)}
OrNull(name) == {NullVal, Val(ObjectT(name), 0)}

PropertyGives(name) ==
    CASE name \in {"name", "kind"}            -> Some("string")
      [] name \in {"index", "paramCount"}     -> Some("int")
      [] name \in {"base", "elementType"}     -> OrNull("Type")
      [] name \in {"type", "returnType"}      -> {Val(ObjectT("Type"), 0)}
      [] OTHER                                -> Flags

Gives(i, args) ==
    CASE i.name = "LOAD_CONST_INT"   -> {Val(IntT, i.arg)}
      [] i.name = "LOAD_CONST_FLOAT" -> Some("float")
      [] i.name = "LOAD_CONST_BOOL"  -> Flag(i.arg # 0)
      [] i.name = "PUSH_NULL"        -> {NullVal}
      [] i.name = "LOAD_THIS"        -> {slots[0]}
      [] i.name = "LOAD_LOCAL"       -> {slots[i.arg]}
      [] i.name = "LOAD_STATIC"      -> AnyOf(StaticType(i))
      [] i.name \in O!IntArith \cup {"NEGATE_INT", "ARRAY_LEN", "F2I"} -> Some("int")
      [] i.name \in O!FloatArith \cup {"NEGATE_FLOAT", "I2F"}          -> Some("float")
      [] i.name \in {"LOAD_CONST_STR", "CONCAT_STR"}                   -> Some("string")
      [] i.name = "TO_STR"           -> IF i.arg < 6 THEN Some("string") ELSE {args[1]}
      [] i.name \in DOMAIN TruncatedTo ->
           {Val(Prim(TruncatedTo[i.name]), Truncated(args[1].v, TruncatedTo[i.name]))}
      [] i.name = "IS_NULL"          -> Flag(IsNull(args[1]))
      [] i.name = "IS_TYPE"          -> Flag(Rep(args[1]) = "object" /\ Matches(args[1].ty.n, i.sym))
      [] i.name \in {"AS_TYPE", "NULL_ASSERT"} -> {args[1]}
      [] i.name \in {"NEW_ARRAY", "ARRAY_LIT"} -> {Val(ArrayT(Prim(i.sym)), 0)}
      [] i.name = "ARRAY_GET"        -> AnyOf(args[1].ty.el[1])
      [] i.name = "GET_FIELD"        -> AnyOf(SlotType(args[1].ty, i.arg))
      [] i.name = "NEW"              -> {Val(NewType(i), 0)}
      [] i.name \in Called           -> AnyOf(Callee(i, args).ret)
      [] i.name = "TYPEOF"           -> {Val(ObjectT("Type"), 0)}
      [] i.name \in DOMAIN ReadsOf /\ i.sym # "" /\ i.name # "TYPE_NAMES" -> PropertyGives(i.sym)
      [] i.name = "TYPE_NAMES"       -> {Val(ArrayT(StringT), 0)}
      [] i.name = "TYPE_GET_FIELD"   -> OrNull("Field")
      [] i.name = "TYPE_GET_METHOD"  -> OrNull("Method")
      [] i.name = "METHOD_PARAM_AT"  -> OrNull("Parameter")
      [] i.name = "TYPE_GET_ATTR_ARG" -> AnyOf(Nullable(StringT))
      [] OTHER                       -> Flags

(***************************************************************************)
(* Steps                                                                   *)
(***************************************************************************)
I == code[pc]
Takes  == O!Machine(I.name, I.n).takes
Leaves == O!Machine(I.name, I.n).leaves
Operands == SubSeq(stack, Len(stack) - Takes + 1, Len(stack))
Rest == SubSeq(stack, 1, Len(stack) - Takes)

At(names) == outcome = "running" /\ pc \in DOMAIN code /\ I.name \in names
Jumps == {"JUMP", "JUMP_IF_FALSE", "JUMP_IF_TRUE", "NULL_COALESCE"}
Runs == outcome = "running" /\ pc \in DOMAIN code /\ I.name \notin {"JUMP", "NULL_COALESCE"}

Stops(how) == outcome' = how /\ UNCHANGED <<code, pc, stack, slots, declared, elemKind>>

Trap == MayTrap(I, Operands) /\ Stops("trapped")

Compute ==
    /\ I.name \notin Jumps /\ ~MustTrap(I, Operands)
    /\ IF Leaves = 0 THEN stack' = Rest
       ELSE \E val \in Gives(I, Operands) : stack' = Append(Rest, val)
    /\ slots' = IF I.name = "STORE_LOCAL" THEN [slots EXCEPT ![I.arg] = Operands[1]] ELSE slots
    /\ elemKind' = IF I.name = "ARRAY_GET" THEN Operands[1].ty.el[1].k ELSE elemKind
    /\ pc' = pc + 1
    /\ UNCHANGED <<code, declared, outcome>>

Branch ==
    /\ I.name \in {"JUMP_IF_FALSE", "JUMP_IF_TRUE"}
    /\ pc' = IF (Operands[1].v # 0) = (I.name = "JUMP_IF_TRUE") THEN I.to ELSE pc + 1
    /\ stack' = Rest
    /\ UNCHANGED <<code, slots, declared, elemKind, outcome>>

GoWrong(problem) == problem # "" /\ Stops(problem)
GoOn(problem)    == problem = "" /\ (Trap \/ Compute \/ Branch)
Instruction == Runs /\ \E problem \in {Problem(I, Operands)} : GoWrong(problem) \/ GoOn(problem)

Jump ==
    /\ At({"JUMP"})
    /\ pc' = I.to
    /\ UNCHANGED <<code, stack, slots, declared, elemKind, outcome>>

Coalesce ==
    /\ At({"NULL_COALESCE"})
    /\ LET top == stack[Len(stack)] IN
       IF IsNull(top) THEN pc' = pc + 1 /\ stack' = SubSeq(stack, 1, Len(stack) - 1)
       ELSE pc' = I.to /\ stack' = stack
    /\ UNCHANGED <<code, slots, declared, elemKind, outcome>>

Finish == outcome = "running" /\ pc = Len(code) + 1 /\ Stops("done")

Step == Instruction \/ Jump \/ Coalesce \/ Finish

Start(chunk, kept, types, kind) ==
    /\ code = chunk /\ pc = 1 /\ stack = <<>> /\ outcome = "running"
    /\ slots = kept /\ declared = types /\ elemKind = kind
=============================================================================
