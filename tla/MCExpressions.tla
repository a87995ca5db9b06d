---------------------------- MODULE MCExpressions ----------------------------
(***************************************************************************)
(* Expressions of one operation over variables of every type, through the  *)
(* pipeline: checked, compiled if the checker accepts them, and run on     *)
(* every value their variables may have.                                   *)
(***************************************************************************)
EXTENDS Checker, TypedExecution, ClassRegistry

\* what the pipeline makes of each program
CONSTANT Pipeline

VARIABLES prog, checked, verdict
vars == <<prog, checked, verdict, machine>>

(***************************************************************************)
(* The declarations.  R re-declares a field of A; Box is generic.          *)
(***************************************************************************)
Nothing == [x \in {} |-> x]
Color == EnumT("Color")
Char == Prim("char")
Byte == Prim("byte")
FloatT == Prim("float")
T == ObjectT("T")

P(name, type) == [name |-> name, type |-> type, default |-> <<>>]
POr(name, type, n) == [P(name, type) EXCEPT !.default = <<[Node("int", "", <<>>) EXCEPT !.v = n, !.ty = IntT]>>]
F(name, type) == [name |-> name, type |-> type, access |-> "public", static |-> FALSE, final |-> FALSE, init |-> <<>>]
M(name, params, ret) == [name |-> name, params |-> params, ret |-> ret, access |-> "public", static |-> FALSE,
                          operator |-> FALSE]
Operator(member) == [member EXCEPT !.operator = TRUE]
OfTheClass(member) == [member EXCEPT !.static = TRUE]
Private(member) == [member EXCEPT !.access = "private"]
Plain == [parent |-> "", pargs |-> <<>>, tparams |-> <<>>, constraints |-> Nothing, interfaces |-> {},
          fields |-> <<>>, methods |-> <<>>, ctor |-> <<>>, events |-> Nothing, lib |-> FALSE]

MCClasses ==
    LET A == [Plain EXCEPT
              !.interfaces = {"Shape"},
              !.fields = <<F("count", IntT), F("size", Byte), F("title", Nullable(StringT)),
                           Private(F("own", IntT)), OfTheClass(F("total", Byte))>>,
              !.methods = <<M("area", <<>>, FloatT), M("m", <<P("n", Byte), POr("d", Byte, 300)>>, IntT),
                            OfTheClass(M("s", <<P("n", Byte)>>, Byte)), Operator(M("op_add", <<P("o", ObjectT("A"))>>, ObjectT("A"))),
                            M("op_div", <<P("o", ObjectT("A"))>>, ObjectT("A")),
                            Private(M("hidden", <<>>, IntT))>>,
              !.ctor = <<[params |-> <<P("n", Byte)>>]>>,
              !.events = [changed |-> <<IntT>>]]
        B == [Plain EXCEPT !.parent = "A", !.fields = <<F("extra", StringT)>>,
                         !.methods = <<M("area", <<>>, FloatT)>>]
        R == [Plain EXCEPT !.parent = "A", !.fields = <<F("count", StringT)>>]
        Box == [Plain EXCEPT !.tparams = <<"T">>, !.constraints = [T |-> ""],
                           !.fields = <<F("item", T), F("items", ArrayT(T))>>,
                           !.methods = <<M("get", <<P("i", IntT)>>, T), M("set", <<P("i", IntT), P("v", T)>>, VoidT)>>]
        IntBox == [Plain EXCEPT !.parent = "Box", !.pargs = <<IntT>>, !.fields = <<F("n", IntT)>>]
    IN [A |-> A, B |-> B, R |-> R, Box |-> Box, IntBox |-> IntBox]
MCOrder == <<"A", "B", "R", "Box", "IntBox">>
MCIfaces ==
    LET shape == [parent |-> "", methods |-> <<M("area", <<>>, FloatT)>>, tparams |-> <<>>, lib |-> FALSE]
    IN [Shape |-> shape]
MCEnums == [Color |-> [red |-> 0, blue |-> 1]]
Fn(params, ret) == [params |-> params, ret |-> ret, tparams |-> <<>>, constraints |-> Nothing, extends |-> <<>>]
MCFunctions ==
    LET f    == Fn(<<P("n", Byte), POr("d", Byte, 300)>>, Byte)
        id   == [Fn(<<P("v", T)>>, T) EXCEPT !.tparams = <<"T">>, !.constraints = [T |-> ""]]
        h    == Fn(<<P("n", IntT)>>, IntT)
        show == Fn(<<P("v", AnyT)>>, VoidT)
        len  == [Fn(<<P("s", StringT)>>, IntT) EXCEPT !.extends = <<"String", "len">>]
    IN [f |-> f, id |-> id, h |-> h, show |-> show, len |-> len]
MCEvents == [tick |-> <<IntT>>]

(***************************************************************************)
(* The places an expression can stand in                                   *)
(***************************************************************************)
Shared == [i |-> IntT, y |-> Byte, c |-> Char, fl |-> FloatT, o |-> BoolT, s |-> StringT, e |-> Color,
           ni |-> Nullable(IntT), ny |-> Nullable(Byte), ns |-> Nullable(StringT), z |-> AnyT,
           a |-> ObjectT("A"), b |-> ObjectT("B"), r |-> ObjectT("R"), na |-> Nullable(ObjectT("A")), sh |-> ObjectT("Shape"),
           bi |-> GenericT("Box", <<IntT>>), bs |-> GenericT("Box", <<StringT>>), ib |-> ObjectT("IntBox"),
           ai |-> ArrayT(IntT), ay |-> ArrayT(Byte), as |-> ArrayT(StringT), t |-> ObjectT("Type")]
Env(cls, static, locals) == [locals |-> locals, cls |-> cls, static |-> static, ctor |-> FALSE,
                             constraints |-> Nothing, stale |-> ""]
Envs == [inB   |-> Env("B", FALSE, Shared),
         asA   |-> Env("A", TRUE, Shared),
         inBox |-> [Env("Box", FALSE, Shared @@ ("p" :> T) @@ ("tick" :> IntT)) EXCEPT !.constraints = [T |-> ""]],
         ctor  |-> [Env("B", FALSE, Shared) EXCEPT !.ctor = TRUE]]

(***************************************************************************)
(* The expressions: where it stands, its kind, a name, a type, and its     *)
(* operands: variables, literals or names of types.                        *)
(***************************************************************************)
Listed == <<"i", "y", "c", "fl", "o", "s", "e", "ni", "ny", "ns", "z", "a", "b", "r", "na", "sh", "bi", "bs", "ib",
            "ai", "ay", "as", "t", "p", "tick">>
Variables == DOMAIN Shared
Atoms == Variables \cup {"300", "null", "this", "A", "Color"}
AtomOf(name) ==
    CASE name = "300"  -> [Node("int", "", <<>>) EXCEPT !.v = 300]
      [] name \in {"null", "this"} -> Node(name, "", <<>>)
      [] OTHER         -> Node("ident", name, <<>>)
TypeNamed == Shared @@ [none |-> VoidT, T |-> T]

Program(env, kinds, names, types, operands) ==
    [env : {env}, stale : {""}, e : kinds, n : names, t : types, k : operands]
InB(kind, names, operands)      == Program("inB", {kind}, names, {"none"}, operands)
ToType(kind, types, operands)   == Program("inB", {kind}, {""}, types, operands)

Operators == {"+", "/", "<", "==", "!=", "&&"}
Each(set) == {<<x>> : x \in set}
Pairs == Atoms \X Atoms
Given1 == {<<>>, <<"i">>, <<"y">>, <<"s">>, <<"null">>, <<"i", "i">>, <<"i", "s">>, <<"a">>}
On(set, args) == {<<x>> \o given : x \in set, given \in args}

Computations ==
    InB("unary", {"-", "!"}, Each(Atoms))
      \cup InB("binary", Operators, Pairs)
      \cup InB("ternary", {""}, {"o", "z", "i"} \X Atoms \X {"i", "s", "a", "null", "y"})
      \cup InB("null_coalesce", {""}, Pairs)
      \cup InB("null_assert", {""}, Each(Atoms))
      \cup InB("interp", {""}, {<<>>} \cup Each(Atoms) \cup ({"s"} \X Atoms))
      \cup ToType("as", DOMAIN TypeNamed, Each(Atoms))
      \cup ToType("is", DOMAIN TypeNamed, Each(Atoms))
      \cup ToType("new_array", DOMAIN TypeNamed, Each({"i", "y", "s"}))
      \cup InB("typeof", {""}, Each(Atoms))
      \cup InB("type", {"int", "A", "nowhere"}, {<<>>})
      \cup InB("array_lit", {""}, Each(Atoms) \cup Pairs)

Accesses ==
    InB("ident", Variables \cup {"count", "total", "f", "tick", "A"}, {<<>>})
      \cup InB("assign", Variables \cup {"count", "total", "nowhere"}, Each(Atoms))
      \cup InB("postfix", Variables \cup {"count", "total"}, {<<>>})
      \cup InB("postfix", {"count", "size", "total", "own"}, Each({"a", "b", "r", "A", "na"}))
      \cup InB("field_get", {"count", "size", "title", "own", "total", "item", "items", "extra", "length", "class",
                             "name", "base", "red", "MaxValue"}, Each(Atoms))
      \cup InB("field_set", {"count", "size", "title", "own", "total", "item"}, Pairs)
      \cup InB("null_safe_get", {"count", "size", "title", "total", "extra"}, Each(Atoms))

\* with whatever class named in the buffer
Stale == {"", "A", "Box"}
Subscripts ==
    {[p EXCEPT !.stale = stale] : stale \in Stale,
       p \in InB("index", {""}, Atoms \X {"i", "y", "s"}) \cup InB("index_assign", {""}, Atoms \X {"i", "s"} \X Atoms)}

Calls ==
    InB("method_call", {"area", "m", "s", "hidden", "get", "set", "len"}, On(Atoms, Given1))
      \cup InB("method_call", {"isInstance", "isAssignableFrom", "hasAttribute", "getAttributeArg", "getField", "fields"},
               On({"t", "a"}, Given1 \cup {<<"t">>, <<"s", "i">>}))
      \cup InB("null_safe_call", {"area", "m", "s"}, On({"na", "a", "z", "ns"}, Given1))
      \cup InB("call", {"f", "id", "h", "show", "area", "m", "tick", "changed", "s", "nowhere"}, Given1)
      \cup Program("inB", {"call"}, {"id"}, {"bi", "bs"}, Given1)
      \cup Program("inB", {"new"}, {"A", "B", "R", "Box", "IntBox", "Shape"}, {"none", "bi", "a"}, Given1)
      \cup Program("inB", {"subscribe", "unsubscribe"}, {"tick", "changed", "i"}, {"none"}, {<<>>, <<"a">>, <<"b">>})
      \cup Program("ctor", {"super"}, {""}, {"none"}, Given1)

\* in a static method, and in a method of a generic class
Elsewhere ==
    Program("asA", {"ident", "postfix"}, {"count", "total", "i"}, {"none"}, {<<>>})
      \cup Program("asA", {"assign"}, {"count", "total", "i"}, {"none"}, Each({"i", "s"}))
      \cup Program("asA", {"call"}, {"m", "s"}, {"none"}, {<<>>, <<"i">>, <<"s">>})
      \cup Program("asA", {"this"}, {""}, {"none"}, {<<>>})
      \cup Program("inBox", {"binary"}, Operators, {"none"}, ({"p"} \X Atoms) \cup (Atoms \X {"p"}))
      \cup Program("inBox", {"assign"}, {"item", "p", "i", "z"}, {"none"}, Each({"p", "i", "s"}))
      \cup Program("inBox", {"new_array", "is", "as"}, {""}, {"T", "i", "a"}, Each({"p", "i"}))
      \cup Program("inBox", {"interp", "array_lit", "typeof"}, {""}, {"none"}, {<<"p">>, <<"p", "i">>})
      \cup Program("inBox", {"ident"}, {"item", "items", "p"}, {"none"}, {<<>>})
      \cup Program("inBox", {"call"}, {"get", "set", "f", "tick"}, {"none"}, {<<>>, <<"i">>, <<"p">>, <<"i", "p">>, <<"i", "s">>})

Programs == Computations \cup Accesses \cup Subscripts \cup Calls \cup Elsewhere

X(p) ==
    LET x == [Node(p.e, p.n, [j \in DOMAIN p.k |-> AtomOf(p.k[j])]) EXCEPT !.t = TypeNamed[p.t]] IN
    CASE p.e \in {"subscribe", "unsubscribe"} -> [x EXCEPT !.c = IF p.k = <<>> THEN "h" ELSE "area"]
      [] p.e = "postfix"                      -> [x EXCEPT !.v = 1]
      [] OTHER                                -> x

(***************************************************************************)
(* Checked, compiled, and run                                              *)
(***************************************************************************)
EnvOf(p) == [Envs[p.env] EXCEPT !.stale = p.stale]
Locals(env) == (IF env.static THEN <<>> ELSE <<"this">>) \o SelectSeq(Listed, LAMBDA name : name \in DOMAIN env.locals)
TypeAt(env, j) == IF Locals(env)[j] = "this" THEN ObjectT(env.cls) ELSE env.locals[Locals(env)[j]]
Chunk(p, x) == CompileExpr(FoldLeft(DeclareLocal, [Fresh EXCEPT !.cls = EnvOf(p).cls], Locals(EnvOf(p))), x)
MCPipeline ==
    LET verdictOn(x, c) == CASE ~Accepted(x) -> "refused" [] c.errors # {} -> "error" [] OTHER -> "compiled"
        made(p, x, c) == [prog |-> p, checked |-> x, verdict |-> verdictOn(x, c),
                          code |-> IF verdictOn(x, c) = "compiled" THEN c.code ELSE <<>>]
        through(p, x) == made(p, x, IF Accepted(x) THEN Chunk(p, x) ELSE Fresh)
    IN {through(p, Check(EnvOf(p), X(p))) : p \in Programs}

\* the variables an expression mentions have any value of their types
Mentions(p, name) == name = "this" \/ name = p.n \/ \E m \in DOMAIN p.k : p.k[m] = name
Values == LET types == {Envs[e].locals[x] : e \in DOMAIN Envs, x \in Variables} \cup {ObjectT("A"), ObjectT("B"), T, ObjectT("Box")}
          IN [type \in types |-> AnyOf(type)]
Frames(p) ==
    LET env == EnvOf(p)
        with(frames, j) == IF Mentions(p, Locals(env)[j])
                           THEN {g @@ (j :> v) : g \in frames, v \in Values[TypeAt(env, j)]} ELSE frames
    IN FoldLeft(with, {[j \in {} |-> NullVal]}, [j \in DOMAIN Locals(env) |-> j])

MaxSlots == 30
Init ==
    \E made \in Pipeline :
      /\ prog = made.prog /\ checked = made.checked /\ verdict = made.verdict
      /\ \E g \in IF made.verdict = "compiled" THEN Frames(made.prog) ELSE {<<>>} :
           Start(made.code,
                 [j \in 0..MaxSlots |-> IF j + 1 \in DOMAIN g THEN g[j + 1] ELSE NullVal],
                 [j \in 0..(Len(Locals(EnvOf(made.prog))) - 1) |-> TypeAt(EnvOf(made.prog), j + 1)],
                 "int")

Next == verdict = "compiled" /\ Step /\ UNCHANGED <<prog, checked, verdict>>
Spec == Init /\ [][Next]_vars

(***************************************************************************)
(* What the checker lets through and the generator does not make up for:   *)
(* the language's loose ends, each by its name, and what it leads to.      *)
(***************************************************************************)
Parts == {checked} \cup {checked.k[j] : j \in DOMAIN checked.k}
Kind(j) == checked.k[j].ty.k
Is(kind, names) == checked.e = kind /\ checked.n \in names

\* an int? is taken for an int, and a null for any number's default
MaybeNull == \E y \in Parts : y.ty.opt \/ y.ty.k = "null"
\* a value of type any or of a type parameter is taken for whatever is asked
Anything == \E y \in Parts : Opaquely(y.ty)
\* a reference is put to text, or compared, as a bool
AsBool == (checked.e = "interp" \/ Is("binary", {"+", "==", "!="}) \/ Is("call", {"show"}))
            /\ \E j \in DOMAIN checked.k : Kind(j) \in {"object", "array"}
\* a byte is negated as a float
Negative == Is("unary", {"-"}) /\ checked.ty.k # "int"
\* arguments that are matched with no parameters
Unmatched ==
    \/ checked.e \in {"static_call", "new", "subscript", "subscript_set", "super", "null_safe_call"}
    \/ Is("method_call", {"getField", "hasAttribute", "isAssignableFrom", "getAttributeArg"})
    \/ Is("method_call", {"s"})
    \/ Is("call", {"len"})
\* the elements of an array literal are not made as narrow as the first of them
Untruncated == checked.e = "array_lit"
\* Box<int> and Box<string>, int[] and byte[] are one type to assign
OtherArguments == checked.e \in {"assign", "field_set"} /\ \E y \in Parts : y.ty.args # <<>> \/ y.ty.k = "array"
\* the field of a class and the one its child declares again have one slot
Redeclared == checked.e \in {"field_get", "field_set"} /\ checked.n = "count" /\ checked.k[1].ty.n = "R"
\* == null drops the operand that is not the literal
NullFirst == Is("binary", {"==", "!="}) /\ Kind(1) = "null"
\* the branches of a choice are of one kind, whatever their classes
Branches == checked.e = "ternary"

\* a static field is looked for among the slots of an instance
StaticField == checked.e \in {"field_get", "field_set", "postfix", "null_safe_get"} /\ checked.n = "total"
\* the name of a class, an enum or an event stands for a value
NotAVariable == \E y \in Parts : y.e = "type" \/ (y.e = "ident" /\ y.n \notin Variables \cup {"p"})
\* the field of a Box<int> is looked for in a class called Box<int>
GenericField == checked.e = "field_get" /\ checked.k[1].ty.args # <<>>
\* x[i] is taken for a call of a method that another class has
OtherClass == checked.e \in {"subscript", "subscript_set"} /\ checked.k[1].ty.args = <<>>

LeadsTo ==
    [null |-> MaybeNull, kind |-> Anything \/ AsBool \/ Negative \/ Unmatched,
     misfit |-> MaybeNull \/ Anything \/ Unmatched \/ OtherArguments \/ Redeclared,
     width |-> Untruncated \/ Unmatched, count |-> Unmatched, left |-> Unmatched, static |-> Unmatched,
     generic |-> NullFirst, missing |-> StaticField]

HasValue == checked.e \notin {"super", "subscribe", "unsubscribe", "fire"}
Done == verdict = "compiled" /\ outcome = "done"

(***************************************************************************)
(* Properties                                                              *)
(***************************************************************************)
\* What the checker accepts the generator has code for, but for static fields reached through
\* an instance, names that are no variables, fields of an instance of a generic class, and a[i]
\* where the class of a is looked up by a name left over from another subscript.
AcceptedCompiles == verdict = "error" => StaticField \/ NotAVariable \/ GenericField \/ OtherClass

\* A program the checker accepts never has an instruction read an operand as something else, a
\* narrow variable hold more than its width, a call the wrong number of arguments or a member
\* of another type, but for the loose ends above: README.md's "strongly-typed".
Sound == outcome \in {"running", "done", "trapped"} \/ LeadsTo[outcome]

\* An expression leaves exactly one value, a statement's expression none, whatever path it took;
\* only obj[i] = v leaves the value that its call of set returned.
OneValue == Done /\ checked.e # "subscript_set" => Len(stack) = IF HasValue THEN 1 ELSE 0

\* The value an expression leaves is of the type the checker has written on it.
WellTyped ==
    Done /\ HasValue /\ checked.e # "as" /\ ~(MaybeNull \/ Redeclared \/ Branches \/ Anything)
      => Agrees(stack[Len(stack)], checked.ty)

\* "push the stored value back so the expression has a result (consistent with array ARRAY_SET
\* behaviour)": an assignment to an element leaves one value, whether an array's or a list's.
SubscriptLeavesOne == Done /\ checked.e \in {"index_assign", "subscript_set"} => Len(stack) = 1
=============================================================================
