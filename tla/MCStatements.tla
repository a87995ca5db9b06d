---------------------------- MODULE MCStatements ----------------------------
(***************************************************************************)
(* Bodies of methods, checked, compiled, verified and run: two nested      *)
(* statements of every kind around a third, and sequences of three,        *)
(* between the declaration of a variable and its last use; constructors    *)
(* with field initialisers before them, and bodies longer than a jump.     *)
(***************************************************************************)
EXTENDS CheckerStmts, CodeGen, ClassRegistry, Execution

\* Pipeline is what each body becomes: the checker's complaints, the chunk, the verifier's word
CONSTANTS StackMax, Pipeline

M == INSTANCE Meaning
O == INSTANCE Opcodes
D == INSTANCE DepthRounds

VARIABLES prog, verdict
vars == <<prog, verdict, machine>>

MCParentOf == [Exception |-> "Object", A |-> "Exception", B |-> "Exception"]

(***************************************************************************)
(* The declarations: exceptions, three collections for foreach, and two    *)
(* classes with initialisers                                               *)
(***************************************************************************)
Nothing == [x \in {} |-> x]
Method(name, ret) == [name |-> name, params |-> <<>>, ret |-> ret, access |-> "public", static |-> FALSE,
                      operator |-> FALSE]
Num(n)   == [Node("int", "", <<>>) EXCEPT !.v = n]
Host(k)  == Node("call", "h", <<Num(k)>>)
Field(name, init) == [name |-> name, type |-> IntT, access |-> "public", static |-> FALSE, init |-> init]
Plain == [parent |-> "", pargs |-> <<>>, tparams |-> <<>>, constraints |-> Nothing, interfaces |-> {},
          fields |-> <<>>, methods |-> <<>>, ctor |-> <<>>, events |-> Nothing, lib |-> FALSE]
MCClasses ==
    LET a == [Plain EXCEPT !.parent = "Exception"]
        range == [Plain EXCEPT !.interfaces = {"IEnumerable"}, !.methods = <<Method("getEnumerator", ObjectT("Walker"))>>]
        walker == [Plain EXCEPT !.methods = <<Method("moveNext", BoolT), Method("current", IntT)>>]
        bag == [Plain EXCEPT !.methods = <<Method("toArray", ArrayT(IntT))>>]
        base == [Plain EXCEPT !.fields = <<Field("first", <<Host(51)>>), [Field("shared", <<Num(50)>>) EXCEPT !.static = TRUE],
                                           Field("none", <<>>), Field("second", <<Num(52)>>)>>]
        derived == [Plain EXCEPT !.parent = "Base", !.fields = <<Field("other", <<Num(53)>>), Field("more", <<Num(54)>>)>>]
    IN [Exception |-> Plain, A |-> a, B |-> a, Range |-> range, Walker |-> walker, Bag |-> bag,
        Base |-> base, Derived |-> derived]
MCOrder == <<"Exception", "A", "B", "Range", "Walker", "Bag", "Base", "Derived">>

Takes(type, ret) ==
    [params |-> <<[name |-> "n", type |-> type, default |-> <<>>]>>, ret |-> ret, tparams |-> <<>>,
     constraints |-> Nothing, extends |-> <<>>]
MCFunctions ==
    LET h == Takes(IntT, IntT) IN
    [h |-> h, mark |-> h, ask |-> Takes(IntT, BoolT), show |-> h, showS |-> Takes(StringT, IntT),
     showF |-> Takes(Prim("float"), IntT), showE |-> Takes(ObjectT("Exception"), IntT),
     showA |-> Takes(ObjectT("A"), IntT), showB |-> Takes(BoolT, IntT)]

\* what the collections' methods return, and the functions that only hear
Silent == {"mark", "show", "showS", "showF", "showE", "showA", "showB"}
MCMakes == [getEnumerator |-> Object("Walker"), toArray |-> ArrayVal(2)] @@ [fn \in Silent |-> IntVal(0)]
MCSlots == [cls \in {"Range", "Walker", "Bag"} |-> [m \in DOMAIN Defs[cls].methods |-> Defs[cls].methods[m].name]]

(***************************************************************************)
(* The statements.  A call of the host carries a mark, or a variable.      *)
(***************************************************************************)
Text(n)  == [Node("string", "", <<>>) EXCEPT !.v = n]
Local(x) == Node("ident", x, <<>>)
Ask(k)   == Node("call", "ask", <<Num(k)>>)
Do(x)    == [s |-> "expr", expr |-> x]
ShowAs(fn, x) == Do(Node("call", fn, <<Local(x)>>))
Show(x)  == ShowAs("show", x)
Mark(k)  == Do(Node("call", "mark", <<Num(k)>>))
Tick(k)  == Do(Host(k))
Set(x, k) == Do(Node("assign", x, <<Host(k)>>))
VarOf(type, x, init) == [s |-> "var", type |-> type, name |-> x, init |-> init]
Var(x, k) == VarOf(IntT, x, <<Host(k)>>)
BlockOf(body) == [s |-> "block", body |-> body]
Throw_(k) == [s |-> "throw", value |-> Node("new", k, <<>>)]
Arm(n, body)  == [default |-> FALSE, pattern |-> Num(n), body |-> body]
Default(body) == [default |-> TRUE, pattern |-> Num(0), body |-> body]
Break == [s |-> "break"]
While(cond, body) == [s |-> "while", cond |-> cond, body |-> body]
Foreach(over, body) ==
    [s |-> "foreach", type |-> IntT, name |-> "x", array |-> over, body |-> <<Show("x")>> \o body]
\* a parameter of a class takes no object of a class under it
ShowFor == [A |-> "showA", Exception |-> "showE"]
Catch(type, body) == [type |-> type, name |-> "e", body |-> <<ShowAs(ShowFor[type], "e")>> \o body]
TryStmt(body, catches, finally) == [s |-> "try", body |-> body, catches |-> catches, finally |-> finally]
MatchOn(arms) == [s |-> "match", subject |-> Host(30), arms |-> arms]
If_(then, else) == [s |-> "if", cond |-> Ask(10), then |-> then, else |-> else]

Leaves == {"mark", "break", "continue", "return", "result", "throwA", "throwB", "set", "spin", "again",
           "zeroes", "byte", "unset", "deep", "bag"}
Leaf(name) ==
    CASE name = "mark"     -> <<Mark(1)>>
      [] name = "break"    -> <<Break>>
      [] name = "continue" -> <<[s |-> "continue"]>>
      [] name = "return"   -> <<[s |-> "return", value |-> <<>>]>>
      [] name = "result"   -> <<[s |-> "return", value |-> <<Local("x")>>]>>
      [] name = "throwA"   -> <<Throw_("A")>>
      [] name = "throwB"   -> <<Throw_("B")>>
      [] name = "set"      -> <<Set("x", 2)>>
      [] name = "spin"     -> <<While(Ask(3), <<Break>>)>>
      [] name = "zeroes"   -> <<VarOf(Prim("float"), "z", <<>>), ShowAs("showF", "z"),
                                VarOf(StringT, "s", <<>>), ShowAs("showS", "s"),
                                VarOf(BoolT, "b", <<>>), ShowAs("showB", "b")>>
      [] name = "byte"     -> <<VarOf(Prim("byte"), "z", <<Num(300)>>), Show("z")>>
      \* a local of a class, left without a value
      [] name = "unset"    -> <<VarOf(ObjectT("A"), "o", <<>>)>>
      \* a second declaration, in the same scope or not
      [] name = "again"    -> <<VarOf(IntT, "x", <<Num(6)>>), Show("x")>>
      [] name = "deep"     -> <<BlockOf(<<BlockOf(<<Mark(4)>>)>>)>>
      [] name = "bag"      -> <<Foreach(Node("new", "Bag", <<>>), <<>>)>>

Shapes == {"block", "if", "else", "while", "for", "forever", "foreach", "range", "arm", "fallsInto",
           "default", "try", "catch", "catches", "finally", "shadow", "mixed"}
Loops == {"while", "for", "forever", "foreach", "range"}
Matches == {"arm", "fallsInto", "default"}
Shadow(hole, last) == BlockOf(<<VarOf(StringT, "x", <<Text(0)>>)>> \o hole \o <<last>>)
Shape(name, hole) ==
    CASE name = "block"   -> BlockOf(<<VarOf(IntT, "y", <<>>)>> \o hole \o <<Show("y")>>)
      [] name = "if"      -> If_(hole, <<>>)
      [] name = "else"    -> If_(<<Mark(11)>>, <<hole>>)
      [] name = "while"   -> While(Ask(20), hole)
      [] name = "for"     -> [s |-> "for", init |-> <<VarOf(IntT, "x", <<Num(21)>>)>>, cond |-> <<Ask(22)>>,
                              step |-> <<Host(23)>>, body |-> hole]
      [] name = "forever" -> [s |-> "for", init |-> <<>>, cond |-> <<>>, step |-> <<>>,
                              body |-> <<Tick(24)>> \o hole]
      [] name = "foreach" -> Foreach([Node("new_array", "", <<Num(2)>>) EXCEPT !.t = IntT], hole)
      [] name = "range"   -> Foreach(Node("new", "Range", <<>>), hole)
      [] name = "arm"     -> MatchOn(<<Arm(0, hole \o <<Break>>), Arm(1, <<Mark(31), Break>>)>>)
      [] name = "fallsInto" -> MatchOn(<<Arm(0, <<Mark(32)>>), Arm(1, hole)>>)
      [] name = "default" -> MatchOn(<<Arm(1, hole), Default(<<Mark(33)>>)>>)
      [] name = "try"     -> TryStmt(hole, <<Catch("A", <<Mark(40)>>)>>, <<>>)
      [] name = "catch"   -> TryStmt(<<Throw_("A")>>, <<Catch("A", hole)>>, <<>>)
      [] name = "catches" -> TryStmt(hole, <<Catch("A", <<Mark(41)>>), Catch("Exception", <<Mark(42)>>)>>, <<>>)
      [] name = "finally" -> TryStmt(hole, <<Catch("Exception", <<>>)>>, <<<<Mark(43)>>>>)
      \* a string called x, last used as what it is or as the int outside
      [] name = "shadow"  -> Shadow(hole, ShowAs("showS", "x"))
      [] name = "mixed"   -> Shadow(hole, Show("x"))

Outer     == Shapes \ {"block", "if", "default"}
\* what leads away at every place, the rest at some
Ways      == {"mark", "break", "continue", "return", "throwA", "throwB"}
Around    == {"while", "for", "foreach", "arm", "catch", "shadow"}
Amid      == Shapes \ {"if", "else", "forever", "range", "default", "fallsInto", "catches", "mixed"}
Nested    == (Outer \X Shapes \X Ways) \cup (Around \X Amid \X Leaves)
InARow    == {<<a, b, "mark">> : a, b \in {"foreach", "while", "arm", "try", "block"}}
LeavesTry == Loops \X {"try", "catches"} \X {"break", "continue", "mark"}
AtTheEnd(leaves) == {p \in (Around \cup {"else", "finally"}) \X Shapes \X leaves : p[1] # p[2]}
\* the second of the two is filling: more instructions than a jump can pass over
TooLong   == (Shapes \ {"block", "shadow", "mixed"}) \X {"filling"} \X {"break", "continue", "mark"}
Wrapped   == {"forever"} \X {"filling"} \X {"continue", "mark"}
Few       == {"while", "catches", "arm"} \X {"block", "try"} \X {"mark", "result", "return", "throwB"}
\* chance: does the last operand's byte happen to be the number of RETURN_VOID?
Bodies(how, of, last, ret, chance) ==
    [how : how, of : of, last : last, ret : {ret}, chance : {chance}]
Programs == Bodies({"nested"}, Nested, {"show"}, "void", FALSE)
              \cup Bodies({"nested"}, AtTheEnd({"mark", "continue"}), {"nothing"}, "int", TRUE)
              \cup Bodies({"nested"}, AtTheEnd({"result", "throwA"}), {"nothing"}, "int", FALSE)
              \cup Bodies({"nested"}, LeavesTry, {"throw"}, "void", FALSE)
              \cup Bodies({"row"}, InARow, {"show"}, "void", FALSE)
              \cup Bodies({"static", "ctor", "derived"}, Few, {"show"}, "void", FALSE)
              \cup Bodies({"ctor"}, {<<"while", "block", "mark">>}, {"alone"}, "void", TRUE)
              \cup Bodies({"long"}, TooLong, {"show"}, "void", FALSE)
              \cup Bodies({"long"}, Wrapped, {"filling"}, "void", FALSE)

Filling == [k \in 1..34 |-> Do(Num(k))]
Inside(p) ==
    CASE p.how = "row"  -> <<Shape(p.of[1], <<Mark(1)>>), Shape(p.of[2], <<Mark(2)>>), Shape(p.of[1], <<Mark(1)>>)>>
      [] p.how = "long" -> <<Shape(p.of[1], Leaf(p.of[3]) \o Filling)>>
      [] OTHER          -> <<Shape(p.of[1], <<Shape(p.of[2], Leaf(p.of[3]))>>)>>
Final(p) == CASE p.last = "show"    -> <<Show("x"), Show("p")>>
              [] p.last = "throw"   -> <<Throw_("A")>>
              [] p.last = "filling" -> <<Mark(5)>> \o Filling
              [] OTHER              -> <<>>
\* nothing at all, or a variable and what follows
Body(p) == IF p.last = "alone" THEN <<>> ELSE <<VarOf(IntT, "x", <<Num(5)>>)>> \o Inside(p) \o Final(p)

\* names a statement has in scope around its hole, and scopes
Width(name) == CASE name \in {"block", "for", "catch", "shadow", "mixed"} \cup Matches -> 1
                 [] name \in {"range", "bag", "zeroes"} -> 2
                 [] name = "foreach" -> 3
                 [] OTHER -> 0
NamesInScope(p) == 4 + Width(p.of[1]) + Width(p.of[2]) + Width(p.of[3])
Depth(name) == CASE name \in {"for", "forever", "foreach", "range", "catch", "bag", "deep"} -> 2
                 [] name \in Shapes \cup {"spin"} -> 1
                 [] OTHER -> 0
\* loops and matches
Levels(p) == Cardinality({k \in 1..3 : p.of[k] \in Loops \cup Matches \cup {"spin", "bag"}})
ScopesOf(p) == 3 + Depth(p.of[1]) + Depth(p.of[2]) + Depth(p.of[3])

Params == <<[name |-> "p", type |-> IntT]>>
Argument == IntVal(7)
ClassOf(p) == CASE p.how = "ctor" -> "Base" [] p.how = "derived" -> "Derived" [] OTHER -> "Bag"
MethodFor(p) == [cls |-> ClassOf(p), static |-> p.how = "static", ctor |-> p.how \in {"ctor", "derived"},
                params |-> Params, ret |-> IF p.ret = "int" THEN IntT ELSE VoidT]

(***************************************************************************)
(* Check, compile, verify, run                                             *)
(***************************************************************************)
SeenCode(c) == [k \in DOMAIN c |-> O!Seen(c[k].name, c[k].n, c[k].to)]
Jumps(c) == {c[k].to : k \in {j \in DOMAIN c : c[j].to # 0}}
SlotsOf(c) == {c[k].arg : k \in {j \in DOMAIN c : c[j].name \in {"LOAD_LOCAL", "STORE_LOCAL"}}}
Verifies(c) ==
    LET seen == SeenCode(c) IN
    /\ Jumps(c) \subseteq DOMAIN c
    /\ \A k \in SlotsOf(c) : k < FrameSlots
    /\ D!AcceptedBy(seen, StackMax)

Verdict(errs, c) ==
    CASE errs # {}    -> "rejected" [] c.errors # {} -> "error" [] c.overrun -> "overrun"
      [] errs = {} /\ c.errors = {} /\ ~c.overrun /\ Verifies(c.code) -> "accepted"
      [] OTHER -> "refused"

MCPipeline ==
    LET made(p, errs, c) == [prog |-> p, code |-> IF errs = {} THEN c.code ELSE <<>>, verdict |-> Verdict(errs, c)]
        compiled(p, body) == IF body.errs # {} THEN Fresh ELSE CompileMethod(MethodFor(p), body.st, p.chance)
        through(p, body) == made(p, body.errs, compiled(p, body))
    IN {through(p, CheckMethod(MethodFor(p), Body(p))) : p \in Programs}

Init ==
    \E made \in Pipeline :
      LET m == MethodFor(made.prog)  this == IF m.static THEN <<>> ELSE <<Object(m.cls)>> IN
      /\ prog = made.prog /\ verdict = made.verdict
      /\ Start(made.code, this \o <<Argument>>, NextSlot(Defs[m.cls].fields))

Next == verdict = "accepted" /\ Step /\ UNCHANGED <<prog, verdict>>

Spec == Init /\ [][Next]_vars /\ WF_vars(Next)

(***************************************************************************)
(* Properties                                                              *)
(***************************************************************************)
TypeOK ==
    /\ pc \in 1..(Len(code) + 1) /\ DOMAIN slots = 0..(FrameSlots - 1)
    /\ Len(stack) <= StackMax /\ Len(heard) <= AnswersMax
    /\ \A k \in DOMAIN handlers : handlers[k].to \in DOMAIN code
    /\ verdict \in {"rejected", "accepted", "refused", "error", "overrun"}
    /\ outcome.how # "running" => stack = <<>> /\ handlers = <<>>

\* A jump whose 16 bits cannot hold its distance: no loop without a condition is tested
\* for that, where its body is left neither by a jump beyond it nor entered by one.
Wraps == prog.how = "long" /\ prog.of[1] = "forever"

Runs == verdict = "accepted" /\ ~Wraps

\* An implicit return left out although a jump, or what a constructor begins with, leads
\* past the chunk's end: a last byte was taken for a RETURN_VOID at the end of every path.
ReturnLeftOut ==
    \/ \E k \in DOMAIN code : code[k].to = Len(code) + 1
    \/ code # <<>> /\ code[Len(code)].name = "SET_FIELD"

\* An own field is sought among the inherited ones, and its value put into one of those.
Misplaced == prog.how = "derived"

\* More slots than a frame has, although no more names were ever in scope: closed
\* scopes give none back.
SlotsUsedUp == \E k \in SlotsOf(code) : k >= FrameSlots

\* A local of a class without a value: nothing is pushed for it to be stored.
LeftUnset == prog.of[3] = "unset"

\* More scopes than the checker's table holds: the innermost are taken for one, and
\* closing them closes those around them.
ScopesUsedUp == ScopesOf(prog) > MaxScopeDepth

\* A body the checker accepts compiles and passes the verifier: no statement leaves
\* its jumps unpatched, its operands uneven or its end open, but for the named
\* cases; the code generator gives a body up only when the names in scope are more
\* than its table holds or a jump is too long, always for the latter unless it wraps,
\* and writes beyond its patch lists if and only if more loops and matches nest than
\* it has lists for (check_stmt, compile_stmt, patch_jump, ver_chunk).
AcceptsItsOwn ==
    /\ verdict = "refused" => ReturnLeftOut \/ SlotsUsedUp \/ LeftUnset \/ Wraps
    /\ verdict = "error" => NamesInScope(prog) > MaxLocals \/ prog.how = "long"
    /\ verdict = "accepted" /\ prog.how = "long" => Wraps
    /\ verdict = "overrun" => prog.how # "row" /\ Levels(prog) > MaxLoopDepth
    /\ verdict = "accepted" /\ prog.how # "row" /\ prog.last # "alone" => Levels(prog) <= MaxLoopDepth

\* Run to its end, the chunk made the calls the body means, with the arguments it
\* means, and left the way it means: the value returned, the exception thrown or
\* the match that failed.  A constructor first gives each field of its class with an
\* initialiser its value (compile_stmt and compile_staged against the meaning).
Result(r) ==
    CASE r.how = "waiting" -> Running
      [] r.how \in {"returned", "thrown"} -> Outcome(r.how, r.val)
      [] OTHER -> Outcome(r.how, Null)

\* the initialisers' fields, as variables of those names
InitsOf(p) ==
    LET own == Classes[ClassOf(p)].fields
        var(i) == VarOf(IntT, own[i].name, own[i].init)
    IN IF MethodFor(p).ctor THEN [k \in DOMAIN Initialised(own) |-> var(Initialised(own)[k])] ELSE <<>>
HoldsIts(v) == LET slot == InstanceSlot(ClassOf(prog), v.name) IN slot >= 0 => fields[slot] = v.val

RunsAsWritten ==
    Runs /\ ~Misplaced /\ Ended =>
      LET r == M!MeaningOf(<<<<"p", Argument>>>>, InitsOf(prog) \o Body(prog), heard) IN
      r.odd = {} => /\ trace = r.trace /\ outcome = Result(r)
                    /\ \A k \in DOMAIN r.vars : HoldsIts(r.vars[k])

\* What a name stands for when it runs is what the checker took it for: every argument is of
\* its parameter's type and every result of the type the body returns, unless the body's end
\* is reached without one or scopes are more than the checker has (lookup_symbol, resolve_local).
OfKind(val, kind) == val.t = kind \/ <<kind, val.t>> \in {<<"int", "item">>, <<"bool", "int">>}
FellOff == I.name = "RETURN_VOID" /\ pc = Len(code)
NamesMeanTheSame ==
    Runs /\ ~ScopesUsedUp =>
      /\ \A k \in DOMAIN trace :
           trace[k].fn \in DOMAIN Functions => OfKind(trace[k].args[1], Functions[trace[k].fn].params[1].type.k)
      /\ outcome.how = "returned" =>
           IF prog.ret = "int" THEN OfKind(outcome.val, "int") \/ FellOff ELSE outcome.val = Null

\* Whenever a statement calls out there is nothing on the stack but the call's
\* operands, and under those of an initialiser the object: no statement, loop or catch
\* leaves a value behind for the next.
Initialising == \E k \in DOMAIN code : k > pc /\ code[k].name = "SET_FIELD"
StatementStack == Runs /\ Fetch(Calls) => Len(stack) = Taken + (IF Initialising THEN 1 ELSE 0)

\* A body whose loops ask the host comes to its end: no break, continue or step is
\* patched to a place that goes round without asking.
ComesToItsEnd == <>(~Runs \/ Ended)
=============================================================================
