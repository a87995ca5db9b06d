------------------------------ MODULE Meaning ------------------------------
(***************************************************************************)
(* What a body of statements means, without slots, jumps or handlers: the  *)
(* calls it makes to the host and how it ends, given the host's answers.   *)
(* This is the reference the code generator is checked against.            *)
(*                                                                         *)
(* A run r has the variables in scope, innermost last, the answers still   *)
(* to come, the calls made, and how it stands: "next" to go on, or the way *)
(* it is leaving.  odd collects the named points where the compiled code   *)
(* is known to part from this meaning:                                     *)
(*   continue    a continue leaves a match                                 *)
(*   handler     a throw after a break or a continue has left a try        *)
(*   fall        the last arm of a match without default does not leave    *)
(*   uncaught    no clause names the class of the exception                *)
(*   finally     a finally block is passed on the way out                  *)
(***************************************************************************)
EXTENDS Values, Sequences, FiniteSetsExt

\* what the calls named there return, whatever is answered
CONSTANT Makes

Begin(params, answers) ==
    [vars |-> [k \in DOMAIN params |-> [name |-> params[k][1], val |-> params[k][2]]],
     answers |-> answers, trace |-> <<>>, how |-> "next", val |-> Null, leaked |-> FALSE,
     odd |-> {}]

Going(r) == r.how = "next"
Ends(r, how) == [r EXCEPT !.how = how]
Odd(r, what) == [r EXCEPT !.odd = @ \cup {what}]

\* a scope closes on every way out
Scoped(outer, r) == [r EXCEPT !.vars = SubSeq(@, 1, Len(outer.vars))]
Bind(r, name) == [r EXCEPT !.vars = Append(@, [name |-> name, val |-> r.val])]
Innermost(r, name) == Max({k \in DOMAIN r.vars : r.vars[k].name = name})

ZeroOf(kind) == CASE kind = "float" -> FloatVal(0) [] kind = "string" -> StrVal(0) [] OTHER -> IntVal(0)
Fitted(val, kind) == IF kind = "byte" THEN IntVal(val.v % 256) ELSE val

RECURSIVE Eval(_, _), EvalArgs(_, _, _), Exec(_, _), ExecAll(_, _), Again(_, _, _, _), Each(_, _, _),
          Walk(_, _, _), Arms(_, _, _)

EvalArgs(r, args, done) ==
    IF args = <<>> \/ ~Going(r) THEN [run |-> r, vals |-> done]
    ELSE LET a == Eval(r, Head(args)) IN EvalArgs(a, Tail(args), Append(done, a.val))

Call(r, fn, args) ==
    IF fn \notin DOMAIN Makes /\ r.answers = <<>> THEN Ends(r, "waiting")
    ELSE LET called == [r EXCEPT !.trace = Append(@, [fn |-> fn, args |-> args])] IN
         IF fn \in DOMAIN Makes THEN [called EXCEPT !.val = Makes[fn]]
         ELSE [called EXCEPT !.val = IntVal(Head(r.answers)), !.answers = Tail(@)]

Eval(r, x) ==
    CASE ~Going(r)      -> r
      [] x.e = "int"    -> [r EXCEPT !.val = IntVal(x.v)]
      [] x.e = "string" -> [r EXCEPT !.val = StrVal(x.v)]
      [] x.e = "ident"  -> [r EXCEPT !.val = r.vars[Innermost(r, x.n)].val]
      [] x.e = "new"    -> [r EXCEPT !.val = Object(x.n)]
      [] x.e = "new_array" -> [r EXCEPT !.val = ArrayVal(x.k[1].v)]
      [] x.e = "assign" ->
           LET v == Eval(r, x.k[1])
           IN IF Going(v) THEN [v EXCEPT !.vars[Innermost(v, x.n)].val = v.val] ELSE v
      [] x.e = "call"   ->
           LET a == EvalArgs(r, x.k, <<>>) IN IF Going(a.run) THEN Call(a.run, x.n, a.vals) ELSE a.run

ExecAll(r, stmts) == IF stmts = <<>> \/ ~Going(r) THEN r ELSE ExecAll(Exec(r, Head(stmts)), Tail(stmts))
Block(r, stmts) == Scoped(r, ExecAll(r, stmts))

Truth(r) == r.val.v # 0

\* a loop takes back its own breaks and continues
Turn(r, body) == LET b == Block(r, body) IN IF b.how = "continue" THEN Ends(b, "next") ELSE b
OutOfLoop(r) == IF r.how = "break" THEN Ends(r, "next") ELSE r

Again(r, cond, body, step) ==
    LET test == IF cond = <<>> THEN [r EXCEPT !.val = IntVal(1)] ELSE Eval(r, cond[1])
    IN IF ~Going(test) \/ ~Truth(test) THEN test
       ELSE LET turn == Turn(test, body)
                next == IF step = <<>> THEN turn ELSE Eval(turn, step[1])
            IN IF Going(next) THEN Again(next, cond, body, step) ELSE OutOfLoop(next)

Each(r, st, k) ==
    IF k >= r.val.v THEN r
    ELSE LET turn == Scoped(r, Turn(Bind([r EXCEPT !.val = ItemVal(k)], st.name), st.body))
         IN IF Going(turn) THEN Each([turn EXCEPT !.val = r.val], st, k + 1) ELSE OutOfLoop(turn)

\* a collection that is no array is asked for an enumerator or for an array
Walk(r, st, walker) ==
    LET more == Call(r, "moveNext", <<walker>>)
        item == IF Going(more) /\ Truth(more) THEN Call(more, "current", <<walker>>) ELSE more
        turn == Scoped(r, Turn(Bind(item, st.name), st.body))
    IN IF ~Going(item) \/ ~Truth(more) THEN item
       ELSE IF Going(turn) THEN Walk(turn, st, walker) ELSE OutOfLoop(turn)

Foreach(r, st) ==
    LET over == Eval(r, st.array)
        walker == Call(over, "getEnumerator", <<over.val>>)
    IN CASE ~Going(over)            -> over
         [] over.val.t = "array"    -> Each(over, st, 0)
         [] over.val.cls = "Range"  -> Walk(walker, st, walker.val)
         [] OTHER                   -> Each(Call(over, "toArray", <<over.val>>), st, 0)

\* from the arm that matches on, until one leaves
Arms(r, arms, any) ==
    IF arms = <<>> THEN IF any THEN Odd(r, "fall") ELSE r
    ELSE LET b == Block(r, Head(arms).body) IN IF Going(b) THEN Arms(b, Tail(arms), any) ELSE b

Match(r, st) ==
    LET subject == Eval(r, st.subject)
        hits == {k \in DOMAIN st.arms : st.arms[k].default \/ subject.val = IntVal(st.arms[k].pattern.v)}
        noDefault == \A k \in DOMAIN st.arms : ~st.arms[k].default
        run == Arms(subject, SubSeq(st.arms, Min(hits), Len(st.arms)), noDefault)
    IN IF ~Going(subject) THEN subject
       ELSE IF hits = {} THEN Ends(subject, "failed")
       ELSE IF run.how = "continue" THEN Odd(run, "continue") ELSE OutOfLoop(run)

Clause(r, catches) == {k \in DOMAIN catches : IsClass(r.val.cls, catches[k].type)}
Caught(r, catches) ==
    IF Clause(r, catches) = {} THEN Odd(r, "uncaught")
    ELSE LET clause == catches[Min(Clause(r, catches))]
         IN Scoped(r, Block(Bind(Ends(r, "next"), clause.name), clause.body))

Try(r, st) ==
    LET body == Block(r, st.body)
        left == IF body.how \in {"break", "continue"} THEN [body EXCEPT !.leaked = TRUE] ELSE body
        run  == IF left.how = "thrown" THEN Caught(left, st.catches) ELSE left
    IN IF st.finally = <<>> THEN run
       ELSE IF Going(run) THEN Block(run, st.finally[1])
       ELSE IF run.how \in {"waiting", "failed"} THEN run ELSE Odd(run, "finally")

Exec(r, st) ==
    CASE st.s = "var"      -> LET v == IF st.init = <<>> THEN [r EXCEPT !.val = ZeroOf(st.type.k)]
                                       ELSE Eval(r, st.init[1])
                              IN IF Going(v) THEN Bind([v EXCEPT !.val = Fitted(@, st.type.k)], st.name)
                                 ELSE v
      [] st.s = "expr"     -> Eval(r, st.expr)
      [] st.s = "block"    -> Block(r, st.body)
      [] st.s = "if"       -> LET test == Eval(r, st.cond)
                              IN IF ~Going(test) THEN test
                                 ELSE IF Truth(test) THEN Block(test, st.then)
                                 ELSE IF st.else = <<>> THEN test ELSE Block(test, st.else[1])
      [] st.s = "while"    -> Again(r, <<st.cond>>, st.body, <<>>)
      [] st.s = "for"      -> Scoped(r, LET init == IF st.init = <<>> THEN r ELSE Exec(r, st.init[1])
                                        IN IF Going(init) THEN Again(init, st.cond, st.body, st.step)
                                           ELSE init)
      [] st.s = "foreach"  -> Foreach(r, st)
      [] st.s = "match"    -> Match(r, st)
      [] st.s = "try"      -> Try(r, st)
      [] st.s = "return"   -> LET v == IF st.value = <<>> THEN [r EXCEPT !.val = Null]
                                       ELSE Eval(r, st.value[1])
                              IN IF Going(v) THEN Ends(v, "returned") ELSE v
      [] st.s = "throw"    -> LET v == Eval(r, st.value)
                              IN IF ~Going(v) THEN v
                                 ELSE Ends(IF v.leaked THEN Odd(v, "handler") ELSE v, "thrown")
      [] st.s \in {"break", "continue"} -> Ends(r, st.s)

\* the end of the body is a return
MeaningOf(params, stmts, answers) ==
    LET r == ExecAll(Begin(params, answers), stmts)
    IN IF Going(r) THEN [Ends(r, "returned") EXCEPT !.val = Null] ELSE r
=============================================================================
