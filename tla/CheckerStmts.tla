---------------------------- MODULE CheckerStmts ----------------------------
(***************************************************************************)
(* check_stmt, check_block and check_fn_body (source/core/checker.c).      *)
(*                                                                         *)
(* env is that of Checker, with the scopes its locals come from, innermost *)
(* last, the loops and matches around the statement, and the type ret the  *)
(* body returns.  Checking a statement gives the env after it, the         *)
(* statement as the code generator will see it, and the complaints.        *)
(***************************************************************************)
EXTENDS Checker

CONSTANTS MaxScopeDepth, MaxScopeSyms

Checked(env, st, errs) == [env |-> env, st |-> st, errs |-> errs]
If(cond, complaint) == IF cond THEN {complaint} ELSE {}
\* of an optional expression
CheckOpt(env, opt) == [i \in DOMAIN opt |-> Check(env, opt[i])]
ComplaintsOf(opt) == UNION {Complaints(opt[i]) : i \in DOMAIN opt}

(***************************************************************************)
(* Scopes                                                                  *)
(***************************************************************************)
NoNames == [x \in {} |-> UnknownT]
Visible(scopes) ==
    [x \in UNION {DOMAIN scopes[d] : d \in DOMAIN scopes} |->
        scopes[Max({d \in DOMAIN scopes : x \in DOMAIN scopes[d]})][x]]
In(env, scopes) == [env EXCEPT !.scopes = scopes, !.locals = Visible(scopes)]

\* the last scope there is room for is shared by those within it
PushScope(env) == IF Len(env.scopes) = MaxScopeDepth THEN env ELSE In(env, Append(env.scopes, NoNames))
PopScope(env)  == In(env, Front(env.scopes))

\* a scope that is full takes a name for one it has
Undefinable(env, name) ==
    LET scope == Last(env.scopes) IN name \in DOMAIN scope \/ Cardinality(DOMAIN scope) >= MaxScopeSyms
Define(env, name, type) ==
    IF Undefinable(env, name) THEN env
    ELSE In(env, [env.scopes EXCEPT ![Len(env.scopes)] = (name :> type) @@ @])

(***************************************************************************)
(* Statements in turn, and blocks                                          *)
(***************************************************************************)
RECURSIVE CheckStmt(_, _), Follow(_, _), CheckArms(_, _, _), CheckClauses(_, _)

\* each is checked in the env that those before it have left
Follow(r, stmts) ==
    IF stmts = <<>> THEN r
    ELSE LET d == CheckStmt(r.env, Head(stmts))
         IN Follow(Checked(d.env, Append(r.st, d.st), r.errs \cup d.errs), Tail(stmts))
CheckAll(env, stmts) == Follow(Checked(env, <<>>, {}), stmts)

CheckBlock(env, stmts) ==
    LET r == CheckAll(PushScope(env), stmts) IN [r EXCEPT !.env = PopScope(@)]

CheckLoop(env, stmts) ==
    LET r == CheckBlock([env EXCEPT !.loops = @ + 1], stmts) IN [r EXCEPT !.env.loops = @ - 1]

(***************************************************************************)
(* Variables                                                               *)
(***************************************************************************)
\* a class's name may turn out to be an enum's
Settled(env, t) ==
    LET names(u) == u.k = "object" /\ u.args = <<>> /\ u.n \in DOMAIN Enums \ DOMAIN env.locals IN
    CASE names(t) -> EnumT(t.n)
      [] t.k = "array" /\ t.el # <<>> -> IF names(t.el[1]) THEN [t EXCEPT !.el = <<EnumT(t.el[1].n)>>] ELSE t
      [] OTHER -> t

\* a class that does not exist is complained of only if it is given type arguments
GenericComplaints(t) ==
    LET class == Classes[t.n]  fits == Len(t.args) = Len(class.tparams) IN
    CASE t.k # "object" \/ t.args = <<>> \/ t.n \in DOMAIN Ifaces -> {}
      [] t.n \notin DOMAIN Classes -> {"unknown generic class"}
      [] class.tparams = <<>>      -> {}
      [] ~fits                     -> {"type argument count"}
      [] OTHER -> If(~class.lib /\ \E i \in DOMAIN t.args :
                       ~MeetsConstraint(t.args[i], class.constraints[class.tparams[i]]), "constraint")

\* an array of objects of no common class is one of any interface
Initialises(to, from) ==
    \/ Fits(to, from)
    \/ /\ {to.k, from.k} = {"array"} /\ to.el # <<>> /\ from.el # <<>>
       /\ {to.el[1].k, from.el[1].k} = {"object"} /\ from.el[1].n = "" /\ to.el[1].n \in DOMAIN Ifaces

CheckVar(env, st) ==
    LET declared == Settled(env, st.type)
        init == CheckOpt(env, st.init)
        unfit == init # <<>> /\ ~Unknown(init[1].ty) /\ ~Initialises(declared, init[1].ty)
    IN IF declared.k = "void" THEN Checked(env, st, GenericComplaints(st.type) \cup {"void"})
       ELSE Checked(Define(env, st.name, declared), [st EXCEPT !.type = declared, !.init = init],
                    GenericComplaints(st.type) \cup ComplaintsOf(init) \cup If(unfit, "initialiser")
                      \cup If(Undefinable(env, st.name), "declared twice"))

(***************************************************************************)
(* Branches and loops                                                      *)
(***************************************************************************)
Condition(x) == Complaints(x) \cup If(x.ty.k \notin {"unknown", "bool"}, "condition")

CheckIf(env, st) ==
    LET cond == Check(env, st.cond)
        then == CheckBlock(env, st.then)
        else == CheckBlock(then.env, st.else[1])
        errs == Condition(cond) \cup then.errs
        if == [st EXCEPT !.cond = cond, !.then = then.st]
    IN IF st.else = <<>> THEN Checked(then.env, if, errs)
       ELSE Checked(else.env, [if EXCEPT !.else = <<else.st>>], errs \cup else.errs)

CheckWhile(env, st) ==
    LET cond == Check(env, st.cond)  body == CheckLoop(env, st.body)
    IN Checked(body.env, [st EXCEPT !.cond = cond, !.body = body.st], Condition(cond) \cup body.errs)

CheckFor(env, st) ==
    LET init == CheckAll(PushScope(env), st.init)
        cond == CheckOpt(init.env, st.cond)
        step == CheckOpt(init.env, st.step)
        body == CheckLoop(init.env, st.body)
    IN Checked(PopScope(body.env),
               [st EXCEPT !.init = init.st, !.cond = cond, !.step = step, !.body = body.st],
               init.errs \cup UNION {Condition(cond[i]) : i \in DOMAIN cond} \cup ComplaintsOf(step) \cup body.errs)

(***************************************************************************)
(* foreach: over an array as it is; over an object of a class that lists   *)
(* IEnumerable among its interfaces as a while over its enumerator; over   *)
(* another object as over what its toArray returns.                        *)
(***************************************************************************)
Invoke(obj, method) == Node("method_call", method, <<obj>>)
Ident(name) == Node("ident", name, <<>>)

Enumerable(t) ==
    /\ t.k = "object" /\ t.args = <<>> /\ t.n \in DOMAIN Classes
    /\ "IEnumerable" \in Classes[t.n].interfaces

\* the variable is declared in the body's own block
WithEnumerator(env, st) ==
    LET get == Invoke(st.array, "getEnumerator")
        found == Check(env, get).ty
        each == [s |-> "var", name |-> st.name, type |-> st.type, init |-> <<Invoke(Ident("__enum"), "current")>>]
    IN [s |-> "block", body |->
          <<[s |-> "var", name |-> "__enum", init |-> <<get>>,
             type |-> IF Unknown(found) THEN ObjectT("IEnumerator") ELSE found],
            [s |-> "while", cond |-> Invoke(Ident("__enum"), "moveNext"), body |-> <<each>> \o st.body]>>]

ForeachArray(env, st, array) ==
    LET declared == Settled(env, st.type)
        inner == Define(PushScope(env), st.name, declared)
        body == CheckLoop(inner, st.body)
        over == [st EXCEPT !.array = array, !.type = declared]
        fits == \/ array.ty.k # "array" \/ array.ty.el = <<>> \/ Unknown(array.ty.el[1])
                \/ Fits(declared, array.ty.el[1])
    IN IF ~fits THEN Checked(env, over, Complaints(array) \cup {"element"})
       ELSE Checked(PopScope(body.env), [over EXCEPT !.body = body.st], Complaints(array) \cup body.errs)

CheckForeach(env, st) ==
    LET array == Check(env, st.array)
        listed == Check(env, Invoke(st.array, "toArray"))
    IN CASE array.ty.k \in {"array", "unknown"} -> ForeachArray(env, st, array)
         [] Enumerable(array.ty) ->
              LET r == CheckStmt(env, WithEnumerator(env, st)) IN [r EXCEPT !.errs = @ \cup Complaints(array)]
         [] array.ty.k = "object" /\ listed.ty.k = "array" -> ForeachArray(env, st, listed)
         [] OTHER -> Checked(env, st, Complaints(array) \cup Complaints(listed) \cup {"collection"})

(***************************************************************************)
(* Match, exceptions, and ways out                                         *)
(***************************************************************************)
CheckArms(r, arms, subject) ==
    LET arm == Head(arms)
        pattern == Check(r.env, arm.pattern)
        body == CheckBlock(r.env, arm.body)
        other == pattern.ty.k # "unknown" /\ ~TypeEquals(pattern.ty, subject)
        errs == IF arm.default THEN {} ELSE Complaints(pattern) \cup If(other, "pattern")
        checked == [arm EXCEPT !.pattern = pattern, !.body = body.st]
    IN IF arms = <<>> THEN r
       ELSE CheckArms(Checked(body.env, Append(r.st, checked), r.errs \cup errs \cup body.errs), Tail(arms), subject)

\* an enum's members need not all be covered
CheckMatch(env, st) ==
    LET subject == Check(env, st.subject)
        arms == CheckArms(Checked([env EXCEPT !.matches = @ + 1], <<>>, Complaints(subject)), st.arms, subject.ty)
    IN IF subject.ty.k \notin {"enum", "int", "bool"} THEN Checked(env, st, Complaints(subject) \cup {"subject"})
       ELSE Checked([arms.env EXCEPT !.matches = @ - 1], [st EXCEPT !.subject = subject, !.arms = arms.st], arms.errs)

CheckReturn(env, st) ==
    LET value == CheckOpt(env, st.value)
        ty == value[1].ty
        fits == \/ ty.k \in {"unknown", "any"} \/ Fits(env.ret, ty)
                \/ env.ret.k = "object" /\ env.ret.n \in DOMAIN Ifaces /\ AssignableToIface(ty, env.ret.n)
    IN IF value = <<>> THEN Checked(env, st, If(env.ret.k # "void", "nothing returned"))
       ELSE IF env.ret.k = "void" THEN Checked(env, st, {"value returned"})
       ELSE Checked(env, [st EXCEPT !.value = value], ComplaintsOf(value) \cup If(~fits, "return type"))

CheckThrow(env, st) ==
    LET value == Check(env, st.value)  t == value.ty
        unfit == IF t.k = "object" THEN t.n # "" /\ (t.args # <<>> \/ ~IsSubtype(t.n, "Exception"))
                 ELSE t.k \notin {"any", "unknown"}
    IN Checked(env, [st EXCEPT !.value = value], Complaints(value) \cup If(unfit, "not an exception"))

\* the clause's name is declared even when its type is refused
CheckClauses(r, clauses) ==
    LET clause == Head(clauses)
        body == CheckBlock(Define(PushScope(r.env), clause.name, ObjectT(clause.type)), clause.body)
        unfit == IF clause.type \in Symbols(r.env)
                   THEN clause.type \in DOMAIN Classes /\ ~IsSubtype(clause.type, "Exception")
                 ELSE clause.type # "Exception"
        checked == [clause EXCEPT !.body = body.st]
        errs == r.errs \cup If(unfit, "catch type") \cup body.errs
    IN IF clauses = <<>> THEN r
       ELSE CheckClauses(Checked(PopScope(body.env), Append(r.st, checked), errs), Tail(clauses))

CheckTry(env, st) ==
    LET try == CheckBlock(env, st.body)
        clauses == CheckClauses(Checked(try.env, <<>>, try.errs), st.catches)
        final == CheckBlock(clauses.env, st.finally[1])
        checked == [st EXCEPT !.body = try.st, !.catches = clauses.st]
    IN IF st.finally = <<>> THEN Checked(clauses.env, checked, clauses.errs)
       ELSE Checked(final.env, [checked EXCEPT !.finally = <<final.st>>], clauses.errs \cup final.errs)

(***************************************************************************)
(* Every kind of statement, and a method's body                            *)
(***************************************************************************)
CheckStmt(env, st) ==
    CASE st.s = "var"      -> CheckVar(env, st)
      [] st.s = "expr"     -> LET x == Check(env, st.expr) IN Checked(env, [st EXCEPT !.expr = x], Complaints(x))
      [] st.s = "block"    -> LET r == CheckBlock(env, st.body) IN [r EXCEPT !.st = [st EXCEPT !.body = r.st]]
      [] st.s = "if"       -> CheckIf(env, st)
      [] st.s = "while"    -> CheckWhile(env, st)
      [] st.s = "for"      -> CheckFor(env, st)
      [] st.s = "foreach"  -> CheckForeach(env, st)
      [] st.s = "match"    -> CheckMatch(env, st)
      [] st.s = "return"   -> CheckReturn(env, st)
      [] st.s = "throw"    -> CheckThrow(env, st)
      [] st.s = "try"      -> CheckTry(env, st)
      [] st.s = "break"    -> Checked(env, st, If(env.loops = 0 /\ env.matches = 0, "break"))
      [] st.s = "continue" -> Checked(env, st, If(env.loops = 0, "continue"))
      [] st.s \in {"fn", "class", "enum", "interface", "import"} -> Checked(env, st, {"top level only"})
      [] st.s = "event"    -> Checked(env, st, {})

\* the parameters share the scope of the body's own statements; this is defined in
\* static methods too
CheckMethod(m, stmts) ==
    LET self == "this" :> ObjectT(m.cls)
        outer == [locals |-> self, scopes |-> <<NoNames, NoNames, self>>, cls |-> m.cls, static |-> m.static,
                  ctor |-> m.ctor, constraints |-> NoNames, stale |-> "", loops |-> 0, matches |-> 0, ret |-> m.ret]
        define(r, p) == [r EXCEPT !.env = Define(@, p.name, Settled(@, p.type)),
                                  !.errs = @ \cup If(Undefinable(r.env, p.name), "declared twice")]
        given == FoldLeft(define, Checked(outer, <<>>, {}), m.params)
        body == CheckAll(given.env, stmts)
    IN [body EXCEPT !.errs = @ \cup given.errs]
=============================================================================
