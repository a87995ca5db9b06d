------------------------------ MODULE CodeGen ------------------------------
(***************************************************************************)
(* compile_stmt (source/compiler/compiler.c) and the part of               *)
(* compile_staged that compiles the body of a method.                      *)
(*                                                                         *)
(* A statement is a record whose field s names its kind; a block is the    *)
(* sequence of its statements.                                             *)
(***************************************************************************)
EXTENDS CodeGenExpr, SequencesExt

RECURSIVE CompileStmt(_, _), CompileAll(_, _), CompileArms(_, _, _, _), CompileClauses(_, _, _)

\* what follows an overrun is not followed
CompileAll(c, stmts) ==
    LET next == CompileStmt(c, Head(stmts))
    IN IF stmts = <<>> THEN c ELSE IF next.overrun THEN next ELSE CompileAll(next, Tail(stmts))

CompileBlock(c, stmts) == ScopePop(CompileAll(ScopePush(c), stmts))

(***************************************************************************)
(* Declarations and expression statements                                  *)
(***************************************************************************)
\* the zero of a declared type; a class, an enum or a delegate has none
Integral == {"int", "sbyte", "byte", "short", "ushort", "uint", "long", "ulong", "char"}
EmitZero_NoInt(c, kind) ==
    CASE kind \in {"float", "double"} -> EmitArg(c, "LOAD_CONST_FLOAT", 0)
      [] kind = "string"              -> EmitArg(c, "LOAD_CONST_STR", 0)
      [] OTHER                        -> c
EmitZero(c, kind) ==
    CASE kind \in Integral            -> EmitConstInt(c, 0)
      [] kind = "array"               -> EmitOp(EmitConstInt(c, 0), "NEW_ARRAY")
      [] kind \in {"float", "double"} -> EmitArg(c, "LOAD_CONST_FLOAT", 0)
      [] kind = "bool"                -> EmitArg(c, "LOAD_CONST_BOOL", 0)
      [] kind = "string"              -> EmitArg(c, "LOAD_CONST_STR", 0)
      [] OTHER                        -> c

CompileVar(c, st) ==
    LET value == IF st.init = <<>> THEN EmitZero(c, st.type.k) ELSE CompileExpr(c, st.init[1])
    IN DeclareAndStore(EmitTrunc(value, st.type.k), st.name)

LeavesNothing == {"super", "subscribe", "unsubscribe", "fire"}

CompileEffect_NoPop(c, x) == CompileExpr(c, x)
CompileDiscarded(c, x) == EmitOp(CompileExpr(c, x), "POP")
CompileEffect(c, x) == IF x.e \in LeavesNothing THEN CompileExpr(c, x) ELSE CompileDiscarded(c, x)

(***************************************************************************)
(* Branches and loops                                                      *)
(***************************************************************************)
CompileIf(c, st) ==
    LET test == EmitJump(CompileExpr(c, st.cond), "JUMP_IF_FALSE")
        then == CompileBlock(test, st.then)
    IN IF st.else = <<>> THEN PatchJump(then, Newest(test))
       ELSE LET skip == EmitJump(then, "JUMP")
                else == PatchJump(skip, Newest(test))
            IN PatchJump(CompileBlock(else, st.else[1]), Newest(skip))

CompileWhile(c, st) ==
    LET start == Here(c)
        test  == EmitJump(CompileExpr(EnterLevel(ClearLevel(c)), st.cond), "JUMP_IF_FALSE")
        again == EmitLoop(CompileBlock(test, st.body), start)
        done  == LeaveLevel(PatchJump(again, Newest(test)))
    IN PatchContinues(PatchBreaks(done), start)

\* a for loop without a condition has no exit jump
CompileFor(c, st) ==
    LET opened == ScopePush(ClearLevel(c))
        init   == IF st.init = <<>> THEN opened ELSE CompileStmt(opened, st.init[1])
        test   == IF st.cond = <<>> THEN init
                  ELSE EmitJump(CompileExpr(init, st.cond[1]), "JUMP_IF_FALSE")
        body   == LeaveLevel(CompileBlock(EnterLevel(test), st.body))
        step   == IF st.step = <<>> THEN body ELSE CompileDiscarded(body, st.step[1])
        again  == EmitLoop(step, Here(init))
        exit   == IF st.cond = <<>> THEN again ELSE PatchJump(again, Newest(test))
        done   == ScopePop(exit)
    IN PatchContinues(PatchBreaks(done), Here(body))

\* over an array; its slot, the index's and the variable's are the body's neighbours
CompileForeach(c, st) ==
    LET array   == CompileExpr(ScopePush(ClearLevel(c)), st.array)
        arr     == SlotDeclared(array)
        zero    == EmitConstInt(DeclareAndStore(array, "__arr"), 0)
        idx     == SlotDeclared(zero)
        init    == DeclareAndStore(zero, "__i")
        length  == EmitOp(EmitSlot(EmitSlot(init, "LOAD_LOCAL", idx), "LOAD_LOCAL", arr), "ARRAY_LEN")
        test    == EmitJump(EmitOp(length, "CMP_LT_INT"), "JUMP_IF_FALSE")
        item    == EmitOp(EmitSlot(EmitSlot(test, "LOAD_LOCAL", arr), "LOAD_LOCAL", idx), "ARRAY_GET")
        body    == LeaveLevel(CompileBlock(EnterLevel(DeclareAndStore(item, st.name)), st.body))
        next    == EmitOp(EmitConstInt(EmitSlot(body, "LOAD_LOCAL", idx), 1), "ADD_INT")
        again   == EmitLoop(EmitSlot(next, "STORE_LOCAL", idx), Here(init))
        done    == ScopePop(PatchJump(again, Newest(test)))
    IN PatchContinues(PatchBreaks(done), Here(body))

(***************************************************************************)
(* Leaving a loop, a match or the body                                     *)
(***************************************************************************)
CompileReturn(c, st) ==
    IF st.value = <<>> THEN EmitOp(c, "RETURN_VOID") ELSE EmitOp(CompileExpr(c, st.value[1]), "RETURN")

CompileBreak(c) ==
    LET level == c.loop - 1 IN
    IF c.loop = 0 THEN CompileError(c, "break")
    ELSE IF level >= MaxLoopDepth THEN EmitJump(c, "JUMP")
    ELSE IF Len(c.breaks[level]) >= MaxLoopPatches THEN CompileError(c, "patches")
    ELSE [EmitJump(c, "JUMP") EXCEPT !.breaks[level] = Append(@, Here(c))]

\* the innermost level may be that of a match, which patches no continues
CompileContinue(c) ==
    LET level == c.loop - 1 IN
    IF c.loop = 0 THEN CompileError(c, "continue")
    ELSE IF level >= MaxLoopDepth THEN EmitJump(c, "JUMP")
    ELSE IF Len(c.continues[level]) >= MaxLoopPatches THEN CompileError(c, "patches")
    ELSE [EmitJump(c, "JUMP") EXCEPT !.continues[level] = Append(@, Here(c))]

(***************************************************************************)
(* Match: arms are compared in turn; an arm that does not leave falls into *)
(* the body of the next.  p holds the jumps pending between two arms.      *)
(***************************************************************************)
Patched(c, pending) == IF pending = 0 THEN c ELSE PatchJump(c, pending)

CompileArms(c, arms, slot, p) ==
    IF arms = <<>> THEN Patched(Patched(c, p.skip), p.fall)
    ELSE LET arm   == Head(arms)
             start == Patched(c, p.skip)
             test  == IF arm.default THEN start
                      ELSE EmitJump(EmitOp(CompileExpr(EmitSlot(start, "LOAD_LOCAL", slot), arm.pattern),
                                           "CMP_EQ_INT"), "JUMP_IF_FALSE")
             body  == CompileBlock(Patched(test, p.fall), arm.body)
             next  == IF Len(arms) > 1 THEN EmitJump(body, "JUMP") ELSE body
         IN CompileArms(next, Tail(arms), slot,
                        [skip |-> IF arm.default THEN 0 ELSE Newest(test),
                         fall |-> IF Len(arms) > 1 THEN Newest(next) ELSE 0])

HasDefault(st) == \E k \in DOMAIN st.arms : st.arms[k].default

CompileMatch(c, st) ==
    LET subject == CompileExpr(ScopePush(EnterLevel(ClearBreaks(c))), st.subject)
        slot    == SlotDeclared(subject)
        arms    == CompileArms(DeclareAndStore(subject, "$match_subj"), st.arms, slot,
                               [skip |-> 0, fall |-> 0])
        done    == LeaveLevel(IF HasDefault(st) THEN arms ELSE EmitOp(arms, "MATCH_FAIL"))
    IN ScopePop(PatchBreaks(done))

(***************************************************************************)
(* Exceptions                                                              *)
(***************************************************************************)
CompileThrow(c, x) == EmitOp(CompileExpr(c, x), "THROW")

\* every clause but the last tests the exception's class; ends are the jumps
\* past the clauses
CompileClauses(c, clauses, ends) ==
    IF clauses = <<>> THEN PatchJumps(c, ends)
    ELSE LET clause  == Head(clauses)
             checked == Len(clauses) > 1
             test    == IF checked
                          THEN EmitJump(Emit(c, Instr("EXCEPTION_IS_TYPE", 0, 0, clause.type)), "JUMP_IF_FALSE")
                          ELSE c
             caught  == DeclareAndStore(EmitOp(ScopePush(test), "LOAD_EXCEPTION"), clause.name)
             body    == EmitJump(ScopePop(CompileBlock(caught, clause.body)), "JUMP")
         IN CompileClauses(IF checked THEN PatchJump(body, Newest(test)) ELSE body,
                           Tail(clauses), Append(ends, Newest(body)))

\* finally is compiled once, after the clauses
CompileTry(c, st) ==
    LET try     == EmitJump(c, "TRY_BEGIN")
        over    == EmitJump(EmitOp(CompileBlock(try, st.body), "TRY_END"), "JUMP")
        clauses == CompileClauses(PatchJump(over, Newest(try)), st.catches, <<>>)
        done    == PatchJump(clauses, Newest(over))
    IN IF st.finally = <<>> THEN done ELSE CompileBlock(done, st.finally[1])

(***************************************************************************)
(* Statements and bodies                                                   *)
(***************************************************************************)
CompileStmt(c, st) ==
    CASE st.s = "var"      -> CompileVar(c, st)
      [] st.s = "expr"     -> CompileEffect(c, st.expr)
      [] st.s = "block"    -> CompileBlock(c, st.body)
      [] st.s = "if"       -> CompileIf(c, st)
      [] st.s = "while"    -> CompileWhile(c, st)
      [] st.s = "for"      -> CompileFor(c, st)
      [] st.s = "foreach"  -> CompileForeach(c, st)
      [] st.s = "return"   -> CompileReturn(c, st)
      [] st.s = "break"    -> CompileBreak(c)
      [] st.s = "match"    -> CompileMatch(c, st)
      [] st.s = "continue" -> CompileContinue(c)
      [] st.s = "throw"    -> CompileThrow(c, st.value)
      [] st.s = "try"      -> CompileTry(c, st)
      [] st.s \in {"fn", "class", "enum"} -> CompileError(c, "top level only")
      \* interface, import and event declarations
      [] OTHER -> c

(***************************************************************************)
(* A method, of the class cls: a constructor, static, or neither           *)
(***************************************************************************)
\* The last byte of the chunk is compared with the number of RETURN_VOID; chance says
\* whether the last operand, an index or the offset of a jump back, ends in that byte.
\* The numbers of arguments do not reach it.
EndsInIndex == {"STORE_LOCAL", "SET_FIELD", "EVENT_SUBSCRIBE", "EVENT_UNSUBSCRIBE", "EVENT_SUBSCRIBE_BOUND",
                "EVENT_UNSUBSCRIBE_BOUND"}
EndsInReturnVoid(c, chance) ==
    /\ c.code # <<>>
    /\ LET i == c.code[Newest(c)] IN
         \/ i.name = "RETURN_VOID"
         \/ chance /\ i.name \in EndsInIndex
         \/ chance /\ i.name = "JUMP" /\ i.to < Newest(c)

\* the slot of the class's own field number i among all those its ClassDef lists, the
\* inherited ones first: not its own slot where there are any
InitSlot(cls, i) == Defs[cls].fields[i].slot % 256
CompileInit(c, i) ==
    LET value == CompileExpr(EmitOp(c, "LOAD_THIS"), Classes[c.cls].fields[i].init[1])
    IN EmitArg(value, "SET_FIELD", InitSlot(c.cls, i))
Initialised(fields) ==
    SelectSeq([i \in DOMAIN fields |-> i], LAMBDA i : fields[i].init # <<>> /\ ~fields[i].static)
CompileInits(c) == FoldLeft(CompileInit, c, Initialised(Classes[c.cls].fields))

\* this has slot 0 where there is one, the parameters follow
DeclareNames(c, names) == FoldLeft(DeclareLocal, c, names)
CompileMethod(m, stmts, chance) ==
    LET names == (IF m.static THEN <<>> ELSE <<"this">>) \o [k \in DOMAIN m.params |-> m.params[k].name]
        begun == DeclareNames([Fresh EXCEPT !.cls = m.cls], names)
        c == CompileAll(IF m.ctor THEN CompileInits(begun) ELSE begun, stmts)
    IN IF EndsInReturnVoid(c, chance) THEN c ELSE EmitOp(c, "RETURN_VOID")
=============================================================================
