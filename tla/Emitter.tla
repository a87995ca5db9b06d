------------------------------ MODULE Emitter ------------------------------
(***************************************************************************)
(* What the code generator (source/compiler/compiler.c) keeps while it     *)
(* compiles one body, and the helpers every case of compile_stmt and       *)
(* compile_expr goes through: emitting, patching, scopes and slots.        *)
(*                                                                         *)
(* The state is a record c, passed through the cases as Compiler *c is:    *)
(*                                                                         *)
(*   code        the chunk: one record per instruction, positions from 1   *)
(*   locals      the names in scope, with their slots and scope depths     *)
(*   scope       scope_depth; nextSlot is next_slot                        *)
(*   loop        loop_depth, with the patch lists of every level           *)
(*   errors      what compile_error was called for                         *)
(*   overrun     was a patch list beyond the arrays' MaxLoopDepth written?  *)
(*   cls         the class whose method it is                              *)
(*                                                                         *)
(* An instruction has a count n, a number arg (slot, constant, index) and  *)
(* a name sym; a jump has a target `to`, which is where its offset leads.  *)
(* Offsets count instructions: JumpReach is the farthest a 16-bit one goes. *)
(***************************************************************************)
EXTENDS Integers, SequencesExt

CONSTANTS MaxLocals, MaxLoopDepth, MaxLoopPatches, JumpReach

ASSUME LimitsAssumption == {MaxLocals, MaxLoopDepth, MaxLoopPatches, JumpReach} \subseteq Nat

Fresh == [code |-> <<>>, locals |-> <<>>, scope |-> 0, nextSlot |-> 0, loop |-> 0,
          breaks |-> [d \in 0..(MaxLoopDepth - 1) |-> <<>>],
          continues |-> [d \in 0..(MaxLoopDepth - 1) |-> <<>>],
          errors |-> {}, overrun |-> FALSE, cls |-> ""]

CompileError(c, what) == [c EXCEPT !.errors = @ \cup {what}]

(***************************************************************************)
(* Instructions                                                            *)
(***************************************************************************)
Instr(name, n, arg, sym) ==
    [name |-> name, n |-> n, arg |-> arg, sym |-> sym, to |-> 0, kinds |-> <<>>]

Emit(c, i) == [c EXCEPT !.code = Append(@, i)]
EmitOp(c, name)           == Emit(c, Instr(name, 0, 0, ""))
EmitArg(c, name, arg)     == Emit(c, Instr(name, 0, arg, ""))
EmitConstInt(c, v)        == EmitArg(c, "LOAD_CONST_INT", v)
EmitSlot(c, name, slot)   == EmitArg(c, name, slot)

Here(c) == Len(c.code) + 1
Newest(c) == Len(c.code)

\* the placeholder offset is 0: the jump leads to the instruction after it
EmitJump(c, name) == Emit(c, [Instr(name, 0, 0, "") EXCEPT !.to = Here(c) + 1])

\* from the instruction after the jump
Distance(at, target) == target - (at + 1)

\* patch_jump; only a jump forward is patched by it
PatchJump(c, at) ==
    IF Distance(at, Here(c)) > JumpReach THEN CompileError(c, "jump distance")
    ELSE [c EXCEPT !.code[at].to = Here(c)]
PatchJumps(c, list) == FoldLeft(PatchJump, c, list)

\* an offset that is written without a test is what its 16 bits make of the distance
Offset(distance) == ((distance + JumpReach + 1) % (2 * (JumpReach + 1))) - (JumpReach + 1)
LeadTo(c, at, target) == [c EXCEPT !.code[at].to = at + 1 + Offset(Distance(at, target))]
LeadAllTo(c, list, target) == FoldLeft(LAMBDA d, at : LeadTo(d, at, target), c, list)

EmitLoop_ToItself(c, start) == LeadTo(EmitJump(c, "JUMP"), Here(c), Here(c))
EmitLoop(c, start) == LeadTo(EmitJump(c, "JUMP"), Here(c), start)

\* emit_trunc_for_type
TruncOf == [sbyte |-> "TRUNC_I8", byte |-> "TRUNC_U8", short |-> "TRUNC_I16", ushort |-> "TRUNC_U16",
            uint |-> "TRUNC_U32", ulong |-> "TRUNC_U64", char |-> "TRUNC_CHAR"]
EmitTrunc(c, kind) == IF kind \in DOMAIN TruncOf THEN EmitOp(c, TruncOf[kind]) ELSE c

(***************************************************************************)
(* Scopes and slots.  A slot is never used again, whatever scopes close.   *)
(***************************************************************************)
ScopePush(c) == [c EXCEPT !.scope = @ + 1]

ScopePop_KeepsNames(c) == [c EXCEPT !.scope = @ - 1]
ScopePop(c) ==
    [c EXCEPT !.scope = @ - 1, !.locals = SelectSeq(@, LAMBDA l : l.depth < c.scope)]

\* a table that is full leaves the slot 0 to the caller
DeclareLocal(c, name) ==
    IF Len(c.locals) >= MaxLocals THEN CompileError(c, "locals")
    ELSE [c EXCEPT !.locals = Append(@, [name |-> name, slot |-> c.nextSlot, depth |-> c.scope]),
                   !.nextSlot = @ + 1]
SlotDeclared(c) == IF Len(c.locals) >= MaxLocals THEN 0 ELSE c.nextSlot

\* declare the name and store into it the value on the stack
DeclareAndStore(c, name) == EmitSlot(DeclareLocal(c, name), "STORE_LOCAL", SlotDeclared(c))

\* inner scopes shadow outer ones
Declares(c, name) == {k \in DOMAIN c.locals : c.locals[k].name = name}
ResolveLocal_Outermost(c, name) ==
    IF Declares(c, name) = {} THEN -1 ELSE c.locals[Min(Declares(c, name))].slot
ResolveLocal(c, name) ==
    IF Declares(c, name) = {} THEN -1 ELSE c.locals[Max(Declares(c, name))].slot

(***************************************************************************)
(* Loops and matches: one level each, with its jumps still to be patched.  *)
(***************************************************************************)
\* nothing stops the level from passing the arrays' end
LevelExists(c) == c.loop < MaxLoopDepth
Overrun(c)     == [c EXCEPT !.overrun = TRUE]
ClearBreaks(c) == IF LevelExists(c) THEN [c EXCEPT !.breaks[c.loop] = <<>>] ELSE Overrun(c)
ClearLevel(c)  == IF LevelExists(c) THEN [ClearBreaks(c) EXCEPT !.continues[c.loop] = <<>>] ELSE Overrun(c)
EnterLevel(c) == [c EXCEPT !.loop = @ + 1]
LeaveLevel(c) == [c EXCEPT !.loop = @ - 1]

PatchBreaks(c) == IF LevelExists(c) THEN PatchJumps(c, c.breaks[c.loop]) ELSE c
PatchContinues(c, target) == IF LevelExists(c) THEN LeadAllTo(c, c.continues[c.loop], target) ELSE c
=============================================================================
