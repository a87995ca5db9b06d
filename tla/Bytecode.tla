------------------------------ MODULE Bytecode ------------------------------
(***************************************************************************)
(* The instruction set of includes/bytecode.h, by the effect each opcode   *)
(* has on the machine, and the depth analysis ver_chunk makes of a chunk   *)
(* (source/compiler/xbc.c, pass 3).  Every instruction is one record:      *)
(*                                                                         *)
(*   op             the class of the opcode                                *)
(*   pops, pushes   its operands and its results                           *)
(*   checked        does the VM test for room before it pushes?            *)
(*   fails          may it raise a runtime error on some values?           *)
(*   to             jump or catch target                                   *)
(*   fns            the chunks a call or a constructor may be              *)
(*   ev, subs       the event, and the subscriptions the operands name     *)
(*   bound          is the subscription a bound delegate?                  *)
(***************************************************************************)
EXTENDS Integers, Sequences

Ops == {"plain", "jump", "branch", "coalesce", "call", "new", "ret", "retvoid",
        "fail", "try", "endtry", "throw", "subscribe", "unsubscribe", "fire"}

Instruction(Fns, Events, Subs) ==
    [op : Ops, pops : Nat, pushes : Nat, checked : BOOLEAN, fails : BOOLEAN, to : Nat,
     fns : SUBSET Fns, ev : Events \cup {""}, subs : SUBSET Subs, bound : BOOLEAN]

\* operands and results that the class of the opcode fixes
Shaped(i) ==
    /\ i.op \in {"jump", "try", "endtry", "retvoid", "fail"} => i.pops = 0 /\ i.pushes = 0
    /\ i.op \in {"branch", "coalesce", "ret", "throw"}       => i.pops = 1 /\ i.pushes = 0
    /\ i.op \in {"subscribe", "unsubscribe", "fire"}         => i.pushes = 0

Blank == [op |-> "plain", pops |-> 0, pushes |-> 0, checked |-> FALSE, fails |-> FALSE,
          to |-> 0, fns |-> {}, ev |-> "", subs |-> {}, bound |-> FALSE]

(***************************************************************************)
(* Opcodes that only move values                                           *)
(***************************************************************************)
\* LOAD_CONST_*, LOAD_LOCAL
Load == [Blank EXCEPT !.pushes = 1, !.checked = TRUE]
\* PUSH_NULL, LOAD_THIS, LOAD_STATIC, LOAD_EXCEPTION, EXCEPTION_IS_TYPE
Push == [Blank EXCEPT !.pushes = 1]
\* POP, STORE_LOCAL, STORE_STATIC
Pop == [Blank EXCEPT !.pops = 1]
\* arithmetic, comparison, logic, conversion and reflection of n operands
Apply(n) == [Blank EXCEPT !.pops = n, !.pushes = 1]
\* the same for opcodes that fail on some operands: division, array and field
\* access, checked casts, null assertions, CALL_HOST
MayFail(n) == [Apply(n) EXCEPT !.fails = TRUE]

(***************************************************************************)
(* Control flow                                                            *)
(***************************************************************************)
JumpTo(t)     == [Blank EXCEPT !.op = "jump", !.to = t]
BranchTo(t)   == [Blank EXCEPT !.op = "branch", !.pops = 1, !.to = t]
CoalesceTo(t) == [Blank EXCEPT !.op = "coalesce", !.pops = 1, !.to = t]

\* CALL and CALL_STATIC; CALL_METHOD and CALL_IFACE take the receiver as an
\* operand, may find it null, and dispatch on its class
CallFn(f, argc)      == [Blank EXCEPT !.op = "call", !.pops = argc, !.pushes = 1, !.fns = {f}]
CallMethod(fs, argc) == [Blank EXCEPT !.op = "call", !.pops = argc + 1, !.pushes = 1,
                                      !.fns = fs, !.fails = TRUE]
CallSuper(f, argc)   == [Blank EXCEPT !.op = "call", !.pops = argc, !.fns = {f}]

\* NEW of a class with the constructor in fs, or with none
NewOf(fs, argc) == [Blank EXCEPT !.op = "new", !.pops = argc, !.pushes = 1, !.fns = fs]

ReturnValue == [Blank EXCEPT !.op = "ret", !.pops = 1]
ReturnNone  == [Blank EXCEPT !.op = "retvoid"]
\* MATCH_FAIL: a runtime error whatever the operands
MatchFail   == [Blank EXCEPT !.op = "fail", !.fails = TRUE]

TryAt(t)    == [Blank EXCEPT !.op = "try", !.to = t]
TryEnd      == [Blank EXCEPT !.op = "endtry"]
ThrowIt     == [Blank EXCEPT !.op = "throw", !.pops = 1]

(***************************************************************************)
(* Events                                                                  *)
(***************************************************************************)
Static(e, s)   == [Blank EXCEPT !.ev = e, !.subs = {s}]
Bound(e, ss)   == [Blank EXCEPT !.ev = e, !.subs = ss, !.bound = TRUE, !.pops = 1]
On(i)          == [i EXCEPT !.op = "subscribe"]
Off(i)         == [i EXCEPT !.op = "unsubscribe"]
FireEvent(e, argc) == [Blank EXCEPT !.op = "fire", !.ev = e, !.pops = argc]

(***************************************************************************)
(* The depth analysis.  A chunk's depth at an instruction is an interval,  *)
(* and an instruction carries it along each of its edges.                  *)
(***************************************************************************)
Delta(i) == i.pushes - i.pops

Terminates(i) == i.op \in {"ret", "retvoid", "throw", "fail"}

\* successors of instruction i at pc: target, change of the minimum and of the
\* maximum; NULL_COALESCE lowers only the minimum when it falls through
Edges(i, pc) ==
    (IF Terminates(i) \/ i.op = "jump" THEN {}
     ELSE IF i.op = "coalesce" THEN {[to |-> pc + 1, min |-> -1, max |-> 0]}
     ELSE {[to |-> pc + 1, min |-> Delta(i), max |-> Delta(i)]})
    \cup
    (IF i.op = "coalesce" THEN {[to |-> i.to, min |-> 0, max |-> 0]}
     ELSE IF i.op \in {"jump", "branch", "try"}
            THEN {[to |-> i.to, min |-> Delta(i), max |-> Delta(i)]}
     ELSE {})

\* what the analysis guarantees of a chunk it accepts: [lo, hi] is closed under
\* every edge, no instruction lacks operands, nothing falls off the end and
\* peak bounds every depth
Accepted(code, lo, hi, peak, max) ==
    /\ Len(code) > 0 => lo[1] = 0 /\ hi[1] >= 0
    /\ peak \in 0..max
    /\ \A pc \in 1..Len(code) : lo[pc] >= 0 =>
         /\ code[pc].pops <= lo[pc] /\ lo[pc] <= hi[pc] /\ hi[pc] <= peak
         /\ \A e \in Edges(code[pc], pc) :
              /\ e.to \in 1..Len(code)
              /\ 0 <= lo[e.to] /\ lo[e.to] <= lo[pc] + e.min
              /\ hi[pc] + e.max <= hi[e.to]

(***************************************************************************)
(* The try blocks of a chunk.  open[pc] lists the catch targets of the     *)
(* blocks around an instruction, outermost first, as compile_stmt lays     *)
(* them out: TRY opens one, TRY_END closes the innermost, no other edge    *)
(* enters or leaves a block, and a catch clause is outside its own block.  *)
(* The verifier does not look at this, and a continue in a try block       *)
(* breaks it.                                                              *)
(***************************************************************************)
TriesNest(code, lo, open) ==
    /\ open[1] = <<>>
    /\ \A pc \in 1..Len(code) : lo[pc] >= 0 =>
         /\ open[pc] \in Seq(Nat)
         /\ \A k \in 1..Len(open[pc]) : open[open[pc][k]] = SubSeq(open[pc], 1, k - 1)
         /\ IF code[pc].op = "try" THEN open[pc + 1] = Append(open[pc], code[pc].to)
            ELSE IF code[pc].op = "endtry"
              THEN open[pc] # <<>> /\ open[pc + 1] = SubSeq(open[pc], 1, Len(open[pc]) - 1)
            ELSE \A e \in Edges(code[pc], pc) : open[e.to] = open[pc]
=============================================================================
