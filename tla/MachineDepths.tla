--------------------------- MODULE MachineDepths ---------------------------
(***************************************************************************)
(* A chunk that ver_chunk (source/compiler/xbc.c) has verified by its      *)
(* table of effects, on the machine (source/vm/vm.c, xeno_execute), which  *)
(* has its own.                                                            *)
(***************************************************************************)
EXTENDS Opcodes, Verifier

\* the opcodes both tables agree on
Consistent == Emitted \ Miscounted

\* What the proofs ask of a chunk: it is made of these opcodes.
Agreed(c) ==
    /\ c # <<>>
    /\ \A pc \in 1..Len(c) :
         /\ c[pc].name \in Consistent /\ c[pc].argc \in Nat
         /\ c[pc] = Seen(c[pc].name, c[pc].argc, c[pc].to)

(***************************************************************************)
(* What the machine does with a chunk, by its own effects: the first       *)
(* opcode that lacks an operand is as far as it gets.                      *)
(***************************************************************************)
Real(pc) == Machine(code[pc].name, code[pc].argc)

Runs(m) == m[1] \in 1..Len(code) /\ m[2] \in Real(m[1]).takes..DepthMax

Moves(pc, d) ==
    LET after == d - Real(pc).takes + Real(pc).leaves
    IN (IF Terminates(code[pc]) \/ code[pc].op = "jump" THEN {} ELSE {<<pc + 1, after>>})
         \cup (IF Targeted(code[pc]) THEN {<<code[pc].to, after>>} ELSE {})

\* every pc and depth the machine reaches
Depths ==
    LET after[n \in 0..(Len(code) * (DepthMax + 1))] ==
          IF n = 0 THEN {<<1, 0>>}
          ELSE LET seen == after[n - 1]
               IN seen \cup UNION {Moves(m[1], m[2]) : m \in {x \in seen : Runs(x)}}
    IN after[Len(code) * (DepthMax + 1)]

(***************************************************************************)
(* Properties                                                              *)
(***************************************************************************)
\* In a chunk ver_chunk accepts the machine finds the operands of every opcode in
\* its frame: the verifier never counts more on the stack than there is (pass 3).
OperandsAreThere ==
    phase = "accepted" => \A m \in Depths : m[2] >= Real(m[1]).takes

\* max_stack covers what the machine has on the stack, however often it goes
\* round: push_call_frame's one test stands for all the pushes of the chunk.
PeakCovers ==
    phase = "accepted" => \A m \in Depths : m[2] <= peak

\* Every opcode may be used anywhere, in loops too: ver_chunk refuses a chunk only
\* if the machine would miss an operand in it ("so the stack math stays
\* consistent", EXPR_TYPEOF).
UsableAnywhere ==
    phase = "rejected" => \E m \in Depths : m[2] < Real(m[1]).takes
=============================================================================
