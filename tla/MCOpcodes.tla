----------------------------- MODULE MCOpcodes -----------------------------
(***************************************************************************)
(* ver_chunk on four chunks around every opcode: one that gives it its     *)
(* operands and drops its result, the same inside a loop, one that keeps   *)
(* the result, and one that lacks an operand.                              *)
(***************************************************************************)
EXTENDS MachineDepths

CONSTANTS Tested, ArgcMax

Null(n) == [k \in 1..n |-> Seen("PUSH_NULL", 0, 0)]
Drop(n) == [k \in 1..n |-> Seen("POP", 0, 0)]

\* o with as many operands less short as the machine takes; the arguments of a
\* NEW_PLAIN are compiled although the machine does not take them
Given(o, n) == IF o = "NEW_PLAIN" THEN n ELSE Machine(o, n).takes
Use(o, n, short, from) ==
    LET before == Null(Given(o, n) - short)
    IN before \o <<Seen(o, n, from + Len(before) + 1)>>
UseAndDrop(o, n, short, from) == Use(o, n, short, from) \o Drop(Machine(o, n).leaves)

Straight(o, n) == UseAndDrop(o, n, 0, 1) \o <<Seen("RETURN_VOID", 0, 0)>>
Short(o, n)    == UseAndDrop(o, n, 1, 1) \o <<Seen("RETURN_VOID", 0, 0)>>
Kept(o, n)     == Use(o, n, 0, 1) \o <<Seen("RETURN_VOID", 0, 0)>>
\* while (c) { o; }
Loop(o, n) ==
    LET body == UseAndDrop(o, n, 0, 3)
    IN <<Seen("PUSH_NULL", 0, 0), Seen("JUMP_IF_FALSE", 0, Len(body) + 4)>>
         \o body \o <<Seen("JUMP", 0, 1), Seen("RETURN_VOID", 0, 0)>>

Counted == Calls \cup Dispatch \cup Voids \cup {"NEW_PLAIN"}
Cases == {<<o, n>> \in Tested \X (0..ArgcMax) : n = 0 \/ o \in Counted}

Programs == {Straight(x[1], x[2]) : x \in Cases}
              \cup {Loop(x[1], x[2]) : x \in Cases}
              \cup {Kept(x[1], x[2]) : x \in Cases}
              \cup {Short(x[1], x[2]) : x \in {y \in Cases : Given(y[1], y[2]) > 0}}

\* TLC keeps the value of a definition but not of one a configuration assigns to
\* a constant.
AllPrograms == Programs

\* What VerifierProofs assumes of a chunk.
ASSUME AsTheProofsAsk == \A c \in Programs : Agreed(c)
=============================================================================
