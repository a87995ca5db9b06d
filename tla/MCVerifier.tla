----------------------------- MODULE MCVerifier -----------------------------
(***************************************************************************)
(* Verifier on every chunk of up to Size instructions over a small menu    *)
(* (the longest ones end in a return or a jump), against the depths the    *)
(* machine really reaches.                                                 *)
(***************************************************************************)
EXTENDS Verifier, FiniteSets

CONSTANTS Size, MCOps

\* The menu: one value pushed, popped, and control flow to anywhere, including
\* one past the end
Targets == 1..(Size + 1)
Menu == {i \in {Push, Pop, ReturnNone, TryEnd}
              \cup UNION {{JumpTo(t), BranchTo(t), CoalesceTo(t), TryAt(t)} : t \in Targets} :
            i.op \in MCOps}
\* TLC keeps the value of a definition but not of one a configuration assigns to
\* a constant.
ShortChunks ==
    UNION {[1..n -> Menu] : n \in 0..(Size - 2)}
      \cup {Append(c, i) : c \in [1..(Size - 1) -> Menu], i \in {ReturnNone, JumpTo(1), JumpTo(2)}}
AllChunks == ShortChunks

\* while (c) { x = a ?? b; } in a menu of one
Coalescing == << Push, BranchTo(8), Push, CoalesceTo(6), Push, Pop, JumpTo(1), ReturnNone >>
CoalescingChunks == {Coalescing}

(***************************************************************************)
(* The machine's own depths: what XenoVM's actions do to sp within a       *)
(* frame.                                                                  *)
(***************************************************************************)
Moves(pc, d) ==
    LET i == code[pc] IN
    IF i.op = "coalesce" THEN {<<i.to, d>>, <<pc + 1, d - 1>>}
    ELSE (IF Terminates(i) \/ i.op = "jump" THEN {} ELSE {<<pc + 1, d + Delta(i)>>})
           \cup (IF Targeted(i) THEN {<<i.to, d + Delta(i)>>} ELSE {})

Runs(m) == m[1] \in 1..Len(code) /\ m[2] \in code[m[1]].pops..DepthMax

\* every pc and depth the machine reaches; it stops where an operand is missing
Depths ==
    LET after[n \in 0..(Len(code) * (DepthMax + 1))] ==
          IF n = 0 THEN {<<1, 0>>}
          ELSE LET seen == after[n - 1]
               IN seen \cup UNION {Moves(m[1], m[2]) : m \in {x \in seen : Runs(x)}}
    IN after[Len(code) * (DepthMax + 1)]

\* the machine runs the chunk to its returns, at one depth per instruction
Balanced ==
    /\ Len(code) > 0
    /\ \A m \in Depths : Runs(m)
    /\ \A m, n \in Depths : m[1] = n[1] => m = n
    /\ \A pc \in 1..Len(code) : Targeted(code[pc]) => code[pc].to \in 1..Len(code)
    /\ Terminates(code[Len(code)]) \/ code[Len(code)].op = "jump"

Follows(pc) == {m[1] : m \in Moves(pc, 0)}
Looped(pc) ==
    LET after[n \in 1..Len(code)] ==
          IF n = 1 THEN Follows(pc)
          ELSE LET seen == after[n - 1]
               IN seen \cup UNION {Follows(q) : q \in seen \cap 1..Len(code)}
    IN pc \in after[Len(code)]

Coalesces == {pc \in 1..Len(code) : code[pc].op = "coalesce"}

(***************************************************************************)
(* Properties                                                              *)
(***************************************************************************)
Decided == phase \in {"accepted", "rejected"}

\* Code that runs at one depth per instruction is not refused, as long as no ??
\* is inside a loop: the rounds converge before the guard and the intervals
\* lose nothing (ver_chunk, pass 3).  A ?? in a loop may be refused: its fall-through
\* lowers the least depth only, though the comment says "still net 0 at join".
BalancedIsAccepted ==
    phase = "rejected" => ~Balanced \/ \E pc \in Coalesces : Looped(pc)
=============================================================================
