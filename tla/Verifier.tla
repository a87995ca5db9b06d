------------------------------ MODULE Verifier ------------------------------
(***************************************************************************)
(* ver_chunk of source/compiler/xbc.c: one pass over a chunk's jump        *)
(* targets, then rounds that widen an interval of depths at every          *)
(* instruction until a round changes nothing.                              *)
(*                                                                         *)
(* Instructions are those of Bytecode, already decoded: a target that is   *)
(* no instruction of the chunk stands for one out of range or inside an    *)
(* instruction.  The code counts positions in bytes, the model in          *)
(* instructions.                                                           *)
(***************************************************************************)
EXTENDS Bytecode

CONSTANTS
    Chunks,     \* the chunks to verify
    DepthMax    \* VER_STACK_MAX

ASSUME VerifierAssumption ==
    /\ DepthMax \in Nat
    /\ \A c \in Chunks :
         /\ Len(c) \in Nat /\ DOMAIN c = 1..Len(c)
         /\ \A pc \in 1..Len(c) :
              /\ c[pc].op \in Ops /\ {c[pc].pops, c[pc].pushes, c[pc].to} \subseteq Nat
              /\ Shaped(c[pc])

VARIABLES
    code,       \* the chunk
    phase,      \* "targets", "depths", "peak", "accepted" or "rejected"
    at,         \* pos
    depth,      \* dmin and dmax
    changed, round,
    peak        \* max_stack

vars == <<code, phase, at, depth, changed, round, peak>>

Unreached == [lo |-> -1, hi |-> -1]

Init ==
    /\ code \in Chunks
    /\ phase = IF Len(code) = 0 THEN "accepted" ELSE "targets"
    /\ at = 1
    /\ depth = [pc \in 1..Len(code) |-> IF pc = 1 THEN [lo |-> 0, hi |-> 0] ELSE Unreached]
    /\ changed = FALSE /\ round = 1 /\ peak = 0

Reject == phase' = "rejected" /\ UNCHANGED <<code, at, depth, changed, round, peak>>

(***************************************************************************)
(* Targets                                                                 *)
(***************************************************************************)
Targeted(i) == i.op \in {"jump", "branch", "coalesce", "try"}

CheckTarget_PastEnd ==
    /\ phase = "targets" /\ at <= Len(code)
    /\ IF Targeted(code[at]) /\ code[at].to \notin 1..(Len(code) + 1)
         THEN Reject
         ELSE at' = at + 1 /\ UNCHANGED <<code, phase, depth, changed, round, peak>>

CheckTarget ==
    /\ phase = "targets" /\ at <= Len(code)
    /\ IF Targeted(code[at]) /\ code[at].to \notin 1..Len(code)
         THEN Reject
         ELSE at' = at + 1 /\ UNCHANGED <<code, phase, depth, changed, round, peak>>

\* the last instruction must not fall off the end
CheckEnd ==
    /\ phase = "targets" /\ at > Len(code)
    /\ IF Terminates(code[Len(code)]) \/ code[Len(code)].op = "jump"
         THEN phase' = "depths" /\ at' = 1 /\ UNCHANGED <<code, depth, changed, round, peak>>
         ELSE Reject

(***************************************************************************)
(* Depths                                                                  *)
(***************************************************************************)
Reached == phase = "depths" /\ at <= Len(code) /\ depth[at].lo >= 0

Skip ==
    /\ phase = "depths" /\ at <= Len(code) /\ depth[at].lo < 0
    /\ at' = at + 1
    /\ UNCHANGED <<code, phase, depth, changed, round, peak>>

AfterMin == depth[at].lo + (IF code[at].op = "coalesce" THEN -1 ELSE Delta(code[at]))
AfterMax == depth[at].hi + (IF code[at].op = "coalesce" THEN 0 ELSE Delta(code[at]))

Underflows_AtLimit == depth[at].lo <= code[at].pops
Underflows == depth[at].lo < code[at].pops \/ AfterMin < 0
Overflows_Never == FALSE
Overflows  == AfterMax > DepthMax

Refuse == Reached /\ (Underflows \/ Overflows) /\ Reject

\* VER_JOIN_RANGE: the least interval around both
Join(d, to, min, max) ==
    [d EXCEPT ![to] =
        IF @.lo < 0 THEN [lo |-> min, hi |-> max]
        ELSE [lo |-> IF @.lo > min THEN min ELSE @.lo,
              hi |-> IF @.hi < max THEN max ELSE @.hi]]

FallsThrough == ~Terminates(code[at]) /\ code[at].op # "jump" /\ at < Len(code)

AtNext == IF FallsThrough THEN Join(depth, at + 1, AfterMin, AfterMax) ELSE depth

AtTarget_SameForCoalesce(d) ==
    IF Targeted(code[at]) THEN Join(d, code[at].to, AfterMin, AfterMax) ELSE d

\* NULL_COALESCE jumps with the value it keeps
AtTarget(d) ==
    IF code[at].op = "coalesce" THEN Join(d, code[at].to, depth[at].lo, depth[at].hi)
    ELSE IF Targeted(code[at]) THEN Join(d, code[at].to, AfterMin, AfterMax)
    ELSE d

Propagate_FollowsJumps ==
    /\ Reached /\ ~Underflows /\ ~Overflows
    /\ depth' = AtTarget(AtNext)
    /\ changed' = (changed \/ depth' # depth)
    /\ at' = IF code[at].op = "jump" THEN code[at].to ELSE at + 1
    /\ UNCHANGED <<code, phase, round, peak>>

Propagate ==
    /\ Reached /\ ~Underflows /\ ~Overflows
    /\ depth' = AtTarget(AtNext)
    /\ changed' = (changed \/ depth' # depth)
    /\ at' = at + 1
    /\ UNCHANGED <<code, phase, round, peak>>

\* ch->count counts bytes and every instruction has one at least: the model
\* gives up no later than the code
GuardMax == Len(code) + 4

EndRound ==
    /\ phase = "depths" /\ at > Len(code)
    /\ IF ~changed
         THEN phase' = "peak" /\ at' = 1 /\ UNCHANGED <<code, depth, changed, round, peak>>
         ELSE IF round >= GuardMax THEN Reject
         ELSE /\ round' = round + 1 /\ changed' = FALSE /\ at' = 1
              /\ UNCHANGED <<code, phase, depth, peak>>

\* max_stack: the greatest of the maxima
TakePeak ==
    /\ phase = "peak" /\ at <= Len(code)
    /\ peak' = IF depth[at].hi > peak THEN depth[at].hi ELSE peak
    /\ at' = at + 1
    /\ UNCHANGED <<code, phase, depth, changed, round>>

Accept ==
    /\ phase = "peak" /\ at > Len(code)
    /\ phase' = "accepted"
    /\ UNCHANGED <<code, at, depth, changed, round, peak>>

Next == CheckTarget \/ CheckEnd \/ Skip \/ Refuse \/ Propagate \/ EndRound
        \/ TakePeak \/ Accept

Spec == Init /\ [][Next]_vars

\* ver_chunk is a loop
FairSpec == Spec /\ WF_vars(Next)

(***************************************************************************)
(* Properties                                                              *)
(***************************************************************************)
Interval == [lo : Int, hi : Int]

\* The verifier's tables have one interval per instruction, empty or within
\* [0, VER_STACK_MAX]; pos and the guard stay within the chunk (ver_chunk).
TypeOK ==
    /\ code \in Chunks /\ phase \in {"targets", "depths", "peak", "accepted", "rejected"}
    /\ at \in 1..(Len(code) + 1)
    /\ depth \in [1..Len(code) -> Interval]
    /\ \A pc \in 1..Len(code) : \/ depth[pc] = Unreached
                                \/ /\ 0 <= depth[pc].lo /\ depth[pc].lo <= depth[pc].hi
                                   /\ depth[pc].hi <= DepthMax
    /\ changed \in BOOLEAN /\ round \in 1..GuardMax
    /\ peak \in 0..DepthMax

LoOfDepth == [pc \in 1..Len(code) |-> depth[pc].lo]
HiOfDepth == [pc \in 1..Len(code) |-> depth[pc].hi]

\* A chunk ver_chunk accepts has what the machine relies on: along every edge
\* the depths stay within the intervals, no instruction lacks its operands,
\* nothing leaves the chunk, and max_stack covers every depth.
AcceptedIsSafe ==
    phase = "accepted" => Accepted(code, LoOfDepth, HiOfDepth, peak, DepthMax)

\* what pass 3 computes, in rounds that take all instructions at once
D == INSTANCE DepthAnalysis

\* The intervals accepted are the least ones, whatever order the rounds visited
\* the instructions in: dmin and dmax do not depend on the walk.
LeastIntervals ==
    phase = "accepted" /\ Len(code) > 0 =>
      LoOfDepth = D!LoOf(code) /\ HiOfDepth = D!HiOf(code) /\ peak = D!PeakOf(code)

\* ver_chunk comes to a verdict on every chunk, whatever its loops do to the
\* depths.
Verdict == <>(phase \in {"accepted", "rejected"})
=============================================================================
