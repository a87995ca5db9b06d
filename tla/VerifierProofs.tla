--------------------------- MODULE VerifierProofs ---------------------------
(***************************************************************************)
(* For every chunk and every VER_STACK_MAX: ver_chunk's tables stay in     *)
(* range, and the chunks it accepts are the ones the proofs about XenoVM   *)
(* start from.  What the machine does with the depths of an accepted chunk *)
(* comes last, for the opcodes that both tables agree on.                  *)
(*                                                                         *)
(* The rounds end when one of them changes nothing.  The inductive         *)
(* invariant says what such a round is worth: while changed is FALSE,      *)
(* every instruction the round has passed is Closed, and a Propagate that  *)
(* leaves the table alone closes one more.                                 *)
(***************************************************************************)
EXTENDS MachineDepths, FiniteSetTheorems, SequenceTheorems, WellFoundedInduction,
        NaturalsInduction, TLAPS

(***************************************************************************)
(* The inductive invariant                                                 *)
(***************************************************************************)
Boundaries == 1..Len(code)

Aimed(pc) == Targeted(code[pc]) => code[pc].to \in Boundaries

Ended == Len(code) > 0 /\ (Terminates(code[Len(code)]) \/ code[Len(code)].op = "jump")

\* the entry is reached at depth 0 and nothing is below it
Entry == Len(code) > 0 => depth[1].lo = 0

\* an instruction has its operands, and both its edges lead into the intervals
Closed(pc) ==
    depth[pc].lo >= 0 =>
      /\ code[pc].pops <= depth[pc].lo
      /\ \A e \in Edges(code[pc], pc) :
           /\ e.to \in Boundaries
           /\ 0 <= depth[e.to].lo /\ depth[e.to].lo <= depth[pc].lo + e.min
           /\ depth[pc].hi + e.max <= depth[e.to].hi

AimedSoFar == phase = "targets" => \A pc \in 1..(at - 1) : Aimed(pc)

Sound ==
    phase \in {"depths", "peak", "accepted"} /\ Len(code) > 0 =>
      Ended /\ \A pc \in Boundaries : Aimed(pc)

ClosedSoFar == phase = "depths" /\ ~changed => \A pc \in 1..(at - 1) : Closed(pc)

Fixpoint ==
    phase \in {"peak", "accepted"} => \A pc \in Boundaries : Closed(pc)

PeakSoFar == phase = "peak" => \A pc \in 1..(at - 1) : depth[pc].hi <= peak

PeakOfAll == phase = "accepted" => \A pc \in Boundaries : depth[pc].hi <= peak

NotEmpty == phase \in {"targets", "depths", "peak"} => Len(code) > 0

IInv ==
    /\ TypeOK /\ NotEmpty /\ Entry /\ AimedSoFar /\ Sound /\ ClosedSoFar
    /\ Fixpoint /\ PeakSoFar /\ PeakOfAll

(***************************************************************************)
(* Lemmas                                                                  *)
(***************************************************************************)
\* What VerifierAssumption says of the instruction at pc.
LEMMA CodeFacts ==
  ASSUME code \in Chunks
  PROVE  /\ Len(code) \in Nat
         /\ DepthMax \in Nat
         /\ GuardMax \in Nat /\ GuardMax >= 4
         /\ \A pc \in Boundaries :
              /\ code[pc].pops \in Nat /\ code[pc].pushes \in Nat /\ code[pc].to \in Nat
              /\ code[pc].op \in Ops /\ Shaped(code[pc])
  BY VerifierAssumption DEF GuardMax, Boundaries

\* The instruction under the cursor leaves depths the table can hold: what the
\* tests before the propagation establish.
LEMMA AfterFacts ==
  ASSUME TypeOK, Reached, ~Underflows, ~Overflows
  PROVE  /\ at \in Boundaries
         /\ depth[at].lo \in Nat /\ depth[at].hi \in Nat
         /\ depth[at].lo <= depth[at].hi /\ depth[at].hi <= DepthMax
         /\ code[at].pops <= depth[at].lo
         /\ AfterMin \in Nat /\ AfterMax \in Nat
         /\ AfterMin <= AfterMax /\ AfterMax <= DepthMax
  <1>1. at \in Boundaries
    BY CodeFacts DEF TypeOK, Reached, Boundaries
  <1>2. depth[at].lo \in Int /\ depth[at].hi \in Int
    BY <1>1 DEF TypeOK, Interval, Boundaries
  <1>3. depth[at].lo >= 0 /\ depth[at].lo <= depth[at].hi /\ depth[at].hi <= DepthMax
    BY <1>1, <1>2 DEF TypeOK, Reached, Unreached, Boundaries
  <1>4. code[at].pops \in Nat /\ code[at].pushes \in Nat
    BY <1>1, CodeFacts DEF TypeOK
  <1>5. Delta(code[at]) \in Int
    BY <1>4 DEF Delta
  <1>6. DepthMax \in Nat
    BY CodeFacts DEF TypeOK
  <1>7. AfterMin \in Int /\ AfterMax \in Int /\ AfterMin <= AfterMax
    <2>. HIDE DEF Delta
    <2>. QED
      BY <1>2, <1>3, <1>5 DEF AfterMin, AfterMax
  <1>8. code[at].pops <= depth[at].lo /\ AfterMin >= 0 /\ AfterMax <= DepthMax
    BY <1>2, <1>4, <1>6, <1>7 DEF Underflows, Overflows
  <1>. QED
    BY <1>1, <1>2, <1>3, <1>7, <1>8

\* A table of intervals, its entries empty or within [0, VER_STACK_MAX].
Table(d) ==
    /\ d \in [Boundaries -> Interval]
    /\ \A pc \in Boundaries : \/ d[pc] = Unreached
                              \/ /\ 0 <= d[pc].lo /\ d[pc].lo <= d[pc].hi
                                 /\ d[pc].hi <= DepthMax

\* A table d2 holds every interval of d1.
Widens(d1, d2) ==
    \A pc \in Boundaries : d1[pc].lo >= 0 =>
      0 <= d2[pc].lo /\ d2[pc].lo <= d1[pc].lo /\ d1[pc].hi <= d2[pc].hi

\* VER_JOIN_RANGE keeps a table a table, loses nothing, and covers the joined
\* interval.
LEMMA JoinWidens ==
  ASSUME DepthMax \in Nat, Len(code) \in Nat, NEW d, Table(d), NEW to \in Boundaries,
         NEW min \in Nat, NEW max \in Nat, min <= max, max <= DepthMax
  PROVE  /\ Table(Join(d, to, min, max))
         /\ Widens(d, Join(d, to, min, max))
         /\ 0 <= Join(d, to, min, max)[to].lo
         /\ Join(d, to, min, max)[to].lo <= min
         /\ max <= Join(d, to, min, max)[to].hi
  <1>. DEFINE j == Join(d, to, min, max)
  <1>1. d[to].lo \in Int /\ d[to].hi \in Int /\ DOMAIN d = Boundaries
    BY DEF Table, Interval
  <1>2. /\ j[to] = IF d[to].lo < 0 THEN [lo |-> min, hi |-> max]
                   ELSE [lo |-> IF d[to].lo > min THEN min ELSE d[to].lo,
                         hi |-> IF d[to].hi < max THEN max ELSE d[to].hi]
        /\ \A pc \in Boundaries : pc # to => j[pc] = d[pc]
        /\ j \in [Boundaries -> Interval]
    BY <1>1 DEF Join, Table, Interval
  <1>3. d[to] = Unreached \/ (0 <= d[to].lo /\ d[to].lo <= d[to].hi /\ d[to].hi <= DepthMax)
    BY DEF Table
  <1>4. /\ 0 <= j[to].lo /\ j[to].lo <= j[to].hi /\ j[to].hi <= DepthMax
        /\ j[to].lo <= min /\ max <= j[to].hi
        /\ d[to].lo >= 0 => j[to].lo <= d[to].lo /\ d[to].hi <= j[to].hi
    <2>1. CASE d[to].lo < 0
      BY <2>1, <1>1, <1>2
    <2>2. CASE d[to].lo >= 0
      BY <2>2, <1>1, <1>2, <1>3 DEF Unreached
    <2>. QED
      BY <2>1, <2>2, <1>1
  <1>5. Table(j)
    BY <1>2, <1>4 DEF Table
  <1>6. \A pc \in Boundaries : d[pc].lo \in Int /\ d[pc].hi \in Int
    BY DEF Table, Interval
  <1>7. Widens(d, j)
    BY <1>2, <1>4, <1>6 DEF Widens
  <1>. QED
    BY <1>4, <1>5, <1>7

\* The two joins of one instruction: the table stays one, entries only widen,
\* and both edges lead into it afterwards.
LEMMA PropagateCovers ==
  ASSUME TypeOK, Reached, ~Underflows, ~Overflows, Aimed(at), Ended
  PROVE  /\ Table(AtTarget(AtNext)) /\ Widens(depth, AtTarget(AtNext))
         /\ \A e \in Edges(code[at], at) :
              /\ e.to \in Boundaries
              /\ 0 <= AtTarget(AtNext)[e.to].lo
              /\ AtTarget(AtNext)[e.to].lo <= depth[at].lo + e.min
              /\ depth[at].hi + e.max <= AtTarget(AtNext)[e.to].hi
  <1>. DEFINE i == code[at]
              n == AtNext
              t == AtTarget(n)
  <1>1. /\ at \in Boundaries /\ depth[at].lo \in Nat /\ depth[at].hi \in Nat
        /\ depth[at].lo <= depth[at].hi /\ depth[at].hi <= DepthMax
        /\ AfterMin \in Nat /\ AfterMax \in Nat /\ AfterMin <= AfterMax /\ AfterMax <= DepthMax
    BY AfterFacts
  <1>2. /\ DepthMax \in Nat /\ Len(code) \in Nat
        /\ i.pops \in Nat /\ i.pushes \in Nat /\ i.to \in Nat
    BY <1>1, CodeFacts DEF TypeOK
  <1>3. Table(depth)
    BY DEF Table, TypeOK, Boundaries
  <1>4. /\ Table(n) /\ Widens(depth, n)
        /\ FallsThrough => /\ at + 1 \in Boundaries
                           /\ 0 <= n[at + 1].lo /\ n[at + 1].lo <= AfterMin
                           /\ AfterMax <= n[at + 1].hi
    <2>1. CASE FallsThrough
      <3>1. at + 1 \in Boundaries
        BY <2>1, <1>1, <1>2 DEF FallsThrough, Boundaries
      <3>2. n = Join(depth, at + 1, AfterMin, AfterMax)
        BY <2>1 DEF AtNext
      <3>. QED
        BY <3>1, <3>2, <1>1, <1>2, <1>3, JoinWidens
    <2>2. CASE ~FallsThrough
      <3>1. n = depth
        BY <2>2 DEF AtNext
      <3>2. \A pc \in Boundaries : depth[pc].lo \in Int /\ depth[pc].hi \in Int
        BY <1>3 DEF Table, Interval
      <3>. QED
        BY <3>1, <3>2, <1>3, <2>2 DEF Widens
    <2>. QED
      BY <2>1, <2>2
  <1>. DEFINE min == IF i.op = "coalesce" THEN depth[at].lo ELSE AfterMin
              max == IF i.op = "coalesce" THEN depth[at].hi ELSE AfterMax
  <1>5. min \in Nat /\ max \in Nat /\ min <= max /\ max <= DepthMax
    BY <1>1
  <1>6. /\ Table(t) /\ Widens(n, t)
        /\ Targeted(i) => /\ i.to \in Boundaries
                          /\ 0 <= t[i.to].lo /\ t[i.to].lo <= min /\ max <= t[i.to].hi
    <2>1. CASE Targeted(i)
      <3>1. i.to \in Boundaries
        BY <2>1 DEF Aimed
      <3>2. t = Join(n, i.to, min, max)
        BY <2>1 DEF AtTarget, Targeted
      <3>. HIDE DEF n, t, min, max
      <3>. QED
        BY <3>1, <3>2, <1>2, <1>4, <1>5, JoinWidens
    <2>2. CASE ~Targeted(i)
      <3>1. t = n
        BY <2>2 DEF AtTarget, Targeted
      <3>2. \A pc \in Boundaries : n[pc].lo \in Int /\ n[pc].hi \in Int
        BY <1>4 DEF Table, Interval
      <3>. QED
        BY <3>1, <3>2, <1>4, <2>2 DEF Widens
    <2>. QED
      BY <2>1, <2>2
  <1>7. \A pc \in Boundaries : /\ depth[pc].lo \in Int /\ depth[pc].hi \in Int
                               /\ n[pc].lo \in Int /\ n[pc].hi \in Int
                               /\ t[pc].lo \in Int /\ t[pc].hi \in Int
    BY <1>3, <1>4, <1>6 DEF Table, Interval
  <1>8. Widens(depth, t)
    <2>. HIDE DEF n, t
    <2>. QED
      BY <1>4, <1>6, <1>7 DEF Widens
  <1>9. ASSUME NEW e \in Edges(i, at)
        PROVE  /\ e.to \in Boundaries
               /\ 0 <= t[e.to].lo /\ t[e.to].lo <= depth[at].lo + e.min
               /\ depth[at].hi + e.max <= t[e.to].hi
    <2>. DEFINE first == [to |-> at + 1,
                          min |-> IF i.op = "coalesce" THEN -1 ELSE Delta(i),
                          max |-> IF i.op = "coalesce" THEN 0 ELSE Delta(i)]
                second == [to |-> i.to,
                           min |-> IF i.op = "coalesce" THEN 0 ELSE Delta(i),
                           max |-> IF i.op = "coalesce" THEN 0 ELSE Delta(i)]
    <2>1. \/ e = first /\ ~Terminates(i) /\ i.op # "jump"
          \/ e = second /\ Targeted(i)
      BY <1>9 DEF Edges, Targeted, Terminates
    <2>2. CASE e = first /\ ~Terminates(i) /\ i.op # "jump"
      <3>1. FallsThrough
        <4>1. at # Len(code)
          BY <2>2 DEF Ended
        <4>. QED
          BY <4>1, <2>2, <1>1, <1>2 DEF FallsThrough, Boundaries
      <3>2. /\ e.to = at + 1
            /\ depth[at].lo + e.min = AfterMin /\ depth[at].hi + e.max = AfterMax
        BY <2>2 DEF AfterMin, AfterMax
      <3>3. /\ at + 1 \in Boundaries /\ 0 <= n[at + 1].lo /\ n[at + 1].lo <= AfterMin
            /\ AfterMax <= n[at + 1].hi
        BY <3>1, <1>4
      <3>. HIDE DEF n, t
      <3>4. 0 <= t[at + 1].lo /\ t[at + 1].lo <= n[at + 1].lo /\ n[at + 1].hi <= t[at + 1].hi
        BY <3>3, <1>6, <1>7 DEF Widens
      <3>. QED
        BY <3>2, <3>3, <3>4, <1>1, <1>7
    <2>3. CASE e = second /\ Targeted(i)
      <3>1. e.to = i.to /\ depth[at].lo + e.min = min /\ depth[at].hi + e.max = max
        BY <2>3, <1>1 DEF AfterMin, AfterMax
      <3>. HIDE DEF n, t, min, max
      <3>. QED
        BY <3>1, <2>3, <1>6
    <2>. QED
      BY <2>1, <2>2, <2>3
  <1>. QED
    BY <1>6, <1>8, <1>9

(***************************************************************************)
(* The invariant holds                                                     *)
(***************************************************************************)
\* The entry is at depth 0 and everything else unreached (ver_chunk).
LEMMA InitIInv == Init => IInv
  <1>. SUFFICES ASSUME Init PROVE IInv
    OBVIOUS
  <1>1. /\ DepthMax \in Nat /\ Len(code) \in Nat /\ GuardMax \in Nat /\ GuardMax >= 4
    <2>1. code \in Chunks
      BY DEF Init
    <2>. QED
      BY <2>1, CodeFacts
  <1>2. TypeOK
    <2>1. /\ depth \in [1..Len(code) -> Interval]
          /\ \A pc \in 1..Len(code) :
               depth[pc] = Unreached \/ depth[pc] = [lo |-> 0, hi |-> 0]
      BY DEF Init, Interval, Unreached
    <2>2. \A pc \in 1..Len(code) :
             \/ depth[pc] = Unreached
             \/ 0 <= depth[pc].lo /\ depth[pc].lo <= depth[pc].hi /\ depth[pc].hi <= DepthMax
      BY <1>1, <2>1
    <2>3. code \in Chunks /\ at = 1 /\ changed = FALSE /\ round = 1 /\ peak = 0
      BY DEF Init
    <2>4. phase \in {"accepted", "targets"}
      BY DEF Init
    <2>. QED
      <3>1. at \in 1..(Len(code) + 1) /\ round \in 1..GuardMax /\ peak \in 0..DepthMax
        BY <1>1, <2>3
      <3>2. changed \in BOOLEAN /\ code \in Chunks
        BY <2>3
      <3>. QED
        BY <2>1, <2>2, <2>4, <3>1, <3>2, Zenon DEF TypeOK
  <1>3. phase = IF Len(code) = 0 THEN "accepted" ELSE "targets"
    BY DEF Init
  <1>. QED
    BY <1>1, <1>2, <1>3 DEF Init, IInv, NotEmpty, AimedSoFar, Sound, ClosedSoFar, Fixpoint,
                            PeakSoFar, PeakOfAll, Boundaries, Entry

\* Every step of ver_chunk keeps it: only Propagate writes the table, and EndRound
\* turns a round without a change into Fixpoint.
LEMMA NextIInv == IInv /\ [Next]_vars => IInv'
  <1>. SUFFICES ASSUME IInv, [Next]_vars PROVE IInv'
    OBVIOUS
  <1>1. /\ TypeOK /\ NotEmpty /\ Entry /\ AimedSoFar /\ Sound /\ ClosedSoFar
        /\ Fixpoint /\ PeakSoFar /\ PeakOfAll
    BY DEF IInv
  <1>2. /\ DepthMax \in Nat /\ Len(code) \in Nat /\ GuardMax \in Nat /\ GuardMax >= 4
        /\ at \in 1..(Len(code) + 1) /\ code \in Chunks
        /\ depth \in [Boundaries -> Interval]
        /\ phase \in {"targets", "depths", "peak", "accepted", "rejected"}
    <2>1. code \in Chunks /\ at \in 1..(Len(code) + 1)
      BY <1>1 DEF TypeOK
    <2>. QED
      BY <1>1, <2>1, CodeFacts DEF TypeOK, Boundaries
  <1>3. ASSUME Reject PROVE IInv'
    BY <1>1, <1>3 DEF Reject, IInv, TypeOK, NotEmpty, AimedSoFar, Sound, ClosedSoFar, Fixpoint,
                 PeakSoFar, PeakOfAll, GuardMax, Entry
  <1>4. CASE CheckTarget
    <2>1. CASE Reject
      BY <2>1, <1>3
    <2>2. CASE ~Reject
      <3>1. /\ phase = "targets" /\ at <= Len(code) /\ at' = at + 1
            /\ UNCHANGED <<code, phase, depth, changed, round, peak>>
            /\ Targeted(code[at]) => code[at].to \in 1..Len(code)
        BY <2>2, <1>4 DEF CheckTarget
      <3>2. TypeOK'
        BY <1>1, <1>2, <3>1 DEF TypeOK, GuardMax
      <3>3. AimedSoFar'
        <4>1. \A pc \in 1..(at' - 1) : pc \in 1..(at - 1) \/ pc = at
          BY <1>2, <3>1
        <4>. QED
          BY <1>1, <3>1, <4>1 DEF AimedSoFar, Aimed, Boundaries
      <3>. QED
        BY <1>1, <3>1, <3>2, <3>3 DEF IInv, NotEmpty, Entry, Sound, ClosedSoFar, Fixpoint, PeakSoFar, PeakOfAll
    <2>. QED
      BY <2>1, <2>2
  <1>5. CASE CheckEnd
    <2>1. CASE Reject
      BY <2>1, <1>3
    <2>2. CASE ~Reject
      <3>1. /\ phase = "targets" /\ at > Len(code) /\ phase' = "depths" /\ at' = 1
            /\ UNCHANGED <<code, depth, changed, round, peak>>
            /\ Terminates(code[Len(code)]) \/ code[Len(code)].op = "jump"
        BY <2>2, <1>5 DEF CheckEnd
      <3>2. Len(code) > 0
        BY <1>1, <3>1 DEF NotEmpty
      <3>3. TypeOK'
        BY <1>1, <1>2, <3>1 DEF TypeOK, GuardMax
      <3>4. \A pc \in Boundaries : Aimed(pc)
        <4>1. at = Len(code) + 1
          BY <1>2, <3>1
        <4>. QED
          BY <1>1, <1>2, <3>1, <4>1 DEF AimedSoFar, Boundaries
      <3>5. depth[1].lo = 0
        BY <1>1, <3>2 DEF Entry
      <3>6. Sound'
        BY <3>1, <3>2, <3>4, <3>5 DEF Sound, Ended, Aimed, Boundaries
      <3>7. ClosedSoFar'
        BY <3>1 DEF ClosedSoFar
      <3>. QED
        BY <1>1, <3>1, <3>2, <3>3, <3>6, <3>7
           DEF IInv, NotEmpty, Entry, AimedSoFar, Fixpoint, PeakSoFar, PeakOfAll
    <2>. QED
      BY <2>1, <2>2
  <1>6. CASE Skip
    <2>1. /\ phase = "depths" /\ at <= Len(code) /\ depth[at].lo < 0 /\ at' = at + 1
          /\ UNCHANGED <<code, phase, depth, changed, round, peak>>
      BY <1>6 DEF Skip
    <2>2. TypeOK'
      BY <1>1, <1>2, <2>1 DEF TypeOK, GuardMax
    <2>3. ClosedSoFar'
      <3>1. Closed(at)
        BY <1>2, <2>1 DEF Closed, Interval, Boundaries
      <3>2. \A pc \in 1..(at' - 1) : pc \in 1..(at - 1) \/ pc = at
        BY <1>2, <2>1
      <3>. QED
        BY <1>1, <2>1, <3>1, <3>2 DEF ClosedSoFar, Closed, Boundaries
    <2>. QED
      BY <1>1, <2>1, <2>2, <2>3
         DEF IInv, NotEmpty, Entry, AimedSoFar, Sound, Ended, Aimed, Fixpoint, PeakSoFar, PeakOfAll,
             Boundaries
  <1>7. CASE Refuse
    BY <1>7, <1>3 DEF Refuse
  <1>8. CASE Propagate
    <2>1. /\ phase = "depths" /\ Reached /\ ~Underflows /\ ~Overflows
          /\ depth' = AtTarget(AtNext)
          /\ changed' = (changed \/ depth' # depth) /\ at' = at + 1
          /\ UNCHANGED <<code, phase, round, peak>>
      BY <1>8 DEF Propagate, Reached
    <2>2. /\ at \in Boundaries /\ depth[at].lo \in Nat /\ depth[at].hi \in Nat
          /\ code[at].pops <= depth[at].lo
      BY <1>1, <2>1, AfterFacts
    <2>3. Ended /\ Aimed(at) /\ Len(code) > 0
      BY <1>1, <1>2, <2>1, <2>2 DEF Sound, Boundaries
    <2>4. /\ Table(depth') /\ Widens(depth, depth')
          /\ \A e \in Edges(code[at], at) :
               /\ e.to \in Boundaries
               /\ 0 <= depth'[e.to].lo /\ depth'[e.to].lo <= depth[at].lo + e.min
               /\ depth[at].hi + e.max <= depth'[e.to].hi
      BY <1>1, <2>1, <2>3, PropagateCovers
    <2>5. TypeOK'
      BY <1>1, <1>2, <2>1, <2>2, <2>4 DEF TypeOK, GuardMax, Table, Boundaries
    <2>6. Entry'
      <3>1. 1 \in Boundaries /\ depth[1].lo = 0 /\ depth'[1].lo \in Int
        <4>1. 1 \in Boundaries /\ depth[1].lo = 0
          BY <1>1, <1>2, <2>3 DEF Entry, Boundaries
        <4>. QED
          BY <4>1, <2>1, <2>4 DEF Table, Interval
      <3>. QED
        BY <3>1, <2>4 DEF Widens, Entry
    <2>7. ClosedSoFar'
      <3>. SUFFICES ASSUME ~changed', NEW pc \in 1..(at' - 1) PROVE Closed(pc)'
        BY DEF ClosedSoFar
      <3>1. ~changed /\ depth' = depth /\ code' = code
        BY <2>1
      <3>2. pc \in 1..(at - 1) \/ pc = at
        BY <1>2, <2>1
      <3>3. Closed(pc)
        <4>1. CASE pc = at
          BY <4>1, <2>2, <2>4, <3>1 DEF Closed
        <4>2. CASE pc \in 1..(at - 1)
          BY <4>2, <1>1, <2>1, <3>1 DEF ClosedSoFar
        <4>. QED
          BY <3>2, <4>1, <4>2
      <3>. QED
        BY <3>1, <3>3 DEF Closed, Boundaries
    <2>. QED
      BY <1>1, <2>1, <2>5, <2>6, <2>7
         DEF IInv, NotEmpty, AimedSoFar, Sound, Ended, Aimed, Fixpoint, PeakSoFar, PeakOfAll,
             Boundaries
  <1>9. CASE EndRound
    <2>1. CASE Reject
      BY <2>1, <1>3
    <2>2. CASE ~changed /\ ~Reject
      <3>1. /\ phase = "depths" /\ at > Len(code) /\ phase' = "peak" /\ at' = 1
            /\ UNCHANGED <<code, depth, changed, round, peak>>
        BY <2>2, <1>9 DEF EndRound
      <3>2. TypeOK'
        BY <1>1, <1>2, <3>1 DEF TypeOK, GuardMax
      <3>3. Fixpoint'
        <4>1. at = Len(code) + 1
          BY <1>2, <3>1
        <4>2. \A pc \in Boundaries : Closed(pc)
          BY <1>1, <1>2, <2>2, <3>1, <4>1 DEF ClosedSoFar, Boundaries
        <4>. QED
          BY <3>1, <4>2 DEF Fixpoint, Closed, Boundaries
      <3>4. PeakSoFar'
        BY <3>1 DEF PeakSoFar
      <3>. QED
        BY <1>1, <3>1, <3>2, <3>3, <3>4
           DEF IInv, NotEmpty, Entry, AimedSoFar, Sound, Ended, Aimed, ClosedSoFar, PeakOfAll,
               Boundaries
    <2>3. CASE changed /\ ~Reject
      <3>1. /\ phase = "depths" /\ round < GuardMax /\ round' = round + 1 /\ changed' = FALSE
            /\ at' = 1 /\ UNCHANGED <<code, phase, depth, peak>>
        <4>1. round \in Int
          BY <1>1, <1>2 DEF TypeOK
        <4>. QED
          BY <4>1, <1>2, <2>3, <1>9 DEF EndRound
      <3>2. TypeOK'
        <4>1. round' \in 1..GuardMax' /\ at' \in 1..(Len(code) + 1)
          <5>1. round \in 1..GuardMax /\ GuardMax' = GuardMax
            BY <1>1, <3>1 DEF TypeOK, GuardMax
          <5>. QED
            BY <5>1, <1>2, <3>1
        <4>. QED
          BY <1>1, <3>1, <4>1 DEF TypeOK
      <3>3. ClosedSoFar'
        BY <3>1 DEF ClosedSoFar
      <3>. QED
        BY <1>1, <3>1, <3>2, <3>3
           DEF IInv, NotEmpty, Entry, AimedSoFar, Sound, Ended, Aimed, Fixpoint, PeakSoFar, PeakOfAll,
               Boundaries
    <2>. QED
      BY <2>1, <2>2, <2>3
  <1>10. CASE TakePeak
    <2>1. /\ phase = "peak" /\ at <= Len(code) /\ at' = at + 1
          /\ peak' = IF depth[at].hi > peak THEN depth[at].hi ELSE peak
          /\ UNCHANGED <<code, phase, depth, changed, round>>
      BY <1>10 DEF TakePeak
    <2>2. at \in Boundaries /\ peak \in 0..DepthMax
      BY <1>1, <1>2, <2>1 DEF TypeOK, Boundaries
    <2>3. depth[at].hi \in Int /\ depth[at].hi <= DepthMax
      <3>1. depth[at].hi \in Int
        BY <1>2, <2>2 DEF Interval
      <3>2. depth[at] = Unreached \/ depth[at].hi <= DepthMax
        BY <1>1, <2>2 DEF TypeOK, Boundaries
      <3>. QED
        BY <1>2, <3>1, <3>2 DEF Unreached
    <2>4. peak' \in 0..DepthMax /\ peak' >= peak /\ depth[at].hi <= peak'
      BY <1>2, <2>1, <2>2, <2>3
    <2>5. TypeOK'
      BY <1>1, <1>2, <2>1, <2>4 DEF TypeOK, GuardMax
    <2>6. PeakSoFar'
      <3>1. \A pc \in 1..(at' - 1) : pc \in Boundaries /\ (pc \in 1..(at - 1) \/ pc = at)
        BY <1>2, <2>1 DEF Boundaries
      <3>2. \A pc \in Boundaries : depth[pc].hi \in Int
        BY <1>2 DEF Interval
      <3>3. \A pc \in 1..(at' - 1) : depth[pc].hi <= peak'
        BY <1>1, <2>1, <2>2, <2>4, <3>1, <3>2 DEF PeakSoFar
      <3>. QED
        BY <2>1, <3>3 DEF PeakSoFar
    <2>. QED
      BY <1>1, <2>1, <2>5, <2>6
         DEF IInv, NotEmpty, Entry, AimedSoFar, Sound, Ended, Aimed, ClosedSoFar, Fixpoint, Closed,
             PeakOfAll, Boundaries
  <1>11. CASE Accept
    <2>1. /\ phase = "peak" /\ at > Len(code) /\ phase' = "accepted"
          /\ UNCHANGED <<code, at, depth, changed, round, peak>>
      BY <1>11 DEF Accept
    <2>2. TypeOK'
      BY <1>1, <1>2, <2>1 DEF TypeOK, GuardMax
    <2>3. PeakOfAll'
      <3>1. at = Len(code) + 1
        BY <1>2, <2>1
      <3>2. \A pc \in Boundaries : depth[pc].hi <= peak
        BY <1>1, <1>2, <2>1, <3>1 DEF PeakSoFar, Boundaries
      <3>. QED
        BY <2>1, <3>2 DEF PeakOfAll, Boundaries
    <2>. QED
      BY <1>1, <2>1, <2>2, <2>3
         DEF IInv, NotEmpty, Entry, AimedSoFar, Sound, Ended, Aimed, ClosedSoFar, Fixpoint, Closed,
             PeakSoFar, Boundaries
  <1>12. CASE UNCHANGED vars
    BY <1>1, <1>12
       DEF vars, IInv, TypeOK, NotEmpty, Entry, AimedSoFar, Sound, Ended, Aimed, ClosedSoFar, Fixpoint,
           Closed, PeakSoFar, PeakOfAll, Boundaries, GuardMax
  <1>. QED
    BY <1>4, <1>5, <1>6, <1>7, <1>8, <1>9, <1>10, <1>11, <1>12 DEF Next

\* Hence the invariant holds always.
LEMMA AlwaysIInv == Spec => []IInv
  BY InitIInv, NextIInv, PTL DEF Spec

(***************************************************************************)
(* Theorems                                                                *)
(***************************************************************************)
\* The depth tables, the cursor and the round counter stay in range: no
\* instruction ver_chunk visits makes it read or write outside dmin and dmax, and
\* no depth passes VER_STACK_MAX (ver_chunk).
THEOREM TablesInRange == Spec => []TypeOK
  <1>1. IInv => TypeOK
    BY DEF IInv
  <1>. QED
    BY <1>1, AlwaysIInv, PTL

\* A chunk ver_chunk accepts is what XenoVMProofs assumes of every chunk the
\* machine runs: closed intervals, operands for every instruction, nowhere to
\* leave the chunk, max_stack above every depth (ver_chunk).
THEOREM AcceptanceIsSound == Spec => []AcceptedIsSafe
  <1>1. IInv => AcceptedIsSafe
    <2>. SUFFICES ASSUME IInv, phase = "accepted"
                  PROVE  Accepted(code, LoOfDepth, HiOfDepth, peak, DepthMax)
      BY DEF AcceptedIsSafe
    <2>1. /\ TypeOK /\ Entry /\ Fixpoint /\ PeakOfAll
          /\ DepthMax \in Nat /\ Len(code) \in Nat /\ peak \in 0..DepthMax
          /\ depth \in [Boundaries -> Interval]
      <3>1. TypeOK /\ code \in Chunks
        BY DEF IInv, TypeOK
      <3>. QED
        BY <3>1, CodeFacts DEF IInv, TypeOK, Boundaries
    <2>2. \A pc \in Boundaries : /\ LoOfDepth[pc] = depth[pc].lo /\ HiOfDepth[pc] = depth[pc].hi
                                 /\ depth[pc].lo \in Int /\ depth[pc].hi \in Int
      BY <2>1 DEF LoOfDepth, HiOfDepth, Boundaries, Interval
    <2>3. \A pc \in Boundaries : depth[pc].lo >= 0 => depth[pc].lo <= depth[pc].hi
      BY <2>1 DEF TypeOK, Unreached, Boundaries
    <2>4. Len(code) > 0 => LoOfDepth[1] = 0 /\ HiOfDepth[1] >= 0
      <3>. SUFFICES ASSUME Len(code) > 0 PROVE LoOfDepth[1] = 0 /\ HiOfDepth[1] >= 0
        OBVIOUS
      <3>1. 1 \in Boundaries /\ depth[1].lo = 0
        BY <2>1 DEF Boundaries, Entry
      <3>. QED
        BY <3>1, <2>2, <2>3
    <2>5. ASSUME NEW pc \in Boundaries, LoOfDepth[pc] >= 0
          PROVE  /\ code[pc].pops <= LoOfDepth[pc] /\ LoOfDepth[pc] <= HiOfDepth[pc]
                 /\ HiOfDepth[pc] <= peak
                 /\ \A e \in Edges(code[pc], pc) :
                      /\ e.to \in Boundaries
                      /\ 0 <= LoOfDepth[e.to] /\ LoOfDepth[e.to] <= LoOfDepth[pc] + e.min
                      /\ HiOfDepth[pc] + e.max <= HiOfDepth[e.to]
      <3>1. Closed(pc) /\ depth[pc].hi <= peak
        BY <2>1 DEF Fixpoint, PeakOfAll
      <3>. QED
        BY <3>1, <2>2, <2>3, <2>5 DEF Closed
    <2>. QED
      BY <2>1, <2>4, <2>5 DEF Accepted, Boundaries
  <1>. QED
    BY <1>1, AlwaysIInv, PTL

(***************************************************************************)
(* The least solution.  Any intervals that Accepted allows, however they   *)
(* were found, are around the ones in the table, at every moment of the    *)
(* walk: a join adds no depth that an edge does not carry.                 *)
(***************************************************************************)
Below(d, lo, hi) ==
    \A pc \in Boundaries : d[pc].lo >= 0 =>
      0 <= lo[pc] /\ lo[pc] <= d[pc].lo /\ d[pc].hi <= hi[pc]

Solution(lo, hi, p) ==
    /\ lo \in [Boundaries -> Int] /\ hi \in [Boundaries -> Int] /\ p \in 0..DepthMax
    /\ Accepted(code, lo, hi, p, DepthMax)

LeastSoFar ==
    \A lo, hi, p : Solution(lo, hi, p) => Below(depth, lo, hi) /\ peak <= p

\* A set R of instructions and intervals that hold the entry at depth 0 and whatever
\* an edge out of them carries; a table that keeps within them.
Bounding(R, lo, hi) ==
    /\ R \subseteq Boundaries /\ lo \in [Boundaries -> Int] /\ hi \in [Boundaries -> Int]
    /\ Len(code) > 0 => 1 \in R /\ lo[1] <= 0 /\ 0 <= hi[1]
    /\ \A pc \in R : \A e \in Edges(code[pc], pc) :
         e.to \in R /\ lo[e.to] <= lo[pc] + e.min /\ hi[pc] + e.max <= hi[e.to]

Around(d, R, lo, hi) ==
    \A pc \in Boundaries : d[pc].lo >= 0 =>
      pc \in R /\ lo[pc] <= d[pc].lo /\ d[pc].hi <= hi[pc]

AroundSoFar == \A R, lo, hi : Bounding(R, lo, hi) => Around(depth, R, lo, hi)

\* VER_JOIN_RANGE of an interval within the bounds stays within them.
LEMMA JoinAround ==
  ASSUME NEW d \in [Boundaries -> Interval], NEW R, NEW lo, NEW hi, Around(d, R, lo, hi),
         NEW to \in Boundaries, NEW min \in Nat, NEW max \in Nat,
         lo[to] \in Int, hi[to] \in Int, to \in R, lo[to] <= min, max <= hi[to]
  PROVE  Around(Join(d, to, min, max), R, lo, hi)
  <1>. DEFINE j == Join(d, to, min, max)
  <1>1. d[to].lo \in Int /\ d[to].hi \in Int
    BY DEF Interval
  <1>2. /\ j[to] = IF d[to].lo < 0 THEN [lo |-> min, hi |-> max]
                   ELSE [lo |-> IF d[to].lo > min THEN min ELSE d[to].lo,
                         hi |-> IF d[to].hi < max THEN max ELSE d[to].hi]
        /\ \A pc \in Boundaries : pc # to => j[pc] = d[pc]
    BY DEF Join
  <1>3. d[to].lo >= 0 => lo[to] <= d[to].lo /\ d[to].hi <= hi[to]
    BY DEF Around
  <1>4. lo[to] <= j[to].lo /\ j[to].hi <= hi[to]
    BY <1>1, <1>2, <1>3
  <1>. QED
    BY <1>2, <1>4 DEF Around

\* What a solution says of a reached instruction and of its edges.
LEMMA SolutionAt ==
  ASSUME TypeOK, Reached, NEW lo, NEW hi, NEW p, Solution(lo, hi, p), Below(depth, lo, hi)
  PROVE  /\ at \in Boundaries /\ p \in 0..DepthMax
         /\ lo[at] \in Int /\ hi[at] \in Int /\ depth[at].lo \in Int /\ depth[at].hi \in Int
         /\ 0 <= lo[at] /\ lo[at] <= depth[at].lo /\ depth[at].hi <= hi[at] /\ hi[at] <= p
         /\ code[at].pops <= lo[at]
         /\ \A e \in Edges(code[at], at) :
              /\ e.to \in Boundaries /\ lo[e.to] \in Int /\ hi[e.to] \in Int
              /\ 0 <= lo[e.to] /\ lo[e.to] <= lo[at] + e.min
              /\ hi[at] + e.max <= hi[e.to] /\ hi[e.to] <= p
  <1>1. at \in Boundaries
    BY CodeFacts DEF TypeOK, Reached, Boundaries
  <1>2. depth[at].lo \in Int /\ depth[at].hi \in Int /\ depth[at].lo >= 0
    BY <1>1 DEF TypeOK, Interval, Reached, Boundaries
  <1>3. /\ 0 <= lo[at] /\ lo[at] <= depth[at].lo /\ depth[at].hi <= hi[at]
        /\ lo \in [Boundaries -> Int] /\ hi \in [Boundaries -> Int] /\ p \in 0..DepthMax
    BY <1>1, <1>2 DEF Below, Solution
  <1>4. \A pc \in Boundaries : lo[pc] >= 0 =>
          /\ code[pc].pops <= lo[pc] /\ hi[pc] <= p
          /\ \A e \in Edges(code[pc], pc) :
               /\ e.to \in Boundaries
               /\ 0 <= lo[e.to] /\ lo[e.to] <= lo[pc] + e.min
               /\ hi[pc] + e.max <= hi[e.to]
    BY DEF Solution, Accepted, Boundaries
  <1>5. \A e \in Edges(code[at], at) :
          /\ e.to \in Boundaries
          /\ 0 <= lo[e.to] /\ lo[e.to] <= lo[at] + e.min /\ hi[at] + e.max <= hi[e.to]
    BY <1>1, <1>3, <1>4
  <1>6. \A e \in Edges(code[at], at) : hi[e.to] <= p
    BY <1>3, <1>4, <1>5
  <1>7. code[at].pops <= lo[at] /\ hi[at] <= p
    BY <1>1, <1>3, <1>4
  <1>. QED
    BY <1>1, <1>2, <1>3, <1>5, <1>6, <1>7

\* The edges of an instruction, as the two joins take them.
LEMMA EdgesOf ==
  ASSUME NEW i, NEW pc
  PROVE  /\ ~Terminates(i) /\ i.op # "jump" =>
              [to |-> pc + 1, min |-> IF i.op = "coalesce" THEN -1 ELSE Delta(i),
               max |-> IF i.op = "coalesce" THEN 0 ELSE Delta(i)] \in Edges(i, pc)
         /\ Targeted(i) =>
              [to |-> i.to, min |-> IF i.op = "coalesce" THEN 0 ELSE Delta(i),
               max |-> IF i.op = "coalesce" THEN 0 ELSE Delta(i)] \in Edges(i, pc)
  BY DEF Edges, Targeted, Terminates

\* Both joins of a Propagate stay within the bounds.
LEMMA PropagateAround ==
  ASSUME TypeOK, Reached, ~Underflows, ~Overflows,
         NEW R, NEW lo, NEW hi, Bounding(R, lo, hi), Around(depth, R, lo, hi)
  PROVE  Around(AtTarget(AtNext), R, lo, hi)
  <1>. DEFINE i == code[at]
              n == AtNext
              min == IF i.op = "coalesce" THEN depth[at].lo ELSE AfterMin
              max == IF i.op = "coalesce" THEN depth[at].hi ELSE AfterMax
  <1>1. /\ at \in Boundaries /\ depth[at].lo \in Nat /\ depth[at].hi \in Nat
        /\ AfterMin \in Nat /\ AfterMax \in Nat /\ AfterMin <= AfterMax /\ AfterMax <= DepthMax
    BY AfterFacts
  <1>2. /\ lo[at] \in Int /\ hi[at] \in Int /\ lo[at] <= depth[at].lo /\ depth[at].hi <= hi[at]
        /\ \A e \in Edges(i, at) :
             /\ e.to \in R /\ e.to \in Boundaries /\ lo[e.to] \in Int /\ hi[e.to] \in Int
             /\ lo[e.to] <= lo[at] + e.min /\ hi[at] + e.max <= hi[e.to]
    <2>1. at \in R /\ lo[at] <= depth[at].lo /\ depth[at].hi <= hi[at]
      BY <1>1 DEF Around
    <2>. QED
      BY <1>1, <2>1 DEF Bounding
  <1>3. /\ depth \in [Boundaries -> Interval] /\ Table(depth)
        /\ DepthMax \in Nat /\ Len(code) \in Nat /\ Delta(i) \in Int
    BY <1>1, CodeFacts DEF TypeOK, Table, Boundaries, Delta
  <1>4. n \in [Boundaries -> Interval] /\ Around(n, R, lo, hi)
    <2>1. CASE FallsThrough
      <3>. DEFINE e == [to |-> at + 1, min |-> IF i.op = "coalesce" THEN -1 ELSE Delta(i),
                        max |-> IF i.op = "coalesce" THEN 0 ELSE Delta(i)]
      <3>1. e \in Edges(i, at)
        BY <2>1, EdgesOf DEF FallsThrough
      <3>2. /\ at + 1 \in R /\ at + 1 \in Boundaries /\ lo[at + 1] \in Int /\ hi[at + 1] \in Int
            /\ lo[at + 1] <= lo[at] + e.min /\ hi[at] + e.max <= hi[at + 1]
        BY <3>1, <1>2
      <3>3. AfterMin = depth[at].lo + e.min /\ AfterMax = depth[at].hi + e.max
        BY DEF AfterMin, AfterMax
      <3>4. e.min \in Int /\ e.max \in Int
        BY <1>3
      <3>. HIDE DEF e
      <3>5. lo[at + 1] <= AfterMin /\ AfterMax <= hi[at + 1]
        BY <3>2, <3>3, <3>4, <1>1, <1>2
      <3>6. n = Join(depth, at + 1, AfterMin, AfterMax)
        BY <2>1 DEF AtNext
      <3>7. n \in [Boundaries -> Interval]
        BY <3>2, <3>6, <1>1, <1>3, JoinWidens DEF Table
      <3>. QED
        BY <3>2, <3>5, <3>6, <3>7, <1>1, <1>3, JoinAround
    <2>2. CASE ~FallsThrough
      BY <2>2, <1>3 DEF AtNext
    <2>. QED
      BY <2>1, <2>2
  <1>5. CASE Targeted(i)
    <2>. DEFINE e == [to |-> i.to, min |-> IF i.op = "coalesce" THEN 0 ELSE Delta(i),
                      max |-> IF i.op = "coalesce" THEN 0 ELSE Delta(i)]
    <2>1. e \in Edges(i, at)
      BY <1>5, EdgesOf
    <2>2. /\ i.to \in R /\ i.to \in Boundaries /\ lo[i.to] \in Int /\ hi[i.to] \in Int
          /\ lo[i.to] <= lo[at] + e.min /\ hi[at] + e.max <= hi[i.to]
      BY <2>1, <1>2
    <2>3. min = depth[at].lo + e.min /\ max = depth[at].hi + e.max /\ min \in Nat /\ max \in Nat
      BY <1>1 DEF AfterMin, AfterMax
    <2>4. e.min \in Int /\ e.max \in Int
      BY <1>3
    <2>5. AtTarget(n) = Join(n, i.to, min, max)
      BY <1>5 DEF AtTarget, Targeted
    <2>. HIDE DEF e, n, min, max
    <2>6. lo[i.to] <= min /\ max <= hi[i.to]
      BY <2>2, <2>3, <2>4, <1>1, <1>2
    <2>7. Around(AtTarget(n), R, lo, hi)
      BY <2>2, <2>3, <2>5, <2>6, <1>4, JoinAround
    <2>. QED
      BY <2>7 DEF n
  <1>6. CASE ~Targeted(i)
    BY <1>4, <1>6 DEF AtTarget, Targeted
  <1>. QED
    BY <1>5, <1>6

\* A solution bounds the instructions it reaches, so they stay within it too.
LEMMA PropagateBelow ==
  ASSUME TypeOK, Reached, ~Underflows, ~Overflows,
         NEW lo, NEW hi, NEW p, Solution(lo, hi, p), Below(depth, lo, hi)
  PROVE  Below(AtTarget(AtNext), lo, hi)
  <1>. DEFINE R == {pc \in Boundaries : lo[pc] >= 0}
  <1>1. lo \in [Boundaries -> Int] /\ hi \in [Boundaries -> Int] /\ Len(code) \in Nat
    BY CodeFacts DEF Solution, TypeOK
  <1>2. ASSUME NEW d PROVE Below(d, lo, hi) <=> Around(d, R, lo, hi)
    BY <1>1 DEF Below, Around
  <1>3. Bounding(R, lo, hi)
    <2>1. Len(code) > 0 => 1 \in R /\ lo[1] <= 0 /\ 0 <= hi[1]
      BY <1>1 DEF Solution, Accepted, Boundaries
    <2>2. \A pc \in R : \A e \in Edges(code[pc], pc) :
            e.to \in R /\ lo[e.to] <= lo[pc] + e.min /\ hi[pc] + e.max <= hi[e.to]
      BY <1>1 DEF Solution, Accepted, Boundaries
    <2>. QED
      BY <1>1, <2>1, <2>2 DEF Bounding
  <1>. HIDE DEF R
  <1>. QED
    BY <1>2, <1>3, PropagateAround

\* The table starts at the entry, and only a Propagate changes it.
LEMMA AlwaysAroundSoFar == Spec => []AroundSoFar
  <1>1. Init => AroundSoFar
    <2>. SUFFICES ASSUME Init, NEW R, NEW lo, NEW hi, Bounding(R, lo, hi)
                  PROVE  Around(depth, R, lo, hi)
      BY DEF AroundSoFar
    <2>1. Len(code) \in Nat
      BY CodeFacts DEF Init
    <2>2. ASSUME NEW pc \in Boundaries, depth[pc].lo >= 0
          PROVE  pc \in R /\ lo[pc] <= depth[pc].lo /\ depth[pc].hi <= hi[pc]
      <3>1. pc = 1 /\ depth[pc].lo = 0 /\ depth[pc].hi = 0
        BY <2>2 DEF Init, Unreached, Boundaries
      <3>. QED
        BY <2>1, <3>1 DEF Bounding, Boundaries
    <2>. QED
      BY <2>2 DEF Around
  <1>2. IInv /\ AroundSoFar /\ [Next]_vars => AroundSoFar'
    <2>. SUFFICES ASSUME IInv, AroundSoFar, [Next]_vars, NEW R, NEW lo, NEW hi,
                         Bounding(R, lo, hi)'
                  PROVE  Around(depth, R, lo, hi)'
      BY DEF AroundSoFar
    <2>1. code' = code
      BY DEF Next, CheckTarget, CheckEnd, Skip, Refuse, Propagate, EndRound, TakePeak, Accept,
             Reject, vars
    <2>2. Bounding(R, lo, hi)
      BY <2>1 DEF Bounding, Boundaries
    <2>3. Around(depth, R, lo, hi)
      BY <2>2 DEF AroundSoFar
    <2>4. CASE Propagate
      <3>1. Reached /\ ~Underflows /\ ~Overflows /\ depth' = AtTarget(AtNext)
        BY <2>4 DEF Propagate
      <3>2. Around(depth', R, lo, hi)
        BY <2>2, <2>3, <3>1, PropagateAround DEF IInv
      <3>. QED
        BY <2>1, <3>2 DEF Around, Boundaries
    <2>5. CASE ~Propagate
      <3>1. depth' = depth
        BY <2>5 DEF Next, CheckTarget, CheckEnd, Skip, Refuse, EndRound, TakePeak, Accept, Reject,
                    vars
      <3>. QED
        BY <2>1, <2>3, <3>1 DEF Around, Boundaries
    <2>. QED
      BY <2>4, <2>5
  <1>. QED
    BY <1>1, <1>2, AlwaysIInv, PTL DEF Spec

\* The table starts at the entry alone, and a step that changes it is a Propagate.
LEMMA AlwaysLeastSoFar == Spec => []LeastSoFar
  <1>1. Init => LeastSoFar
    <2>. SUFFICES ASSUME Init, NEW lo, NEW hi, NEW p, Solution(lo, hi, p)
                  PROVE  Below(depth, lo, hi) /\ peak <= p
      BY DEF LeastSoFar
    <2>1. DepthMax \in Nat /\ Len(code) \in Nat /\ p \in 0..DepthMax /\ peak = 0
      BY CodeFacts DEF Init, Solution
    <2>2. ASSUME NEW pc \in Boundaries, depth[pc].lo >= 0
          PROVE  0 <= lo[pc] /\ lo[pc] <= depth[pc].lo /\ depth[pc].hi <= hi[pc]
      <3>1. pc = 1 /\ depth[pc].lo = 0 /\ depth[pc].hi = 0
        BY <2>2 DEF Init, Unreached, Boundaries
      <3>2. Len(code) > 0 => lo[1] = 0 /\ hi[1] >= 0
        BY DEF Solution, Accepted
      <3>. QED
        BY <2>1, <3>1, <3>2 DEF Boundaries
    <2>. QED
      BY <2>1, <2>2 DEF Below
  <1>2. IInv /\ LeastSoFar /\ [Next]_vars => LeastSoFar'
    <2>. SUFFICES ASSUME IInv, LeastSoFar, [Next]_vars, NEW lo, NEW hi, NEW p,
                         Solution(lo, hi, p)'
                  PROVE  Below(depth, lo, hi)' /\ peak' <= p
      BY DEF LeastSoFar
    <2>1. TypeOK /\ Sound /\ code \in Chunks
      BY DEF IInv, TypeOK
    <2>2. code' = code
      BY DEF Next, CheckTarget, CheckEnd, Skip, Refuse, Propagate, EndRound, TakePeak, Accept,
             Reject, vars
    <2>3. Solution(lo, hi, p)
      BY <2>2 DEF Solution, Boundaries
    <2>4. Below(depth, lo, hi) /\ peak <= p /\ p \in 0..DepthMax
      BY <2>3 DEF LeastSoFar, Solution
    <2>5. CASE Propagate
      <3>1. Reached /\ ~Underflows /\ ~Overflows /\ depth' = AtTarget(AtNext) /\ peak' = peak
        BY <2>5 DEF Propagate
      <3>2. Below(depth', lo, hi)
        BY <2>1, <2>3, <2>4, <3>1, PropagateBelow
      <3>. QED
        BY <2>2, <2>4, <3>1, <3>2 DEF Below, Boundaries
    <2>6. CASE TakePeak
      <3>1. /\ phase = "peak" /\ at <= Len(code) /\ depth' = depth
            /\ peak' = IF depth[at].hi > peak THEN depth[at].hi ELSE peak
        BY <2>6 DEF TakePeak
      <3>2. DepthMax \in Nat /\ Len(code) \in Nat /\ at \in Boundaries
        BY <2>1, <3>1, CodeFacts DEF TypeOK, Boundaries
      <3>3. depth[at].hi \in Int /\ depth[at].lo \in Int /\ peak \in Int
        BY <2>1, <3>2 DEF TypeOK, Interval, Boundaries
      <3>4. depth[at].hi <= p
        <4>1. CASE depth[at].lo >= 0
          <5>1. lo[at] >= 0 /\ depth[at].hi <= hi[at]
            BY <2>4, <3>2, <3>3, <4>1 DEF Below, Solution
          <5>2. hi[at] <= p /\ hi[at] \in Int
            BY <2>3, <3>2, <5>1 DEF Solution, Accepted, Boundaries
          <5>. QED
            BY <2>4, <3>2, <3>3, <5>1, <5>2
        <4>2. CASE depth[at].lo < 0
          <5>1. depth[at].hi = -1
            BY <2>1, <3>2, <3>3, <4>2 DEF TypeOK, Unreached, Boundaries
          <5>. QED
            BY <2>4, <3>2, <5>1
        <4>. QED
          BY <3>3, <4>1, <4>2
      <3>. QED
        BY <2>2, <2>4, <3>1, <3>3, <3>4 DEF Below, Boundaries
    <2>7. CASE ~Propagate /\ ~TakePeak
      <3>1. depth' = depth /\ peak' = peak
        BY <2>7 DEF Next, CheckTarget, CheckEnd, Skip, Refuse, EndRound, Accept, Reject, vars
      <3>. QED
        BY <2>2, <2>4, <3>1 DEF Below, Boundaries
    <2>. QED
      BY <2>5, <2>6, <2>7
  <1>. QED
    BY <1>1, <1>2, AlwaysIInv, PTL DEF Spec

\* The intervals and max_stack that ver_chunk accepts are the least that Accepted
\* allows: with AcceptanceIsSound, they are one of its solutions and lie within
\* every other, so they do not depend on the order in which the rounds visit the
\* instructions (ver_chunk, VER_JOIN_RANGE).
AcceptsTheLeast ==
    phase = "accepted" =>
      \A lo, hi \in [1..Len(code) -> Int], p \in 0..DepthMax :
        Accepted(code, lo, hi, p, DepthMax) =>
          /\ \A pc \in 1..Len(code) : LoOfDepth[pc] >= 0 =>
               0 <= lo[pc] /\ lo[pc] <= LoOfDepth[pc] /\ HiOfDepth[pc] <= hi[pc]
          /\ peak <= p

THEOREM IntervalsAreLeast == Spec => []AcceptsTheLeast
  <1>1. LeastSoFar => AcceptsTheLeast
    <2>. SUFFICES ASSUME LeastSoFar,
                         NEW lo \in [1..Len(code) -> Int], NEW hi \in [1..Len(code) -> Int],
                         NEW p \in 0..DepthMax, Accepted(code, lo, hi, p, DepthMax)
                  PROVE  /\ \A pc \in 1..Len(code) : LoOfDepth[pc] >= 0 =>
                              0 <= lo[pc] /\ lo[pc] <= LoOfDepth[pc] /\ HiOfDepth[pc] <= hi[pc]
                         /\ peak <= p
      BY DEF AcceptsTheLeast
    <2>1. Solution(lo, hi, p)
      BY DEF Solution, Boundaries
    <2>2. Below(depth, lo, hi) /\ peak <= p
      BY <2>1 DEF LeastSoFar
    <2>. QED
      BY <2>2 DEF Below, LoOfDepth, HiOfDepth, Boundaries
  <1>. QED
    BY <1>1, AlwaysLeastSoFar, PTL

(***************************************************************************)
(* Refusals.  A chunk in one piece that has a solution passes every test   *)
(* of ver_chunk, and the rounds alone can refuse it, for want of time.     *)
(* When the solution has one depth per instruction, each round that        *)
(* changes the table reaches another instruction, and time suffices.       *)
(***************************************************************************)
InOnePiece == Ended /\ \A pc \in Boundaries : Aimed(pc)

Solvable == InOnePiece /\ \E lo, hi, p : Solution(lo, hi, p)

LevelCode == InOnePiece /\ \E d, p : Solution(d, d, p)

\* Where there is a solution, the tests for underflow and overflow pass.
LEMMA SolvableIsNotRefused ==
  ASSUME TypeOK, LeastSoFar, Solvable, Reached
  PROVE  ~Underflows /\ ~Overflows
  <1>. DEFINE i == code[at]
  <1>. PICK lo, hi, p : Solution(lo, hi, p)
    BY DEF Solvable
  <1>1. Below(depth, lo, hi)
    BY DEF LeastSoFar
  <1>2. /\ at \in Boundaries /\ p \in 0..DepthMax
        /\ lo[at] \in Int /\ hi[at] \in Int /\ depth[at].lo \in Int /\ depth[at].hi \in Int
        /\ 0 <= lo[at] /\ lo[at] <= depth[at].lo /\ depth[at].hi <= hi[at] /\ hi[at] <= p
        /\ i.pops <= lo[at]
        /\ \A e \in Edges(i, at) :
             hi[e.to] \in Int /\ hi[at] + e.max <= hi[e.to] /\ hi[e.to] <= p
    BY <1>1, SolutionAt
  <1>3. /\ i.pops \in Nat /\ i.pushes \in Nat /\ Shaped(i) /\ Delta(i) \in Int
        /\ DepthMax \in Nat /\ AfterMax \in Int
    <2>1. i.pops \in Nat /\ i.pushes \in Nat /\ Shaped(i) /\ DepthMax \in Nat
      BY <1>2, CodeFacts DEF TypeOK
    <2>2. Delta(i) \in Int
      BY <2>1 DEF Delta
    <2>. QED
      BY <2>1, <2>2, <1>2 DEF AfterMax
  <1>4. ~Underflows
    BY <1>2, <1>3 DEF Underflows, AfterMin, Delta, Shaped
  <1>5. AfterMax <= DepthMax
    <2>1. CASE i.op = "coalesce"
      BY <2>1, <1>2, <1>3 DEF AfterMax
    <2>2. CASE Terminates(i) \/ i.op = "jump"
      <3>1. i.pushes = 0
        BY <2>2, <1>3 DEF Terminates, Shaped
      <3>2. i.op # "coalesce"
        BY <2>2 DEF Terminates
      <3>. QED
        BY <3>1, <3>2, <1>2, <1>3 DEF AfterMax, Delta
    <2>3. CASE ~Terminates(i) /\ i.op # "jump" /\ i.op # "coalesce"
      <3>. DEFINE e == [to |-> at + 1, min |-> Delta(i), max |-> Delta(i)]
      <3>1. e \in Edges(i, at)
        BY <2>3 DEF Edges
      <3>2. hi[at] + Delta(i) <= p
        BY <3>1, <1>2, <1>3
      <3>3. AfterMax = depth[at].hi + Delta(i)
        BY <2>3 DEF AfterMax
      <3>. QED
        BY <3>2, <3>3, <1>2, <1>3
    <2>. QED
      BY <2>1, <2>2, <2>3
  <1>. HIDE DEF i
  <1>. QED
    BY <1>3, <1>4, <1>5 DEF Overflows

\* So the only step that refuses such a chunk is the end of a round.
LEMMA RefusalIsEndRound ==
  ASSUME IInv, LeastSoFar, Solvable, Next, phase # "rejected", phase' = "rejected"
  PROVE  /\ phase = "depths" /\ at > Len(code) /\ changed /\ round >= GuardMax
         /\ UNCHANGED <<code, round>>
  <1>1. TypeOK /\ Ended /\ \A pc \in Boundaries : Aimed(pc)
    BY DEF IInv, Solvable, InOnePiece
  <1>2. Len(code) \in Nat /\ at \in 1..(Len(code) + 1)
    BY <1>1, CodeFacts DEF TypeOK
  <1>3. ~CheckTarget
    <2>. SUFFICES ASSUME CheckTarget PROVE FALSE
      OBVIOUS
    <2>1. at \in Boundaries
      BY <1>2 DEF CheckTarget, Boundaries
    <2>. QED
      BY <2>1, <1>1 DEF CheckTarget, Aimed, Boundaries
  <1>4. ~CheckEnd
    BY <1>1 DEF CheckEnd, Ended
  <1>5. ~Refuse
    BY <1>1, SolvableIsNotRefused DEF Refuse
  <1>6. EndRound
    BY <1>3, <1>4, <1>5 DEF Next, Skip, Propagate, Reached, TakePeak, Accept
  <1>. QED
    BY <1>6 DEF EndRound, Reject

\* ver_chunk refuses a chunk that has a solution for one reason only: the rounds
\* have not settled when the guard runs out (ver_chunk, pass 3).
OnlyTheGuardRefuses == Solvable /\ phase = "rejected" => round = GuardMax

THEOREM SolvableIsRefusedLate == Spec => []OnlyTheGuardRefuses
  <1>1. Init => OnlyTheGuardRefuses
    BY DEF Init, OnlyTheGuardRefuses
  <1>2. IInv /\ LeastSoFar /\ OnlyTheGuardRefuses /\ [Next]_vars => OnlyTheGuardRefuses'
    <2>. SUFFICES ASSUME IInv, LeastSoFar, OnlyTheGuardRefuses, [Next]_vars,
                         Solvable', phase' = "rejected"
                  PROVE  round' = GuardMax'
      BY DEF OnlyTheGuardRefuses
    <2>1. code' = code
      BY DEF Next, CheckTarget, CheckEnd, Skip, Refuse, Propagate, EndRound, TakePeak, Accept,
             Reject, vars
    <2>2. Solvable
      BY <2>1 DEF Solvable, InOnePiece, Ended, Aimed, Solution, Boundaries
    <2>3. CASE phase = "rejected"
      <3>1. round' = round
        BY <2>3 DEF Next, CheckTarget, CheckEnd, Skip, Refuse, Propagate, Reached, EndRound,
                    TakePeak, Accept, vars
      <3>. QED
        BY <2>1, <2>2, <2>3, <3>1 DEF OnlyTheGuardRefuses, GuardMax
    <2>4. CASE phase # "rejected"
      <3>1. Next
        BY <2>4 DEF vars
      <3>2. round >= GuardMax /\ round' = round
        BY <2>2, <2>4, <3>1, RefusalIsEndRound
      <3>3. round \in 1..GuardMax /\ GuardMax \in Nat /\ code \in Chunks
        BY CodeFacts DEF IInv, TypeOK
      <3>. QED
        BY <2>1, <3>2, <3>3 DEF GuardMax
    <2>. QED
      BY <2>3, <2>4
  <1>. QED
    BY <1>1, <1>2, AlwaysIInv, AlwaysLeastSoFar, PTL DEF Spec

ReachedSet(d) == {pc \in Boundaries : d[pc].lo >= 0}

\* a round that has changed the table has reached another instruction
Progress ==
    phase \in {"targets", "depths"} =>
      Cardinality(ReachedSet(depth)) >= IF changed THEN round + 1 ELSE round

LevelProgress == LevelCode => phase # "rejected" /\ Progress

LEMMA ReachedFinite ==
  ASSUME Len(code) \in Nat, NEW d
  PROVE  /\ IsFiniteSet(ReachedSet(d)) /\ Cardinality(ReachedSet(d)) \in Nat
         /\ Cardinality(ReachedSet(d)) <= Len(code)
  <1>1. IsFiniteSet(Boundaries) /\ Cardinality(Boundaries) = Len(code)
    <2>. DEFINE n == Len(code)
    <2>1. n \in Nat /\ Boundaries = 1..n
      BY DEF Boundaries
    <2>. HIDE DEF n
    <2>2. IsFiniteSet(1..n) /\ Cardinality(1..n) = IF 1 > n THEN 0 ELSE n - 1 + 1
      BY <2>1, FS_Interval
    <2>3. IsFiniteSet(Boundaries) /\ Cardinality(Boundaries) = n
      BY <2>1, <2>2
    <2>. QED
      BY <2>3 DEF n
  <1>2. ReachedSet(d) \in SUBSET Boundaries
    BY DEF ReachedSet
  <1>. QED
    BY <1>1, <1>2, FS_Subset, FS_CardinalityType

\* Between tables within a solution of one depth per instruction, nothing changes
\* but what is reached.
LEMMA LevelGrows ==
  ASSUME Len(code) \in Nat, NEW d1, NEW d2, Table(d1), Table(d2), Widens(d1, d2), d1 # d2,
         NEW s \in [Boundaries -> Int], Below(d1, s, s), Below(d2, s, s)
  PROVE  Cardinality(ReachedSet(d2)) >= Cardinality(ReachedSet(d1)) + 1
  <1>1. ASSUME NEW d, Table(d), Below(d, s, s), NEW pc \in Boundaries
        PROVE  d[pc] = IF d[pc].lo >= 0 THEN [lo |-> s[pc], hi |-> s[pc]] ELSE Unreached
    <2>1. /\ d[pc] \in Interval /\ d[pc].lo \in Int /\ d[pc].hi \in Int
          /\ d[pc] = Unreached \/ (0 <= d[pc].lo /\ d[pc].lo <= d[pc].hi)
      BY <1>1 DEF Table, Interval
    <2>2. d[pc] = [lo |-> d[pc].lo, hi |-> d[pc].hi]
      BY <2>1 DEF Interval
    <2>3. CASE d[pc].lo >= 0
      <3>1. s[pc] <= d[pc].lo /\ d[pc].hi <= s[pc] /\ d[pc].lo <= d[pc].hi
        BY <1>1, <2>1, <2>3 DEF Below, Unreached
      <3>2. d[pc].lo = s[pc] /\ d[pc].hi = s[pc]
        BY <2>1, <3>1
      <3>. QED
        BY <2>2, <2>3, <3>2
    <2>4. CASE ~(d[pc].lo >= 0)
      BY <2>1, <2>4
    <2>. QED
      BY <2>3, <2>4
  <1>2. ReachedSet(d1) \subseteq ReachedSet(d2)
    BY DEF Widens, ReachedSet
  <1>3. ReachedSet(d1) # ReachedSet(d2)
    <2>. SUFFICES ASSUME ReachedSet(d1) = ReachedSet(d2) PROVE FALSE
      OBVIOUS
    <2>1. \A pc \in Boundaries : d1[pc].lo >= 0 <=> d2[pc].lo >= 0
      BY DEF ReachedSet
    <2>2. ASSUME NEW pc \in Boundaries PROVE d1[pc] = d2[pc]
      <3>1. d1[pc] = IF d1[pc].lo >= 0 THEN [lo |-> s[pc], hi |-> s[pc]] ELSE Unreached
        BY <1>1
      <3>2. d2[pc] = IF d2[pc].lo >= 0 THEN [lo |-> s[pc], hi |-> s[pc]] ELSE Unreached
        BY <1>1
      <3>. QED
        BY <2>1, <3>1, <3>2, Zenon
    <2>3. d1 \in [Boundaries -> Interval] /\ d2 \in [Boundaries -> Interval]
      BY DEF Table
    <2>. QED
      BY <2>2, <2>3
  <1>4. /\ IsFiniteSet(ReachedSet(d2)) /\ ReachedSet(d1) \in SUBSET ReachedSet(d2)
        /\ Cardinality(ReachedSet(d1)) \in Nat /\ Cardinality(ReachedSet(d2)) \in Nat
    BY <1>2, ReachedFinite
  <1>5. /\ Cardinality(ReachedSet(d1)) <= Cardinality(ReachedSet(d2))
        /\ Cardinality(ReachedSet(d2)) # Cardinality(ReachedSet(d1))
    BY <1>3, <1>4, FS_Subset
  <1>. QED
    BY <1>4, <1>5

\* Code that runs at one depth per instruction, in one piece and within
\* VER_STACK_MAX, is never refused: no program is rejected for the shape of its
\* loops and jumps (ver_chunk, pass 3).
LevelIsNotRefused == LevelCode => phase # "rejected"

THEOREM LevelCodeIsAccepted == Spec => []LevelIsNotRefused
  <1>1. Init => LevelProgress
    <2>. SUFFICES ASSUME Init, LevelCode PROVE phase # "rejected" /\ Progress
      BY DEF LevelProgress
    <2>1. Len(code) \in Nat /\ Len(code) > 0 /\ changed = FALSE /\ round = 1
      BY CodeFacts DEF Init, LevelCode, InOnePiece, Ended
    <2>2. ReachedSet(depth) = {1}
      <3>1. \A pc \in Boundaries : depth[pc] = IF pc = 1 THEN [lo |-> 0, hi |-> 0] ELSE Unreached
        BY DEF Init, Boundaries
      <3>. QED
        BY <2>1, <3>1 DEF ReachedSet, Unreached, Boundaries
    <2>3. Cardinality(ReachedSet(depth)) = 1
      BY <2>2, FS_Singleton
    <2>. QED
      BY <2>1, <2>3 DEF Init, Progress
  <1>2. IInv /\ LeastSoFar /\ LevelProgress /\ [Next]_vars => LevelProgress'
    <2>. SUFFICES ASSUME IInv, LeastSoFar, LevelProgress, [Next]_vars, LevelCode'
                  PROVE  phase' # "rejected" /\ Progress'
      BY DEF LevelProgress
    <2>1. code' = code
      BY DEF Next, CheckTarget, CheckEnd, Skip, Refuse, Propagate, EndRound, TakePeak, Accept,
             Reject, vars
    <2>2. PICK s, p : Solution(s, s, p)
      BY <2>1 DEF LevelCode, Solution, Boundaries
    <2>3. Solvable /\ LevelCode
      <3>1. InOnePiece
        BY <2>1 DEF LevelCode, InOnePiece, Ended, Aimed, Boundaries
      <3>. QED
        BY <3>1, <2>2 DEF Solvable, LevelCode
    <2>4. /\ TypeOK /\ Sound /\ phase # "rejected" /\ Progress /\ code \in Chunks
          /\ Len(code) \in Nat /\ round \in 1..GuardMax /\ changed \in BOOLEAN
          /\ Cardinality(ReachedSet(depth)) \in Nat
          /\ Cardinality(ReachedSet(depth)) <= Len(code)
      <3>1. TypeOK /\ code \in Chunks /\ round \in 1..GuardMax /\ changed \in BOOLEAN
        BY DEF IInv, TypeOK
      <3>2. Len(code) \in Nat
        BY <3>1, CodeFacts
      <3>. QED
        BY <2>3, <3>1, <3>2, ReachedFinite DEF IInv, LevelProgress
    <2>5. ASSUME Next, phase' = "rejected" PROVE FALSE
      <3>1. phase = "depths" /\ changed /\ round >= GuardMax
        BY <2>3, <2>4, <2>5, RefusalIsEndRound
      <3>2. Cardinality(ReachedSet(depth)) >= round + 1
        BY <2>4, <3>1 DEF Progress
      <3>. QED
        BY <2>4, <3>1, <3>2 DEF GuardMax
    <2>6. phase' # "rejected"
      BY <2>4, <2>5 DEF vars
    <2>7. Progress'
      <3>1. CASE Propagate
        <4>1. /\ Reached /\ ~Underflows /\ ~Overflows /\ phase = "depths" /\ phase' = phase
              /\ depth' = AtTarget(AtNext) /\ changed' = (changed \/ depth' # depth)
              /\ round' = round
          BY <3>1 DEF Propagate, Reached
        <4>2. Ended /\ Aimed(at)
          <5>1. at \in Boundaries
            BY <2>4, <4>1, AfterFacts
          <5>. QED
            BY <2>3, <5>1 DEF Solvable, InOnePiece
        <4>3. Table(depth) /\ Table(depth') /\ Widens(depth, depth')
          BY <2>4, <4>1, <4>2, PropagateCovers DEF TypeOK, Table, Boundaries
        <4>4. Below(depth, s, s) /\ Below(depth', s, s) /\ s \in [Boundaries -> Int]
          <5>1. Below(depth, s, s) /\ s \in [Boundaries -> Int]
            BY <2>2 DEF LeastSoFar, Solution
          <5>. QED
            BY <2>2, <2>4, <4>1, <5>1, PropagateBelow
        <4>5. depth' # depth =>
                Cardinality(ReachedSet(depth')) >= Cardinality(ReachedSet(depth)) + 1
          BY <2>4, <4>3, <4>4, LevelGrows
        <4>6. ReachedSet(depth)' = ReachedSet(depth')
          BY <2>1 DEF ReachedSet, Boundaries
        <4>7. Cardinality(ReachedSet(depth')) \in Nat
          BY <2>4, ReachedFinite
        <4>. QED
          BY <2>4, <4>1, <4>5, <4>6, <4>7 DEF Progress
      <3>2. CASE EndRound
        <4>1. \/ phase' = "peak"
              \/ phase' = "depths" /\ changed /\ round' = round + 1 /\ ~changed'
                 /\ depth' = depth /\ phase = "depths"
          BY <3>2, <2>6 DEF EndRound, Reject
        <4>. QED
          BY <4>1, <2>1, <2>4 DEF Progress, ReachedSet, Boundaries
      <3>3. CASE TakePeak \/ Accept
        BY <3>3 DEF TakePeak, Accept, Progress
      <3>4. CASE CheckTarget \/ CheckEnd \/ Skip \/ Refuse \/ UNCHANGED vars
        <4>1. /\ depth' = depth /\ round' = round /\ changed' = changed
              /\ phase' \in {"targets", "depths"} => phase \in {"targets", "depths"}
          BY <3>4, <2>6 DEF CheckTarget, CheckEnd, Skip, Refuse, Reject, vars
        <4>. QED
          BY <4>1, <2>1, <2>4 DEF Progress, ReachedSet, Boundaries
      <3>. QED
        BY <3>1, <3>2, <3>3, <3>4 DEF Next
    <2>. QED
      BY <2>6, <2>7
  <1>3. LevelProgress => LevelIsNotRefused
    BY DEF LevelProgress, LevelIsNotRefused
  <1>. QED
    BY <1>1, <1>2, <1>3, AlwaysIInv, AlwaysLeastSoFar, PTL DEF Spec

(***************************************************************************)
(* The intervals as a function of the chunk.  DepthAnalysis takes all the  *)
(* instructions at once, as many rounds as there are, and does not test    *)
(* whether a round has changed anything.  Its rounds stay within the table *)
(* ver_chunk accepts; and while they have not found it all, each finds     *)
(* more: were no edge out of what is found tight, the rest could be        *)
(* tightened by one, and AroundSoFar says that nothing is left to tighten. *)
(***************************************************************************)
\* A set of natural numbers has a least one.
LEMMA Least == ASSUME NEW S, S \subseteq Nat, S # {} PROVE \E k \in S : \A j \in S : ~(j < k)
  <1>. DEFINE R == OpToRel(<, Nat)
  <1>1. IsWellFoundedOn(R, Nat) /\ \A j, k \in Nat : j < k => <<j, k>> \in R
    BY NatLessThanWellFounded DEF OpToRel
  <1>. HIDE DEF R
  <1>2. PICK k \in S : \A j \in S : ~(<<j, k>> \in R)
    <2>1. IsWellFoundedOn(R, Nat) /\ S \subseteq Nat /\ S # {}
      BY <1>1
    <2>. QED
      BY <2>1, WFMin, Zenon
  <1>. QED
    BY <1>1, <1>2

\* A bounded set of integers has a least and a greatest.
LEMMA LeastInt ==
  ASSUME NEW S, S \subseteq Int, S # {}, NEW b \in Int, \A x \in S : b <= x
  PROVE  D!Min(S) \in S /\ \A x \in S : D!Min(S) <= x
  <1>. DEFINE T == {n \in Nat : b + n \in S}
  <1>1. T # {}
    <2>1. PICK x \in S : TRUE
      OBVIOUS
    <2>2. x \in Int /\ b <= x
      BY <2>1
    <2>3. x - b \in Nat /\ b + (x - b) = x
      BY <2>2
    <2>. QED
      BY <2>1, <2>3
  <1>2. PICK k \in T : \A j \in T : ~(j < k)
    <2>1. T \subseteq Nat
      OBVIOUS
    <2>. HIDE DEF T
    <2>. QED
      BY <1>1, <2>1, Least
  <1>3. ASSUME NEW x \in S PROVE b + k <= x
    <2>1. x \in Int /\ b <= x /\ k \in Nat
      OBVIOUS
    <2>2. x - b \in Nat /\ b + (x - b) = x
      BY <2>1
    <2>3. ~(x - b < k)
      BY <1>2, <2>2
    <2>. QED
      BY <2>1, <2>3
  <1>4. \E m \in S : \A y \in S : m <= y
    BY <1>3
  <1>. QED
    BY <1>4 DEF D!Min

LEMMA GreatestInt ==
  ASSUME NEW S, S \subseteq Int, S # {}, NEW b \in Int, \A x \in S : x <= b
  PROVE  D!Max(S) \in S /\ \A x \in S : x <= D!Max(S)
  <1>. DEFINE T == {n \in Nat : b - n \in S}
  <1>1. T # {}
    <2>1. PICK x \in S : TRUE
      OBVIOUS
    <2>2. x \in Int /\ x <= b
      BY <2>1
    <2>3. b - x \in Nat /\ b - (b - x) = x
      BY <2>2
    <2>. QED
      BY <2>1, <2>3
  <1>2. PICK k \in T : \A j \in T : ~(j < k)
    <2>1. T \subseteq Nat
      OBVIOUS
    <2>. HIDE DEF T
    <2>. QED
      BY <1>1, <2>1, Least
  <1>3. ASSUME NEW x \in S PROVE b - k >= x
    <2>1. x \in Int /\ x <= b /\ k \in Nat
      OBVIOUS
    <2>2. b - x \in Nat /\ b - (b - x) = x
      BY <2>1
    <2>3. ~(b - x < k)
      BY <1>2, <2>2
    <2>. QED
      BY <2>1, <2>3
  <1>4. \E m \in S : \A y \in S : m >= y
    BY <1>3
  <1>5. D!Max(S) \in S /\ \A x \in S : D!Max(S) >= x
    BY <1>4 DEF D!Max
  <1>. QED
    BY <1>5

(***************************************************************************)
(* The rounds of DepthAnalysis                                             *)
(***************************************************************************)
RoundOf(S) == D!Joined(S \cup D!Carried(code, S))

Start == {D!At(1, 0, 0)}

\* The rounds are a function: every one of them has the one before.
LEMMA RoundsExist ==
  ASSUME Len(code) \in Nat
  PROVE  \E f : /\ f[0] = Start
                /\ \A n \in 1..(Len(code) + 1) : f[n] = RoundOf(f[n - 1])
                /\ D!Depths(code) = f[Len(code) + 1]
  <1>. DEFINE N == Len(code) + 1
              Value(f, n) == IF n = 0 THEN Start ELSE RoundOf(f[n - 1])
              After(f, j) == f = [n \in 0..j |-> Value(f, n)]
  <1>1. \A j \in 0..N : \E f : After(f, j)
    <2>. DEFINE Bad == {j \in 0..N : ~\E f : After(f, j)}
    <2>. SUFFICES ASSUME Bad # {} PROVE FALSE
      OBVIOUS
    <2>1. PICK j \in Bad : \A l \in Bad : ~(l < j)
      <3>1. Bad \subseteq Nat
        OBVIOUS
      <3>. HIDE DEF Bad
      <3>. QED
        BY <3>1, Least
    <2>2. CASE j = 0
      <3>1. After([n \in 0..0 |-> Start], 0)
        OBVIOUS
      <3>. QED
        BY <2>2, <3>1
    <2>3. CASE j # 0
      <3>1. j - 1 \in 0..N /\ j \in Nat /\ j - 1 < j
        BY <2>3
      <3>2. PICK f : After(f, j - 1)
        BY <2>1, <3>1
      <3>. DEFINE g == [n \in 0..j |-> IF n = j THEN RoundOf(f[j - 1]) ELSE f[n]]
      <3>3. \A n \in 0..(j - 1) : g[n] = f[n] /\ f[n] = Value(f, n)
        <4>1. \A n \in 0..(j - 1) : n \in 0..j /\ n # j
          BY <3>1
        <4>2. \A n \in 0..(j - 1) : f[n] = Value(f, n)
          <5>. HIDE DEF Value
          <5>. QED
            BY <3>2
        <4>. QED
          BY <4>1, <4>2
      <3>4. \A n \in 0..j : g[n] = Value(g, n)
        <4>. SUFFICES ASSUME NEW n \in 0..j PROVE g[n] = Value(g, n)
          OBVIOUS
        <4>1. CASE n = j
          <5>1. j - 1 \in 0..(j - 1)
            BY <3>1
          <5>2. g[j] = RoundOf(f[j - 1]) /\ g[j - 1] = f[j - 1]
            BY <3>1, <3>3, <5>1
          <5>. HIDE DEF g
          <5>. QED
            BY <2>3, <4>1, <5>2
        <4>2. CASE n # j /\ n # 0
          <5>1. n \in 0..(j - 1) /\ n - 1 \in 0..(j - 1)
            BY <3>1, <4>2
          <5>. HIDE DEF g
          <5>. QED
            BY <3>3, <4>2, <5>1
        <4>3. CASE n # j /\ n = 0
          <5>1. n \in 0..(j - 1)
            BY <3>1, <4>3
          <5>. HIDE DEF g
          <5>. QED
            BY <3>3, <4>3, <5>1
        <4>. QED
          BY <4>1, <4>2, <4>3
      <3>5. After(g, j)
        <4>1. g = [n \in 0..j |-> g[n]]
          OBVIOUS
        <4>. HIDE DEF g, Value
        <4>. QED
          BY <3>4, <4>1
      <3>. QED
        BY <3>5
    <2>. QED
      BY <2>2, <2>3
  <1>. DEFINE after == CHOOSE f : After(f, N)
  <1>2. After(after, N)
    <2>1. \E f : After(f, N)
      <3>1. N \in 0..N
        OBVIOUS
      <3>. HIDE DEF N, Value
      <3>. QED
        BY <1>1, <3>1
    <2>. HIDE DEF After
    <2>. QED
      BY <2>1
  <1>3. D!Depths(code) = after[N]
    BY DEF D!Depths, RoundOf, Start
  <1>. HIDE DEF after
  <1>4. \A n \in 0..N : after[n] = Value(after, n)
    <2>. HIDE DEF Value
    <2>. QED
      BY <1>2
  <1>5. after[0] = Start /\ \A n \in 1..N : after[n] = RoundOf(after[n - 1])
    <2>1. 0 \in 0..N /\ \A n \in 1..N : n \in 0..N /\ n # 0
      OBVIOUS
    <2>. QED
      BY <1>4, <2>1
  <1>. QED
    BY <1>3, <1>5

\* Joined keeps one interval per instruction: the least around those it is given.
Depth == [pc : Boundaries, lo : Int, hi : Int]

LEMMA JoinedFacts ==
  ASSUME NEW A, A \subseteq Depth, NEW l, NEW h,
         \A r \in A : l[r.pc] \in Int /\ h[r.pc] \in Int /\ l[r.pc] <= r.lo /\ r.hi <= h[r.pc]
  PROVE  /\ \A q \in D!Joined(A) :
              /\ q \in Depth
              /\ \E r \in A : r.pc = q.pc /\ r.lo = q.lo
              /\ \E r \in A : r.pc = q.pc /\ r.hi = q.hi
              /\ \A r \in A : r.pc = q.pc => q.lo <= r.lo /\ r.hi <= q.hi
         /\ \A r \in A : \E q \in D!Joined(A) : q.pc = r.pc
         /\ \A p, q \in D!Joined(A) : p.pc = q.pc => p = q
  <1>. DEFINE los(pc) == {r.lo : r \in {x \in A : x.pc = pc}}
              his(pc) == {r.hi : r \in {x \in A : x.pc = pc}}
              one(pc) == [pc |-> pc, lo |-> D!Min(los(pc)), hi |-> D!Max(his(pc))]
  <1>1. D!Joined(A) = {one(pc) : pc \in {r.pc : r \in A}}
    BY DEF D!Joined, D!At
  <1>2. ASSUME NEW a \in A
        PROVE  /\ D!Min(los(a.pc)) \in los(a.pc) /\ \A x \in los(a.pc) : D!Min(los(a.pc)) <= x
               /\ D!Max(his(a.pc)) \in his(a.pc) /\ \A x \in his(a.pc) : x <= D!Max(his(a.pc))
    <2>1. /\ los(a.pc) \subseteq Int /\ a.lo \in los(a.pc)
          /\ his(a.pc) \subseteq Int /\ a.hi \in his(a.pc)
      BY DEF Depth
    <2>2. l[a.pc] \in Int /\ h[a.pc] \in Int
      OBVIOUS
    <2>3. \A x \in los(a.pc) : l[a.pc] <= x
      OBVIOUS
    <2>4. \A x \in his(a.pc) : x <= h[a.pc]
      OBVIOUS
    <2>. HIDE DEF los, his
    <2>. QED
      BY <2>1, <2>2, <2>3, <2>4, LeastInt, GreatestInt
  <1>3. ASSUME NEW q \in D!Joined(A)
        PROVE  /\ q \in Depth /\ q = one(q.pc)
               /\ \E r \in A : r.pc = q.pc /\ r.lo = q.lo
               /\ \E r \in A : r.pc = q.pc /\ r.hi = q.hi
               /\ \A r \in A : r.pc = q.pc => q.lo <= r.lo /\ r.hi <= q.hi
    <2>1. PICK a \in A : q = one(a.pc)
      <3>. HIDE DEF one
      <3>. QED
        BY <1>1
    <2>. DEFINE m == D!Min(los(a.pc))
                n == D!Max(his(a.pc))
    <2>2. q = [pc |-> a.pc, lo |-> m, hi |-> n]
      BY <2>1
    <2>3. /\ m \in los(a.pc) /\ \A x \in los(a.pc) : m <= x
          /\ n \in his(a.pc) /\ \A x \in his(a.pc) : x <= n
      BY <1>2
    <2>. HIDE DEF m, n
    <2>4. q.pc = a.pc /\ q.lo = m /\ q.hi = n
      BY <2>2
    <2>5. q = one(q.pc)
      <3>. HIDE DEF one
      <3>. QED
        BY <2>1, <2>4
    <2>6. \E r \in A : r.pc = a.pc /\ r.lo = m
      BY <2>3
    <2>7. \E r \in A : r.pc = a.pc /\ r.hi = n
      BY <2>3
    <2>8. \A r \in A : r.pc = a.pc => m <= r.lo /\ r.hi <= n
      BY <2>3
    <2>9. q \in Depth
      BY <2>2, <2>6, <2>7 DEF Depth
    <2>. HIDE DEF one
    <2>. QED
      BY <2>4, <2>5, <2>6, <2>7, <2>8, <2>9
  <1>4. ASSUME NEW a \in A PROVE \E q \in D!Joined(A) : q.pc = a.pc
    <2>1. one(a.pc) \in D!Joined(A)
      <3>. HIDE DEF one
      <3>. QED
        BY <1>1
    <2>2. one(a.pc).pc = a.pc
      OBVIOUS
    <2>. QED
      BY <2>1, <2>2
  <1>. HIDE DEF one
  <1>. QED
    BY <1>3, <1>4

\* DepthAnalysis reads the edges of Bytecode, as the verifier does.
LEMMA SameEdges == ASSUME NEW i, NEW pc PROVE D!Edges(i, pc) = Edges(i, pc)
  BY DEF D!Edges, Edges, D!Delta, Delta, D!Terminates, Terminates

\* An edge carries a minimum no faster than a maximum.
LEMMA EdgeFacts ==
  ASSUME code \in Chunks, NEW pc \in Boundaries, NEW e \in Edges(code[pc], pc)
  PROVE  e.min \in Int /\ e.max \in Int /\ e.min <= e.max
  <1>1. Delta(code[pc]) \in Int
    BY CodeFacts DEF Delta
  <1>. HIDE DEF Delta
  <1>. QED
    BY <1>1 DEF Edges

(***************************************************************************)
(* A round inside a table that is closed                                   *)
(***************************************************************************)
Settled == TypeOK /\ Len(code) > 0 /\ Entry /\ \A pc \in Boundaries : Closed(pc)

\* what the rounds have found so far lies within the table
InTable(S) ==
    /\ S \subseteq Depth
    /\ \A r \in S : /\ depth[r.pc].lo >= 0 /\ depth[r.pc].lo <= r.lo
                    /\ r.lo <= r.hi /\ r.hi <= depth[r.pc].hi
    /\ \A r, q \in S : r.pc = q.pc => r = q
    /\ \E r \in S : r.pc = 1 /\ r.lo <= 0 /\ 0 <= r.hi

LEMMA RoundWithin ==
  ASSUME Settled, NEW S, InTable(S)
  PROVE  /\ InTable(RoundOf(S))
         /\ \A r \in S : \E q \in RoundOf(S) : q.pc = r.pc /\ q.lo <= r.lo /\ r.hi <= q.hi
         /\ \A r \in S : \A e \in Edges(code[r.pc], r.pc) :
              \E q \in RoundOf(S) : q.pc = e.to /\ q.lo <= r.lo + e.min /\ r.hi + e.max <= q.hi
  <1>. DEFINE C == D!Carried(code, S)
              A == S \cup C
              inside(r) == /\ r \in Depth /\ depth[r.pc].lo \in Int /\ depth[r.pc].hi \in Int
                           /\ depth[r.pc].lo >= 0 /\ depth[r.pc].lo <= r.lo
                           /\ r.lo <= r.hi /\ r.hi <= depth[r.pc].hi
  <1>1. /\ code \in Chunks /\ TypeOK
        /\ \A pc \in Boundaries : depth[pc].lo \in Int /\ depth[pc].hi \in Int
    BY DEF Settled, TypeOK, Interval, Boundaries
  <1>2. \A r \in S : inside(r)
    BY <1>1 DEF InTable, Depth
  <1>3. ASSUME NEW r \in S, NEW e \in Edges(code[r.pc], r.pc)
        PROVE  inside(D!At(e.to, r.lo + e.min, r.hi + e.max))
    <2>1. inside(r) /\ r.pc \in Boundaries /\ r.lo \in Int /\ r.hi \in Int
      BY <1>2 DEF Depth
    <2>2. e.min \in Int /\ e.max \in Int /\ e.min <= e.max
      BY <1>1, <2>1, EdgeFacts
    <2>3. /\ e.to \in Boundaries /\ 0 <= depth[e.to].lo
          /\ depth[e.to].lo <= depth[r.pc].lo + e.min
          /\ depth[r.pc].hi + e.max <= depth[e.to].hi
      BY <2>1 DEF Settled, Closed
    <2>4. depth[e.to].lo \in Int /\ depth[e.to].hi \in Int
      BY <1>1, <2>3
    <2>. DEFINE x == r.lo + e.min
                y == r.hi + e.max
    <2>5. x \in Int /\ y \in Int /\ depth[e.to].lo <= x /\ x <= y /\ y <= depth[e.to].hi
      BY <2>1, <2>2, <2>3, <2>4
    <2>. HIDE DEF x, y
    <2>6. inside(D!At(e.to, x, y))
      BY <2>3, <2>4, <2>5 DEF D!At, Depth
    <2>. QED
      BY <2>6 DEF x, y
  <1>4. \A c : c \in C <=> \E r \in S : \E e \in Edges(code[r.pc], r.pc) :
                             c = D!At(e.to, r.lo + e.min, r.hi + e.max)
    BY SameEdges DEF D!Carried
  <1>5. \A r \in A : inside(r)
    <2>. HIDE DEF inside, C
    <2>1. \A c \in C : inside(c)
      BY <1>3, <1>4
    <2>. QED
      BY <1>2, <2>1
  <1>6. ASSUME NEW r \in S, NEW e \in Edges(code[r.pc], r.pc)
        PROVE  D!At(e.to, r.lo + e.min, r.hi + e.max) \in A
    BY <1>4
  <1>. DEFINE l == [pc \in Boundaries |-> depth[pc].lo]
              h == [pc \in Boundaries |-> depth[pc].hi]
              J == D!Joined(A)
  <1>7. /\ \A q \in J : /\ q \in Depth
                        /\ \E r \in A : r.pc = q.pc /\ r.lo = q.lo
                        /\ \E r \in A : r.pc = q.pc /\ r.hi = q.hi
                        /\ \A r \in A : r.pc = q.pc => q.lo <= r.lo /\ r.hi <= q.hi
        /\ \A r \in A : \E q \in J : q.pc = r.pc
        /\ \A p, q \in J : p.pc = q.pc => p = q
    <2>1. A \subseteq Depth
      BY <1>5
    <2>2. \A r \in A : l[r.pc] \in Int /\ h[r.pc] \in Int /\ l[r.pc] <= r.lo /\ r.hi <= h[r.pc]
      BY <1>5 DEF Depth
    <2>. HIDE DEF A, l, h
    <2>. QED
      BY <2>1, <2>2, JoinedFacts
  <1>. HIDE DEF J, C
  <1>8. ASSUME NEW r \in A
        PROVE  \E q \in J : q.pc = r.pc /\ q.lo <= r.lo /\ r.hi <= q.hi
    BY <1>7
  <1>9. ASSUME NEW r \in S, NEW e \in Edges(code[r.pc], r.pc)
        PROVE  \E q \in J : q.pc = e.to /\ q.lo <= r.lo + e.min /\ r.hi + e.max <= q.hi
    <2>. DEFINE c == D!At(e.to, r.lo + e.min, r.hi + e.max)
    <2>1. PICK q \in J : q.pc = c.pc /\ q.lo <= c.lo /\ c.hi <= q.hi
      <3>. HIDE DEF c, A
      <3>1. c \in A
        BY <1>6 DEF c
      <3>. QED
        BY <1>8, <3>1
    <2>2. c.pc = e.to /\ c.lo = r.lo + e.min /\ c.hi = r.hi + e.max
      BY DEF D!At
    <2>. HIDE DEF c
    <2>. QED
      BY <2>1, <2>2
  <1>10. ASSUME NEW q \in J
         PROVE  /\ depth[q.pc].lo >= 0 /\ depth[q.pc].lo <= q.lo
                /\ q.lo <= q.hi /\ q.hi <= depth[q.pc].hi
    <2>1. PICK r \in A : r.pc = q.pc /\ r.lo = q.lo
      BY <1>7
    <2>2. PICK p \in A : p.pc = q.pc /\ p.hi = q.hi
      BY <1>7
    <2>3. inside(r) /\ inside(p) /\ r.hi <= q.hi /\ q \in Depth
      BY <1>5, <1>7, <2>1
    <2>. QED
      BY <2>1, <2>2, <2>3 DEF Depth
  <1>11. \E q \in J : q.pc = 1 /\ q.lo <= 0 /\ 0 <= q.hi
    <2>1. PICK r \in S : r.pc = 1 /\ r.lo <= 0 /\ 0 <= r.hi
      BY DEF InTable
    <2>2. PICK q \in J : q.pc = r.pc /\ q.lo <= r.lo /\ r.hi <= q.hi
      BY <1>8
    <2>3. r \in Depth /\ q \in Depth
      BY <1>2, <1>7
    <2>. QED
      BY <2>1, <2>2, <2>3 DEF Depth
  <1>12. InTable(J)
    BY <1>7, <1>10, <1>11 DEF InTable
  <1>13. RoundOf(S) = J
    BY DEF RoundOf, J, C
  <1>. HIDE DEF inside, A
  <1>14. \A r \in S : \E q \in J : q.pc = r.pc /\ q.lo <= r.lo /\ r.hi <= q.hi
    BY <1>8 DEF A
  <1>. QED
    BY <1>9, <1>12, <1>13, <1>14

\* the instructions whose least minimum, or greatest maximum, the rounds have found
LowFound(S) == {pc \in ReachedSet(depth) : \E r \in S : r.pc = pc /\ r.lo = depth[pc].lo}
HighFound(S) == {pc \in ReachedSet(depth) : \E r \in S : r.pc = pc /\ r.hi = depth[pc].hi}

\* A round finds another minimum while one is missing: if no edge out of the ones
\* found were tight, the rest of the table could be raised by one.
LEMMA LowGrows ==
  ASSUME Settled, AroundSoFar, NEW S, InTable(S)
  PROVE  /\ LowFound(S) \subseteq LowFound(RoundOf(S))
         /\ LowFound(S) # ReachedSet(depth) => LowFound(RoundOf(S)) # LowFound(S)
  <1>. DEFINE G == LowFound(S)
              R == ReachedSet(depth)
              T == RoundOf(S)
  <1>1. /\ code \in Chunks /\ Len(code) \in Nat /\ 1 \in Boundaries
        /\ \A pc \in Boundaries : depth[pc].lo \in Int /\ depth[pc].hi \in Int
    BY CodeFacts DEF Settled, TypeOK, Interval, Boundaries
  <1>2. /\ InTable(T)
        /\ \A r \in S : \E q \in T : q.pc = r.pc /\ q.lo <= r.lo /\ r.hi <= q.hi
        /\ \A r \in S : \A e \in Edges(code[r.pc], r.pc) :
             \E q \in T : q.pc = e.to /\ q.lo <= r.lo + e.min /\ r.hi + e.max <= q.hi
    BY RoundWithin
  <1>. HIDE DEF T
  <1>3. /\ \A r \in S : r \in Depth /\ r.pc \in R /\ r.lo \in Int /\ depth[r.pc].lo <= r.lo
        /\ \A r \in T : r \in Depth /\ r.pc \in R /\ r.lo \in Int /\ depth[r.pc].lo <= r.lo
    BY <1>2 DEF InTable, Depth, ReachedSet
  <1>4. G \subseteq LowFound(T)
    <2>. SUFFICES ASSUME NEW pc \in G PROVE pc \in LowFound(T)
      OBVIOUS
    <2>1. PICK r \in S : pc \in R /\ r.pc = pc /\ r.lo = depth[pc].lo
      BY DEF LowFound
    <2>2. PICK q \in T : q.pc = r.pc /\ q.lo <= r.lo
      BY <1>2
    <2>3. q.lo = depth[pc].lo
      BY <1>3, <2>1, <2>2
    <2>. QED
      BY <2>1, <2>2, <2>3 DEF LowFound
  <1>5. ASSUME G # R, LowFound(T) = G PROVE FALSE
    <2>. DEFINE lo == [pc \in Boundaries |-> IF pc \in G THEN depth[pc].lo ELSE depth[pc].lo + 1]
                hi == [pc \in Boundaries |-> depth[pc].hi]
    <2>1. lo \in [Boundaries -> Int] /\ hi \in [Boundaries -> Int] /\ R \subseteq Boundaries
      BY <1>1 DEF ReachedSet
    <2>2. /\ \A pc \in Boundaries :
               /\ hi[pc] = depth[pc].hi
               /\ lo[pc] = IF pc \in G THEN depth[pc].lo ELSE depth[pc].lo + 1
      OBVIOUS
    <2>. HIDE DEF lo, hi
    <2>3. 1 \in R /\ lo[1] <= 0 /\ 0 <= hi[1]
      <3>1. PICK r \in S : r.pc = 1 /\ r.lo <= 0 /\ 0 <= r.hi /\ r.hi <= depth[r.pc].hi
        BY DEF InTable
      <3>2. 1 \in R /\ depth[1].lo <= r.lo /\ r.lo \in Int /\ r.hi \in Int
        BY <1>3, <3>1 DEF Depth
      <3>3. 1 \in G \/ depth[1].lo # r.lo
        BY <3>1, <3>2 DEF LowFound
      <3>. QED
        BY <1>1, <2>2, <3>1, <3>2, <3>3
    <2>4. ASSUME NEW pc \in R, NEW e \in Edges(code[pc], pc)
          PROVE  e.to \in R /\ lo[e.to] <= lo[pc] + e.min /\ hi[pc] + e.max <= hi[e.to]
      <3>1. pc \in Boundaries /\ depth[pc].lo >= 0
        BY DEF ReachedSet
      <3>2. /\ e.to \in Boundaries /\ 0 <= depth[e.to].lo
            /\ depth[e.to].lo <= depth[pc].lo + e.min
            /\ depth[pc].hi + e.max <= depth[e.to].hi
        BY <3>1 DEF Settled, Closed
      <3>3. e.min \in Int /\ e.to \in R
        BY <1>1, <3>1, <3>2, EdgeFacts DEF ReachedSet
      <3>4. CASE pc \in G
        <4>1. PICK r \in S : r.pc = pc /\ r.lo = depth[pc].lo
          BY <3>4 DEF LowFound
        <4>2. PICK q \in T : q.pc = e.to /\ q.lo <= depth[pc].lo + e.min
          BY <1>2, <4>1
        <4>3. depth[e.to].lo <= q.lo /\ q.lo \in Int
          BY <1>3, <4>2
        <4>4. e.to \in G \/ q.lo # depth[e.to].lo
          BY <1>5, <3>3, <4>2 DEF LowFound
        <4>. QED
          BY <1>1, <2>2, <3>1, <3>2, <3>3, <3>4, <4>2, <4>3, <4>4
      <3>5. CASE pc \notin G
        <4>1. lo[pc] = depth[pc].lo + 1 /\ hi[pc] = depth[pc].hi /\ hi[e.to] = depth[e.to].hi
          BY <2>2, <3>1, <3>2, <3>5
        <4>2. lo[e.to] \in Int /\ lo[e.to] <= depth[e.to].lo + 1
          BY <1>1, <2>2, <3>2
        <4>3. depth[pc].lo \in Int /\ depth[e.to].lo \in Int
          BY <1>1, <3>1, <3>2
        <4>. QED
          BY <3>2, <3>3, <4>1, <4>2, <4>3
      <3>. QED
        BY <3>4, <3>5
    <2>5. Bounding(R, lo, hi)
      BY <2>1, <2>3, <2>4 DEF Bounding
    <2>6. Around(depth, R, lo, hi)
      BY <2>5 DEF AroundSoFar
    <2>7. PICK pc \in R : pc \notin G
      BY <1>5 DEF LowFound
    <2>. QED
      BY <1>1, <2>1, <2>2, <2>6, <2>7 DEF Around, ReachedSet
  <1>. QED
    BY <1>4, <1>5 DEF T

\* And likewise for the maxima.
LEMMA HighGrows ==
  ASSUME Settled, AroundSoFar, NEW S, InTable(S)
  PROVE  /\ HighFound(S) \subseteq HighFound(RoundOf(S))
         /\ HighFound(S) # ReachedSet(depth) => HighFound(RoundOf(S)) # HighFound(S)
  <1>. DEFINE G == HighFound(S)
              R == ReachedSet(depth)
              T == RoundOf(S)
  <1>1. /\ code \in Chunks /\ Len(code) \in Nat /\ 1 \in Boundaries
        /\ \A pc \in Boundaries : depth[pc].lo \in Int /\ depth[pc].hi \in Int
    BY CodeFacts DEF Settled, TypeOK, Interval, Boundaries
  <1>2. /\ InTable(T)
        /\ \A r \in S : \E q \in T : q.pc = r.pc /\ q.lo <= r.lo /\ r.hi <= q.hi
        /\ \A r \in S : \A e \in Edges(code[r.pc], r.pc) :
             \E q \in T : q.pc = e.to /\ q.lo <= r.lo + e.min /\ r.hi + e.max <= q.hi
    BY RoundWithin
  <1>. HIDE DEF T
  <1>3. /\ \A r \in S : r \in Depth /\ r.pc \in R /\ r.hi \in Int /\ r.hi <= depth[r.pc].hi
        /\ \A r \in T : r \in Depth /\ r.pc \in R /\ r.hi \in Int /\ r.hi <= depth[r.pc].hi
    BY <1>2 DEF InTable, Depth, ReachedSet
  <1>4. G \subseteq HighFound(T)
    <2>. SUFFICES ASSUME NEW pc \in G PROVE pc \in HighFound(T)
      OBVIOUS
    <2>1. PICK r \in S : pc \in R /\ r.pc = pc /\ r.hi = depth[pc].hi
      BY DEF HighFound
    <2>2. PICK q \in T : q.pc = r.pc /\ r.hi <= q.hi
      BY <1>2
    <2>3. q.hi = depth[pc].hi
      BY <1>3, <2>1, <2>2
    <2>. QED
      BY <2>1, <2>2, <2>3 DEF HighFound
  <1>5. ASSUME G # R, HighFound(T) = G PROVE FALSE
    <2>. DEFINE lo == [pc \in Boundaries |-> depth[pc].lo]
                hi == [pc \in Boundaries |-> IF pc \in G THEN depth[pc].hi ELSE depth[pc].hi - 1]
    <2>1. lo \in [Boundaries -> Int] /\ hi \in [Boundaries -> Int] /\ R \subseteq Boundaries
      BY <1>1 DEF ReachedSet
    <2>2. /\ \A pc \in Boundaries :
               /\ lo[pc] = depth[pc].lo
               /\ hi[pc] = IF pc \in G THEN depth[pc].hi ELSE depth[pc].hi - 1
      OBVIOUS
    <2>. HIDE DEF lo, hi
    <2>3. 1 \in R /\ lo[1] <= 0 /\ 0 <= hi[1]
      <3>1. PICK r \in S : r.pc = 1 /\ r.lo <= 0 /\ 0 <= r.hi /\ depth[r.pc].lo <= r.lo
        BY DEF InTable
      <3>2. 1 \in R /\ r.hi <= depth[1].hi /\ r.lo \in Int /\ r.hi \in Int
        BY <1>3, <3>1 DEF Depth
      <3>3. 1 \in G \/ depth[1].hi # r.hi
        BY <3>1, <3>2 DEF HighFound
      <3>. QED
        BY <1>1, <2>2, <3>1, <3>2, <3>3
    <2>4. ASSUME NEW pc \in R, NEW e \in Edges(code[pc], pc)
          PROVE  e.to \in R /\ lo[e.to] <= lo[pc] + e.min /\ hi[pc] + e.max <= hi[e.to]
      <3>1. pc \in Boundaries /\ depth[pc].lo >= 0
        BY DEF ReachedSet
      <3>2. /\ e.to \in Boundaries /\ 0 <= depth[e.to].lo
            /\ depth[e.to].lo <= depth[pc].lo + e.min
            /\ depth[pc].hi + e.max <= depth[e.to].hi
        BY <3>1 DEF Settled, Closed
      <3>3. e.max \in Int /\ e.to \in R
        BY <1>1, <3>1, <3>2, EdgeFacts DEF ReachedSet
      <3>4. CASE pc \in G
        <4>1. PICK r \in S : r.pc = pc /\ r.hi = depth[pc].hi
          BY <3>4 DEF HighFound
        <4>2. PICK q \in T : q.pc = e.to /\ depth[pc].hi + e.max <= q.hi
          BY <1>2, <4>1
        <4>3. q.hi <= depth[e.to].hi /\ q.hi \in Int
          BY <1>3, <4>2
        <4>4. e.to \in G \/ q.hi # depth[e.to].hi
          BY <1>5, <3>3, <4>2 DEF HighFound
        <4>. QED
          BY <1>1, <2>2, <3>1, <3>2, <3>3, <3>4, <4>2, <4>3, <4>4
      <3>5. CASE pc \notin G
        <4>1. hi[pc] = depth[pc].hi - 1 /\ lo[pc] = depth[pc].lo /\ lo[e.to] = depth[e.to].lo
          BY <2>2, <3>1, <3>2, <3>5
        <4>2. hi[e.to] \in Int /\ depth[e.to].hi - 1 <= hi[e.to]
          BY <1>1, <2>2, <3>2
        <4>3. depth[pc].hi \in Int /\ depth[e.to].hi \in Int
          BY <1>1, <3>1, <3>2
        <4>. QED
          BY <3>2, <3>3, <4>1, <4>2, <4>3
      <3>. QED
        BY <3>4, <3>5
    <2>5. Bounding(R, lo, hi)
      BY <2>1, <2>3, <2>4 DEF Bounding
    <2>6. Around(depth, R, lo, hi)
      BY <2>5 DEF AroundSoFar
    <2>7. PICK pc \in R : pc \notin G
      BY <1>5 DEF HighFound
    <2>. QED
      BY <1>1, <2>1, <2>2, <2>6, <2>7 DEF Around, ReachedSet
  <1>. QED
    BY <1>4, <1>5 DEF T

\* Sets that grow until they are all of U are all of U after as many steps as U has
\* members.
LEMMA ChainFills ==
  ASSUME NEW U, IsFiniteSet(U), NEW N \in Nat, Cardinality(U) <= N, NEW g,
         \A n \in 0..N : g[n] \subseteq U,
         \A n \in 1..N : g[n - 1] \subseteq g[n] /\ (g[n - 1] # U => g[n] # g[n - 1])
  PROVE  g[N] = U
  <1>1. ASSUME NEW n \in 0..N
        PROVE  IsFiniteSet(g[n]) /\ Cardinality(g[n]) \in Nat /\ Cardinality(g[n]) <= Cardinality(U)
               /\ (Cardinality(g[n]) = Cardinality(U) => g[n] = U)
    BY FS_Subset, FS_CardinalityType
  <1>2. Cardinality(U) \in Nat
    BY FS_CardinalityType
  <1>3. \A n \in 0..N : g[n] = U \/ Cardinality(g[n]) >= n
    <2>. DEFINE Bad == {n \in 0..N : ~(g[n] = U \/ Cardinality(g[n]) >= n)}
    <2>. SUFFICES ASSUME Bad # {} PROVE FALSE
      OBVIOUS
    <2>1. PICK n \in Bad : \A k \in Bad : ~(k < n)
      <3>1. Bad \subseteq Nat
        OBVIOUS
      <3>. HIDE DEF Bad
      <3>. QED
        BY <3>1, Least
    <2>2. n \in 0..N /\ n # 0
      BY <1>1
    <2>3. n \in 1..N /\ n - 1 \in 0..N /\ n - 1 < n
      BY <2>2
    <2>4. g[n - 1] = U \/ Cardinality(g[n - 1]) >= n - 1
      BY <2>1, <2>3
    <2>5. g[n - 1] \subseteq g[n] /\ g[n] \subseteq U /\ (g[n - 1] # U => g[n] # g[n - 1])
      BY <2>2, <2>3
    <2>6. CASE g[n - 1] = U
      BY <2>1, <2>5, <2>6
    <2>7. CASE g[n - 1] # U /\ Cardinality(g[n - 1]) >= n - 1
      <3>1. IsFiniteSet(g[n]) /\ Cardinality(g[n]) \in Nat /\ Cardinality(g[n - 1]) \in Nat
        BY <1>1, <2>2, <2>3
      <3>2. Cardinality(g[n - 1]) <= Cardinality(g[n]) /\ Cardinality(g[n - 1]) # Cardinality(g[n])
        BY <2>5, <2>7, <3>1, FS_Subset
      <3>. QED
        BY <2>1, <2>2, <2>7, <3>1, <3>2
    <2>. QED
      BY <2>4, <2>6, <2>7
  <1>4. N \in 0..N
    OBVIOUS
  <1>. QED
    BY <1>1, <1>2, <1>3, <1>4

\* After as many rounds as the chunk has instructions, what they have found is the
\* table.
LEMMA RoundsFindTheTable ==
  ASSUME Settled, AroundSoFar
  PROVE  /\ InTable(D!Depths(code))
         /\ LowFound(D!Depths(code)) = ReachedSet(depth)
         /\ HighFound(D!Depths(code)) = ReachedSet(depth)
  <1>. DEFINE N == Len(code) + 1
  <1>1. code \in Chunks /\ TypeOK /\ Len(code) \in Nat /\ Len(code) > 0 /\ N \in Nat
    BY CodeFacts DEF Settled, TypeOK
  <1>2. PICK f : /\ f[0] = Start
                 /\ \A n \in 1..N : f[n] = RoundOf(f[n - 1])
                 /\ D!Depths(code) = f[N]
    BY <1>1, RoundsExist
  <1>3. InTable(Start)
    <2>1. 1 \in Boundaries /\ depth[1].lo = 0 /\ depth[1].hi \in Int /\ 0 <= depth[1].hi
      <3>1. 1 \in Boundaries
        BY <1>1 DEF Boundaries
      <3>2. depth[1].lo = 0
        BY <1>1 DEF Settled, Entry
      <3>3. depth[1] # Unreached
        BY <3>2 DEF Unreached
      <3>. QED
        BY <1>1, <3>1, <3>2, <3>3 DEF TypeOK, Interval, Boundaries
    <2>. DEFINE first == D!At(1, 0, 0)
    <2>2. first \in Depth /\ first.pc = 1 /\ first.lo = 0 /\ first.hi = 0
      BY <2>1 DEF D!At, Depth
    <2>3. Start = {first}
      BY DEF Start
    <2>. HIDE DEF first
    <2>. QED
      BY <2>1, <2>2, <2>3 DEF InTable
  <1>4. \A n \in 0..N : InTable(f[n])
    <2>. DEFINE Bad == {n \in 0..N : ~InTable(f[n])}
    <2>. SUFFICES ASSUME Bad # {} PROVE FALSE
      OBVIOUS
    <2>1. PICK n \in Bad : \A k \in Bad : ~(k < n)
      <3>1. Bad \subseteq Nat
        OBVIOUS
      <3>. HIDE DEF Bad
      <3>. QED
        BY <3>1, Least
    <2>2. n # 0
      BY <1>2, <1>3
    <2>3. n \in 1..N /\ n - 1 \in 0..N /\ n - 1 < n
      BY <1>1, <2>2
    <2>4. InTable(f[n - 1]) /\ f[n] = RoundOf(f[n - 1])
      BY <1>2, <2>1, <2>3
    <2>5. InTable(f[n])
      BY <2>4, RoundWithin
    <2>. QED
      BY <2>1, <2>5
  <1>5. ASSUME NEW n \in 1..N
        PROVE  n \in 0..N /\ n - 1 \in 0..N /\ InTable(f[n - 1]) /\ f[n] = RoundOf(f[n - 1])
    <2>1. n \in 0..N /\ n - 1 \in 0..N
      BY <1>1
    <2>. QED
      BY <1>2, <1>4, <2>1
  <1>6. /\ IsFiniteSet(ReachedSet(depth)) /\ Cardinality(ReachedSet(depth)) <= N /\ N \in 0..N
    <2>1. /\ IsFiniteSet(ReachedSet(depth)) /\ Cardinality(ReachedSet(depth)) \in Nat
          /\ Cardinality(ReachedSet(depth)) <= Len(code)
      BY <1>1, ReachedFinite
    <2>. QED
      BY <1>1, <2>1
  <1>. DEFINE U == ReachedSet(depth)
              g == [n \in 0..N |-> LowFound(f[n])]
              h == [n \in 0..N |-> HighFound(f[n])]
  <1>7. g[N] = U
    <2>1. \A n \in 0..N : g[n] \subseteq U
      BY DEF LowFound
    <2>2. \A n \in 1..N : g[n - 1] \subseteq g[n] /\ (g[n - 1] # U => g[n] # g[n - 1])
      <3>. SUFFICES ASSUME NEW n \in 1..N
                    PROVE  g[n - 1] \subseteq g[n] /\ (g[n - 1] # U => g[n] # g[n - 1])
        OBVIOUS
      <3>1. g[n] = LowFound(f[n]) /\ g[n - 1] = LowFound(f[n - 1])
        BY <1>5
      <3>. HIDE DEF g, U, N
      <3>. QED
        BY <1>5, <3>1, LowGrows DEF U
    <2>. HIDE DEF g, U, N
    <2>. QED
      BY <1>1, <1>6, <2>1, <2>2, ChainFills DEF U
  <1>8. h[N] = U
    <2>1. \A n \in 0..N : h[n] \subseteq U
      BY DEF HighFound
    <2>2. \A n \in 1..N : h[n - 1] \subseteq h[n] /\ (h[n - 1] # U => h[n] # h[n - 1])
      <3>. SUFFICES ASSUME NEW n \in 1..N
                    PROVE  h[n - 1] \subseteq h[n] /\ (h[n - 1] # U => h[n] # h[n - 1])
        OBVIOUS
      <3>1. h[n] = HighFound(f[n]) /\ h[n - 1] = HighFound(f[n - 1])
        BY <1>5
      <3>. HIDE DEF h, U, N
      <3>. QED
        BY <1>5, <3>1, HighGrows DEF U
    <2>. HIDE DEF h, U, N
    <2>. QED
      BY <1>1, <1>6, <2>1, <2>2, ChainFills DEF U
  <1>. QED
    BY <1>2, <1>4, <1>6, <1>7, <1>8

\* max_stack is 0 or the maximum of an instruction that is reached.
PeakIsReached ==
    /\ phase \in {"targets", "depths"} => peak = 0
    /\ peak = 0 \/ \E pc \in Boundaries : depth[pc].lo >= 0 /\ depth[pc].hi = peak

LEMMA AlwaysPeakIsReached == Spec => []PeakIsReached
  <1>1. Init => PeakIsReached
    BY DEF Init, PeakIsReached
  <1>2. IInv /\ PeakIsReached /\ [Next]_vars => PeakIsReached'
    <2>. SUFFICES ASSUME IInv, PeakIsReached, [Next]_vars PROVE PeakIsReached'
      OBVIOUS
    <2>1. TypeOK /\ code \in Chunks /\ Len(code) \in Nat
      BY CodeFacts DEF IInv, TypeOK
    <2>2. code' = code
      BY DEF Next, CheckTarget, CheckEnd, Skip, Refuse, Propagate, EndRound, TakePeak, Accept,
             Reject, vars
    <2>3. CASE Propagate
      <3>1. phase = "depths" /\ phase' = phase /\ peak' = peak
        BY <2>3 DEF Propagate, Reached
      <3>. QED
        BY <3>1 DEF PeakIsReached
    <2>4. CASE TakePeak
      <3>1. /\ phase = "peak" /\ phase' = phase /\ at <= Len(code) /\ depth' = depth
            /\ peak' = IF depth[at].hi > peak THEN depth[at].hi ELSE peak
        BY <2>4 DEF TakePeak
      <3>2. at \in Boundaries /\ peak \in Nat /\ depth[at].hi \in Int /\ DepthMax \in Nat
        <4>1. at \in Boundaries /\ DepthMax \in Nat
          BY <2>1, <3>1, CodeFacts DEF TypeOK, Boundaries
        <4>. QED
          BY <2>1, <4>1 DEF TypeOK, Interval, Boundaries
      <3>3. CASE depth[at].hi > peak
        <4>1. depth[at] # Unreached
          BY <3>2, <3>3 DEF Unreached
        <4>2. depth[at].lo >= 0
          BY <2>1, <3>2, <4>1 DEF TypeOK, Boundaries, Interval
        <4>. QED
          BY <2>2, <3>1, <3>2, <3>3, <4>2 DEF PeakIsReached, Boundaries
      <3>4. CASE ~(depth[at].hi > peak)
        BY <2>2, <3>1, <3>4 DEF PeakIsReached, Boundaries
      <3>. QED
        BY <3>3, <3>4
    <2>5. CASE ~Propagate /\ ~TakePeak
      <3>1. /\ depth' = depth /\ peak' = peak
            /\ phase' \in {"targets", "depths"} => phase \in {"targets", "depths"}
        BY <2>5 DEF Next, CheckTarget, CheckEnd, Skip, Refuse, EndRound, Accept, Reject, vars
      <3>. QED
        BY <2>2, <3>1 DEF PeakIsReached, Boundaries
    <2>. QED
      BY <2>3, <2>4, <2>5
  <1>. QED
    BY <1>1, <1>2, AlwaysIInv, PTL DEF Spec

\* A table over the chunk is the sequence DepthAnalysis makes of it.
LEMMA AsSeqIsTable ==
  ASSUME NEW n \in Nat, NEW f \in [1..n -> Int]
  PROVE  D!AsSeq(f) = f
  <1>1. f \in Seq(Int)
    BY SeqDef
  <1>. QED
    BY <1>1, SubSeqFull DEF D!AsSeq

\* The intervals that ver_chunk's rounds leave, one instruction at a time and in
\* whatever order the jumps give, and max_stack with them, are the ones the edges
\* alone determine: those of DepthAnalysis, which takes all the instructions of the
\* chunk at once (ver_chunk, pass 3).
THEOREM LeastIntervalsFound == Spec => []LeastIntervals
  <1>1. IInv /\ AroundSoFar /\ PeakIsReached => LeastIntervals
    <2>. SUFFICES ASSUME IInv, AroundSoFar, PeakIsReached, phase = "accepted", Len(code) > 0
                  PROVE  LoOfDepth = D!LoOf(code) /\ HiOfDepth = D!HiOf(code)
                         /\ peak = D!PeakOf(code)
      BY DEF LeastIntervals
    <2>1. /\ TypeOK /\ Entry /\ code \in Chunks /\ Len(code) \in Nat /\ DepthMax \in Nat
          /\ peak \in Nat /\ \A pc \in Boundaries : depth[pc].hi <= peak
          /\ \A pc \in Boundaries : Closed(pc)
      <3>1. TypeOK /\ Entry /\ code \in Chunks /\ peak \in 0..DepthMax
        BY DEF IInv, TypeOK
      <3>. QED
        BY <3>1, CodeFacts DEF IInv, Fixpoint, PeakOfAll
    <2>2. Settled
      BY <2>1 DEF Settled
    <2>. DEFINE d == D!Depths(code)
                los(pc) == {r.lo : r \in {x \in d : x.pc = pc}}
                his(pc) == {r.hi : r \in {x \in d : x.pc = pc}}
    <2>3. InTable(d) /\ LowFound(d) = ReachedSet(depth) /\ HighFound(d) = ReachedSet(depth)
      BY <2>2, RoundsFindTheTable
    <2>. HIDE DEF d
    <2>4. ASSUME NEW pc \in Boundaries
          PROVE  /\ depth[pc].lo \in Int /\ depth[pc].hi \in Int
                 /\ \/ depth[pc] = Unreached
                    \/ 0 <= depth[pc].lo /\ depth[pc].lo <= depth[pc].hi
      BY <2>1 DEF TypeOK, Interval, Boundaries
    <2>5. ASSUME NEW pc \in Boundaries, depth[pc].lo >= 0
          PROVE  los(pc) = {depth[pc].lo} /\ his(pc) = {depth[pc].hi}
      <3>1. PICK r \in d : r.pc = pc /\ r.lo = depth[pc].lo
        BY <2>3, <2>5 DEF LowFound, ReachedSet
      <3>2. PICK q \in d : q.pc = pc /\ q.hi = depth[pc].hi
        BY <2>3, <2>5 DEF HighFound, ReachedSet
      <3>3. \A x \in d : x.pc = pc => x = r /\ x = q
        BY <2>3, <3>1, <3>2 DEF InTable
      <3>. QED
        BY <3>1, <3>2, <3>3
    <2>6. ASSUME NEW pc \in Boundaries, ~(depth[pc].lo >= 0)
          PROVE  los(pc) = {} /\ his(pc) = {} /\ depth[pc].lo = -1 /\ depth[pc].hi = -1
      <3>1. \A x \in d : x.pc # pc
        BY <2>3, <2>6 DEF InTable
      <3>2. depth[pc] = Unreached
        BY <2>4, <2>6
      <3>. QED
        BY <3>1, <3>2 DEF Unreached
    <2>7. ASSUME NEW k \in Int, k >= -1
          PROVE  D!Max({k} \cup {-1}) = k /\ D!Max({} \cup {-1}) = -1
      <3>. DEFINE m == D!Max({k} \cup {-1})
      <3>1. m \in {k} \cup {-1} /\ \A x \in {k} \cup {-1} : x <= m
        <4>1. {k} \cup {-1} \subseteq Int /\ {k} \cup {-1} # {} /\ \A x \in {k} \cup {-1} : x <= k
          BY <2>7
        <4>. QED
          BY <4>1, GreatestInt
      <3>2. D!Max({} \cup {-1}) \in {} \cup {-1}
        <4>1. {} \cup {-1} \subseteq Int /\ {} \cup {-1} # {} /\ \A x \in {} \cup {-1} : x <= -1
          OBVIOUS
        <4>. QED
          BY <4>1, GreatestInt
      <3>3. D!Max({} \cup {-1}) = -1
        BY <3>2
      <3>. HIDE DEF m
      <3>4. m = k
        BY <2>7, <3>1
      <3>. QED
        BY <3>3, <3>4 DEF m
    <2>8. ASSUME NEW pc \in Boundaries
          PROVE  /\ D!Max(los(pc) \cup {-1}) = depth[pc].lo
                 /\ D!Max(his(pc) \cup {-1}) = depth[pc].hi
      <3>. HIDE DEF los, his
      <3>1. CASE depth[pc].lo >= 0
        <4>1. depth[pc].lo >= -1 /\ depth[pc].hi >= -1
          BY <2>4, <3>1 DEF Unreached
        <4>. QED
          BY <2>4, <2>5, <2>7, <3>1, <4>1
      <3>2. CASE ~(depth[pc].lo >= 0)
        BY <2>6, <2>7, <3>2
      <3>. QED
        BY <3>1, <3>2
    <2>. DEFINE lo == [pc \in 1..Len(code) |-> D!Max(los(pc) \cup {-1})]
                hi == [pc \in 1..Len(code) |-> D!Max(his(pc) \cup {-1})]
    <2>9. lo = LoOfDepth /\ hi = HiOfDepth
      <3>. HIDE DEF los, his
      <3>. QED
        BY <2>8 DEF LoOfDepth, HiOfDepth, Boundaries
    <2>10. LoOfDepth \in [1..Len(code) -> Int] /\ HiOfDepth \in [1..Len(code) -> Int]
      BY <2>4 DEF LoOfDepth, HiOfDepth, Boundaries
    <2>11. D!LoOf(code) = D!AsSeq(lo) /\ D!HiOf(code) = D!AsSeq(hi)
      BY DEF D!LoOf, D!HiOf, d
    <2>12. D!LoOf(code) = LoOfDepth /\ D!HiOf(code) = HiOfDepth
      <3>. HIDE DEF lo, hi
      <3>. QED
        BY <2>1, <2>9, <2>10, <2>11, AsSeqIsTable
    <2>13. peak = D!PeakOf(code)
      <3>. DEFINE all == {r.hi : r \in d}
      <3>1. D!PeakOf(code) = D!Max(all)
        BY DEF D!PeakOf, d
      <3>2. \A r \in d : r \in Depth /\ r.hi \in Int /\ r.hi <= peak
        <4>. SUFFICES ASSUME NEW r \in d PROVE r \in Depth /\ r.hi \in Int /\ r.hi <= peak
          OBVIOUS
        <4>1. r \in Depth /\ r.hi <= depth[r.pc].hi
          BY <2>3 DEF InTable
        <4>. QED
          BY <2>1, <2>4, <4>1 DEF Depth
      <3>3. peak \in all
        <4>1. \E pc \in Boundaries : depth[pc].lo >= 0 /\ depth[pc].hi = peak
          <5>1. CASE peak = 0
            <6>1. 1 \in Boundaries /\ depth[1].lo = 0
              BY <2>1 DEF Entry, Boundaries
            <6>2. depth[1].hi = 0
              BY <2>1, <2>4, <5>1, <6>1 DEF Unreached
            <6>. QED
              BY <5>1, <6>1, <6>2
          <5>. QED
            BY <5>1 DEF PeakIsReached
        <4>2. PICK pc \in Boundaries : depth[pc].lo >= 0 /\ depth[pc].hi = peak
          BY <4>1
        <4>. QED
          BY <2>3, <4>2 DEF HighFound, ReachedSet
      <3>4. all \subseteq Int /\ \A x \in all : x <= peak
        BY <3>2
      <3>5. D!Max(all) \in all /\ \A x \in all : x <= D!Max(all)
        <4>. HIDE DEF all
        <4>. QED
          BY <2>1, <3>3, <3>4, GreatestInt
      <3>6. D!Max(all) \in Int /\ D!Max(all) <= peak /\ peak <= D!Max(all)
        <4>. HIDE DEF all
        <4>. QED
          BY <3>3, <3>4, <3>5
      <3>. QED
        BY <2>1, <3>1, <3>6
    <2>. QED
      BY <2>12, <2>13
  <1>. QED
    BY <1>1, AlwaysIInv, AlwaysAroundSoFar, AlwaysPeakIsReached, PTL

(***************************************************************************)
(* The tables, row by row                                                  *)
(***************************************************************************)
\* opcodes the verifier gives one operand and no change, those with a row of their
\* own, and those that no agreed chunk has
Single == Negations \cup Truncation \cup Casts \cup Records
            \cup {"GET_FIELD", "ARRAY_LEN", "TYPE_FIELD", "TYPE_NAMES", "IS_NULL", "TO_STR",
                  "NULL_ASSERT", "NEW_ARRAY"}
Rest   == {"SET_FIELD", "ARRAY_SET", "TYPE_GET_ATTR_ARG"}
Absent == {"NEW_PLAIN", "EVENT_FIRE_MEMBER"}

Row(o, n, takes, leaves, change) ==
    Machine(o, n) = Effect(takes, leaves) /\ Needs(o, n) = takes /\ Change(o, n) = change

LEMMA Rows ==
  ASSUME NEW o \in Consistent, NEW n \in Nat
  PROVE  /\ o \in Pushing   => Row(o, n, 0, 1, 1)
         /\ o \in OneForOne => Row(o, n, 1, 1, 0)
         /\ o \in TwoForOne => Row(o, n, 2, 1, -1)
         /\ o \in Dropping  => Row(o, n, 1, 0, -1)
         /\ o \in Neutral   => Row(o, n, 0, 0, 0)
         /\ o \in Calls     => Row(o, n, n, 1, 1 - n)
         /\ o \in Dispatch  => Row(o, n, n + 1, 1, 1 - (n + 1))
         /\ o \in Voids     => Row(o, n, n, 0, -n)
  <1>1. o \notin Miscounted /\ o \in Emitted
    BY DEF Consistent
  <1>. USE DEF Constants, Negations, Truncation, Casts, Records, Lookups, Branches, Delegates,
               Members, IntArith, FloatArith, Logic, IntOrder, FloatOrder, Equality, Generic
  <1>2. ASSUME o \in Pushing PROVE Row(o, n, 0, 1, 1)
    <2>1. o \in Grow
      BY <1>1, <1>2 DEF Pushing, Grow, Miscounted
    <2>2. o \notin OneForOne /\ o \notin TwoForOne /\ o \notin Dropping /\ o \notin Neutral
          /\ o \notin Calls /\ o \notin Dispatch /\ o \notin Voids /\ o \notin Rest
      BY <1>2 DEF Pushing, OneForOne, TwoForOne, Dropping, Neutral, Calls, Dispatch, Voids, Rest
    <2>3. o \notin Paired /\ o \notin Consumers /\ o \notin Single /\ o \notin Lookups
          /\ o \notin Absent
      BY <1>1, <1>2 DEF Pushing, Paired, Consumers, Single, Lookups, Absent, Miscounted
    <2>4. Machine(o, n) = Effect(0, 1)
      BY <1>2, <2>1, <2>2, <2>3 DEF Machine, Rest, Absent
    <2>5. Change(o, n) = 1
      BY <1>2, <2>1, <2>2, <2>3 DEF Change, Rest, Absent
    <2>6. Needs(o, n) = IF Change(o, n) < 0 THEN -Change(o, n) ELSE 0
      BY <1>2, <2>1, <2>2, <2>3 DEF Needs, Single, Rest, Absent
    <2>. QED
      BY <2>4, <2>5, <2>6 DEF Row
  <1>3. ASSUME o \in OneForOne PROVE Row(o, n, 1, 1, 0)
    <2>1. o \in Single
      BY <1>1, <1>3 DEF OneForOne, Single, Miscounted
    <2>2. o \notin Pushing /\ o \notin TwoForOne /\ o \notin Dropping /\ o \notin Neutral
          /\ o \notin Calls /\ o \notin Dispatch /\ o \notin Voids /\ o \notin Rest
      BY <1>3 DEF Pushing, OneForOne, TwoForOne, Dropping, Neutral, Calls, Dispatch, Voids, Rest
    <2>3. o \notin Grow /\ o \notin Paired /\ o \notin Consumers /\ o \notin Lookups
          /\ o \notin Absent
      BY <1>1, <1>3 DEF OneForOne, Grow, Paired, Consumers, Lookups, Absent, Miscounted
    <2>4. Machine(o, n) = Effect(1, 1)
      BY <1>3, <2>1, <2>2, <2>3 DEF Machine, Rest, Absent
    <2>5. Change(o, n) = 0
      BY <1>3, <2>1, <2>2, <2>3 DEF Change, Rest, Absent
    <2>6. Needs(o, n) = 1
      BY <1>3, <2>1, <2>2, <2>3 DEF Needs, Single, Rest, Absent
    <2>. QED
      BY <2>4, <2>5, <2>6 DEF Row
  <1>4. ASSUME o \in TwoForOne PROVE Row(o, n, 2, 1, -1)
    <2>1. o \in Paired
      BY <1>1, <1>4 DEF TwoForOne, Paired, Miscounted
    <2>2. o \notin Pushing /\ o \notin OneForOne /\ o \notin Dropping /\ o \notin Neutral
          /\ o \notin Calls /\ o \notin Dispatch /\ o \notin Voids /\ o \notin Rest
      BY <1>4 DEF Pushing, OneForOne, TwoForOne, Dropping, Neutral, Calls, Dispatch, Voids, Rest
    <2>3. o \notin Grow /\ o \notin Consumers /\ o \notin Single /\ o \notin Lookups
          /\ o \notin Absent
      BY <1>1, <1>4 DEF TwoForOne, Grow, Consumers, Single, Lookups, Absent, Miscounted
    <2>4. Machine(o, n) = Effect(2, 1)
      BY <1>4, <2>1, <2>2, <2>3 DEF Machine, Rest, Absent
    <2>5. Change(o, n) = -1
      BY <1>4, <2>1, <2>2, <2>3 DEF Change, Rest, Absent
    <2>6. Needs(o, n) = 2
      BY <1>4, <2>1, <2>2, <2>3 DEF Needs, Single, Rest, Absent
    <2>. QED
      BY <2>4, <2>5, <2>6 DEF Row
  <1>5. ASSUME o \in Dropping PROVE Row(o, n, 1, 0, -1)
    <2>1. o \in Consumers
      BY <1>1, <1>5 DEF Dropping, Consumers, Miscounted
    <2>2. o \notin Pushing /\ o \notin OneForOne /\ o \notin TwoForOne /\ o \notin Neutral
          /\ o \notin Calls /\ o \notin Dispatch /\ o \notin Voids /\ o \notin Rest
      BY <1>5 DEF Pushing, OneForOne, TwoForOne, Dropping, Neutral, Calls, Dispatch, Voids, Rest
    <2>3. o \notin Grow /\ o \notin Paired /\ o \notin Single /\ o \notin Lookups
          /\ o \notin Absent
      BY <1>1, <1>5 DEF Dropping, Grow, Paired, Single, Lookups, Absent, Miscounted
    <2>4. Machine(o, n) = Effect(1, 0)
      BY <1>5, <2>1, <2>2, <2>3 DEF Machine, Rest, Absent
    <2>5. Change(o, n) = -1
      BY <1>5, <2>1, <2>2, <2>3 DEF Change, Rest, Absent
    <2>6. Needs(o, n) = 1
      BY <1>5, <2>1, <2>2, <2>3 DEF Needs, Single, Rest, Absent
    <2>. QED
      BY <2>4, <2>5, <2>6 DEF Row
  <1>6. ASSUME o \in Neutral PROVE Row(o, n, 0, 0, 0)
    <2>1. o \notin Pushing /\ o \notin OneForOne /\ o \notin TwoForOne /\ o \notin Dropping
          /\ o \notin Calls /\ o \notin Dispatch /\ o \notin Voids /\ o \notin Rest
      BY <1>6 DEF Pushing, OneForOne, TwoForOne, Dropping, Neutral, Calls, Dispatch, Voids, Rest
    <2>2. o \notin Grow /\ o \notin Paired /\ o \notin Consumers /\ o \notin Single
          /\ o \notin Lookups /\ o \notin Absent
      BY <1>1, <1>6 DEF Neutral, Grow, Paired, Consumers, Single, Lookups, Absent, Miscounted
    <2>3. Machine(o, n) = Effect(0, 0)
      BY <1>6, <2>1, <2>2 DEF Machine, Rest, Absent
    <2>4. Change(o, n) = 0
      BY <1>6, <2>1, <2>2 DEF Change, Rest, Absent
    <2>5. Needs(o, n) = IF Change(o, n) < 0 THEN -Change(o, n) ELSE 0
      BY <1>6, <2>1, <2>2 DEF Needs, Single, Rest, Absent
    <2>. QED
      BY <2>3, <2>4, <2>5 DEF Row
  <1>7. ASSUME o \in Calls PROVE Row(o, n, n, 1, 1 - n)
    <2>1. o \notin Pushing /\ o \notin OneForOne /\ o \notin TwoForOne /\ o \notin Dropping
          /\ o \notin Neutral /\ o \notin Dispatch /\ o \notin Voids /\ o \notin Rest
      BY <1>7 DEF Pushing, OneForOne, TwoForOne, Dropping, Neutral, Calls, Dispatch, Voids, Rest
    <2>2. o \notin Grow /\ o \notin Paired /\ o \notin Consumers /\ o \notin Single
          /\ o \notin Lookups /\ o \notin Absent
      BY <1>1, <1>7 DEF Calls, Grow, Paired, Consumers, Single, Lookups, Absent, Miscounted
    <2>3. Machine(o, n) = Effect(n, 1)
      BY <1>7, <2>1, <2>2 DEF Machine, Rest, Absent
    <2>4. Change(o, n) = 1 - n
      BY <1>7, <2>1, <2>2 DEF Change, Rest, Absent, CallChange
    <2>5. Needs(o, n) = n
      BY <1>7, <2>1, <2>2 DEF Needs, Single, Rest, Absent, CallChange
    <2>. QED
      BY <2>3, <2>4, <2>5 DEF Row
  <1>8. ASSUME o \in Dispatch PROVE Row(o, n, n + 1, 1, 1 - (n + 1))
    <2>1. o \notin Pushing /\ o \notin OneForOne /\ o \notin TwoForOne /\ o \notin Dropping
          /\ o \notin Neutral /\ o \notin Calls /\ o \notin Voids /\ o \notin Rest
      BY <1>8 DEF Pushing, OneForOne, TwoForOne, Dropping, Neutral, Calls, Dispatch, Voids, Rest
    <2>2. o \notin Grow /\ o \notin Paired /\ o \notin Consumers /\ o \notin Single
          /\ o \notin Lookups /\ o \notin Absent
      BY <1>1, <1>8 DEF Dispatch, Grow, Paired, Consumers, Single, Lookups, Absent, Miscounted
    <2>3. Machine(o, n) = Effect(n + 1, 1)
      BY <1>8, <2>1, <2>2 DEF Machine, Rest, Absent
    <2>4. Change(o, n) = 1 - (n + 1)
      BY <1>8, <2>1, <2>2 DEF Change, Rest, Absent, WithReceiver
    <2>5. Needs(o, n) = n + 1
      BY <1>8, <2>1, <2>2 DEF Needs, Single, Rest, Absent, WithReceiver
    <2>. QED
      BY <2>3, <2>4, <2>5 DEF Row
  <1>9. ASSUME o \in Voids PROVE Row(o, n, n, 0, -n)
    <2>1. o \notin Pushing /\ o \notin OneForOne /\ o \notin TwoForOne /\ o \notin Dropping
          /\ o \notin Neutral /\ o \notin Calls /\ o \notin Dispatch /\ o \notin Rest
      BY <1>9 DEF Pushing, OneForOne, TwoForOne, Dropping, Neutral, Calls, Dispatch, Voids, Rest
    <2>2. o \notin Grow /\ o \notin Paired /\ o \notin Consumers /\ o \notin Single
          /\ o \notin Lookups /\ o \notin Absent
      BY <1>1, <1>9 DEF Voids, Grow, Paired, Consumers, Single, Lookups, Absent, Miscounted
    <2>3. Machine(o, n) = Effect(n, 0)
      BY <1>9, <2>1, <2>2 DEF Machine, Rest, Absent
    <2>4. Change(o, n) = -n
      BY <1>9, <2>1, <2>2 DEF Change, Rest, Absent
    <2>5. Needs(o, n) = n
      BY <1>9, <2>1, <2>2 DEF Needs, Single, Rest, Absent
    <2>. QED
      BY <2>3, <2>4, <2>5 DEF Row
  <1>. QED
    BY <1>2, <1>3, <1>4, <1>5, <1>6, <1>7, <1>8, <1>9

\* The two tables agree, whatever count an opcode carries.
LEMMA TablesAgree ==
  ASSUME NEW o \in Consistent, NEW n \in Nat
  PROVE  /\ Machine(o, n).takes = Needs(o, n)
         /\ Machine(o, n).leaves = Change(o, n) + Needs(o, n)
  <1>1. CASE o \notin Rest
    <2>1. o \in UNION {Pushing, OneForOne, TwoForOne, Dropping, Neutral, Calls, Dispatch, Voids}
      BY <1>1 DEF Consistent, Emitted, Miscounted, Rest
    <2>2. \E takes, leaves \in Int :
            Machine(o, n) = Effect(takes, leaves) /\ Needs(o, n) = takes
              /\ Change(o, n) = leaves - takes
      BY <2>1, Rows DEF Row
    <2>. QED
      BY <2>2 DEF Effect
  <1>2. CASE o \in Rest
    BY <1>2 DEF Rest, Machine, Needs, Change, Effect, Pushing, OneForOne, TwoForOne, Dropping, Neutral,
                Calls, Dispatch, Voids, Grow, Paired, Consumers, Constants, Negations, Truncation,
                Casts, Records, Lookups, Branches, Delegates, Members, IntArith, FloatArith, Logic,
                IntOrder, FloatOrder, Equality, Generic
  <1>. QED
    BY <1>1, <1>2

\* Class names no ??: the opcode is lowered to tests and jumps.
LEMMA NoCoalesce == \A o : Class(o) # "coalesce"
  BY DEF Class

(***************************************************************************)
(* The machine in an accepted chunk                                        *)
(***************************************************************************)
AgreedChunks == \A c \in Chunks : Agreed(c)

\* the depth d at pc is in the interval the verifier has for pc
Within(pc, d) ==
    /\ pc \in 1..Len(code) /\ d \in Nat
    /\ 0 <= depth[pc].lo /\ depth[pc].lo <= d /\ d <= depth[pc].hi

LEMMA RealFacts ==
  ASSUME AgreedChunks, TypeOK, NEW pc \in 1..Len(code)
  PROVE  /\ Real(pc).takes = code[pc].pops /\ Real(pc).leaves = code[pc].pushes
         /\ code[pc].op # "coalesce" /\ code[pc].pops \in Nat /\ code[pc].pushes \in Nat
  <1>1. code \in Chunks
    BY DEF TypeOK
  <1>2. /\ code[pc].name \in Consistent /\ code[pc].argc \in Nat
        /\ code[pc] = Seen(code[pc].name, code[pc].argc, code[pc].to)
    BY <1>1 DEF AgreedChunks, Agreed
  <1>3. /\ code[pc].op = Class(code[pc].name)
        /\ code[pc].pops = Needs(code[pc].name, code[pc].argc)
        /\ code[pc].pushes = Change(code[pc].name, code[pc].argc) + Needs(code[pc].name, code[pc].argc)
    BY <1>2 DEF Seen
  <1>. QED
    BY <1>1, <1>2, <1>3, TablesAgree, NoCoalesce, CodeFacts DEF Real, Boundaries

\* The machine's moves stay within the intervals.
LEMMA MovesWithin ==
  ASSUME AgreedChunks, TypeOK, AcceptedIsSafe, phase = "accepted",
         NEW pc, NEW d, Within(pc, d), NEW m \in Moves(pc, d)
  PROVE  Within(m[1], m[2])
  <1>1. pc \in 1..Len(code) /\ d \in Nat /\ Len(code) \in Nat
    BY CodeFacts DEF Within, TypeOK
  <1>. DEFINE after == d - code[pc].pops + code[pc].pushes
              e(to) == [to |-> to, min |-> Delta(code[pc]), max |-> Delta(code[pc])]
  <1>2. /\ Real(pc).takes = code[pc].pops /\ Real(pc).leaves = code[pc].pushes
        /\ code[pc].op # "coalesce" /\ code[pc].pops \in Nat /\ code[pc].pushes \in Nat
    BY <1>1, RealFacts
  <1>3. PICK to : m = <<to, after>> /\ e(to) \in Edges(code[pc], pc)
    <2>1. CASE ~Terminates(code[pc]) /\ code[pc].op # "jump" /\ m = <<pc + 1, after>>
      BY <1>2, <2>1 DEF Edges
    <2>2. CASE Targeted(code[pc]) /\ m = <<code[pc].to, after>>
      BY <1>2, <2>2 DEF Edges, Targeted
    <2>. QED
      BY <1>2, <2>1, <2>2 DEF Moves
  <1>4. Accepted(code, LoOfDepth, HiOfDepth, peak, DepthMax)
    BY DEF AcceptedIsSafe
  <1>5. /\ to \in 1..Len(code)
        /\ 0 <= LoOfDepth[to] /\ LoOfDepth[to] <= LoOfDepth[pc] + Delta(code[pc])
        /\ HiOfDepth[pc] + Delta(code[pc]) <= HiOfDepth[to]
    <2>1. LoOfDepth[pc] >= 0
      BY <1>1 DEF Within, LoOfDepth, TypeOK, Interval
    <2>. QED
      BY <1>1, <1>3, <1>4, <2>1 DEF Accepted
  <1>6. /\ depth[pc].lo \in Int /\ depth[pc].hi \in Int /\ depth[to].lo \in Int /\ depth[to].hi \in Int
        /\ LoOfDepth[pc] = depth[pc].lo /\ HiOfDepth[pc] = depth[pc].hi
        /\ LoOfDepth[to] = depth[to].lo /\ HiOfDepth[to] = depth[to].hi
    BY <1>1, <1>5 DEF TypeOK, Interval, LoOfDepth, HiOfDepth
  <1>7. after \in Nat /\ depth[to].lo <= after /\ after <= depth[to].hi /\ 0 <= depth[to].lo
    <2>1. PICK p \in Nat, q \in Nat : p = code[pc].pops /\ q = code[pc].pushes
      BY <1>2
    <2>2. PICK lo \in Int, hi \in Int, low \in Int, high \in Int :
            /\ lo = depth[pc].lo /\ hi = depth[pc].hi /\ low = depth[to].lo /\ high = depth[to].hi
      BY <1>6
    <2>3. 0 <= low /\ low <= lo + (q - p) /\ hi + (q - p) <= high /\ lo <= d /\ d <= hi
      BY <1>5, <1>6, <2>1, <2>2 DEF Within, Delta
    <2>4. d - p + q \in Nat /\ low <= d - p + q /\ d - p + q <= high
      BY <1>1, <2>3
    <2>. QED
      BY <2>1, <2>2, <2>3, <2>4
  <1>8. m[1] = to /\ m[2] = after
    BY <1>3
  <1>. QED
    BY <1>5, <1>7, <1>8 DEF Within

\* So every depth that the machine reaches is in the interval of its instruction.
LEMMA DepthsWithin ==
  ASSUME AgreedChunks, TypeOK, AcceptedIsSafe, phase = "accepted", NEW m \in Depths
  PROVE  Within(m[1], m[2])
  <1>. DEFINE N == Len(code) * (DepthMax + 1)
              Step(S) == S \cup UNION {Moves(x[1], x[2]) : x \in {y \in S : Runs(y)}}
              Value(f, n) == IF n = 0 THEN {<<1, 0>>} ELSE Step(f[n - 1])
              Up(f) == f = [n \in 0..N |-> Value(f, n)]
              UpTo(f, j) == f = [n \in 0..j |-> Value(f, n)]
  <1>1. N \in Nat /\ Len(code) \in Nat /\ code # <<>> /\ code \in Chunks
    <2>1. code \in Chunks
      BY DEF TypeOK
    <2>2. Len(code) \in Nat /\ DepthMax \in Nat
      BY <2>1, CodeFacts
    <2>. QED
      BY <2>1, <2>2 DEF AgreedChunks, Agreed
  <1>2. \A j \in 0..N : \E f : UpTo(f, j)
    <2>. DEFINE Bad == {j \in 0..N : ~\E f : UpTo(f, j)}
    <2>. SUFFICES ASSUME Bad # {} PROVE FALSE
      OBVIOUS
    <2>1. PICK j \in Bad : \A l \in Bad : ~(l < j)
      <3>1. Bad \subseteq Nat
        BY <1>1
      <3>. HIDE DEF Bad
      <3>. QED
        BY <3>1, Least
    <2>2. CASE j = 0
      <3>1. UpTo([n \in 0..0 |-> {<<1, 0>>}], 0)
        OBVIOUS
      <3>. QED
        BY <2>2, <3>1
    <2>3. CASE j # 0
      <3>1. j - 1 \in 0..N /\ j \in Nat /\ j - 1 < j
        BY <1>1, <2>3
      <3>2. PICK f : UpTo(f, j - 1)
        BY <2>1, <3>1
      <3>. DEFINE g == [n \in 0..j |-> IF n = j THEN Step(f[j - 1]) ELSE f[n]]
      <3>3. \A n \in 0..(j - 1) : g[n] = f[n] /\ f[n] = Value(f, n)
        <4>1. \A n \in 0..(j - 1) : n \in 0..j /\ n # j
          BY <3>1
        <4>2. \A n \in 0..(j - 1) : f[n] = Value(f, n)
          <5>. HIDE DEF Value
          <5>. QED
            BY <3>2
        <4>. QED
          BY <4>1, <4>2
      <3>4. \A n \in 0..j : g[n] = Value(g, n)
        <4>. SUFFICES ASSUME NEW n \in 0..j PROVE g[n] = Value(g, n)
          OBVIOUS
        <4>1. CASE n = j
          <5>1. j - 1 \in 0..(j - 1)
            BY <3>1
          <5>2. g[j] = Step(f[j - 1]) /\ g[j - 1] = f[j - 1]
            BY <3>1, <3>3, <5>1
          <5>. HIDE DEF g, Step
          <5>. QED
            BY <2>3, <4>1, <5>2
        <4>2. CASE n # j /\ n # 0
          <5>1. n \in 0..(j - 1) /\ n - 1 \in 0..(j - 1)
            BY <3>1, <4>2
          <5>. HIDE DEF g, Step
          <5>. QED
            BY <3>3, <4>2, <5>1
        <4>3. CASE n # j /\ n = 0
          <5>1. n \in 0..(j - 1)
            BY <3>1, <4>3
          <5>. HIDE DEF g, Step
          <5>. QED
            BY <3>3, <4>3, <5>1
        <4>. QED
          BY <4>1, <4>2, <4>3
      <3>5. UpTo(g, j)
        <4>1. g = [n \in 0..j |-> g[n]]
          OBVIOUS
        <4>. HIDE DEF g, Value
        <4>. QED
          BY <3>4, <4>1
      <3>. QED
        BY <3>5
    <2>. QED
      BY <2>2, <2>3
  <1>. DEFINE up == CHOOSE f : Up(f)
  <1>3. Up(up)
    <2>1. N \in 0..N
      BY <1>1
    <2>2. \E f : Up(f)
      <3>. HIDE DEF N, Value
      <3>. QED
        BY <1>2, <2>1
    <2>. HIDE DEF Up
    <2>. QED
      BY <2>2
  <1>4. m \in up[N]
    BY DEF Depths
  <1>. HIDE DEF up
  <1>5. up[0] = {<<1, 0>>} /\ \A n \in 1..N : up[n] = Step(up[n - 1])
    <2>1. 0 \in 0..N /\ (\A n \in 1..N : n \in 0..N /\ n # 0)
      BY <1>1
    <2>2. \A n \in 0..N : up[n] = Value(up, n)
      <3>. HIDE DEF Value
      <3>. QED
        BY <1>3
    <2>. HIDE DEF Step
    <2>. QED
      BY <2>1, <2>2
  <1>6. Within(1, 0)
    <2>1. Len(code) > 0
      BY <1>1, VerifierAssumption
    <2>2. Accepted(code, LoOfDepth, HiOfDepth, peak, DepthMax)
      BY DEF AcceptedIsSafe
    <2>3. LoOfDepth[1] = 0 /\ HiOfDepth[1] >= 0
      BY <2>1, <2>2 DEF Accepted
    <2>. QED
      BY <1>1, <2>1, <2>3 DEF Within, LoOfDepth, HiOfDepth
  <1>7. \A n \in 0..N : \A x \in up[n] : Within(x[1], x[2])
    <2>. DEFINE Bad == {n \in 0..N : ~\A x \in up[n] : Within(x[1], x[2])}
    <2>. SUFFICES ASSUME Bad # {} PROVE FALSE
      OBVIOUS
    <2>1. PICK n \in Bad : \A l \in Bad : ~(l < n)
      <3>1. Bad \subseteq Nat
        BY <1>1
      <3>. HIDE DEF Bad
      <3>. QED
        BY <3>1, Least
    <2>2. n # 0
      BY <1>5, <1>6
    <2>3. n - 1 \in 0..N /\ n \in 1..N /\ n - 1 < n
      BY <1>1, <2>2
    <2>4. \A x \in up[n - 1] : Within(x[1], x[2])
      BY <2>1, <2>3
    <2>5. \A x \in Step(up[n - 1]) : Within(x[1], x[2])
      BY <2>4, MovesWithin
    <2>6. up[n] = Step(up[n - 1])
      BY <1>5, <2>3
    <2>. HIDE DEF Step
    <2>. QED
      BY <2>5, <2>6
  <1>8. N \in 0..N
    BY <1>1
  <1>. QED
    BY <1>4, <1>7, <1>8

\* In any chunk of agreed opcodes that ver_chunk accepts the machine finds the operands
\* of every opcode it comes to.
THEOREM MachineFindsOperands ==
  ASSUME AgreedChunks
  PROVE  Spec => []OperandsAreThere
  <1>1. TypeOK /\ AcceptedIsSafe => OperandsAreThere
    <2>. SUFFICES ASSUME TypeOK, AcceptedIsSafe, phase = "accepted", NEW m \in Depths
                  PROVE  m[2] >= Real(m[1]).takes
      BY DEF OperandsAreThere
    <2>1. Within(m[1], m[2])
      BY DepthsWithin
    <2>2. PICK pc \in 1..Len(code), d \in Nat : pc = m[1] /\ d = m[2] /\ Within(pc, d)
      BY <2>1 DEF Within
    <2>3. Real(pc).takes = code[pc].pops /\ code[pc].pops \in Nat
      BY RealFacts
    <2>4. code[pc].pops <= LoOfDepth[pc]
      <3>1. LoOfDepth[pc] >= 0
        BY <2>2 DEF Within, LoOfDepth, TypeOK, Interval
      <3>. QED
        BY <3>1 DEF AcceptedIsSafe, Accepted
    <2>5. LoOfDepth[pc] = depth[pc].lo /\ depth[pc].lo \in Int
      BY DEF LoOfDepth, TypeOK, Interval
    <2>6. d >= Real(pc).takes
      BY <2>2, <2>3, <2>4, <2>5 DEF Within
    <2>. QED
      BY <2>2, <2>6
  <1>. QED
    BY <1>1, TablesInRange, AcceptanceIsSound, PTL

\* And it never has more on the stack than max_stack, however often it goes round.
THEOREM PeakIsEnough ==
  ASSUME AgreedChunks
  PROVE  Spec => []PeakCovers
  <1>1. TypeOK /\ AcceptedIsSafe => PeakCovers
    <2>. SUFFICES ASSUME TypeOK, AcceptedIsSafe, phase = "accepted", NEW m \in Depths
                  PROVE  m[2] <= peak
      BY DEF PeakCovers
    <2>1. Within(m[1], m[2])
      BY DepthsWithin
    <2>2. PICK pc \in 1..Len(code), d \in Nat : pc = m[1] /\ d = m[2] /\ Within(pc, d)
      BY <2>1 DEF Within
    <2>3. HiOfDepth[pc] <= peak
      <3>1. LoOfDepth[pc] >= 0
        BY <2>2 DEF Within, LoOfDepth, TypeOK, Interval
      <3>. QED
        BY <3>1 DEF AcceptedIsSafe, Accepted
    <2>4. HiOfDepth[pc] = depth[pc].hi /\ depth[pc].hi \in Int /\ peak \in Int
      <3>1. DepthMax \in Nat
        BY VerifierAssumption
      <3>. QED
        BY <3>1 DEF HiOfDepth, TypeOK, Interval
    <2>5. d <= peak
      BY <2>2, <2>3, <2>4 DEF Within
    <2>. QED
      BY <2>2, <2>5
  <1>. QED
    BY <1>1, TablesInRange, AcceptanceIsSound, PTL
=============================================================================
