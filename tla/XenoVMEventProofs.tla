-------------------------- MODULE XenoVMEventProofs --------------------------
(***************************************************************************)
(* The events of XenoVM: an event holds no subscription twice, and the     *)
(* table, the snapshot and the frames of disciplined scripts implement     *)
(* EventDispatch, whatever the program and the limits.                     *)
(*                                                                         *)
(* What a fire still owes is read off its snapshot as a set, so the        *)
(* refinement rests on the entries of a list being different: taking the   *)
(* i-th one off removes its subscription, and no other entry keeps it.     *)
(***************************************************************************)
EXTENDS XenoVMStackProofs, FiniteSetTheorems

Distinct(q) == \A i, j \in 1..Len(q) : q[i] = q[j] => i = j

EventInv == NoDuplicateSubscription /\ Distinct(pending.list)

(***************************************************************************)
(* Lists of subscriptions                                                  *)
(***************************************************************************)
Members(q) == {q[i] : i \in 1..Len(q)}

LEMMA MembersBounded ==
    ASSUME NEW q \in Seq(Subs)
    PROVE  IsFiniteSet(Members(q)) /\ Cardinality(Members(q)) <= Len(q)
<1>1. Len(q) \in Nat /\ q \in [1..Len(q) -> Subs]
  OBVIOUS
<1>2. q \in Surjection(1..Len(q), Members(q))
  BY <1>1 DEF Surjection, Members
<1>3. IsFiniteSet(1..Len(q)) /\ Cardinality(1..Len(q)) = Len(q)
  BY <1>1, FS_Interval
<1> QED BY <1>2, <1>3, FS_Surjection

\* A subscription that is not in the list is appended once.
LEMMA AppendDistinct ==
    ASSUME NEW q \in Seq(Subs), Distinct(q), NEW s \in Subs, s \notin Members(q)
    PROVE  Distinct(Append(q, s)) /\ Members(Append(q, s)) = Members(q) \cup {s}
<1>1. Len(q) \in Nat /\ Len(Append(q, s)) = Len(q) + 1
  OBVIOUS
<1>2. \A i \in 1..(Len(q) + 1) : Append(q, s)[i] = IF i \in 1..Len(q) THEN q[i] ELSE s
  OBVIOUS
<1>3. \A i \in 1..(Len(q) + 1) : i \in 1..Len(q) \/ i = Len(q) + 1
  BY <1>1
<1>4. \A i \in 1..Len(q) : i \in 1..(Len(q) + 1) /\ q[i] # s
  BY <1>1 DEF Members
<1>5. Distinct(Append(q, s))
  BY <1>1, <1>2, <1>3, <1>4 DEF Distinct
<1>6. Members(Append(q, s)) = Members(q) \cup {s}
  BY <1>1, <1>2, <1>3, <1>4 DEF Members
<1> QED BY <1>5, <1>6

\* The last entry takes the place of the one removed, and no entry is lost.
LEMMA SwapRemoveDistinct ==
    ASSUME NEW q \in Seq(Subs), Distinct(q), NEW i \in 1..Len(q)
    PROVE  Distinct(SwapRemove(q, i)) /\ Members(SwapRemove(q, i)) = Members(q) \ {q[i]}
<1> DEFINE n == Len(q)  r == SwapRemove(q, i)
<1>1. n \in Nat /\ n > 0 /\ n \in 1..n
  OBVIOUS
<1>2. Len(r) = n - 1
  BY SwapRemoveTyped
<1>3. \A j \in 1..(n - 1) : /\ j \in 1..n /\ j # n
                            /\ r[j] = IF j = i THEN q[n] ELSE q[j]
  BY <1>1 DEF SwapRemove
<1> HIDE DEF r
<1>4. Distinct(r)
  BY <1>1, <1>2, <1>3 DEF Distinct
<1>5. ASSUME NEW j \in 1..(n - 1) PROVE r[j] \in Members(q) \ {q[i]}
  BY <1>1, <1>3 DEF Distinct, Members
<1>6. ASSUME NEW k \in 1..n, k # i PROVE \E j \in 1..(n - 1) : r[j] = q[k]
  <2>1. CASE k = n
    <3>1. i \in 1..(n - 1)
      BY <1>1, <1>6, <2>1
    <3> QED BY <1>3, <2>1, <3>1
  <2>2. CASE k # n
    <3>1. k \in 1..(n - 1)
      BY <1>1, <2>2
    <3> QED BY <1>3, <1>6, <3>1
  <2> QED BY <2>1, <2>2
<1>7. Members(r) = Members(q) \ {q[i]}
  BY <1>2, <1>5, <1>6 DEF Members
<1> QED BY <1>4, <1>7 DEF r

(***************************************************************************)
(* No subscription twice                                                   *)
(***************************************************************************)
\* The entry Subscribe looks for is the subscription itself.
LEMMA MatchIsEquality ==
    ASSUME NEW s \in Subs, NEW t \in Subs, NEW bound, bound <=> s.recv # NoRecv
    PROVE  Matches(t, s, bound) <=> t = s
BY CodeAssumption DEF Matches, TypedCode

LEMMA SubscribeReceivers ==
    ASSUME DelegatesHaveReceivers, Inv, exec, Instr.op = "subscribe", NEW s \in Instr.subs
    PROVE  Instr.bound <=> s.recv # NoRecv
<1>1. Top.fn \in Fns /\ Top.pc \in 1..Len(Code[Top.fn])
  BY AtInstr DEF Sound, Top, Verified
<1> QED BY <1>1 DEF DelegatesHaveReceivers, Instr

LEMMA TableTyped ==
    ASSUME Inv
    PROVE  /\ table \in [Events -> Seq(Subs)] /\ pending \in Pending
           /\ \A e \in Events : table[e] \in Seq(Subs)
BY DEF Inv, TypeOK, EventsTyped

\* An event whose list changes.
LEMMA TableDistinct ==
    ASSUME Inv, NoDuplicateSubscription, NEW e \in Events, NEW q \in Seq(Subs), Distinct(q),
           table' = [table EXCEPT ![e] = q]
    PROVE  NoDuplicateSubscription'
<1>1. \A d \in Events : Distinct(table[d])
  BY DEF NoDuplicateSubscription, Distinct
<1>2. \A d \in Events : Distinct(table'[d])
  BY <1>1, TableTyped
<1> QED BY <1>2 DEF NoDuplicateSubscription, Distinct

LEMMA SubscribeDistinct ==
    ASSUME DelegatesHaveReceivers, Inv, EventInv, Subscribe
    PROVE  EventInv'
<1>1. exec /\ Instr.op = "subscribe"
  BY DEF Subscribe, Fetch
<1>2. Instr.ev \in Events /\ Instr.subs \subseteq Subs
  BY <1>1, AtInstr
<1> DEFINE old == table[Instr.ev]
<1>3. old \in Seq(Subs)
  BY <1>2, TableTyped
<1>4. pending' = pending
  BY DEF Subscribe, Fail, events
<1>5. PICK s \in Instr.subs :
        \/ table' = table
        \/ /\ ~\E i \in 1..Len(old) : Matches(old[i], s, Instr.bound)
           /\ table' = [table EXCEPT ![Instr.ev] = Append(old, s)]
  BY DEF Subscribe, Fail, events
<1>6. CASE table' = table
  BY <1>4, <1>6 DEF EventInv, NoDuplicateSubscription
<1>7. CASE table' # table
  <2>1. s \notin Members(old)
    <3>1. \A i \in 1..Len(old) : old[i] \in Subs
      BY <1>3
    <3>2. \A i \in 1..Len(old) : old[i] # s
      BY <1>1, <1>2, <1>5, <1>7, <3>1, SubscribeReceivers, MatchIsEquality
    <3> QED BY <3>2 DEF Members
  <2>2. Distinct(old)
    BY <1>2 DEF EventInv, NoDuplicateSubscription, Distinct
  <2>3. Distinct(Append(old, s)) /\ Append(old, s) \in Seq(Subs)
    BY <1>2, <1>3, <2>1, <2>2, AppendDistinct
  <2> HIDE DEF old
  <2>4. NoDuplicateSubscription'
    BY <1>2, <1>5, <1>7, <2>3, TableDistinct DEF EventInv
  <2> QED BY <1>4, <2>4 DEF EventInv
<1> QED BY <1>6, <1>7

LEMMA UnsubscribeDistinct ==
    ASSUME Inv, EventInv, Unsubscribe
    PROVE  EventInv'
<1>1. exec /\ Instr.op = "unsubscribe"
  BY DEF Unsubscribe, Fetch
<1>2. Instr.ev \in Events
  BY <1>1, AtInstr
<1> DEFINE old == table[Instr.ev]
<1>3. old \in Seq(Subs)
  BY <1>2, TableTyped
<1>4. pending' = pending
  BY DEF Unsubscribe, Fail, events
<1>5. \/ table' = table
      \/ \E i \in 1..Len(old) : table' = [table EXCEPT ![Instr.ev] = SwapRemove(old, i)]
  BY DEF Unsubscribe, Fail, events
<1>6. CASE table' = table
  BY <1>4, <1>6 DEF EventInv, NoDuplicateSubscription
<1>7. CASE table' # table
  <2>1. PICK i \in 1..Len(old) : table' = [table EXCEPT ![Instr.ev] = SwapRemove(old, i)]
    BY <1>5, <1>7
  <2>2. Distinct(old)
    BY <1>2 DEF EventInv, NoDuplicateSubscription, Distinct
  <2>3. Distinct(SwapRemove(old, i)) /\ SwapRemove(old, i) \in Seq(Subs)
    BY <1>3, <2>2, SwapRemoveDistinct, SwapRemoveTyped
  <2> HIDE DEF old
  <2>4. NoDuplicateSubscription'
    BY <1>2, <2>1, <2>3, TableDistinct DEF EventInv
  <2> QED BY <1>4, <2>4 DEF EventInv
<1> QED BY <1>6, <1>7

\* A fire's snapshot is a list of the table.
LEMMA SnapshotDistinct ==
    ASSUME Inv, EventInv, Fire
    PROVE  EventInv'
<1>1. exec /\ Instr.op = "fire" /\ table' = table
  BY DEF Fire, Fetch
<1>2. Instr.ev \in Events
  BY <1>1, AtInstr
<1>3. pending'.list = table[Instr.ev]
  BY DEF Fire, Snapshot
<1>4. Distinct(table[Instr.ev])
  BY <1>2 DEF EventInv, NoDuplicateSubscription, Distinct
<1> QED BY <1>1, <1>3, <1>4 DEF EventInv, NoDuplicateSubscription

\* Every other action leaves the lists alone, and a new VM has none.
LEMMA OthersKeepLists ==
    ASSUME [Next]_vars, ~Subscribe, ~Unsubscribe, ~Fire, ~Recreate, Inv
    PROVE  table' = table /\ pending'.list = pending.list
<1>1. pending \in Pending
  BY TableTyped
<1>2. CASE UNCHANGED vars
  BY <1>2 DEF vars, events
<1>3. CASE NextHandler \/ FireDone
  BY <1>1, <1>3 DEF NextHandler, FireDone, Pending
<1>4. CASE Plain \/ Jump \/ Branch \/ Coalesce \/ Call \/ New
  BY <1>4 DEF Plain, Jump, Branch, Coalesce, Call, New, Fail, events
<1>5. CASE Return \/ ReturnVoid \/ MatchFailure \/ Try \/ EndTry \/ Throw
  BY <1>5 DEF Return, ReturnVoid, MatchFailure, Try, EndTry, Throw, Fail, events
<1>6. CASE FireNobody \/ BudgetExceeded \/ BeginRun \/ BeginLoad \/ StartSinit \/ StartEntry \/ Finish
  BY <1>6 DEF FireNobody, BudgetExceeded, BeginRun, BeginLoad, StartSinit, StartEntry, Finish, events
<1> QED BY <1>2, <1>3, <1>4, <1>5, <1>6 DEF Next, HostCallStep, Execute

LEMMA EventStep == DelegatesHaveReceivers /\ Inv /\ EventInv /\ [Next]_vars => EventInv'
<1> SUFFICES ASSUME DelegatesHaveReceivers, Inv, EventInv, [Next]_vars PROVE EventInv'
  OBVIOUS
<1>1. CASE Recreate
  <2>1. pending'.list = <<>> /\ \A e \in Events : table'[e] = <<>>
    BY <1>1 DEF Recreate, NoPending
  <2> QED BY <2>1 DEF EventInv, NoDuplicateSubscription, Distinct
<1>2. CASE ~Subscribe /\ ~Unsubscribe /\ ~Fire /\ ~Recreate
  BY <1>2, OthersKeepLists DEF EventInv, NoDuplicateSubscription
<1> QED BY <1>1, <1>2, SubscribeDistinct, UnsubscribeDistinct, SnapshotDistinct

LEMMA EventInit == Init => EventInv
BY DEF Init, EventInv, NoDuplicateSubscription, Distinct, NoPending

LEMMA EventInductive ==
    ASSUME DelegatesHaveReceivers
    PROVE  Spec /\ []CleanStart => [](Inv /\ EventInv)
BY InitInv, StepInv, EventInit, EventStep, PTL DEF Spec

\* Whatever order handlers subscribe, unsubscribe and are swapped in, nested
\* fires and exceptions included, event_table holds no subscription twice, as
\* long as no null delegate is subscribed (EVENT_SUBSCRIBE's test for an entry
\* it has, EVENT_UNSUBSCRIBE's swap).
THEOREM SubscribedOnce ==
    ASSUME DelegatesHaveReceivers
    PROVE  Spec /\ []CleanStart => []NoDuplicateSubscription
BY EventInductive, PTL DEF EventInv

(***************************************************************************)
(* The refinement of EventDispatch                                         *)
(***************************************************************************)
Subscribed == [e \in Events |-> Members(table[e])]
Running    == IF Firing THEN frames[pending.base + 1].fn ELSE NoFn
Owed       == IF Firing THEN {pending.list[i] : i \in Remaining} ELSE {}

LEMMA SameCardinality == \A S : Dispatch!Cardinality(S) = Cardinality(S)
BY DEF Dispatch!Cardinality, Cardinality

\* A fire goes on as it was while the frames that stay keep their chunks.
LEMMA Quietly ==
    ASSUME Layout, Inv, exec, exec',
           pending' = pending, \A i \in 1..fc : frames'[i].fn = frames[i].fn
    PROVE  Running' = Running /\ Owed' = Owed
<1>1. pending.active => 0 < pending.base /\ pending.base < fc
  BY DEF Layout
<1>2. Firing' = Firing /\ Owed' = Owed
  BY DEF Firing, Owed, Remaining, Resolvable
<1>3. Running' = Running
  <2>1. pending.base \in Nat /\ fc \in Nat
    BY TableTyped, Limits DEF Pending, Inv, TypeOK, MachineTyped
  <2>2. Firing => pending.base + 1 \in 1..fc
    BY <1>1, <2>1 DEF Firing
  <2> QED BY <1>2, <2>2 DEF Running
<1> QED BY <1>2, <1>3

\* The machine runs on without an event.
LEMMA Quiet ==
    ASSUME Layout, Inv, exec, exec', UNCHANGED <<table, pending>>,
           \A i \in 1..fc : frames'[i].fn = frames[i].fn
    PROVE  UNCHANGED Dispatch!vars
<1>1. exec = TRUE /\ exec' = exec
  BY DEF Inv, TypeOK, HostTyped
<1>2. Running' = Running /\ Owed' = Owed
  BY Quietly
<1> QED BY <1>1, <1>2 DEF Dispatch!vars, Running, Owed

\* The bytecode ends, in the middle of a fire or not.
LEMMA Stopped ==
    ASSUME exec, exec' = FALSE, table' = table
    PROVE  Dispatch!Stop
BY DEF Dispatch!Stop, Firing

\* push_call_frame leaves the chunks of the frames below.
LEMMA EnterKeepsFns ==
    ASSUME fc \in 1..FrameMax, FrameMax \in Nat, frames \in [1..FrameMax -> Frame],
           NEW f, NEW depth, Enter(f, depth)
    PROVE  /\ \A i \in 1..fc : frames'[i].fn = frames[i].fn
           /\ fc < FrameMax => frames'[fc + 1] = [fn |-> f, pc |-> 1, base |-> depth]
<1>1. frames' = [frames EXCEPT ![fc] = [frames[fc] EXCEPT !.pc = @ + 1],
                               ![fc + 1] = [fn |-> f, pc |-> 1, base |-> depth]]
  BY DEF Enter
<1>2. [frames[fc] EXCEPT !.pc = @ + 1].fn = frames[fc].fn
  BY DEF Frame
<1>3. \A i \in 1..fc : i \in 1..FrameMax /\ i # fc + 1
  OBVIOUS
<1>4. fc < FrameMax => fc + 1 \in 1..FrameMax
  OBVIOUS
<1> QED BY <1>1, <1>2, <1>3, <1>4

\* The opcodes that have nothing to do with events.
LEMMA OpcodesQuiet ==
    ASSUME Inv, Layout, exec,
           Plain \/ Jump \/ Branch \/ Coalesce \/ Call \/ New \/ Return \/ ReturnVoid
             \/ MatchFailure \/ Try \/ EndTry \/ Throw \/ FireNobody \/ BudgetExceeded
    PROVE  Dispatch!Next \/ UNCHANGED Dispatch!vars
<1>1. UNCHANGED <<table, pending>>
  BY DEF Plain, Jump, Branch, Coalesce, Call, New, Return, ReturnVoid, MatchFailure, Try, EndTry,
         Throw, FireNobody, BudgetExceeded, Fail, events
<1>2. exec = TRUE /\ fc \in 1..FrameMax /\ fc \in Nat /\ frames \in [1..FrameMax -> Frame] /\ Sound
  BY AtInstr, Limits DEF MachineTyped, Inv, TypeOK, HostTyped
<1>3. CASE ~exec'
  <2>1. exec' = exec \/ exec' = FALSE \/ exec' = (fc > 1)
    BY DEF Plain, Jump, Branch, Coalesce, Call, New, Return, ReturnVoid, MatchFailure, Try, EndTry,
       Throw, FireNobody, BudgetExceeded, Fail, Halt, Abort, ExecuteReturns, control
  <2>2. exec' = FALSE
    BY <1>2, <1>3, <2>1
  <2> QED BY <1>1, <2>2, Stopped DEF Dispatch!Next
<1>4. CASE exec'
  <2>1. ~Halt
    BY <1>4 DEF Halt, Abort
  <2>2. \A i \in 1..fc : frames'[i].fn = frames[i].fn
    <3>1. CASE frames' = frames
      BY <3>1
    <3>2. CASE \E pc : Goto(pc)
      BY <1>2, <3>2 DEF Goto, Frame
    <3>3. CASE \E f, depth : Enter(f, depth)
      BY <1>2, <3>3, Limits, EnterKeepsFns
    <3>4. CASE Throw
      <4>1. hc \in 1..hc
        BY <2>1, <3>4, Limits DEF Throw, Fail, Inv, TypeOK, MachineTyped
      <4>2. handlers[hc].depth \in 1..fc /\ handlers[hc].fn = frames[handlers[hc].depth].fn
        BY <1>2, <4>1 DEF Sound
      <4>3. frames' = [frames EXCEPT ![handlers[hc].depth] =
                         [fn |-> handlers[hc].fn, pc |-> handlers[hc].pc, base |-> @.base]]
        BY <2>1, <3>4 DEF Throw, Fail
      <4> QED BY <1>2, <4>2, <4>3
    <3> QED
      BY <2>1, <3>1, <3>2, <3>3, <3>4 DEF Plain, Jump, Branch, Coalesce, Call, New, Return, ReturnVoid,
         MatchFailure, Try, EndTry, FireNobody, BudgetExceeded, Fail, Advance, Leave
  <2> QED BY <1>1, <1>4, <2>2, Quiet
<1> QED BY <1>3, <1>4

\* EVENT_SUBSCRIBE appends, or does nothing the table would show.
LEMMA SubscribeImplements ==
    ASSUME DelegatesHaveReceivers, Inv, Layout, EventInv, exec, Subscribe
    PROVE  Dispatch!Next \/ UNCHANGED Dispatch!vars
<1>1. Instr.op = "subscribe" /\ Instr.ev \in Events /\ Instr.subs \subseteq Subs
  BY AtInstr DEF Subscribe, Fetch
<1>e. PICK e \in Events : e = Instr.ev
  BY <1>1
<1> DEFINE old == table[e]
<1>2. old \in Seq(Subs) /\ table \in [Events -> Seq(Subs)]
  BY <1>1, TableTyped
<1>3. CASE Fail
  BY <1>3, Stopped DEF Dispatch!Next, Fail, Halt, Abort, events
<1>4. CASE ~Fail
  <2>1. PICK s \in Instr.subs :
          /\ table' = table \/ (/\ ~\E i \in 1..Len(old) : Matches(old[i], s, Instr.bound)
                               /\ ~(Len(old) >= EventHandlersMax)
                               /\ table' = [table EXCEPT ![e] = Append(old, s)])
          /\ pending' = pending /\ exec' = exec /\ Advance
    BY <1>e, <1>4 DEF Subscribe, control
  <2>2. \A i \in 1..fc : frames'[i].fn = frames[i].fn
    BY <2>1, AtInstr DEF Advance, Goto, MachineTyped, Frame
  <2>3. CASE table' = table
    BY <2>1, <2>2, <2>3, Quiet
  <2>4. CASE table' # table
    <3>1. s \notin Members(old)
      <4>1. \A i \in 1..Len(old) : old[i] \in Subs
        BY <1>2
      <4>2. \A i \in 1..Len(old) : old[i] # s
        BY <1>1, <2>1, <2>4, <4>1, SubscribeReceivers, MatchIsEquality
      <4> QED BY <4>2 DEF Members
    <3>2. Distinct(old)
      BY <1>1, <1>e DEF EventInv, NoDuplicateSubscription, Distinct
    <3>3. Members(Append(old, s)) = Members(old) \cup {s}
      BY <1>1, <1>e, <1>2, <3>1, <3>2, AppendDistinct
    <3>4. Cardinality(Members(old)) < EventHandlersMax
      <4>1. Len(old) \in Nat /\ Len(old) < EventHandlersMax
        BY <1>2, <2>1, <2>4, Limits
      <4>2. Cardinality(Members(old)) \in Nat /\ Cardinality(Members(old)) <= Len(old)
        BY <1>2, MembersBounded, FS_CardinalityType
      <4> QED BY <4>1, <4>2, Limits
    <3>5. Subscribed' = [Subscribed EXCEPT ![e] = @ \cup {s}] /\ Subscribed[e] = Members(old)
      BY <1>1, <1>e, <1>2, <2>1, <2>4, <3>3 DEF Subscribed
    <3>6. Running' = Running /\ Owed' = Owed
      BY <2>1, <2>2, Quietly
    <3>7. Dispatch!Subscribe(e, s)
      <4>1. exec /\ exec' = exec /\ Cardinality(Subscribed[e]) < EventHandlersMax
        BY <2>1, <3>4, <3>5
      <4> QED BY <3>5, <3>6, <4>1, SameCardinality DEF Dispatch!Subscribe, Subscribed, Running, Owed, Members
    <3>8. s \in Subs /\ e \in Events
      BY <1>1
    <3> QED BY <3>7, <3>8 DEF Dispatch!Next
  <2> QED BY <2>3, <2>4
<1> QED BY <1>3, <1>4

\* EVENT_UNSUBSCRIBE takes the subscription off, or finds none.
LEMMA UnsubscribeImplements ==
    ASSUME Inv, Layout, EventInv, exec, Unsubscribe
    PROVE  Dispatch!Next \/ UNCHANGED Dispatch!vars
<1>1. Instr.op = "unsubscribe" /\ Instr.ev \in Events /\ Instr.subs \subseteq Subs
  BY AtInstr DEF Unsubscribe, Fetch
<1>e. PICK e \in Events : e = Instr.ev
  BY <1>1
<1> DEFINE old == table[e]
<1>2. old \in Seq(Subs) /\ table \in [Events -> Seq(Subs)]
  BY <1>1, TableTyped
<1>3. CASE Fail
  BY <1>3, Stopped DEF Dispatch!Next, Fail, Halt, Abort, events
<1>4. CASE ~Fail
  <2>1. PICK s \in Instr.subs :
          /\ table' = table \/ (\E i \in 1..Len(old) : /\ Matches(old[i], s, Instr.bound)
                                                       /\ table' = [table EXCEPT ![e] = SwapRemove(old, i)])
          /\ pending' = pending /\ exec' = exec /\ Advance
    BY <1>e, <1>4 DEF Unsubscribe, control
  <2>2. \A i \in 1..fc : frames'[i].fn = frames[i].fn
    BY <2>1, AtInstr DEF Advance, Goto, MachineTyped, Frame
  <2>3. CASE table' = table
    BY <2>1, <2>2, <2>3, Quiet
  <2>4. CASE table' # table
    <3>1. PICK i \in 1..Len(old) : /\ Matches(old[i], s, Instr.bound)
                                   /\ table' = [table EXCEPT ![e] = SwapRemove(old, i)]
      BY <2>1, <2>4
    <3>2. old[i] = s
      BY <1>1, <1>2, <3>1, CodeAssumption DEF Matches, TypedCode
    <3>3. Distinct(old)
      BY <1>1, <1>e DEF EventInv, NoDuplicateSubscription, Distinct
    <3>4. Members(SwapRemove(old, i)) = Members(old) \ {s}
      BY <1>2, <3>2, <3>3, SwapRemoveDistinct
    <3>5. Subscribed' = [Subscribed EXCEPT ![e] = @ \ {s}]
      BY <1>1, <1>e, <1>2, <3>1, <3>4 DEF Subscribed
    <3>6. Running' = Running /\ Owed' = Owed
      BY <2>1, <2>2, Quietly
    <3>7. Dispatch!Unsubscribe(e, s)
      <4>1. exec /\ exec' = exec
        BY <2>1
      <4> QED BY <3>5, <3>6, <4>1 DEF Dispatch!Unsubscribe, Subscribed, Running, Owed, Members
    <3>8. s \in Subs /\ e \in Events
      BY <1>1
    <3> QED BY <3>7, <3>8 DEF Dispatch!Next
  <2> QED BY <2>3, <2>4
<1> QED BY <1>3, <1>4

\* The chunks a list still has to call after its i-th, one for each entry.
LEMMA RestOfList ==
    ASSUME NEW q \in Seq(Subs), Distinct(q), NEW R \in SUBSET (1..Len(q)), NEW i \in R,
           \A j \in R : i <= j
    PROVE  {q[j] : j \in {k \in R : k > i}} = {q[j] : j \in R} \ {q[i]}
<1>1. \A j \in R : j \in 1..Len(q) /\ j \in Int /\ i \in Int
  OBVIOUS
<1>2. \A j \in R : j > i <=> j # i
  BY <1>1
<1>3. \A j \in R : q[j] = q[i] => j = i
  BY DEF Distinct
<1> QED BY <1>2, <1>3

\* EVENT_FIRE calls the first handler of its snapshot and owes the others.
LEMMA FireImplements ==
    ASSUME Inv, Layout, EventInv, exec, Fire, ~NestedFire
    PROVE  Dispatch!Next \/ UNCHANGED Dispatch!vars
<1>1. Instr.op = "fire" /\ Instr.ev \in Events /\ ~pending.active
  BY AtInstr DEF Fire, Fetch, NestedFire
<1>e. PICK e \in Events : e = Instr.ev
  BY <1>1
<1> DEFINE old == table[e]
<1>2. old \in Seq(Subs) /\ Distinct(old) /\ table' = table
  BY <1>e, TableTyped DEF EventInv, NoDuplicateSubscription, Distinct, Fire
<1>3. exec = TRUE /\ fc \in 1..FrameMax /\ fc \in Nat /\ frames \in [1..FrameMax -> Frame]
  BY AtInstr, Limits DEF MachineTyped, Inv, TypeOK, HostTyped
<1>4. PICK i \in Resolvable(old) :
        /\ \A j \in Resolvable(old) : i <= j
        /\ pending' = [active |-> TRUE, list |-> old, at |-> i, base |-> fc]
        /\ \/ /\ fc < FrameMax
              /\ \E depth : Enter(Resolve[old[i]], depth)
              /\ UNCHANGED control
           \/ Halt
  BY <1>e DEF Fire, Snapshot, CanPush
<1>5. CASE Halt
  BY <1>2, <1>5, Stopped DEF Dispatch!Next, Halt, Abort
<1>6. CASE ~Halt
  <2> DEFINE R == Resolvable(old)  s == old[i]
  <2>1. exec' = exec /\ Firing' /\ ~Firing
    BY <1>1, <1>3, <1>4, <1>6 DEF control, Firing
  <2>2. frames'[fc + 1].fn = Resolve[s]
    <3>1. PICK depth : Enter(Resolve[s], depth)
      BY <1>4, <1>6
    <3>2. frames'[fc + 1] = [fn |-> Resolve[s], pc |-> 1, base |-> depth]
      BY <1>3, <1>4, <1>6, <3>1, Limits, EnterKeepsFns
    <3> QED BY <3>2
  <2>3. Running = NoFn /\ Owed = {} /\ Running' = Resolve[s]
    BY <1>4, <2>1, <2>2 DEF Running, Owed
  <2>4. Owed' = {old[j] : j \in {k \in R : k > i}}
    BY <1>4, <2>1 DEF Owed, Remaining, Resolvable
  <2>5. R \in SUBSET (1..Len(old)) /\ i \in R
    BY DEF Resolvable
  <2>6. Owed' = {old[j] : j \in R} \ {s}
    <3> HIDE DEF R
    <3> QED BY <1>2, <1>4, <2>4, <2>5, RestOfList DEF R
  <2>7. Subscribed[e] = Members(old) /\ Subscribed' = Subscribed
    BY <1>2 DEF Subscribed
  <2>8. {old[j] : j \in R} = {t \in Subscribed[e] : Resolve[t] # NoFn}
    BY <2>7 DEF Resolvable, Members
  <2>9. s \in {t \in Subscribed[e] : Resolve[t] # NoFn}
    BY <2>5, <2>8
  <2>10. Dispatch!Fire(e)
    <3>1. \E t \in {u \in Subscribed[e] : Resolve[u] # NoFn} :
            /\ Running' = Resolve[t]
            /\ Owed' = {u \in Subscribed[e] : Resolve[u] # NoFn} \ {t}
      BY <2>3, <2>6, <2>8, <2>9
    <3>2. exec /\ exec' = exec /\ Running = NoFn
      BY <2>1, <2>3
    <3> QED BY <2>7, <3>1, <3>2 DEF Dispatch!Fire, Dispatch!Callable, Subscribed, Running, Owed, Members
  <2> QED BY <2>10 DEF Dispatch!Next
<1> QED BY <1>5, <1>6

\* The frame above the firing one runs a handler.
LEMMA HandlerRuns ==
    ASSUME Inv, exec, EndsHandler
    PROVE  /\ exec = TRUE /\ Firing /\ pending \in Pending
           /\ pending.base + 1 = fc /\ Running = frames[fc].fn /\ Running # NoFn
<1>1. fc \in 1..FrameMax /\ fc \in Nat /\ Sound /\ exec = TRUE /\ pending \in Pending
  BY AtInstr, TableTyped, Limits DEF Inv, TypeOK, HostTyped
<1>2. Firing /\ pending.base + 1 = fc
  BY <1>1 DEF EndsHandler, Firing
<1>3. frames[fc].fn \in Fns
  BY <1>1 DEF Sound, Verified
<1>4. NoFn \notin Fns
  BY CodeAssumption DEF TypedCode
<1> QED BY <1>1, <1>2, <1>3, <1>4 DEF Running

\* RETURN_VOID from a handler calls the next entry of the snapshot.
LEMMA NextHandlerImplements ==
    ASSUME Inv, Layout, EventInv, exec, NextHandler
    PROVE  Dispatch!Next \/ UNCHANGED Dispatch!vars
<1>1. EndsHandler /\ UNCHANGED <<known, table, objects>>
  BY DEF NextHandler
<1>2. /\ exec = TRUE /\ Firing /\ pending \in Pending
      /\ pending.base + 1 = fc /\ Running # NoFn
  BY <1>1, HandlerRuns
<1> DEFINE q == pending.list
<1>3. PICK i \in Remaining :
        /\ \A j \in Remaining : i <= j
        /\ pending' = [pending EXCEPT !.at = i]
        /\ \/ /\ \E depth : frames' = [frames EXCEPT ![fc] = [fn |-> Resolve[q[i]], pc |-> 1, base |-> depth]]
              /\ UNCHANGED <<fc, control>>
           \/ Abort
  BY DEF NextHandler
<1>4. CASE Abort
  BY <1>1, <1>4, Stopped DEF Dispatch!Next, Abort
<1>5. CASE ~Abort
  <2>1. /\ pending'.active = pending.active /\ pending'.base = pending.base
        /\ pending'.list = q /\ pending'.at = i
    BY <1>2, <1>3 DEF Pending
  <2>2. exec' = exec /\ Firing'
    BY <1>2, <1>3, <1>5, <2>1 DEF control, Firing
  <2>3. Running' = Resolve[q[i]]
    <3>1. fc \in 1..FrameMax /\ frames \in [1..FrameMax -> Frame]
      BY AtInstr DEF MachineTyped
    <3>2. PICK depth : frames' = [frames EXCEPT ![fc] = [fn |-> Resolve[q[i]], pc |-> 1, base |-> depth]]
      BY <1>3, <1>5
    <3>3. frames'[fc].fn = Resolve[q[i]]
      BY <3>1, <3>2
    <3> QED BY <1>2, <2>1, <2>2, <3>3 DEF Running
  <2>4. q \in Seq(Subs) /\ Distinct(q) /\ Len(q) \in Nat /\ pending.at \in Nat
    BY <1>2 DEF Pending, EventInv
  <2>5. Remaining \in SUBSET (1..Len(q)) /\ i \in Int /\ i > pending.at
    BY <2>4 DEF Remaining, Resolvable
  <2>6. Remaining' = {k \in Remaining : k > i}
    BY <2>1, <2>4, <2>5 DEF Remaining, Resolvable
  <2>7. Owed = {q[j] : j \in Remaining} /\ Owed' = {q[j] : j \in {k \in Remaining : k > i}}
    BY <1>2, <2>1, <2>2, <2>6 DEF Owed
  <2>8. Owed' = Owed \ {q[i]} /\ q[i] \in Owed
    <3> DEFINE R == Remaining
    <3>1. R \in SUBSET (1..Len(q)) /\ i \in R /\ \A j \in R : i <= j
      BY <1>3, <2>5
    <3> HIDE DEF R
    <3>2. {q[j] : j \in {k \in R : k > i}} = {q[j] : j \in R} \ {q[i]}
      BY <2>4, <3>1, RestOfList
    <3> QED BY <2>7, <3>1, <3>2 DEF R
  <2>9. Dispatch!CallNext
    BY <1>1, <1>2, <2>2, <2>3, <2>8 DEF Dispatch!CallNext, Running, Owed
  <2> QED BY <2>9 DEF Dispatch!Next
<1> QED BY <1>4, <1>5

\* The last RETURN_VOID ends the fire, and every handler has been called.
LEMMA FireDoneImplements ==
    ASSUME Inv, Layout, EventInv, exec, FireDone
    PROVE  Dispatch!Next \/ UNCHANGED Dispatch!vars
<1>1. EndsHandler /\ Remaining = {} /\ exec' = exec /\ table' = table
  BY DEF FireDone, control
<1>2. Firing /\ pending \in Pending /\ Running # NoFn
  BY <1>1, HandlerRuns
<1>3. ~pending'.active
  BY <1>2 DEF FireDone, Pending
<1>4. Owed = {} /\ Owed' = {} /\ Running' = NoFn
  BY <1>1, <1>3 DEF Owed, Running, Firing
<1>5. Dispatch!Finish
  BY <1>1, <1>2, <1>4 DEF Dispatch!Finish, Running, Owed
<1> QED BY <1>5 DEF Dispatch!Next

\* The host starts bytecode with no fire in progress and a new VM with no
\* subscriber; the rest of a host call is not an event.
LEMMA HostImplements ==
    ASSUME Inv, Disciplined,
           BeginRun \/ BeginLoad \/ StartSinit \/ StartEntry \/ Finish \/ Recreate
    PROVE  Dispatch!Next \/ UNCHANGED Dispatch!vars
<1>1. exec \in BOOLEAN /\ (exec => host # "idle")
  BY DEF Inv, TypeOK, HostTyped
<1>2. ASSUME ~exec, exec' = FALSE, UNCHANGED <<table, pending>>
      PROVE  UNCHANGED Dispatch!vars
  BY <1>1, <1>2 DEF Dispatch!vars, Firing
<1>3. CASE BeginRun \/ BeginLoad \/ Finish
  BY <1>1, <1>2, <1>3 DEF BeginRun, BeginLoad, Finish, HostMayCall, events
<1>4. ASSUME host # "idle", ~exec, exec' = TRUE, UNCHANGED <<table, pending>>
      PROVE  Dispatch!Next
  <2>1. ~pending.active
    BY <1>4 DEF Disciplined
  <2>2. Dispatch!Start
    BY <1>4, <2>1 DEF Dispatch!Start, Firing
  <2> QED BY <2>2 DEF Dispatch!Next
<1>5. CASE StartSinit
  BY <1>4, <1>5 DEF StartSinit, events
<1>6. CASE StartEntry
  <2>1. host = "run" /\ ~exec /\ UNCHANGED <<table, pending>> /\ (exec' = FALSE \/ exec' = TRUE)
    BY <1>6 DEF StartEntry, Abort, events
  <2> QED BY <1>2, <1>4, <2>1
<1>7. CASE Recreate
  <2>1. ~exec /\ exec' = exec /\ table' = [e \in Events |-> <<>>]
    BY <1>1, <1>7 DEF Recreate
  <2>2. Subscribed' = [e \in Events |-> {}]
    BY <2>1 DEF Subscribed, Members
  <2>3. Dispatch!Restart
    BY <2>1, <2>2 DEF Dispatch!Restart, Firing, Subscribed, Members
  <2> QED BY <2>3 DEF Dispatch!Next
<1> QED BY <1>3, <1>5, <1>6, <1>7

LEMMA InitImplements == Init => Dispatch!Init
<1> SUFFICES ASSUME Init PROVE Dispatch!Init
  OBVIOUS
<1>1. exec = FALSE /\ table = [e \in Events |-> <<>>]
  BY DEF Init
<1>2. Subscribed = [e \in Events |-> {}]
  BY <1>1 DEF Subscribed, Members
<1> QED BY <1>1, <1>2 DEF Dispatch!Init, Subscribed, Members, Firing

LEMMA StepImplements ==
    ASSUME DelegatesHaveReceivers, Inv, StackInv, EventInv, Disciplined, [Next]_vars
    PROVE  [Dispatch!Next]_(Dispatch!vars)
<1>1. CASE UNCHANGED vars
  <2>1. UNCHANGED <<exec, table, pending, frames>>
    BY <1>1 DEF vars, machine, events, control
  <2> QED BY <2>1 DEF Dispatch!vars, Firing, Remaining, Resolvable
<1>2. CASE Execute
  <2>1. exec
    BY <1>2 DEF Execute, Plain, Jump, Branch, Coalesce, Call, New, Return, ReturnVoid, NextHandler, FireDone,
       MatchFailure, Try, EndTry, Throw, Subscribe, Unsubscribe, FireNobody, Fire, BudgetExceeded, Fetch
  <2>2. Layout /\ ~NestedFire
    BY <2>1 DEF StackInv, Disciplined
  <2> QED BY <1>2, <2>1, <2>2, OpcodesQuiet, SubscribeImplements, UnsubscribeImplements, FireImplements,
          NextHandlerImplements, FireDoneImplements DEF Execute
<1>3. CASE BeginRun \/ BeginLoad \/ StartSinit \/ StartEntry \/ Finish \/ Recreate
  BY <1>3, HostImplements
<1> QED BY <1>1, <1>2, <1>3 DEF Next, HostCallStep

\* EVENT_FIRE's snapshot, RETURN_VOID's walk of it and the swaps of the event
\* table implement EventDispatch for every disciplined program: a fire calls
\* each handler subscribed when it starts at most once, one after the other,
\* and ends only when it owes none (that it ends is the fair half of
\* FiresEachHandlerOnce, a property of the runs).
THEOREM EventsImplementDispatch ==
    ASSUME DelegatesHaveReceivers
    PROVE  Spec /\ []Disciplined => Dispatch!Spec
<1>1. Spec /\ []Disciplined => [](Inv /\ StackInv)
  BY StackInductive
<1>2. Spec /\ []Disciplined => []EventInv
  <2>1. Disciplined => CleanStart
    BY DEF Disciplined
  <2> QED BY <2>1, EventInductive, PTL
<1> QED BY <1>1, <1>2, InitImplements, StepImplements, PTL DEF Spec, Dispatch!Spec
=============================================================================
