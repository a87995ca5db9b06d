---------------------------- MODULE XenoVMProofs ----------------------------
(***************************************************************************)
(* Proofs about XenoVM for every verified program and every limit.         *)
(*                                                                         *)
(* Bytecode that starts with an empty handler stack keeps the machine      *)
(* within its arrays and at verified instructions, because the handler     *)
(* stack is sorted by the frame each handler belongs to: a return that     *)
(* drops handlers from the top drops every handler of the frame.           *)
(***************************************************************************)
EXTENDS XenoVM, TLAPS

LEMMA Limits ==
    /\ StackMax \in Nat /\ FrameMax \in Nat /\ HandlerMax \in Nat
    /\ EventHandlersMax \in Nat /\ EventArgsMax \in Nat
    /\ StackMax > 0 /\ FrameMax > 0 /\ EventHandlersMax > 0
BY LimitsAssumption

(***************************************************************************)
(* Facts about the code                                                    *)
(***************************************************************************)
\* Every verified instruction is one of the instruction set, and where the
\* verifier follows it to is verified too (ver_chunk's propagation).
LEMMA VerifiedStep ==
    ASSUME NEW f, NEW pc, Verified(f, pc)
    PROVE  LET i == Code[f][pc] IN
           /\ f \in Fns /\ pc \in Nat
           /\ i \in Instruction(Fns, Events, Subs)
           /\ Shaped(i)
           /\ i.op \in {"subscribe", "unsubscribe", "fire"} => i.ev \in Events
           /\ ~Terminates(i) /\ i.op # "jump" => Verified(f, pc + 1)
           /\ i.op \in {"jump", "branch", "coalesce", "try"} => Verified(f, i.to)
<1> DEFINE i == Code[f][pc]
<1>1. f \in Fns /\ pc \in 1..Len(Code[f]) /\ Lo[f][pc] >= 0
  BY DEF Verified
<1>2. Code[f] \in Seq(Instruction(Fns, Events, Subs))
  BY <1>1, CodeAssumption DEF TypedCode
<1>3. i \in Instruction(Fns, Events, Subs)
  BY <1>1, <1>2
<1>4. Accepted(Code[f], Lo[f], Hi[f], Peak[f], StackMax)
  BY <1>1, CodeAssumption DEF VerifiedCode
<1>5. \A e \in Edges(i, pc) : e.to \in 1..Len(Code[f]) /\ 0 <= Lo[f][e.to]
  BY <1>1, <1>4 DEF Accepted
<1>6. \A e \in Edges(i, pc) : Verified(f, e.to)
  <2> SUFFICES ASSUME NEW e \in Edges(i, pc) PROVE Verified(f, e.to)
    OBVIOUS
  <2>1. Lo[f][e.to] \in Int
    BY <1>1, <1>5, CodeAssumption DEF TypedCode
  <2> QED BY <1>1, <1>5, <2>1 DEF Verified
<1>7. ASSUME ~Terminates(i), i.op # "jump" PROVE Verified(f, pc + 1)
  <2>1. CASE i.op = "coalesce"
    <3>1. [to |-> pc + 1, min |-> -1, max |-> 0] \in Edges(i, pc)
      BY <1>7, <2>1 DEF Edges
    <3> QED BY <1>6, <3>1
  <2>2. CASE i.op # "coalesce"
    <3>1. [to |-> pc + 1, min |-> Delta(i), max |-> Delta(i)] \in Edges(i, pc)
      BY <1>7, <2>2 DEF Edges
    <3> QED BY <1>6, <3>1
  <2> QED BY <2>1, <2>2
<1>8. ASSUME i.op \in {"jump", "branch", "coalesce", "try"} PROVE Verified(f, i.to)
  <2>1. CASE i.op = "coalesce"
    <3>1. [to |-> i.to, min |-> 0, max |-> 0] \in Edges(i, pc)
      BY <2>1 DEF Edges
    <3> QED BY <1>6, <3>1
  <2>2. CASE i.op # "coalesce"
    <3>1. [to |-> i.to, min |-> Delta(i), max |-> Delta(i)] \in Edges(i, pc)
      BY <1>8, <2>2 DEF Edges
    <3> QED BY <1>6, <3>1
  <2> QED BY <2>1, <2>2
<1>9. Shaped(i) /\ (i.op \in {"subscribe", "unsubscribe", "fire"} => i.ev \in Events)
  BY <1>1, CodeAssumption DEF TypedCode
<1> QED
  <2>1. pc \in Nat
    <3>1. Len(Code[f]) \in Nat
      BY <1>2
    <3> QED BY <1>1, <3>1
  <2> QED BY <1>1, <1>3, <1>7, <1>8, <1>9, <2>1

\* A chunk starts at a verified instruction, with an empty stack of its own
\* that grows to Peak at most.
LEMMA ChunkStart ==
    ASSUME NEW f \in Fns
    PROVE  /\ Verified(f, 1)
           /\ Lo[f][1] = 0 /\ Hi[f][1] >= 0
           /\ Peak[f] \in 0..StackMax
<1>1. Code[f] \in Seq(Instruction(Fns, Events, Subs)) /\ Code[f] # <<>>
  BY CodeAssumption DEF TypedCode, VerifiedCode
<1>2. Len(Code[f]) \in Nat /\ Len(Code[f]) > 0
  BY <1>1
<1>3. Accepted(Code[f], Lo[f], Hi[f], Peak[f], StackMax)
  BY CodeAssumption DEF VerifiedCode
<1> QED BY <1>2, <1>3 DEF Accepted, Verified

(***************************************************************************)
(* The invariant                                                           *)
(***************************************************************************)
\* Every frame is at a verified instruction, every handler belongs to a live
\* frame and catches in its chunk, and handlers are sorted by frame.
Sound ==
    /\ \A i \in 1..fc : Verified(frames[i].fn, frames[i].pc)
    /\ \A k \in 1..hc : /\ handlers[k].depth \in 1..fc
                        /\ handlers[k].fn = frames[handlers[k].depth].fn
                        /\ Verified(handlers[k].fn, handlers[k].pc)
    /\ \A j, k \in 1..hc : j <= k => handlers[j].depth <= handlers[k].depth

Inv ==
    /\ TypeOK
    /\ exec => Sound
    /\ host = "run" /\ ~exec => fc = 0

(***************************************************************************)
(* What the pieces of an action do to the machine                          *)
(***************************************************************************)
LEMMA VerifiedTyped ==
    ASSUME NEW f, NEW pc, Verified(f, pc)
    PROVE  f \in Fns /\ pc \in Nat
BY VerifiedStep

\* Moving ip to a verified instruction of the running chunk.
LEMMA GotoSound ==
    ASSUME MachineTyped, Sound, fc > 0, NEW pc, Verified(Top.fn, pc),
           Goto(pc), UNCHANGED <<fc, handlers, hc>>, sp' \in Int
    PROVE  MachineTyped' /\ Sound'
<1>1. pc \in Nat
  BY VerifiedTyped
<1>2. frames' = [frames EXCEPT ![fc] = [@ EXCEPT !.pc = pc]]
  BY DEF Goto
<1>3. MachineTyped'
  BY <1>1, <1>2, Limits DEF MachineTyped, Frame
<1>4. \A i \in 1..fc : frames'[i].fn = frames[i].fn
                        /\ frames'[i].pc = (IF i = fc THEN pc ELSE frames[i].pc)
  BY <1>2, Limits DEF MachineTyped, Frame
<1>5. Sound'
  BY <1>4 DEF Sound, Top, MachineTyped, Verified
<1> QED BY <1>3, <1>5

\* push_call_frame: the caller waits after its instruction, the callee starts.
LEMMA EnterSound ==
    ASSUME MachineTyped, Sound, fc > 0, fc < FrameMax, Verified(Top.fn, Top.pc + 1),
           NEW f \in Fns, NEW depth \in Int, Enter(f, depth)
    PROVE  /\ MachineTyped' /\ Sound' /\ fc' = fc + 1
           /\ frames'[fc] = [Top EXCEPT !.pc = @ + 1]
           /\ frames'[fc + 1] = [fn |-> f, pc |-> 1, base |-> depth]
           /\ \A i \in 1..(fc - 1) : frames'[i] = frames[i]
<1>1. fc \in 1..FrameMax /\ fc + 1 \in 1..FrameMax /\ fc - 1 \in Nat /\ fc \in Nat
  BY Limits DEF MachineTyped
<1>2. /\ frames' = [frames EXCEPT ![fc] = [frames[fc] EXCEPT !.pc = @ + 1],
                                   ![fc + 1] = [fn |-> f, pc |-> 1, base |-> depth]]
      /\ fc' = fc + 1 /\ sp' = depth /\ UNCHANGED <<handlers, hc>>
  BY DEF Enter
<1>3. [frames[fc] EXCEPT !.pc = @ + 1] \in Frame
  <2>1. frames[fc] \in Frame
    BY <1>1 DEF MachineTyped
  <2> QED BY <2>1 DEF Frame
<1>4. [fn |-> f, pc |-> 1, base |-> depth] \in Frame
  BY DEF Frame
<1>5. frames' \in [1..FrameMax -> Frame]
  <2>1. frames \in [1..FrameMax -> Frame]
    BY DEF MachineTyped
  <2> QED BY <1>1, <1>2, <1>3, <1>4, <2>1
<1>6. /\ frames'[fc] = [Top EXCEPT !.pc = @ + 1]
      /\ frames'[fc + 1] = [fn |-> f, pc |-> 1, base |-> depth]
      /\ \A i \in 1..(fc - 1) : frames'[i] = frames[i]
  <2>1. DOMAIN frames = 1..FrameMax
    BY DEF MachineTyped
  <2>2. frames'[fc + 1] = [fn |-> f, pc |-> 1, base |-> depth]
    BY <1>1, <1>2, <2>1
  <2>3. frames'[fc] = [frames[fc] EXCEPT !.pc = frames[fc].pc + 1]
    BY <1>1, <1>2, <2>1
  <2>4. ASSUME NEW i \in 1..(fc - 1) PROVE frames'[i] = frames[i]
    <3>1. i \in 1..FrameMax /\ i # fc /\ i # fc + 1
      BY <1>1, Limits
    <3> QED BY <1>2, <2>1, <3>1
  <2> QED BY <2>2, <2>3, <2>4 DEF Top
<1>7. MachineTyped'
  BY <1>1, <1>2, <1>5 DEF MachineTyped
<1>8. frames'[fc].fn = Top.fn /\ frames'[fc].pc = Top.pc + 1
  <2>1. Top \in Frame
    BY <1>1 DEF MachineTyped, Top
  <2> QED BY <1>6, <2>1 DEF Frame
<1>9. \A i \in 1..fc' : Verified(frames'[i].fn, frames'[i].pc)
  <2>1. Verified(f, 1)
    BY ChunkStart
  <2>2. frames'[fc + 1].fn = f /\ frames'[fc + 1].pc = 1
    BY <1>6
  <2>3. \A i \in 1..fc' : i \in 1..(fc - 1) \/ i = fc \/ i = fc + 1
    BY <1>1, <1>2
  <2>4. \A i \in 1..(fc - 1) : Verified(frames[i].fn, frames[i].pc)
    BY <1>1 DEF Sound
  <2> QED BY <1>6, <1>8, <2>1, <2>2, <2>3, <2>4
<1>10. \A i \in 1..fc : frames'[i].fn = frames[i].fn
  <2>1. \A i \in 1..fc : i \in 1..(fc - 1) \/ i = fc
    BY <1>1
  <2> QED BY <1>6, <1>8, <2>1 DEF Top
<1>11. Sound'
  <2>1. \A k \in 1..hc : handlers[k].depth \in 1..fc /\ handlers[k].depth \in 1..(fc + 1)
    BY <1>1 DEF Sound
  <2>2. \A k \in 1..hc' : /\ handlers'[k].depth \in 1..fc'
                          /\ handlers'[k].fn = frames'[handlers'[k].depth].fn
                          /\ Verified(handlers'[k].fn, handlers'[k].pc)
    BY <1>2, <1>10, <2>1 DEF Sound
  <2>3. \A j, k \in 1..hc' : j <= k => handlers'[j].depth <= handlers'[k].depth
    BY <1>2 DEF Sound
  <2>4. (\A i \in 1..fc : Verified(frames[i].fn, frames[i].pc))'
    BY <1>9 DEF Verified
  <2>5. (\A k \in 1..hc : /\ handlers[k].depth \in 1..fc
                          /\ handlers[k].fn = frames[handlers[k].depth].fn
                          /\ Verified(handlers[k].fn, handlers[k].pc))'
    BY <2>2 DEF Verified
  <2> QED BY <2>3, <2>4, <2>5 DEF Sound
<1> QED BY <1>2, <1>6, <1>7, <1>11

\* A sorted handler stack loses every handler above the frames that remain.
LEMMA DropSound ==
    ASSUME MachineTyped, Sound, NEW depth \in Nat, DropHandlers(depth)
    PROVE  /\ hc' \in 0..hc
           /\ \A k \in 1..hc' : handlers[k].depth <= depth
<1>1. hc' \in 0..hc /\ (hc' = 0 \/ handlers[hc'].depth <= depth)
  BY DEF DropHandlers, Surviving
<1>2. \A k \in 1..hc' : k \in 1..hc /\ hc' \in 1..hc
  BY <1>1 DEF MachineTyped
<1>3. \A k \in 1..hc' : handlers[k].depth <= handlers[hc'].depth
  BY <1>2 DEF Sound
<1>4. \A k \in 1..hc : handlers[k].depth \in Nat
  BY DEF Sound, MachineTyped
<1> QED BY <1>1, <1>2, <1>3, <1>4 DEF MachineTyped

\* The running frame and its handlers are dropped.
LEMMA LeaveSound ==
    ASSUME MachineTyped, Sound, fc > 0, Leave, sp' \in Int
    PROVE  MachineTyped' /\ Sound' /\ fc' = fc - 1
<1>1. fc' = fc - 1 /\ fc' \in 0..FrameMax /\ UNCHANGED <<frames, handlers>>
  BY Limits DEF Leave, MachineTyped
<1>2. hc' \in 0..hc /\ \A k \in 1..hc' : handlers[k].depth <= fc - 1
  BY DropSound DEF Leave, MachineTyped
<1>3. MachineTyped'
  BY <1>1, <1>2, Limits DEF MachineTyped
<1>4. Sound'
  BY <1>1, <1>2 DEF Sound, MachineTyped, Verified
<1> QED BY <1>1, <1>3, <1>4

\* The host call ends or goes on with the next __sinit__ of a load.
LEMMA AbortTyped ==
    ASSUME HostTyped, Abort
    PROVE  /\ exec' = FALSE /\ host' # "run"
           /\ host' \in {"idle", "run", "load"} /\ todo' \in Seq(Fns)
           /\ entry' \in Fns \cup {NoFn} /\ result' \in {"none", "ok", "error"}
<1>1. CASE host = "load"
  BY <1>1 DEF HostTyped, Abort
<1>2. CASE host # "load"
  <2>1. todo' = <<>> /\ entry' = NoFn /\ result' = "error" /\ host' = "idle" /\ exec' = FALSE
    BY <1>2 DEF Abort
  <2>2. <<>> \in Seq(Fns)
    OBVIOUS
  <2> QED BY <2>1, <2>2
<1> QED BY <1>1, <1>2

LEMMA HaltTyped ==
    ASSUME TypeOK, Halt, EventsTyped', count' \in Nat,
           objects' \in Nat, MaxObjects > 0 => objects' <= MaxObjects
    PROVE  Inv'
<1>1. MachineTyped'
  BY Limits DEF TypeOK, MachineTyped, Frame, Halt
<1>2. HostTyped' /\ ~exec' /\ host' # "run"
  BY AbortTyped DEF TypeOK, HostTyped, Halt
<1> QED BY <1>1, <1>2 DEF Inv, TypeOK

(***************************************************************************)
(* The actions                                                             *)
(***************************************************************************)
LEMMA InitInv == Init => Inv
<1> SUFFICES ASSUME Init PROVE Inv
  OBVIOUS
<1>1. MachineTyped
  BY Limits DEF Init, MachineTyped, Frame, Handler, NullFrame, NullHandler
<1>2. EventsTyped
  BY Limits DEF Init, EventsTyped, Pending, NoPending
<1>3. HostTyped
  <2>1. <<>> \in Seq(Fns)
    OBVIOUS
  <2>2. exec = FALSE
    BY DEF Init
  <2>3. count \in Nat /\ objects \in Nat /\ (MaxObjects > 0 => objects <= MaxObjects)
    BY LimitsAssumption DEF Init
  <2>4. host = "idle" /\ todo = <<>> /\ entry = NoFn /\ result = "none"
    BY DEF Init
  <2> QED BY <2>1, <2>2, <2>3, <2>4 DEF HostTyped
<1> QED BY <1>1, <1>2, <1>3 DEF Init, Inv, TypeOK

\* The instruction about to run is verified, and so is whatever follows it.
LEMMA AtInstr ==
    ASSUME Inv, exec
    PROVE  /\ MachineTyped /\ EventsTyped /\ HostTyped /\ Sound /\ fc > 0 /\ fc \in 1..FrameMax
           /\ sp \in Int
           /\ Instr.pops \in Nat /\ Instr.pushes \in Nat /\ Instr.to \in Nat
           /\ Instr.fns \subseteq Fns /\ Instr.subs \subseteq Subs
           /\ Shaped(Instr)
           /\ Instr.op \in {"subscribe", "unsubscribe", "fire"} => Instr.ev \in Events
           /\ ~Terminates(Instr) /\ Instr.op # "jump" => Verified(Top.fn, Top.pc + 1)
           /\ Instr.op \in {"jump", "branch", "coalesce", "try"} => Verified(Top.fn, Instr.to)
<1>1. MachineTyped /\ EventsTyped /\ HostTyped /\ Sound /\ fc > 0
  BY DEF Inv, TypeOK, HostTyped
<1>2. fc \in 1..fc /\ fc \in 1..FrameMax
  BY <1>1, Limits DEF MachineTyped
<1>3. Verified(Top.fn, Top.pc)
  BY <1>1, <1>2 DEF Sound, Top
<1>4. Instr \in Instruction(Fns, Events, Subs)
  BY <1>3, VerifiedStep DEF Instr
<1>5. /\ Instr.pops \in Nat /\ Instr.pushes \in Nat /\ Instr.to \in Nat
      /\ Instr.fns \subseteq Fns /\ Instr.subs \subseteq Subs
  BY <1>4 DEF Instruction
<1>6. sp \in Int
  BY <1>1 DEF MachineTyped
<1> QED BY <1>1, <1>2, <1>3, <1>5, <1>6, VerifiedStep DEF Instr

LEMMA FetchTyped ==
    ASSUME Inv, NEW op, Fetch(op)
    PROVE  exec /\ Instr.op = op /\ count' \in Nat
BY DEF Fetch, Inv, TypeOK, HostTyped

\* Bytecode goes on.
LEMMA Resumed ==
    ASSUME Inv, exec, MachineTyped', Sound', fc' > 0, EventsTyped', UNCHANGED control,
           count' \in Nat, objects' \in Nat, MaxObjects > 0 => objects' <= MaxObjects
    PROVE  Inv'
<1>1. HostTyped'
  BY DEF Inv, TypeOK, HostTyped, control
<1> QED BY <1>1 DEF Inv, TypeOK, control

\* A frame returned: to another frame, or to the host with no frame left.
LEMMA Returned ==
    ASSUME Inv, exec, Leave, sp' \in Int, ExecuteReturns, count' \in Nat,
           UNCHANGED <<events, objects>>
    PROVE  Inv'
<1>1. MachineTyped /\ Sound /\ fc > 0
  BY AtInstr
<1>2. MachineTyped' /\ Sound' /\ fc' = fc - 1
  BY <1>1, LeaveSound
<1>3. EventsTyped'
  BY DEF Inv, TypeOK, EventsTyped, events
<1>4. (fc > 1 => exec' = TRUE) /\ (~(fc > 1) => exec' = FALSE)
  <2>1. CASE fc > 1
    <3>1. (fc > 1) = TRUE
      BY <2>1
    <3> QED BY <2>1, <3>1, Zenon DEF ExecuteReturns
  <2>2. CASE ~(fc > 1)
    <3>1. (fc > 1) = FALSE
      BY <2>2
    <3> QED BY <2>2, <3>1, Zenon DEF ExecuteReturns
  <2> QED BY <2>1, <2>2
<1>5. HostTyped'
  <2>1. /\ host' \in {"idle", "run", "load"} /\ todo' \in Seq(Fns)
        /\ entry' \in Fns \cup {NoFn} /\ result' \in {"none", "ok", "error"} /\ host' # "idle"
    BY DEF Inv, TypeOK, HostTyped, ExecuteReturns
  <2>2. objects' \in Nat /\ (MaxObjects > 0 => objects' <= MaxObjects)
    BY DEF Inv, TypeOK, HostTyped
  <2>3. exec' => fc' > 0
    BY <1>1, <1>2, <1>4 DEF MachineTyped
  <2>4. exec' \in BOOLEAN
    BY <1>4
  <2> QED BY <2>1, <2>2, <2>3, <2>4 DEF HostTyped
<1>6. exec' = FALSE => fc' = 0
  BY <1>1, <1>2, <1>4 DEF MachineTyped
<1> QED BY <1>2, <1>3, <1>4, <1>5, <1>6 DEF Inv, TypeOK

LEMMA Failed ==
    ASSUME Inv, Fail, count' \in Nat
    PROVE  Inv'
<1>1. EventsTyped' /\ objects' \in Nat /\ (MaxObjects > 0 => objects' <= MaxObjects)
  BY DEF Fail, Inv, TypeOK, EventsTyped, HostTyped, events
<1> QED BY <1>1, HaltTyped DEF Fail, Inv

\* Moving on to the next instruction, with whatever happened to the events.
LEMMA Advanced ==
    ASSUME Inv, exec, Advance, ~Terminates(Instr), Instr.op # "jump",
           UNCHANGED <<fc, handlers, hc, control>>, sp' \in Int, EventsTyped',
           count' \in Nat, objects' \in Nat, MaxObjects > 0 => objects' <= MaxObjects
    PROVE  Inv'
<1>1. MachineTyped' /\ Sound'
  BY AtInstr, GotoSound DEF Advance
<1> QED BY <1>1, AtInstr, Resumed

LEMMA Kept ==
    ASSUME Inv, UNCHANGED <<events, objects>>
    PROVE  EventsTyped' /\ objects' \in Nat /\ (MaxObjects > 0 => objects' <= MaxObjects)
BY DEF Inv, TypeOK, EventsTyped, HostTyped, events

LEMMA StackOps ==
    ASSUME Inv, Plain \/ Jump \/ Branch \/ Coalesce
    PROVE  Inv'
<1>1. CASE Plain
  <2>1. exec /\ Instr.op = "plain" /\ count' \in Nat
    BY <1>1, FetchTyped DEF Plain
  <2>2. CASE Fail
    BY <2>1, <2>2, Failed
  <2>3. CASE sp' = sp - Instr.pops + Instr.pushes /\ Advance
             /\ UNCHANGED <<fc, handlers, hc, events, objects, control>>
    <3>1. sp' \in Int
      BY <2>1, <2>3, AtInstr
    <3> QED BY <2>1, <2>3, <3>1, Kept, Advanced DEF Terminates
  <2> QED BY <1>1, <2>2, <2>3 DEF Plain
<1>2. CASE Jump
  <2>1. exec /\ Instr.op = "jump" /\ count' \in Nat
    BY <1>2, FetchTyped DEF Jump
  <2>2. MachineTyped' /\ Sound'
    BY <1>2, <2>1, AtInstr, GotoSound DEF Jump, MachineTyped
  <2> QED BY <1>2, <2>1, <2>2, AtInstr, Kept, Resumed DEF Jump
<1>3. CASE Branch
  <2>1. exec /\ Instr.op = "branch" /\ count' \in Nat
    BY <1>3, FetchTyped DEF Branch
  <2>2. sp' \in Int /\ UNCHANGED <<fc, handlers, hc, events, objects, control>>
    BY <2>1, <1>3, AtInstr DEF Branch, MachineTyped
  <2>3. CASE Goto(Instr.to)
    <3>1. MachineTyped' /\ Sound'
      BY <2>1, <2>2, <2>3, AtInstr, GotoSound
    <3> QED BY <2>1, <2>2, <3>1, AtInstr, Kept, Resumed
  <2>4. CASE Advance
    BY <2>1, <2>2, <2>4, Kept, Advanced DEF Terminates
  <2> QED BY <1>3, <2>3, <2>4 DEF Branch
<1>4. CASE Coalesce
  <2>1. exec /\ Instr.op = "coalesce" /\ count' \in Nat
    BY <1>4, FetchTyped DEF Coalesce
  <2>2. sp' \in Int /\ UNCHANGED <<fc, handlers, hc, events, objects, control>>
    BY <2>1, <1>4, AtInstr DEF Coalesce, MachineTyped
  <2>3. CASE Goto(Instr.to)
    <3>1. MachineTyped' /\ Sound'
      BY <2>1, <2>2, <2>3, AtInstr, GotoSound
    <3> QED BY <2>1, <2>2, <3>1, AtInstr, Kept, Resumed
  <2>4. CASE Advance
    BY <2>1, <2>2, <2>4, Kept, Advanced DEF Terminates
  <2> QED BY <1>4, <2>3, <2>4 DEF Coalesce
<1> QED BY <1>1, <1>2, <1>3, <1>4

\* A call that found room.
LEMMA Entered ==
    ASSUME Inv, exec, ~Terminates(Instr), Instr.op # "jump", UNCHANGED control,
           NEW f \in Fns, NEW depth \in Int, CanPush(f, depth), Enter(f, depth), EventsTyped',
           count' \in Nat, objects' \in Nat, MaxObjects > 0 => objects' <= MaxObjects
    PROVE  Inv'
<1>1. fc < FrameMax
  BY DEF CanPush
<1>2. MachineTyped' /\ Sound' /\ fc' = fc + 1
  BY <1>1, AtInstr, EnterSound
<1>3. fc' > 0
  BY <1>2, AtInstr
<1> QED BY <1>2, <1>3, Resumed

LEMMA CallInv ==
    ASSUME Inv, Call
    PROVE  Inv'
<1>1. exec /\ Instr.op = "call" /\ count' \in Nat
  BY FetchTyped DEF Call
<1>2. Instr.fns \subseteq Fns /\ sp - Instr.pops \in Int
  BY <1>1, AtInstr
<1>3. CASE Fail
  BY <1>1, <1>3, Failed
<1>4. ASSUME NEW f \in Instr.fns, CanPush(f, sp - Instr.pops), Enter(f, sp - Instr.pops),
             UNCHANGED <<events, objects, control>>
      PROVE  Inv'
  <2>1. f \in Fns
    BY <1>2
  <2> QED BY <1>1, <1>2, <1>4, <2>1, Kept, Entered DEF Terminates
<1> QED BY <1>3, <1>4 DEF Call

LEMMA NewInv ==
    ASSUME Inv, New
    PROVE  Inv'
<1>1. exec /\ Instr.op = "new" /\ count' \in Nat /\ UNCHANGED events
  BY FetchTyped DEF New
<1>2. Instr.fns \subseteq Fns /\ sp - Instr.pops + 1 \in Int /\ sp + 1 \in Int
  BY <1>1, AtInstr
<1>3. EventsTyped'
  BY <1>1 DEF Inv, TypeOK, EventsTyped, events
<1>4. objects \in Nat /\ (MaxObjects > 0 => objects <= MaxObjects) /\ MaxObjects \in Nat
  BY LimitsAssumption DEF Inv, TypeOK, HostTyped
<1>5. CASE OutOfObjects
  <2>1. Halt /\ objects' = objects
    BY <1>5 DEF New
  <2> QED BY <1>1, <1>3, <1>4, <2>1, HaltTyped DEF Inv
<1>6. CASE ~OutOfObjects
  <2>1. objects' = objects + 1
    BY <1>6 DEF New
  <2>2. objects' \in Nat /\ (MaxObjects > 0 => objects' <= MaxObjects)
    BY <1>4, <1>6, <2>1 DEF OutOfObjects
  <2>3. CASE Halt
    BY <1>1, <1>3, <2>2, <2>3, HaltTyped DEF Inv
  <2>4. CASE Instr.fns = {}
    <3>1. sp' = sp + 1 /\ Advance /\ UNCHANGED <<fc, handlers, hc, control>>
      BY <1>6, <2>4 DEF New
    <3> QED BY <1>1, <1>2, <1>3, <2>2, <3>1, Advanced DEF Terminates
  <2>5. ASSUME NEW f \in Instr.fns, CanPush(f, sp - Instr.pops + 1),
               Enter(f, sp - Instr.pops + 1), UNCHANGED control
        PROVE  Inv'
    <3>1. f \in Fns
      BY <1>2
    <3> QED BY <1>1, <1>2, <1>3, <2>2, <2>5, <3>1, Entered DEF Terminates
  <2> QED BY <1>6, <2>3, <2>4, <2>5 DEF New
<1> QED BY <1>5, <1>6

\* Where a return leaves sp is a number whatever the frame's base is.
LEMMA EntryDepthTyped ==
    ASSUME Inv, exec, NEW depth \in Int
    PROVE  EntryDepth(depth) \in Int
<1>1. Top \in Frame
  BY AtInstr DEF MachineTyped, Top
<1> QED BY <1>1 DEF EntryDepth, Frame

LEMMA ReturnInv ==
    ASSUME Inv, Return \/ ReturnVoid
    PROVE  Inv'
<1>1. CASE Return
  <2>1. exec /\ count' \in Nat
    BY <1>1, FetchTyped DEF Return
  <2>2. sp - 1 \in Int
    BY <2>1, AtInstr DEF MachineTyped
  <2>3. sp' \in Int
    BY <1>1, <2>1, <2>2, EntryDepthTyped DEF Return
  <2> QED BY <1>1, <2>1, <2>3, Returned DEF Return
<1>2. CASE ReturnVoid
  <2>1. exec /\ count' \in Nat
    BY <1>2, FetchTyped DEF ReturnVoid
  <2>2. sp \in Int /\ VoidPushes \in Int
    BY <2>1, AtInstr DEF MachineTyped, VoidPushes
  <2>3. sp' \in Int
    BY <1>2, <2>1, <2>2, EntryDepthTyped DEF ReturnVoid
  <2> QED BY <1>2, <2>1, <2>3, Returned DEF ReturnVoid
<1> QED BY <1>1, <1>2

LEMMA EventsKept ==
    ASSUME Inv, UNCHANGED <<known, table>>, pending' \in Pending
    PROVE  EventsTyped'
BY DEF Inv, TypeOK, EventsTyped

LEMMA PendingTyped ==
    ASSUME Inv
    PROVE  /\ pending \in Pending
           /\ \A i \in Remaining : i \in Nat /\ Resolve[pending.list[i]] \in Fns
<1>1. pending \in Pending
  BY DEF Inv, TypeOK, EventsTyped
<1>2. ASSUME NEW i \in Remaining PROVE i \in Nat /\ Resolve[pending.list[i]] \in Fns
  <2>1. pending.list \in Seq(Subs)
    BY <1>1 DEF Pending
  <2>2. i \in 1..Len(pending.list) /\ Resolve[pending.list[i]] # NoFn
    BY DEF Remaining, Resolvable
  <2>3. i \in Nat /\ pending.list[i] \in Subs
    BY <2>1, <2>2
  <2> QED BY <2>2, <2>3, CodeAssumption DEF TypedCode
<1> QED BY <1>1, <1>2

\* The next event handler takes the frame of the one that returned.
LEMMA ReplaceSound ==
    ASSUME MachineTyped, Sound, fc > 1, NEW f \in Fns, NEW depth \in Int,
           frames' = [frames EXCEPT ![fc] = [fn |-> f, pc |-> 1, base |-> depth]],
           fc' = fc, sp' = depth, handlers' = handlers, DropHandlers(fc - 1)
    PROVE  MachineTyped' /\ Sound'
<1>1. fc \in 1..FrameMax /\ fc - 1 \in Nat
  BY Limits DEF MachineTyped
<1>2. hc' \in 0..hc /\ \A k \in 1..hc' : handlers[k].depth <= fc - 1
  BY <1>1, DropSound
<1>3. [fn |-> f, pc |-> 1, base |-> depth] \in Frame
  BY DEF Frame
<1>4. MachineTyped'
  BY <1>1, <1>2, <1>3, Limits DEF MachineTyped
<1>5. /\ frames'[fc] = [fn |-> f, pc |-> 1, base |-> depth]
      /\ \A i \in 1..(fc - 1) : frames'[i] = frames[i]
  BY <1>1 DEF MachineTyped
<1>6. \A i \in 1..fc : Verified(frames'[i].fn, frames'[i].pc)
  <2>1. Verified(f, 1)
    BY ChunkStart
  <2>2. \A i \in 1..fc : i = fc \/ i \in 1..(fc - 1)
    BY <1>1
  <2>3. \A i \in 1..(fc - 1) : Verified(frames[i].fn, frames[i].pc)
    BY <1>1 DEF Sound
  <2> QED BY <1>5, <2>1, <2>2, <2>3
<1>7. (\A i \in 1..fc : Verified(frames[i].fn, frames[i].pc))'
  BY <1>6 DEF Verified
<1>8. \A k \in 1..hc' : /\ handlers[k].depth \in 1..fc
                        /\ handlers[k].fn = frames'[handlers[k].depth].fn
                        /\ Verified(handlers[k].fn, handlers[k].pc)
  <2>1. \A k \in 1..hc' : k \in 1..hc
    BY <1>2 DEF MachineTyped
  <2>2. \A k \in 1..hc' : handlers[k].depth \in 1..(fc - 1)
    BY <1>1, <1>2, <2>1 DEF Sound
  <2> QED BY <1>5, <2>1, <2>2 DEF Sound
<1>9. (\A k \in 1..hc : /\ handlers[k].depth \in 1..fc
                        /\ handlers[k].fn = frames[handlers[k].depth].fn
                        /\ Verified(handlers[k].fn, handlers[k].pc))'
  BY <1>8 DEF Verified
<1>10. \A j, k \in 1..hc' : j <= k => handlers'[j].depth <= handlers'[k].depth
  BY <1>2 DEF Sound, MachineTyped
<1> QED BY <1>4, <1>7, <1>9, <1>10 DEF Sound

LEMMA NextHandlerInv ==
    ASSUME Inv, NextHandler
    PROVE  Inv'
<1>1. exec /\ count' \in Nat /\ EndsHandler /\ UNCHANGED <<handlers, known, table, objects>>
  BY FetchTyped DEF NextHandler
<1>2. fc > 1 /\ fc \in 1..FrameMax /\ sp \in Int
  BY <1>1, AtInstr DEF EndsHandler
<1>3. PICK i \in Remaining :
        /\ pending' = [pending EXCEPT !.at = i]
        /\ sp' = EntryDepth(sp)
        /\ IF EntryDepth(sp) + Peak[Resolve[pending.list[i]]] <= StackMax
             THEN /\ frames' = [frames EXCEPT ![fc] =
                       [fn |-> Resolve[pending.list[i]], pc |-> 1, base |-> EntryDepth(sp)]]
                  /\ UNCHANGED <<fc, control>>
             ELSE Abort /\ fc' = fc - 1 /\ UNCHANGED frames
  BY DEF NextHandler
<1>4. sp' \in Int /\ EntryDepth(sp) \in Int
  BY <1>1, <1>2, <1>3, EntryDepthTyped
<1>5. EventsTyped'
  <2>1. pending' \in Pending
    BY <1>3, PendingTyped DEF Pending
  <2> QED BY <1>1, <2>1, EventsKept
<1>6. objects' \in Nat /\ (MaxObjects > 0 => objects' <= MaxObjects)
  BY <1>1 DEF Inv, TypeOK, HostTyped
<1>7. DropHandlers(fc - 1)
  BY DEF NextHandler
<1>8. CASE EntryDepth(sp) + Peak[Resolve[pending.list[i]]] <= StackMax
  <2>1. MachineTyped' /\ Sound'
    BY <1>1, <1>2, <1>3, <1>4, <1>7, <1>8, AtInstr, PendingTyped, ReplaceSound
  <2> QED BY <1>1, <1>2, <1>3, <1>5, <1>6, <1>8, <2>1, Resumed
<1>9. CASE ~(EntryDepth(sp) + Peak[Resolve[pending.list[i]]] <= StackMax)
  <2>1. Abort /\ fc' = fc - 1 /\ frames' = frames
    BY <1>3, <1>9
  <2>2. hc' \in 0..hc
    BY <1>1, <1>2, <1>7, AtInstr, DropSound
  <2>3. MachineTyped'
    BY <1>1, <1>2, <1>4, <2>1, <2>2, AtInstr, Limits DEF MachineTyped
  <2>4. HostTyped' /\ ~exec' /\ host' # "run"
    BY <1>1, <1>6, <2>1, AbortTyped, AtInstr DEF HostTyped
  <2> QED BY <1>5, <2>3, <2>4 DEF Inv, TypeOK
<1> QED BY <1>8, <1>9

LEMMA FireDoneInv ==
    ASSUME Inv, FireDone
    PROVE  Inv'
<1>1. /\ exec /\ count' \in Nat /\ EndsHandler /\ Leave /\ sp' = EntryDepth(sp)
      /\ UNCHANGED <<known, table, objects, control>>
      /\ pending' = [pending EXCEPT !.active = FALSE]
  BY FetchTyped DEF FireDone
<1>2. sp' \in Int
  BY <1>1, AtInstr, EntryDepthTyped
<1>3. MachineTyped' /\ Sound' /\ fc' = fc - 1
  BY <1>1, <1>2, AtInstr, LeaveSound
<1>4. fc' > 0
  BY <1>1, <1>3, AtInstr DEF EndsHandler
<1>5. EventsTyped'
  <2>1. pending' \in Pending
    BY <1>1, PendingTyped DEF Pending
  <2> QED BY <1>1, <2>1, EventsKept
<1>6. objects' \in Nat /\ (MaxObjects > 0 => objects' <= MaxObjects)
  BY <1>1 DEF Inv, TypeOK, HostTyped
<1> QED BY <1>1, <1>3, <1>4, <1>5, <1>6, Resumed

(***************************************************************************)
(* Exceptions                                                              *)
(***************************************************************************)
\* A new handler belongs to the running frame, the highest there is.
LEMMA TryInv ==
    ASSUME Inv, Try
    PROVE  Inv'
<1>1. exec /\ Instr.op = "try" /\ count' \in Nat
  BY FetchTyped DEF Try
<1>2. CASE ~(hc < HandlerMax)
  BY <1>1, <1>2, Failed DEF Try
<1>3. CASE hc < HandlerMax
  <2> DEFINE h == [fn |-> Top.fn, pc |-> Instr.to, depth |-> fc, sp |-> sp]
  <2>1. /\ hc' = hc + 1 /\ handlers' = [handlers EXCEPT ![hc + 1] = h] /\ Advance
        /\ UNCHANGED <<fc, sp, events, objects, control>>
    BY <1>3 DEF Try
  <2>2. /\ MachineTyped /\ Sound /\ fc \in 1..FrameMax /\ hc \in Nat /\ hc + 1 \in 1..HandlerMax
        /\ Verified(Top.fn, Top.pc + 1) /\ Verified(Top.fn, Instr.to)
    <3>1. /\ MachineTyped /\ Sound /\ fc \in 1..FrameMax
          /\ Verified(Top.fn, Top.pc + 1) /\ Verified(Top.fn, Instr.to)
      BY <1>1, AtInstr DEF Terminates
    <3> QED BY <1>3, <3>1, Limits DEF MachineTyped
  <2>3. h \in Handler
    BY <2>2, AtInstr, <1>1, VerifiedTyped DEF Handler, MachineTyped
  <2>4. handlers' \in [1..HandlerMax -> Handler] /\ hc' \in 0..HandlerMax
    BY <2>1, <2>2, <2>3 DEF MachineTyped
  <2>5. /\ frames' \in [1..FrameMax -> Frame]
        /\ \A i \in 1..fc : frames'[i].fn = frames[i].fn
                             /\ frames'[i].pc = (IF i = fc THEN Top.pc + 1 ELSE frames[i].pc)
    <3>1. Top.pc + 1 \in Nat
      BY <2>2, VerifiedTyped
    <3>2. frames' = [frames EXCEPT ![fc] = [@ EXCEPT !.pc = Top.pc + 1]]
      BY <2>1 DEF Advance, Goto
    <3> QED BY <2>2, <3>1, <3>2 DEF MachineTyped, Frame
  <2>6. MachineTyped'
    BY <2>1, <2>2, <2>4, <2>5 DEF MachineTyped
  <2>7. handlers'[hc + 1] = h /\ \A k \in 1..hc : handlers'[k] = handlers[k]
    BY <2>1, <2>2 DEF MachineTyped
  <2>8. \A k \in 1..hc' : k \in 1..hc \/ k = hc + 1
    BY <2>1, <2>2
  <2>9. (\A i \in 1..fc : Verified(frames[i].fn, frames[i].pc))'
    BY <2>1, <2>2, <2>5 DEF Sound, Verified, Top
  <2>10. \A k \in 1..hc' : /\ handlers'[k].depth \in 1..fc
                           /\ handlers'[k].fn = frames'[handlers'[k].depth].fn
                           /\ Verified(handlers'[k].fn, handlers'[k].pc)
    BY <2>2, <2>5, <2>7, <2>8 DEF Sound, Top
  <2>11. (\A k \in 1..hc : /\ handlers[k].depth \in 1..fc
                           /\ handlers[k].fn = frames[handlers[k].depth].fn
                           /\ Verified(handlers[k].fn, handlers[k].pc))'
    BY <2>1, <2>10 DEF Verified
  <2>12. \A j, k \in 1..hc' : j <= k => handlers'[j].depth <= handlers'[k].depth
    <3>1. \A k \in 1..hc : handlers[k].depth <= fc /\ handlers[k].depth \in Nat
      BY <2>2 DEF Sound
    <3> QED BY <2>2, <2>7, <2>8, <3>1 DEF Sound
  <2>13. Sound'
    BY <2>9, <2>11, <2>12 DEF Sound
  <2> QED BY <1>1, <2>1, <2>2, <2>6, <2>13, Kept, Resumed
<1> QED BY <1>2, <1>3

LEMMA EndTryInv ==
    ASSUME Inv, EndTry
    PROVE  Inv'
<1>1. /\ exec /\ Instr.op = "endtry" /\ count' \in Nat /\ Advance
      /\ UNCHANGED <<fc, sp, handlers, events, objects, control>>
      /\ hc' = IF hc > 0 THEN hc - 1 ELSE 0
  BY FetchTyped DEF EndTry
<1>2. /\ MachineTyped /\ Sound /\ fc \in 1..FrameMax /\ Verified(Top.fn, Top.pc + 1)
  BY <1>1, AtInstr DEF Terminates
<1>3. hc' \in 0..hc
  BY <1>1, <1>2 DEF MachineTyped
<1>4. /\ frames' \in [1..FrameMax -> Frame]
      /\ \A i \in 1..fc : frames'[i].fn = frames[i].fn
                           /\ frames'[i].pc = (IF i = fc THEN Top.pc + 1 ELSE frames[i].pc)
  <2>1. Top.pc + 1 \in Nat
    BY <1>2, VerifiedTyped
  <2>2. frames' = [frames EXCEPT ![fc] = [@ EXCEPT !.pc = Top.pc + 1]]
    BY <1>1 DEF Advance, Goto
  <2> QED BY <1>2, <2>1, <2>2 DEF MachineTyped, Frame
<1>5. MachineTyped'
  BY <1>1, <1>2, <1>3, <1>4, Limits DEF MachineTyped
<1>6. Sound'
  <2>1. \A k \in 1..hc' : k \in 1..hc
    BY <1>2, <1>3 DEF MachineTyped
  <2>2. \A i \in 1..fc : Verified(frames'[i].fn, frames'[i].pc)
    BY <1>2, <1>4 DEF Sound, Top
  <2>3. (\A i \in 1..fc : Verified(frames[i].fn, frames[i].pc))'
    BY <1>1, <2>2 DEF Verified
  <2>4. (\A k \in 1..hc : /\ handlers[k].depth \in 1..fc
                          /\ handlers[k].fn = frames[handlers[k].depth].fn
                          /\ Verified(handlers[k].fn, handlers[k].pc))'
    BY <1>1, <1>2, <1>4, <2>1 DEF Sound, Verified
  <2>5. \A j, k \in 1..hc' : j <= k => handlers'[j].depth <= handlers'[k].depth
    BY <1>1, <1>2, <2>1 DEF Sound
  <2> QED BY <2>3, <2>4, <2>5 DEF Sound
<1> QED BY <1>1, <1>2, <1>5, <1>6, Kept, Resumed

\* An exception unwinds to the frame of the topmost handler; the handlers that
\* remain belong to that frame or to one below it.
LEMMA ThrowInv ==
    ASSUME Inv, Throw
    PROVE  Inv'
<1>1. exec /\ Instr.op = "throw" /\ count' \in Nat
  BY FetchTyped DEF Throw
<1>2. CASE Fail
  BY <1>1, <1>2, Failed
<1>3. CASE ~Fail
  <2> DEFINE h == handlers[hc]
  <2>1. /\ hc > 0 /\ hc' = hc - 1 /\ fc' = h.depth /\ sp' = h.sp
        /\ frames' = [frames EXCEPT ![h.depth] = [fn |-> h.fn, pc |-> h.pc, base |-> @.base]]
        /\ UNCHANGED <<handlers, events, objects, control>>
    BY <1>3 DEF Throw
  <2>2. MachineTyped /\ Sound /\ fc \in 1..FrameMax
    BY <1>1, AtInstr
  <2>3. hc \in 1..hc /\ hc \in 1..HandlerMax /\ hc - 1 \in 0..HandlerMax
    BY <2>1, <2>2, Limits DEF MachineTyped
  <2>4. /\ h.depth \in 1..fc /\ h.depth \in 1..FrameMax /\ h.fn = frames[h.depth].fn
        /\ Verified(h.fn, h.pc) /\ h \in Handler
    <3>1. h.depth \in 1..fc /\ h.fn = frames[h.depth].fn /\ Verified(h.fn, h.pc)
      BY <2>2, <2>3 DEF Sound
    <3>2. h \in Handler
      BY <2>2, <2>3 DEF MachineTyped
    <3> QED BY <2>2, <3>1, <3>2, Limits
  <2>5. h.fn \in Fns /\ h.pc \in Nat /\ h.sp \in Int
    BY <2>4, VerifiedTyped DEF Handler
  <2> HIDE DEF h
  <2>6. frames[h.depth] \in Frame
    BY <2>2, <2>4 DEF MachineTyped
  <2>7. [fn |-> h.fn, pc |-> h.pc, base |-> frames[h.depth].base] \in Frame
    BY <2>5, <2>6 DEF Frame
  <2>8. frames' = [frames EXCEPT ![h.depth] =
                      [fn |-> h.fn, pc |-> h.pc, base |-> frames[h.depth].base]]
    BY <2>1, <2>2, <2>4 DEF MachineTyped
  <2>9. frames' \in [1..FrameMax -> Frame]
    BY <2>2, <2>4, <2>7, <2>8 DEF MachineTyped
  <2>10. /\ frames'[h.depth] = [fn |-> h.fn, pc |-> h.pc, base |-> frames[h.depth].base]
         /\ \A i \in 1..(h.depth - 1) : frames'[i] = frames[i]
    BY <2>2, <2>4, <2>8 DEF MachineTyped
  <2>11. MachineTyped'
    BY <2>1, <2>2, <2>3, <2>4, <2>5, <2>9 DEF MachineTyped
  <2>12. \A i \in 1..h.depth : i = h.depth \/ (i \in 1..(h.depth - 1) /\ i \in 1..fc)
    BY <2>2, <2>4
  <2>13. \A i \in 1..h.depth : Verified(frames'[i].fn, frames'[i].pc)
                               /\ frames'[i].fn = frames[i].fn
    <3>1. \A i \in 1..fc : Verified(frames[i].fn, frames[i].pc)
      BY <2>2 DEF Sound
    <3> QED BY <2>4, <2>10, <2>12, <3>1
  <2>14. (\A i \in 1..fc : Verified(frames[i].fn, frames[i].pc))'
    BY <2>1, <2>13 DEF Verified
  <2>15. \A k \in 1..hc' : k \in 1..hc /\ handlers[k].depth \in 1..h.depth
    <3>1. \A k \in 1..hc' : k \in 1..hc /\ k <= hc
      BY <2>1, <2>2, <2>3 DEF MachineTyped
    <3>2. \A k \in 1..hc : handlers[k].depth <= handlers[hc].depth
                           /\ handlers[k].depth \in 1..fc
      BY <2>2, <2>3 DEF Sound
    <3> QED BY <2>4, <3>1, <3>2 DEF h
  <2>16. (\A k \in 1..hc : /\ handlers[k].depth \in 1..fc
                           /\ handlers[k].fn = frames[handlers[k].depth].fn
                           /\ Verified(handlers[k].fn, handlers[k].pc))'
    BY <2>1, <2>2, <2>13, <2>15 DEF Sound, Verified
  <2>17. \A j, k \in 1..hc' : j <= k => handlers'[j].depth <= handlers'[k].depth
    BY <2>1, <2>2, <2>15 DEF Sound
  <2>18. Sound'
    BY <2>14, <2>16, <2>17 DEF Sound
  <2>19. fc' > 0
    BY <2>1, <2>4
  <2> QED BY <1>1, <2>1, <2>11, <2>18, <2>19, Kept, Resumed
<1> QED BY <1>2, <1>3

(***************************************************************************)
(* Events                                                                  *)
(***************************************************************************)
LEMMA SwapRemoveTyped ==
    ASSUME NEW q \in Seq(Subs), NEW i \in 1..Len(q)
    PROVE  /\ SwapRemove(q, i) \in Seq(Subs)
           /\ Len(SwapRemove(q, i)) = Len(q) - 1
<1>1. Len(q) \in Nat /\ Len(q) - 1 \in Nat /\ Len(q) \in 1..Len(q)
  OBVIOUS
<1>2. \A j \in 1..(Len(q) - 1) : q[j] \in Subs /\ q[Len(q)] \in Subs
  BY <1>1
<1>3. SwapRemove(q, i) \in [1..(Len(q) - 1) -> Subs]
  BY <1>2 DEF SwapRemove
<1> QED BY <1>1, <1>3

LEMMA SubscriptionInv ==
    ASSUME Inv, Subscribe \/ Unsubscribe
    PROVE  Inv'
<1>1. exec /\ Instr.op \in {"subscribe", "unsubscribe"} /\ count' \in Nat
  BY FetchTyped DEF Subscribe, Unsubscribe
<1>2. Instr.ev \in Events /\ sp - Instr.pops \in Int /\ Instr.subs \subseteq Subs
  BY <1>1, AtInstr
<1>3. /\ known \subseteq Events /\ pending \in Pending /\ table \in [Events -> Seq(Subs)]
      /\ \A e \in Events : Len(table[e]) <= EventHandlersMax
  BY DEF Inv, TypeOK, EventsTyped
<1>4. objects \in Nat /\ (MaxObjects > 0 => objects <= MaxObjects)
  BY DEF Inv, TypeOK, HostTyped
<1>5. CASE Fail
  BY <1>1, <1>5, Failed
<1>6. ASSUME NEW q \in Seq(Subs), Len(q) <= EventHandlersMax,
             table' = [table EXCEPT ![Instr.ev] = q] \/ table' = table,
             Register(Instr.ev), sp' = sp - Instr.pops, Advance,
             UNCHANGED <<fc, handlers, hc, pending, objects, control>>
      PROVE  Inv'
  <2>1. table' \in [Events -> Seq(Subs)] /\ \A e \in Events : Len(table'[e]) <= EventHandlersMax
    BY <1>2, <1>3, <1>6
  <2>2. EventsTyped'
    BY <1>2, <1>3, <1>6, <2>1 DEF EventsTyped, Register
  <2> QED BY <1>1, <1>2, <1>4, <1>6, <2>2, Advanced DEF Terminates
<1>7. CASE Subscribe
  <2>1. PICK s \in Instr.subs :
          \/ Fail
          \/ /\ Register(Instr.ev)
             /\ \/ table' = table
                \/ /\ Len(table[Instr.ev]) < EventHandlersMax
                   /\ table' = [table EXCEPT ![Instr.ev] = Append(table[Instr.ev], s)]
             /\ sp' = sp - Instr.pops /\ Advance
             /\ UNCHANGED <<fc, handlers, hc, pending, objects, control>>
    <3>1. Len(table[Instr.ev]) \in Nat /\ EventHandlersMax \in Nat
      BY <1>2, <1>3, Limits
    <3> QED BY <1>7, <3>1 DEF Subscribe
  <2>2. CASE table' = table
    BY <1>2, <1>3, <1>5, <1>6, <2>1, <2>2
  <2>3. CASE table' # table /\ ~Fail
    <3>1. /\ Append(table[Instr.ev], s) \in Seq(Subs)
          /\ Len(Append(table[Instr.ev], s)) <= EventHandlersMax
      BY <1>2, <1>3, <2>1, <2>3, Limits
    <3> QED BY <1>6, <2>1, <2>3, <3>1
  <2> QED BY <1>5, <2>2, <2>3
<1>8. CASE Unsubscribe
  <2>1. PICK s \in Instr.subs :
          \/ Fail
          \/ /\ Register(Instr.ev)
             /\ \/ table' = table
                \/ \E i \in 1..Len(table[Instr.ev]) :
                     table' = [table EXCEPT ![Instr.ev] = SwapRemove(table[Instr.ev], i)]
             /\ sp' = sp - Instr.pops /\ Advance
             /\ UNCHANGED <<fc, handlers, hc, pending, objects, control>>
    BY <1>8 DEF Unsubscribe
  <2>2. CASE table' = table
    BY <1>2, <1>3, <1>5, <1>6, <2>1, <2>2
  <2>3. CASE table' # table /\ ~Fail
    <3>1. PICK i \in 1..Len(table[Instr.ev]) :
            table' = [table EXCEPT ![Instr.ev] = SwapRemove(table[Instr.ev], i)]
      BY <2>1, <2>3
    <3>2. table[Instr.ev] \in Seq(Subs) /\ Len(table[Instr.ev]) \in Nat
      BY <1>2, <1>3
    <3>3. /\ SwapRemove(table[Instr.ev], i) \in Seq(Subs)
          /\ Len(SwapRemove(table[Instr.ev], i)) <= EventHandlersMax
      BY <1>2, <1>3, <3>2, SwapRemoveTyped, Limits
    <3> QED BY <1>6, <2>1, <2>3, <3>1, <3>3
  <2> QED BY <1>5, <2>2, <2>3
<1> QED BY <1>7, <1>8

LEMMA FireInv ==
    ASSUME Inv, FireNobody \/ Fire
    PROVE  Inv'
<1>1. exec /\ Instr.op = "fire" /\ count' \in Nat
  BY FetchTyped DEF FireNobody, Fire
<1>2. Instr.ev \in Events /\ sp - Instr.pops \in Int /\ Instr.pops \in Nat /\ sp \in Int
  BY <1>1, AtInstr
<1>3. CASE FireNobody
  <2>1. /\ sp' = sp - Instr.pops /\ Advance
        /\ UNCHANGED <<fc, handlers, hc, events, objects, control>>
    BY <1>3 DEF FireNobody
  <2> QED BY <1>1, <1>2, <2>1, Kept, Advanced DEF Terminates
<1>4. CASE Fire
  <2> DEFINE argc == IF Instr.pops < EventArgsMax THEN Instr.pops ELSE EventArgsMax
  <2>1. PICK i \in Resolvable(table[Instr.ev]) :
          /\ pending' = Snapshot(table[Instr.ev], i)
          /\ \/ /\ CanPush(Resolve[table[Instr.ev][i]], sp - argc)
                /\ Enter(Resolve[table[Instr.ev][i]], sp - argc) /\ UNCHANGED control
             \/ Halt
    BY <1>4 DEF Fire
  <2>2. sp - argc \in Int
    BY <1>2, Limits
  <2>3. table[Instr.ev] \in Seq(Subs)
    BY <1>2 DEF Inv, TypeOK, EventsTyped
  <2>4. i \in Nat /\ Resolve[table[Instr.ev][i]] \in Fns
    <3>1. i \in 1..Len(table[Instr.ev]) /\ Resolve[table[Instr.ev][i]] # NoFn
      BY DEF Resolvable
    <3>2. i \in Nat /\ table[Instr.ev][i] \in Subs
      BY <2>3, <3>1
    <3> QED BY <3>1, <3>2, CodeAssumption DEF TypedCode
  <2>5. fc \in 0..FrameMax
    BY <1>1, AtInstr DEF MachineTyped
  <2>6. EventsTyped' /\ objects' \in Nat /\ (MaxObjects > 0 => objects' <= MaxObjects)
    <3>1. pending' \in Pending
      BY <2>1, <2>3, <2>4, <2>5 DEF Snapshot, Pending
    <3>2. UNCHANGED <<known, table, objects>>
      BY <1>4 DEF Fire
    <3> QED BY <3>1, <3>2, EventsKept DEF Inv, TypeOK, HostTyped
  <2>7. CASE Halt
    BY <1>1, <2>6, <2>7, HaltTyped DEF Inv
  <2> HIDE DEF argc
  <2>8. CASE ~Halt
    BY <1>1, <2>1, <2>2, <2>4, <2>6, <2>8, Entered DEF Terminates
  <2> QED BY <2>7, <2>8
<1> QED BY <1>3, <1>4

LEMMA ErrorInv ==
    ASSUME Inv, MatchFailure \/ BudgetExceeded
    PROVE  Inv'
<1>1. CASE MatchFailure
  BY <1>1, FetchTyped, Failed DEF MatchFailure
<1>2. CASE BudgetExceeded
  <2>1. Halt /\ EventsTyped' /\ count' \in Nat /\ objects' \in Nat
        /\ (MaxObjects > 0 => objects' <= MaxObjects)
    BY <1>2 DEF BudgetExceeded, Inv, TypeOK, EventsTyped, HostTyped, events
  <2> QED BY <2>1, HaltTyped DEF Inv
<1> QED BY <1>1, <1>2

LEMMA ExecuteInv ==
    ASSUME Inv, Execute
    PROVE  Inv'
BY StackOps, CallInv, NewInv, ReturnInv, NextHandlerInv, FireDoneInv, TryInv, EndTryInv,
   ThrowInv, SubscriptionInv, FireInv, ErrorInv DEF Execute

(***************************************************************************)
(* Host calls                                                              *)
(***************************************************************************)
\* A chunk starts in the only frame, with no handler on the stack.
LEMMA FirstFrameSound ==
    ASSUME MachineTyped, hc = 0, UNCHANGED <<handlers, hc>>, NEW f \in Fns, NEW depth \in Int,
           frames' = [frames EXCEPT ![1] = [fn |-> f, pc |-> 1, base |-> depth]],
           fc' = 1, sp' \in Int
    PROVE  MachineTyped' /\ Sound'
<1>1. [fn |-> f, pc |-> 1, base |-> depth] \in Frame
  BY DEF Frame
<1>2. MachineTyped'
  BY <1>1, Limits DEF MachineTyped
<1>3. frames'[1] = [fn |-> f, pc |-> 1, base |-> depth]
  BY Limits DEF MachineTyped
<1>4. Verified(f, 1)
  BY ChunkStart
<1>5. (\A i \in 1..fc : Verified(frames[i].fn, frames[i].pc))'
  BY <1>3, <1>4 DEF Verified
<1> QED BY <1>2, <1>5 DEF Sound

LEMMA BeginInv ==
    ASSUME Inv, BeginRun \/ BeginLoad
    PROVE  Inv'
<1>1. host = "idle" /\ exec = FALSE
  BY DEF BeginRun, BeginLoad, HostMayCall, Inv, TypeOK, HostTyped
<1>2. EventsTyped' /\ objects' \in Nat /\ (MaxObjects > 0 => objects' <= MaxObjects)
  BY Kept DEF BeginRun, BeginLoad
<1>3. CASE BeginRun
  <2>1. PICK p \in Programs :
          /\ sp' = 0 /\ fc' = 0 /\ count' = 0
          /\ host' = "run" /\ todo' = p.sinits /\ entry' = p.entry
          /\ UNCHANGED <<frames, handlers, hc, events, objects, exec, result>>
    BY <1>3 DEF BeginRun
  <2>2. p.sinits \in Seq(Fns) /\ p.entry \in Fns \cup {NoFn}
    BY CodeAssumption DEF TypedCode
  <2>3. MachineTyped'
    BY <2>1, Limits DEF Inv, TypeOK, MachineTyped
  <2>4. result' \in {"none", "ok", "error"}
    BY <2>1 DEF Inv, TypeOK, HostTyped
  <2>5. HostTyped' /\ exec' = FALSE /\ fc' = 0
    BY <1>1, <1>2, <2>1, <2>2, <2>4 DEF HostTyped
  <2> QED BY <1>2, <2>3, <2>5 DEF Inv, TypeOK
<1>4. CASE BeginLoad
  <2>1. PICK l \in Libraries :
          /\ host' = "load" /\ todo' = l
          /\ UNCHANGED <<machine, events, count, objects, entry, exec, result>>
    BY <1>4 DEF BeginLoad
  <2>2. l \in Seq(Fns)
    BY CodeAssumption DEF TypedCode
  <2>3. MachineTyped'
    BY <2>1 DEF Inv, TypeOK, MachineTyped, machine
  <2>4. count' \in Nat /\ entry' \in Fns \cup {NoFn} /\ result' \in {"none", "ok", "error"}
    BY <2>1 DEF Inv, TypeOK, HostTyped
  <2>5. HostTyped' /\ exec' = FALSE
    BY <1>1, <1>2, <2>1, <2>2, <2>4 DEF HostTyped
  <2> QED BY <1>2, <2>1, <2>3, <2>5 DEF Inv, TypeOK
<1> QED BY <1>3, <1>4

LEMMA StartSinitInv ==
    ASSUME Inv, CleanStart, StartSinit
    PROVE  Inv'
<1>1. /\ sp' = 0 /\ fc' = 1
      /\ frames' = [frames EXCEPT ![1] = [fn |-> Head(todo), pc |-> 1, base |-> 0]]
      /\ todo' = Tail(todo) /\ exec' = TRUE /\ host # "idle" /\ exec = FALSE /\ todo # <<>>
      /\ UNCHANGED <<handlers, hc, events, count, objects, host, entry, result>>
  BY DEF StartSinit, Inv, TypeOK, HostTyped
<1>2. todo \in Seq(Fns)
  BY DEF Inv, TypeOK, HostTyped
<1>3. Head(todo) \in Fns /\ Tail(todo) \in Seq(Fns)
  BY <1>1, <1>2
<1>4. hc = 0
  BY <1>1 DEF CleanStart
<1>5. MachineTyped' /\ Sound'
  <2>1. MachineTyped /\ UNCHANGED <<handlers, hc>> /\ 0 \in Int /\ sp' \in Int
    BY <1>1 DEF Inv, TypeOK
  <2> QED BY <1>1, <1>3, <1>4, <2>1, FirstFrameSound
<1>6. HostTyped'
  BY <1>1, <1>3 DEF Inv, TypeOK, HostTyped
<1> QED BY <1>1, <1>5, <1>6, Kept DEF Inv, TypeOK

LEMMA StartEntryInv ==
    ASSUME Inv, CleanStart, StartEntry
    PROVE  Inv'
<1>1. /\ host = "run" /\ exec = FALSE /\ entry # NoFn /\ UNCHANGED <<events, count>>
      /\ entry \in Fns /\ count \in Nat /\ objects \in Nat /\ objects' \in {objects, objects + 1}
      /\ MaxObjects > 0 => objects <= MaxObjects
  BY DEF StartEntry, Inv, TypeOK, HostTyped
<1>2. fc = 0 /\ hc = 0
  BY <1>1 DEF Inv, CleanStart
<1>3. EventsTyped'
  BY <1>1 DEF Inv, TypeOK, EventsTyped, events
<1>4. objects' \in Nat /\ (MaxObjects > 0 => objects' <= MaxObjects)
  BY <1>1, LimitsAssumption DEF StartEntry, OutOfObjects
<1>5. CASE Abort /\ UNCHANGED machine
  <2>1. MachineTyped'
    BY <1>5 DEF Inv, TypeOK, MachineTyped, machine
  <2>2. HostTyped' /\ exec' = FALSE /\ host' # "run"
    BY <1>1, <1>4, <1>5, AbortTyped DEF Inv, TypeOK, HostTyped
  <2> QED BY <1>3, <2>1, <2>2 DEF Inv, TypeOK
<1>6. CASE /\ fc' = fc + 1
           /\ frames' = [frames EXCEPT ![fc + 1] = [fn |-> entry, pc |-> 1, base |-> sp]]
           /\ entry' = NoFn /\ exec' = TRUE
           /\ UNCHANGED <<sp, handlers, hc, host, todo, result>>
  <2>1. fc + 1 = 1 /\ sp \in Int
    BY <1>2 DEF Inv, TypeOK, MachineTyped
  <2>2. MachineTyped' /\ Sound'
    BY <1>1, <1>2, <1>6, <2>1, FirstFrameSound DEF Inv, TypeOK
  <2>3. HostTyped'
    BY <1>1, <1>4, <1>6, <2>1 DEF Inv, TypeOK, HostTyped
  <2> QED BY <1>3, <1>6, <2>2, <2>3 DEF Inv, TypeOK
<1> QED BY <1>5, <1>6 DEF StartEntry, machine

LEMMA FinishInv ==
    ASSUME Inv, Finish \/ Recreate
    PROVE  Inv'
<1>1. CASE Finish
  <2>1. MachineTyped' /\ EventsTyped'
    BY <1>1 DEF Finish, Inv, TypeOK, MachineTyped, EventsTyped, machine, events
  <2>2. exec' = FALSE
    BY <1>1 DEF Finish, Inv, TypeOK, HostTyped
  <2>3. HostTyped' /\ host' # "run"
    BY <1>1, <2>2 DEF Finish, Inv, TypeOK, HostTyped
  <2> QED BY <2>1, <2>2, <2>3 DEF Inv, TypeOK
<1>2. CASE Recreate
  <2>1. MachineTyped'
    BY <1>2, Limits DEF Recreate, MachineTyped, Frame, Handler, NullFrame, NullHandler
  <2>2. EventsTyped'
    BY <1>2, Limits DEF Recreate, EventsTyped, Pending, NoPending
  <2>3. exec' = FALSE /\ host' = "idle"
    BY <1>2 DEF Recreate, Inv, TypeOK, HostTyped
  <2>4. HostTyped'
    BY <1>2, <2>3, LimitsAssumption DEF Recreate, Inv, TypeOK, HostTyped
  <2> QED BY <2>1, <2>2, <2>3, <2>4 DEF Inv, TypeOK
<1> QED BY <1>1, <1>2

LEMMA StepInv == Inv /\ CleanStart /\ [Next]_vars => Inv'
<1> SUFFICES ASSUME Inv, CleanStart, [Next]_vars PROVE Inv'
  OBVIOUS
<1>1. CASE Next
  BY <1>1, BeginInv, StartSinitInv, StartEntryInv, FinishInv, ExecuteInv DEF Next, HostCallStep
<1>2. CASE UNCHANGED vars
  <2>1. MachineTyped' /\ EventsTyped' /\ HostTyped'
    BY <1>2 DEF Inv, TypeOK, MachineTyped, EventsTyped, HostTyped,
                vars, machine, events, control
  <2>2. Sound => Sound'
    BY <1>2 DEF Sound, Verified, vars, machine
  <2>3. UNCHANGED <<host, exec, fc>>
    BY <1>2 DEF vars, machine, control
  <2> QED BY <2>1, <2>2, <2>3 DEF Inv, TypeOK
<1> QED BY <1>1, <1>2

(***************************************************************************)
(* Theorems                                                                *)
(***************************************************************************)
\* As long as no bytecode starts with the handlers of a call that failed, the
\* machine stays within its arrays.
THEOREM TypeCorrect == Spec /\ []CleanStart => []TypeOK
<1>1. Inv => TypeOK
  BY DEF Inv
<1> QED BY <1>1, InitInv, StepInv, PTL DEF Spec

\* ... and at verified instructions, whatever the scripts do.
THEOREM ControlFlowIsSafe == Spec /\ []CleanStart => []ControlFlowIntegrity
<1>1. Inv => ControlFlowIntegrity
  BY DEF Inv, Sound, ControlFlowIntegrity
<1> QED BY <1>1, InitInv, StepInv, PTL DEF Spec

(***************************************************************************)
(* A host that loads no archive at run time and gives up a VM that         *)
(* returned an error needs no assumption about the scripts.                *)
(***************************************************************************)
Fresh ==
    /\ host # "load"
    /\ exec \/ (host = "idle" /\ result = "error") \/ hc = 0

\* A host call ends with an error or with no handler left.
LEMMA ExecuteOutcome ==
    ASSUME Inv, Fresh, Execute
    PROVE  Fresh'
<1>1. exec /\ exec = TRUE /\ host # "load"
  BY FetchTyped DEF Fresh, Execute, Plain, Jump, Branch, Coalesce, Call, New, Return,
     ReturnVoid, NextHandler, FireDone, MatchFailure, Try, EndTry, Throw, Subscribe,
     Unsubscribe, FireNobody, Fire, BudgetExceeded, Inv, TypeOK, HostTyped
<1>2. CASE UNCHANGED control
  BY <1>1, <1>2 DEF Fresh, control
<1>3. CASE Abort
  BY <1>1, <1>3 DEF Fresh, Abort
<1>4. CASE Leave /\ ExecuteReturns /\ sp' \in Int
  <2>1. Sound' /\ MachineTyped' /\ fc' = fc - 1 /\ fc \in 1..FrameMax
    BY <1>1, <1>4, AtInstr, LeaveSound
  <2>2. host' = host /\ exec' = (fc > 1)
    BY <1>4 DEF ExecuteReturns
  <2>3. CASE fc > 1
    <3>1. (fc > 1) = TRUE
      BY <2>3
    <3>2. exec' = TRUE
      BY <2>2, <3>1, Zenon
    <3> QED BY <1>1, <2>2, <3>2 DEF Fresh
  <2>4. CASE ~(fc > 1)
    <3>1. fc' = 0
      BY <2>1, <2>4
    <3>2. hc' = 0
      BY <2>1, <3>1 DEF Sound, MachineTyped
    <3> QED BY <1>1, <2>2, <3>2 DEF Fresh
  <2> QED BY <2>3, <2>4
<1>5. Execute => UNCHANGED control \/ Abort \/ (Leave /\ ExecuteReturns /\ sp' \in Int)
  <2>1. CASE Return
    <3>1. sp - 1 \in Int /\ EntryDepth(sp - 1) \in Int
      BY <1>1, AtInstr, EntryDepthTyped
    <3> QED BY <2>1, <3>1 DEF Return
  <2>2. CASE ReturnVoid
    <3>1. EntryDepth(sp) \in Int /\ VoidPushes \in Int
      BY <1>1, AtInstr, EntryDepthTyped DEF VoidPushes
    <3> QED BY <2>2, <3>1 DEF ReturnVoid
  <2>3. CASE Plain \/ Jump \/ Branch \/ Coalesce \/ Call \/ New
    BY <2>3 DEF Plain, Jump, Branch, Coalesce, Call, New, Fail, Halt
  <2>4. CASE NextHandler \/ FireDone \/ MatchFailure \/ Try \/ EndTry \/ Throw
    BY <2>4 DEF NextHandler, FireDone, MatchFailure, Try, EndTry, Throw, Fail, Halt
  <2>5. CASE Subscribe \/ Unsubscribe \/ FireNobody \/ Fire \/ BudgetExceeded
    BY <2>5 DEF Subscribe, Unsubscribe, FireNobody, Fire, BudgetExceeded, Fail, Halt
  <2> QED BY <2>1, <2>2, <2>3, <2>4, <2>5 DEF Execute
<1> QED BY <1>2, <1>3, <1>4, <1>5

\* Without loads and without calls after an error, every bytecode starts clean
\* and the machine's stacks and ip stay where they should.
THEOREM FreshVMIsSafe ==
    ASSUME RetryAfterError = FALSE, Libraries = {}
    PROVE  Spec => [](CleanStart /\ TypeOK /\ ControlFlowIntegrity)
<1>1. Init => Inv /\ Fresh
  BY InitInv DEF Init, Fresh
<1>2. Inv /\ Fresh => CleanStart /\ TypeOK /\ ControlFlowIntegrity
  BY DEF Inv, Fresh, CleanStart, Sound, ControlFlowIntegrity
<1>3. Inv /\ Fresh /\ [Next]_vars => (Inv /\ Fresh)'
  <2> SUFFICES ASSUME Inv, Fresh, [Next]_vars PROVE Inv' /\ Fresh'
    OBVIOUS
  <2>1. Inv'
    BY <1>2, StepInv
  <2>2. Fresh'
    <3>1. CASE Execute
      BY <3>1, ExecuteOutcome
    <3>2. CASE BeginRun
      BY <3>2 DEF BeginRun, HostMayCall, Fresh, Inv, TypeOK, HostTyped
    <3>3. CASE BeginLoad
      BY <3>3 DEF BeginLoad
    <3>4. CASE StartSinit \/ Finish \/ Recreate
      BY <3>4 DEF StartSinit, Finish, Recreate, Fresh, machine
    <3>5. CASE StartEntry
      BY <3>5 DEF StartEntry, Abort, Fresh
    <3>6. CASE UNCHANGED vars
      BY <3>6 DEF Fresh, vars, machine, control
    <3> QED BY <3>1, <3>2, <3>3, <3>4, <3>5, <3>6 DEF Next, HostCallStep
  <2> QED BY <2>1, <2>2
<1> QED BY <1>1, <1>2, <1>3, PTL DEF Spec
=============================================================================
