------------------------------- MODULE XenoVM -------------------------------
(***************************************************************************)
(* The virtual machine of source/vm/vm.c: call frames, the value stack,    *)
(* the exception-handler stack, the event table, the one pending fire, and *)
(* the two host calls that execute bytecode, xeno_vm_run and               *)
(* xeno_vm_load_xar.                                                       *)
(*                                                                         *)
(* A value on the stack is abstracted to the slot it occupies: sp is a     *)
(* depth.  Bytecode is abstracted to the effect each opcode has on frames, *)
(* sp, handlers and events; a branch on a value goes both ways and an      *)
(* opcode that may fail on a value (a null receiver, a division by zero,   *)
(* a failing host function) fails or does not.                             *)
(*                                                                         *)
(* The module describes execution of bytecode the verifier of              *)
(* source/compiler/xbc.c has accepted: Lo, Hi and Peak are what ver_chunk  *)
(* computed for it.                                                        *)
(***************************************************************************)
EXTENDS Bytecode, FiniteSets

CONSTANTS
    Fns,            \* chunks with code, of every module in play
    NoFn,           \* fn_index -1
    Code,           \* [Fns -> Seq(instruction)]
    IsCtor,         \* [Fns -> BOOLEAN], chunk->is_constructor
    Lo, Hi,         \* ver_chunk's dmin / dmax at every instruction, -1 if unreachable
    Peak,           \* chunk->max_stack
    Events,         \* event names the code mentions
    Subs,           \* subscriptions: [name, recv], recv = NoRecv for a static handler
    NoRecv,         \* the null receiver
    Resolve,        \* [Subs -> Fns \cup {NoFn}], the chunk a fire finds for a subscription
    Programs,       \* modules given to xeno_vm_run: [sinits, entry]
    Libraries,      \* archives given to xeno_vm_load_xar: sequences of __sinit__ chunks
    StackMax, FrameMax, HandlerMax,            \* XENO_STACK_MAX, XENO_FRAME_MAX, XENO_HANDLER_MAX
    EventMax, EventHandlersMax, EventArgsMax,  \* XENO_MAX_EVENTS, .._EVENT_HANDLERS, .._EVENT_ARGS
    Budget,         \* instr_budget, 0 = unlimited
    MaxObjects,     \* max_objects, 0 = unlimited
    RetryAfterError \* does the host use a VM again after it returned an error?

ASSUME LimitsAssumption ==
    /\ {StackMax, FrameMax, HandlerMax, EventMax, EventHandlersMax, EventArgsMax}
         \subseteq Nat \ {0}
    /\ Budget \in Nat /\ MaxObjects \in Nat
    /\ RetryAfterError \in BOOLEAN

(***************************************************************************)
(* Assumptions about the code                                              *)
(***************************************************************************)
TypedCode ==
    /\ NoFn \notin Fns
    /\ Code \in [Fns -> Seq(Instruction(Fns, Events, Subs))]
    /\ \A f \in Fns : \A pc \in 1..Len(Code[f]) :
         /\ Code[f][pc].op \in {"subscribe", "unsubscribe", "fire"} => Code[f][pc].ev \in Events
         /\ Shaped(Code[f][pc])
    /\ IsCtor \in [Fns -> BOOLEAN]
    /\ \A f \in Fns : \A pc \in 1..Len(Code[f]) : Lo[f][pc] \in Int /\ Hi[f][pc] \in Int
    /\ Peak \in [Fns -> Int]
    /\ \A s, t \in Subs : s.name = t.name /\ s.recv = t.recv => s = t
    /\ Resolve \in [Subs -> Fns \cup {NoFn}]
    /\ Programs \subseteq [sinits : Seq(Fns), entry : Fns \cup {NoFn}]
    /\ Libraries \subseteq Seq(Fns)

\* what ver_chunk has established of every chunk with code
VerifiedCode ==
    \A f \in Fns : Code[f] # <<>> /\ Accepted(Code[f], Lo[f], Hi[f], Peak[f], StackMax)

\* what the compiler emits and the verifier does not look at: a constructor
\* returns no value and is reached only by NEW and CALL_SUPER, NEW of a class
\* without one has no operands, a fire has at most XENO_MAX_EVENT_ARGS
CompiledCode ==
    \A f \in Fns : \A pc \in 1..Len(Code[f]) :
        LET i == Code[f][pc] IN
        /\ i.op = "ret"  => ~IsCtor[f]
        /\ i.op = "call" => \A g \in i.fns : i.pushes = (IF IsCtor[g] THEN 0 ELSE 1)
        /\ i.op = "new"  => /\ i.pushes = 1
                            /\ i.fns = {} => i.pops = 0
                            /\ \A g \in i.fns : IsCtor[g]
        /\ i.op = "fire" => i.pops <= EventArgsMax /\ i.pushes = 0

ASSUME CodeAssumption == TypedCode /\ VerifiedCode /\ CompiledCode

\* Not assumed: delegates are subscribed with a receiver, functions without.
\* EVENT_SUBSCRIBE_BOUND finds no entry for a null receiver, so a script that
\* subscribes a delegate of null twice has it twice.
DelegatesHaveReceivers ==
    \A f \in Fns : \A pc \in 1..Len(Code[f]) :
        Code[f][pc].op = "subscribe" =>
          \A s \in Code[f][pc].subs : Code[f][pc].bound <=> s.recv # NoRecv

VARIABLES
    frames, fc,     \* vm->frames (entries above fc keep their last contents), frame_count
    sp,             \* vm->sp - vm->stack
    handlers, hc,   \* vm->handlers, handler_count
    known, table,   \* names in event_table; their subscriptions
    pending,        \* the pending_fire_* fields
    count,          \* instr_count
    objects,        \* object_count
    host,           \* the host call in progress: "idle", "run" or "load"
    todo, entry,    \* __sinit__ chunks still to run; the @Mod constructor still to run
    exec,           \* is xeno_execute on the C stack?
    result          \* what the last host call returned

machine == <<frames, fc, sp, handlers, hc>>
events  == <<known, table, pending>>
control == <<host, todo, entry, exec, result>>
vars    == <<machine, events, count, objects, control>>

Top   == frames[fc]
Instr == Code[Top.fn][Top.pc]

NullFrame   == [fn |-> NoFn, pc |-> 0, base |-> 0]
NullHandler == [fn |-> NoFn, pc |-> 0, depth |-> 0, sp |-> 0]
NoPending   == [active |-> FALSE, list |-> <<>>, at |-> 0, base |-> 0]

(***************************************************************************)
(* xeno_vm_init                                                            *)
(***************************************************************************)
Init ==
    /\ frames = [i \in 1..FrameMax |-> NullFrame] /\ fc = 0
    /\ sp = 0
    /\ handlers = [i \in 1..HandlerMax |-> NullHandler] /\ hc = 0
    /\ known = {} /\ table = [e \in Events |-> <<>>]
    /\ pending = NoPending
    /\ count = 0 /\ objects = 0
    /\ host = "idle" /\ todo = <<>> /\ entry = NoFn /\ exec = FALSE /\ result = "none"

(***************************************************************************)
(* Host calls                                                              *)
(***************************************************************************)
HostMayCall == host = "idle" /\ (result # "error" \/ RetryAfterError)

\* xeno_vm_run up to its first __sinit__: the only fields it resets are these.
BeginRun ==
    \E p \in Programs :
        /\ HostMayCall
        /\ sp' = 0 /\ fc' = 0 /\ count' = 0
        /\ host' = "run" /\ todo' = p.sinits /\ entry' = p.entry
        /\ UNCHANGED <<frames, handlers, hc, events, objects, exec, result>>

\* xeno_vm_load_xar once the archive is merged, verified and sealed.
BeginLoad ==
    \E l \in Libraries :
        /\ HostMayCall
        /\ host' = "load" /\ todo' = l
        /\ UNCHANGED <<machine, events, count, objects, entry, exec, result>>

\* Both calls run each __sinit__ from a clean value stack.
StartSinit ==
    /\ host # "idle" /\ ~exec /\ todo # <<>>
    /\ sp' = 0 /\ fc' = 1
    /\ frames' = [frames EXCEPT ![1] = [fn |-> Head(todo), pc |-> 1, base |-> 0]]
    /\ todo' = Tail(todo) /\ exec' = TRUE
    /\ UNCHANGED <<handlers, hc, events, count, objects, host, entry, result>>

CanPush_StackOnly(f, depth)  == depth + Peak[f] <= StackMax
CanPush_FramesOnly(f, depth) == fc < FrameMax
CanPush(f, depth) == fc < FrameMax /\ depth + Peak[f] <= StackMax

OutOfObjects == MaxObjects > 0 /\ objects >= MaxObjects

\* A failed run returns to the host; a failed __sinit__ of a load is ignored.
Abort ==
    /\ exec' = FALSE
    /\ IF host = "load"
         THEN UNCHANGED <<host, todo, entry, result>>
         ELSE host' = "idle" /\ todo' = <<>> /\ entry' = NoFn /\ result' = "error"

\* The @Mod object and its constructor frame, on whatever the initializers left.
StartEntry ==
    /\ host = "run" /\ ~exec /\ todo = <<>> /\ entry # NoFn
    /\ IF OutOfObjects
         THEN Abort /\ UNCHANGED <<machine, objects>>
         ELSE /\ objects' = objects + 1
              /\ IF CanPush(entry, sp)
                   THEN /\ fc' = fc + 1
                        /\ frames' = [frames EXCEPT ![fc + 1] =
                                        [fn |-> entry, pc |-> 1, base |-> sp]]
                        /\ entry' = NoFn /\ exec' = TRUE
                        /\ UNCHANGED <<sp, handlers, hc, host, todo, result>>
                   ELSE Abort /\ UNCHANGED machine
    /\ UNCHANGED <<events, count>>

Finish ==
    /\ host # "idle" /\ ~exec /\ todo = <<>> /\ (entry = NoFn \/ host = "load")
    /\ host' = "idle" /\ result' = "ok"
    /\ UNCHANGED <<machine, events, count, objects, todo, entry, exec>>

\* xeno_vm_free and a fresh xeno_vm_init
Recreate ==
    /\ host = "idle" /\ result # "none"
    /\ frames' = [i \in 1..FrameMax |-> NullFrame] /\ fc' = 0
    /\ sp' = 0
    /\ handlers' = [i \in 1..HandlerMax |-> NullHandler] /\ hc' = 0
    /\ known' = {} /\ table' = [e \in Events |-> <<>>]
    /\ pending' = NoPending
    /\ count' = 0 /\ objects' = 0
    /\ result' = "none"
    /\ UNCHANGED <<host, todo, entry, exec>>

(***************************************************************************)
(* xeno_execute: fetch, budget, dispatch.  A runtime error leaves ip       *)
(* inside or after the failing instruction: pc 0 stands for either.  sp is *)
(* dead until the next reset, so a failing opcode leaves it as it was.     *)
(***************************************************************************)
Halt ==
    /\ Abort
    /\ frames' = [frames EXCEPT ![fc].pc = 0]
    /\ UNCHANGED <<fc, sp, handlers, hc>>

OverBudget == Budget > 0 /\ count >= Budget

\* instr_count would grow past the budget; the model stops counting there
BudgetExceeded ==
    /\ exec /\ OverBudget
    /\ Halt
    /\ UNCHANGED <<events, count, objects>>

Fetch_Uncounted(op) == exec /\ ~OverBudget /\ Instr.op = op /\ count' = count

Fetch(op) ==
    /\ exec /\ ~OverBudget
    /\ Instr.op = op
    /\ count' = IF Budget > 0 THEN count + 1 ELSE count

Goto(pc) == frames' = [frames EXCEPT ![fc].pc = pc]
Advance  == Goto(Top.pc + 1)

Fail == Halt /\ UNCHANGED <<events, objects>>

NoRoom == Instr.checked /\ sp >= StackMax

\* every opcode that pops operands and pushes results and does nothing else;
\* LOAD_CONST_* and LOAD_LOCAL test for room, the others do not
Plain ==
    /\ Fetch("plain")
    /\ \/ (Instr.fails \/ NoRoom) /\ Fail
       \/ /\ ~NoRoom
          /\ sp' = sp - Instr.pops + Instr.pushes
          /\ Advance
          /\ UNCHANGED <<fc, handlers, hc, events, objects, control>>

Jump ==
    /\ Fetch("jump")
    /\ Goto(Instr.to)
    /\ UNCHANGED <<fc, sp, handlers, hc, events, objects, control>>

Branch_OffByOne ==
    /\ Fetch("branch")
    /\ sp' = sp - 1
    /\ (Goto(Instr.to + 1) \/ Advance)
    /\ UNCHANGED <<fc, handlers, hc, events, objects, control>>

\* JUMP_IF_FALSE and JUMP_IF_TRUE pop the condition on both ways
Branch ==
    /\ Fetch("branch")
    /\ sp' = sp - 1
    /\ (Goto(Instr.to) \/ Advance)
    /\ UNCHANGED <<fc, handlers, hc, events, objects, control>>

\* NULL_COALESCE keeps a non-null value and jumps, or pops the null
Coalesce ==
    /\ Fetch("coalesce")
    /\ \/ Goto(Instr.to) /\ UNCHANGED sp
       \/ Advance /\ sp' = sp - 1
    /\ UNCHANGED <<fc, handlers, hc, events, objects, control>>

\* push_call_frame: the caller resumes after the instruction it is at
Enter(f, depth) ==
    /\ fc' = fc + 1
    /\ sp' = depth
    /\ frames' = [frames EXCEPT ![fc].pc = @ + 1,
                                ![fc + 1] = [fn |-> f, pc |-> 1, base |-> depth]]
    /\ UNCHANGED <<handlers, hc>>

\* CALL, CALL_STATIC, CALL_METHOD, CALL_IFACE, CALL_SUPER
Call ==
    /\ Fetch("call")
    /\ \/ Instr.fails /\ Fail
       \/ \E f \in Instr.fns :
            IF CanPush(f, sp - Instr.pops)
              THEN Enter(f, sp - Instr.pops) /\ UNCHANGED <<events, objects, control>>
              ELSE Fail

\* NEW: the object is counted before the constructor frame is known to fit.
\* Without a constructor the operands stay where they are.
New ==
    /\ Fetch("new")
    /\ IF OutOfObjects
         THEN Halt /\ UNCHANGED objects
         ELSE /\ objects' = objects + 1
              /\ IF Instr.fns = {}
                   THEN /\ sp' = sp + 1 /\ Advance
                        /\ UNCHANGED <<fc, handlers, hc, control>>
                   ELSE \E f \in Instr.fns :
                          LET depth == sp - Instr.pops + 1 IN
                          IF depth <= StackMax /\ CanPush(f, depth)
                            THEN Enter(f, depth) /\ UNCHANGED control
                            ELSE Halt
    /\ UNCHANGED events

\* Handlers above the frame being left are dropped from the top.
Surviving(depth) ==
    {n \in 0..hc : /\ n = 0 \/ handlers[n].depth <= depth
                  /\ \A k \in (n + 1)..hc : handlers[k].depth > depth}
DropHandlers_None(depth) == hc' = hc
DropHandlers(depth) == hc' \in Surviving(depth)

EntryDepth(depth) == IF Top.base \in 0..StackMax THEN Top.base ELSE depth

Leave == fc' = fc - 1 /\ DropHandlers(fc - 1) /\ UNCHANGED <<frames, handlers>>

\* xeno_execute returns XENO_OK
ExecuteReturns ==
    /\ exec' = (fc > 1)
    /\ UNCHANGED <<host, todo, entry, result>>

\* RETURN: never looks at the pending fire
Return ==
    /\ Fetch("ret")
    /\ Leave
    /\ sp' = EntryDepth(sp - 1) + 1
    /\ ExecuteReturns
    /\ UNCHANGED <<events, objects>>

\* RETURN_VOID into a frame that is not waiting for event handlers
EndsHandler == pending.active /\ fc > 1 /\ pending.base = fc - 1

\* a caller that expects a value gets a 0, but NEW has pushed its object already
VoidPushes_Always == IF fc = 1 THEN 0 ELSE 1
VoidPushes        == IF fc = 1 \/ IsCtor[Top.fn] THEN 0 ELSE 1

ReturnVoid ==
    /\ Fetch("retvoid") /\ ~EndsHandler
    /\ Leave
    /\ sp' = EntryDepth(sp) + VoidPushes
    /\ ExecuteReturns
    /\ UNCHANGED <<events, objects>>

\* The chunks a fire finds are fixed when it starts; a subscription whose name
\* resolves to no chunk is passed over.
Resolvable(list) == {i \in 1..Len(list) : Resolve[list[i]] # NoFn}
Remaining        == {i \in Resolvable(pending.list) : i > pending.at}

\* RETURN_VOID from an event handler: the next one takes its frame, or the
\* firing frame resumes with nothing pushed
NextHandler ==
    /\ Fetch("retvoid") /\ EndsHandler
    /\ \E i \in Remaining :
         LET f     == Resolve[pending.list[i]]
             depth == EntryDepth(sp)
         IN /\ \A j \in Remaining : i <= j
            /\ pending' = [pending EXCEPT !.at = i]
            /\ sp' = depth
            /\ IF depth + Peak[f] <= StackMax
                 THEN /\ frames' = [frames EXCEPT ![fc] =
                                      [fn |-> f, pc |-> 1, base |-> depth]]
                      /\ UNCHANGED <<fc, control>>
                 ELSE Abort /\ fc' = fc - 1 /\ UNCHANGED frames
    /\ DropHandlers(fc - 1)
    /\ UNCHANGED <<handlers, known, table, objects>>

FireDone_WithHandlersLeft ==
    /\ Fetch("retvoid") /\ EndsHandler
    /\ Leave
    /\ sp' = EntryDepth(sp)
    /\ pending' = [pending EXCEPT !.active = FALSE]
    /\ UNCHANGED <<known, table, objects, control>>

FireDone_StaysActive ==
    /\ Fetch("retvoid") /\ EndsHandler
    /\ Remaining = {}
    /\ Leave
    /\ sp' = EntryDepth(sp)
    /\ UNCHANGED <<known, table, pending, objects, control>>

FireDone ==
    /\ Fetch("retvoid") /\ EndsHandler
    /\ Remaining = {}
    /\ Leave
    /\ sp' = EntryDepth(sp)
    /\ pending' = [pending EXCEPT !.active = FALSE]
    /\ UNCHANGED <<known, table, objects, control>>

MatchFailure == Fetch("fail") /\ Fail

(***************************************************************************)
(* Exceptions                                                              *)
(***************************************************************************)
Try ==
    /\ Fetch("try")
    /\ IF hc < HandlerMax
         THEN /\ hc' = hc + 1
              /\ handlers' = [handlers EXCEPT ![hc + 1] =
                                [fn |-> Top.fn, pc |-> Instr.to, depth |-> fc, sp |-> sp]]
              /\ Advance
              /\ UNCHANGED <<fc, sp, events, objects, control>>
         ELSE Fail

EndTry ==
    /\ Fetch("endtry")
    /\ hc' = IF hc > 0 THEN hc - 1 ELSE 0
    /\ Advance
    /\ UNCHANGED <<fc, sp, handlers, events, objects, control>>

Throw_KeepsHandler ==
    /\ Fetch("throw") /\ hc > 0
    /\ LET h == handlers[hc] IN
         /\ fc' = h.depth /\ sp' = h.sp
         /\ frames' = [frames EXCEPT ![h.depth] = [fn |-> h.fn, pc |-> h.pc, base |-> @.base]]
    /\ UNCHANGED <<handlers, hc, events, objects, control>>

\* THROW: the topmost handler, whatever frame it was pushed from
Throw ==
    /\ Fetch("throw")
    /\ \/ (Instr.fails \/ hc = 0) /\ Fail
       \/ /\ hc > 0
          /\ LET h == handlers[hc] IN
               /\ fc' = h.depth /\ sp' = h.sp
               /\ frames' = [frames EXCEPT ![h.depth] = [fn |-> h.fn, pc |-> h.pc, base |-> @.base]]
          /\ hc' = hc - 1
          /\ UNCHANGED <<handlers, events, objects, control>>

(***************************************************************************)
(* Events                                                                  *)
(***************************************************************************)
Register(e) == known' = known \cup {e}
TooManyEvents(e) == e \notin known /\ Cardinality(known) >= EventMax

\* a bound receiver that is null matches no entry
Matches(s, t, bound) ==
    /\ s.name = t.name
    /\ s.recv = t.recv
    /\ bound <=> t.recv # NoRecv

\* EVENT_SUBSCRIBE and EVENT_SUBSCRIBE_BOUND: a full table is not an error
Subscribe ==
    /\ Fetch("subscribe")
    /\ \E s \in Instr.subs :
         LET old     == table[Instr.ev]
             already == \E i \in 1..Len(old) : Matches(old[i], s, Instr.bound)
         IN IF TooManyEvents(Instr.ev) THEN Fail
            ELSE /\ Register(Instr.ev)
                 /\ table' = IF already \/ Len(old) >= EventHandlersMax THEN table
                             ELSE [table EXCEPT ![Instr.ev] = Append(@, s)]
                 /\ sp' = sp - Instr.pops /\ Advance
                 /\ UNCHANGED <<fc, handlers, hc, pending, objects, control>>

\* the last entry takes the place of the removed one
SwapRemove_KeepsLast(q, i) == [q EXCEPT ![i] = q[Len(q)]]
SwapRemove(q, i) ==
    [j \in 1..(Len(q) - 1) |-> IF j = i THEN q[Len(q)] ELSE q[j]]

Unsubscribe ==
    /\ Fetch("unsubscribe")
    /\ \E s \in Instr.subs :
         LET old  == table[Instr.ev]
             hits == {i \in 1..Len(old) : Matches(old[i], s, Instr.bound)}
         IN IF TooManyEvents(Instr.ev) THEN Fail
            ELSE /\ Register(Instr.ev)
                 /\ IF hits = {} THEN UNCHANGED table
                    ELSE \E i \in hits :
                           /\ \A j \in hits : i <= j
                           /\ table' = [table EXCEPT ![Instr.ev] = SwapRemove(@, i)]
                 /\ sp' = sp - Instr.pops /\ Advance
                 /\ UNCHANGED <<fc, handlers, hc, pending, objects, control>>

FireNobody ==
    /\ Fetch("fire") /\ Resolvable(table[Instr.ev]) = {}
    /\ sp' = sp - Instr.pops
    /\ Advance
    /\ UNCHANGED <<fc, handlers, hc, events, objects, control>>

Snapshot_BaseAfterPush(list, i) == [active |-> TRUE, list |-> list, at |-> i, base |-> fc + 1]
Snapshot(list, i)               == [active |-> TRUE, list |-> list, at |-> i, base |-> fc]

\* the snapshot replaces whatever fire was pending
Fire ==
    /\ Fetch("fire")
    /\ \E i \in Resolvable(table[Instr.ev]) :
         LET f     == Resolve[table[Instr.ev][i]]
             argc  == IF Instr.pops < EventArgsMax THEN Instr.pops ELSE EventArgsMax
         IN /\ \A j \in Resolvable(table[Instr.ev]) : i <= j
            /\ pending' = Snapshot(table[Instr.ev], i)
            /\ IF CanPush(f, sp - argc)
                 THEN Enter(f, sp - argc) /\ UNCHANGED control
                 ELSE Halt
    /\ UNCHANGED <<known, table, objects>>

Execute ==
    \/ Plain \/ Jump \/ Branch \/ Coalesce \/ Call \/ New
    \/ Return \/ ReturnVoid \/ NextHandler \/ FireDone \/ MatchFailure
    \/ Try \/ EndTry \/ Throw
    \/ Subscribe \/ Unsubscribe \/ FireNobody \/ Fire
    \/ BudgetExceeded

HostCallStep == StartSinit \/ StartEntry \/ Finish \/ Execute

Next == BeginRun \/ BeginLoad \/ Recreate \/ HostCallStep

Spec == Init /\ [][Next]_vars

\* xeno_execute is a loop on the host's thread: once called it keeps going.
FairSpec == Spec /\ WF_vars(HostCallStep)

(***************************************************************************)
(* Properties                                                              *)
(***************************************************************************)
Frame   == [fn : Fns \cup {NoFn}, pc : Nat, base : Int]
Handler == [fn : Fns \cup {NoFn}, pc : Nat, depth : 0..FrameMax, sp : Int]
Pending == [active : BOOLEAN, list : Seq(Subs), at : Nat, base : 0..FrameMax]

MachineTyped ==
    /\ frames \in [1..FrameMax -> Frame] /\ fc \in 0..FrameMax
    /\ sp \in Int
    /\ handlers \in [1..HandlerMax -> Handler] /\ hc \in 0..HandlerMax

EventsTyped ==
    /\ known \subseteq Events /\ table \in [Events -> Seq(Subs)]
    /\ \A e \in Events : Len(table[e]) <= EventHandlersMax
    /\ pending \in Pending

HostTyped ==
    /\ count \in Nat
    /\ objects \in Nat /\ (MaxObjects > 0 => objects <= MaxObjects)
    /\ host \in {"idle", "run", "load"} /\ todo \in Seq(Fns)
    /\ entry \in Fns \cup {NoFn}
    /\ exec \in BOOLEAN /\ result \in {"none", "ok", "error"}
    /\ exec => host # "idle" /\ fc > 0

\* The machine's fields keep their C types and stay within their arrays:
\* frame_count within frames, handler_count within handlers, every event's
\* subscriptions within XENO_MAX_EVENT_HANDLERS, the objects within
\* max_objects (all of source/vm/vm.c).
TypeOK == MachineTyped /\ EventsTyped /\ HostTyped

\* an instruction of a chunk that the verifier reached
Verified(fn, pc) == fn \in Fns /\ pc \in 1..Len(Code[fn]) /\ Lo[fn][pc] >= 0

\* Whatever scripts throw and fire, every live frame and every catch clause
\* THROW may take is at an instruction the verifier reached: no jump, return,
\* catch or next event handler sends ip elsewhere.
ControlFlowIntegrity ==
    exec => /\ \A i \in 1..fc : Verified(frames[i].fn, frames[i].pc)
            /\ \A k \in 1..hc : Verified(handlers[k].fn, handlers[k].pc)

(***************************************************************************)
(* The value stack.  What frame i holds on it ends at sp for the running   *)
(* frame and, for a frame that waits for the next one to return, where     *)
(* that return will leave sp.                                              *)
(***************************************************************************)
AwaitsHandlers(i) == pending.active /\ pending.base = i

ReturnPushes(i) ==
    IF AwaitsHandlers(i - 1) \/ IsCtor[frames[i].fn] THEN 0 ELSE 1

EndOf(i) == IF i = fc THEN sp ELSE frames[i + 1].base + ReturnPushes(i + 1)

Within(depth, fn, pc) == Lo[fn][pc] <= depth /\ depth <= Hi[fn][pc]

\* While bytecode runs, every frame holds on the value stack a number of
\* values the verifier predicted for the instruction it is at: what a call, a
\* constructor, a fire or a catch leaves behind is what ver_chunk assumed.
StackDiscipline ==
    exec => \A i \in 1..fc : Within(EndOf(i) - frames[i].base, frames[i].fn, frames[i].pc)

\* The opcode about to run finds its operands above its frame's base_sp and
\* its results fit in vm->stack, although most opcodes test neither.
OperandsInFrame ==
    exec => /\ Top.base <= sp - Instr.pops
            /\ 0 <= Top.base
            /\ sp - Instr.pops + Instr.pushes <= StackMax

\* THROW may take any handler on the stack: its frame is live, its catch is in
\* that frame's chunk, and its sp is a depth the verifier predicted there.
HandlersLive ==
    exec => \A k \in 1..hc :
              LET h == handlers[k] IN
              /\ h.depth <= fc
              /\ h.fn = frames[h.depth].fn
              /\ Within(h.sp - frames[h.depth].base, h.fn, h.pc)

\* "pending_fire_active = true while a fire is in progress" (includes/vm.h):
\* the handler it waits for is a live frame above the firing one.
PendingInProgress ==
    exec /\ pending.active => 0 < pending.base /\ pending.base < fc

(***************************************************************************)
(* Scripts the VM executes as their compiler means them.  The single       *)
(* pending fire and the reset at the start of a run leave these out:       *)
(***************************************************************************)
NestedFire    == pending.active /\ Instr.op = "fire"
EscapingThrow == pending.active /\ Instr.op = "throw" /\ hc > 0
                   /\ handlers[hc].depth <= pending.base
HandlerReturnsValue == Instr.op = "ret" /\ EndsHandler

\* No bytecode starts with the exception handlers of a call that failed inside
\* a try block.
CleanStart == host # "idle" /\ ~exec => hc = 0

\* No fire inside a fire, no exception out of an event handler, no event
\* handler with a return value, no run or __sinit__ after one that failed
\* inside a try block or an event handler.
Disciplined ==
    /\ CleanStart
    /\ host # "idle" /\ ~exec => ~pending.active
    /\ exec => ~NestedFire /\ ~EscapingThrow /\ ~HandlerReturnsValue

(***************************************************************************)
(* Disciplined scripts see the events of EventDispatch: the subscribers    *)
(* are the entries of event_table, the handler running is the chunk of the *)
(* frame above the firing one, and what the fire still owes is the rest    *)
(* of its snapshot.                                                        *)
(***************************************************************************)
Firing == exec /\ pending.active

Dispatch == INSTANCE EventDispatch WITH
    Handler    <- Resolve,
    Nothing    <- NoFn,
    Capacity   <- EventHandlersMax,
    live       <- exec,
    subscribed <- [e \in Events |-> {table[e][i] : i \in 1..Len(table[e])}],
    running    <- IF Firing THEN frames[pending.base + 1].fn ELSE NoFn,
    owed       <- IF Firing THEN {pending.list[i] : i \in Remaining} ELSE {}

\* A fire calls every handler subscribed when it starts once, whatever the
\* handlers subscribe, unsubscribe, call or catch, and unless the host call
\* fails it calls them all: EVENT_FIRE's snapshot and RETURN_VOID's walk of it
\* implement EventDispatch.
FiresEachHandlerOnce == Dispatch!FairSpec

\* instr_budget bounds every host call, whatever bytecode it runs: it comes
\* back to the host, although nothing bounds a loop or a chain of events
\* (__sinit__ chunks of a load share what is left of the budget).
HostCallsReturn == Budget > 0 => (host # "idle" ~> host = "idle")

\* No handler is registered twice: a try block that was left, by its end, by a
\* catch or with its frame, has taken its handler with it, so that
\* XENO_HANDLER_MAX bounds the nesting of try blocks, as its comment says.
OneHandlerPerTry ==
    exec => \A j, k \in 1..hc :
              handlers[j].depth = handlers[k].depth /\ handlers[j].pc = handlers[k].pc
                => j = k

\* An event never holds a subscription twice, whatever order handlers are
\* added, removed and swapped in.
NoDuplicateSubscription ==
    \A e \in Events : \A i, j \in 1..Len(table[e]) : table[e][i] = table[e][j] => i = j
=============================================================================
