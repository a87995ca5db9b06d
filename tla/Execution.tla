----------------------------- MODULE Execution -----------------------------
(***************************************************************************)
(* xeno_execute (source/vm/vm.c) on one frame, with the values: what the   *)
(* chunk of a method does to its slots, its operands, its handlers and the *)
(* host.  XenoVM has the frames and the limits, and no values.             *)
(*                                                                         *)
(* What a run calls, host functions and methods, and what it sets in its   *)
(* own object is all that the world sees of it: trace has the calls,       *)
(* fields what the object's slots hold.  A call answers with any number of *)
(* Answers, or makes what Makes says; a run stops at the call after the    *)
(* last of AnswersMax answers.  Slots has the methods of each class.       *)
(***************************************************************************)
EXTENDS Values, Sequences

CONSTANTS FrameSlots, Answers, AnswersMax, Makes, Slots

VARIABLES code, pc, stack, slots, fields, handlers, caught, trace, heard, outcome

machine == <<code, pc, stack, slots, fields, handlers, caught, trace, heard, outcome>>

Outcome(how, val) == [how |-> how, val |-> val]
Running == Outcome("running", Null)

\* this, where the method has one, and the arguments get the first slots
Start(chunk, args, fieldCount) ==
    /\ code = chunk
    /\ pc = 1 /\ stack = <<>> /\ handlers = <<>>
    /\ slots = [k \in 0..(FrameSlots - 1) |-> IF k < Len(args) THEN args[k + 1] ELSE Stale]
    /\ fields = [k \in 0..(fieldCount - 1) |-> Null]
    /\ caught = Null /\ trace = <<>> /\ heard = <<>> /\ outcome = Running

Top == stack[Len(stack)]
Under == stack[Len(stack) - 1]
Popped(n) == SubSeq(stack, 1, Len(stack) - n)
Operands(n) == SubSeq(stack, Len(stack) - n + 1, Len(stack))

I == code[pc]
Fetch(names) == outcome.how = "running" /\ I.name \in names
Advance == pc' = pc + 1

\* n operands give way to one result
Compute(n, val) ==
    /\ stack' = Append(Popped(n), val) /\ Advance
    /\ UNCHANGED <<code, slots, fields, handlers, caught, trace, heard, outcome>>

Constant == \/ Fetch({"LOAD_CONST_INT", "LOAD_CONST_BOOL"}) /\ Compute(0, IntVal(I.arg))
            \/ Fetch({"LOAD_CONST_STR"}) /\ Compute(0, StrVal(I.arg))
            \/ Fetch({"LOAD_CONST_FLOAT"}) /\ Compute(0, FloatVal(I.arg))

LoadLocal == Fetch({"LOAD_LOCAL"}) /\ Compute(0, slots[I.arg])

StoreLocal ==
    /\ Fetch({"STORE_LOCAL"})
    /\ slots' = [slots EXCEPT ![I.arg] = Top]
    /\ stack' = Popped(1) /\ Advance
    /\ UNCHANGED <<code, fields, handlers, caught, trace, heard, outcome>>

Drop ==
    /\ Fetch({"POP"})
    /\ stack' = Popped(1) /\ Advance
    /\ UNCHANGED <<code, slots, fields, handlers, caught, trace, heard, outcome>>

AddOrCompare ==
    \/ Fetch({"ADD_INT"}) /\ Compute(2, IntVal(Under.v + Top.v))
    \/ Fetch({"CMP_LT_INT"}) /\ Compute(2, BoolVal(Under.v < Top.v))
    \/ Fetch({"CMP_EQ_INT"}) /\ Compute(2, BoolVal(Under.v = Top.v))

\* TRUNC_*: the C cast to that width
Unsigned(v, w) == v % (2 ^ w)
Signed(v, w)   == ((v + 2 ^ (w - 1)) % (2 ^ w)) - 2 ^ (w - 1)
Truncate == \/ Fetch({"TRUNC_U8"}) /\ Compute(1, IntVal(Unsigned(Top.v, 8)))

\* an array is known by its length, an element by its index
Array == \/ Fetch({"NEW_ARRAY"}) /\ Compute(1, ArrayVal(Top.v))
         \/ Fetch({"ARRAY_LEN"}) /\ Compute(1, IntVal(Top.v))
         \/ Fetch({"ARRAY_GET"}) /\ Compute(2, ItemVal(Top.v))

NewObject == Fetch({"NEW"}) /\ Compute(I.n, Object(I.sym))

\* what the instruction calls, and with how many operands
Calls  == {"CALL_HOST", "CALL_METHOD"}
Taken  == IF I.name = "CALL_METHOD" THEN I.n + 1 ELSE I.n
Callee == IF I.name = "CALL_METHOD" THEN Slots[Head(Operands(Taken)).cls][I.arg + 1] ELSE I.sym

Called(val) ==
    /\ stack' = Append(Popped(Taken), val)
    /\ trace' = Append(trace, [fn |-> Callee, args |-> Operands(Taken)])
    /\ Advance
    /\ UNCHANGED <<code, slots, fields, handlers, caught, outcome>>

CallMade == Fetch(Calls) /\ Callee \in DOMAIN Makes /\ Called(Makes[Callee]) /\ UNCHANGED heard

CallAnswered ==
    /\ Fetch(Calls) /\ Callee \notin DOMAIN Makes /\ Len(heard) < AnswersMax
    /\ \E a \in Answers : Called(IntVal(a)) /\ heard' = Append(heard, a)

Jump ==
    /\ Fetch({"JUMP"})
    /\ pc' = I.to
    /\ UNCHANGED <<code, stack, slots, fields, handlers, caught, trace, heard, outcome>>

JumpIfFalse ==
    /\ Fetch({"JUMP_IF_FALSE"})
    /\ pc' = IF Top.v = 0 THEN I.to ELSE pc + 1
    /\ stack' = Popped(1)
    /\ UNCHANGED <<code, slots, fields, handlers, caught, trace, heard, outcome>>

Leave_KeepsHandlers(result) ==
    /\ outcome' = result /\ stack' = <<>>
    /\ UNCHANGED <<code, pc, slots, fields, handlers, caught, trace, heard>>

\* the frame's handlers go with it
Leave(result) ==
    /\ outcome' = result /\ handlers' = <<>> /\ stack' = <<>>
    /\ UNCHANGED <<code, pc, slots, fields, caught, trace, heard>>

Return     == Fetch({"RETURN"}) /\ Leave(Outcome("returned", Top))
ReturnVoid == Fetch({"RETURN_VOID"}) /\ Leave(Outcome("returned", Null))
MatchFail  == Fetch({"MATCH_FAIL"}) /\ Leave(Outcome("failed", Null))

TryBegin ==
    /\ Fetch({"TRY_BEGIN"})
    /\ handlers' = Append(handlers, [to |-> I.to, depth |-> Len(stack)]) /\ Advance
    /\ UNCHANGED <<code, stack, slots, fields, caught, trace, heard, outcome>>

TryEnd ==
    /\ Fetch({"TRY_END"})
    /\ handlers' = SubSeq(handlers, 1, Len(handlers) - 1) /\ Advance
    /\ UNCHANGED <<code, stack, slots, fields, caught, trace, heard, outcome>>

Throw ==
    /\ Fetch({"THROW"})
    /\ IF handlers = <<>> THEN Leave(Outcome("thrown", Top))
       ELSE /\ pc' = handlers[Len(handlers)].to
            /\ stack' = SubSeq(stack, 1, handlers[Len(handlers)].depth)
            /\ handlers' = SubSeq(handlers, 1, Len(handlers) - 1)
            /\ caught' = Top
            /\ UNCHANGED <<code, slots, fields, trace, heard, outcome>>

LoadThis == Fetch({"LOAD_THIS"}) /\ Compute(0, slots[0])

SetField ==
    /\ Fetch({"SET_FIELD"})
    /\ IF I.arg \notin DOMAIN fields THEN Leave(Outcome("failed", Null))
       ELSE /\ fields' = [fields EXCEPT ![I.arg] = Top]
            /\ stack' = Popped(2) /\ Advance
            /\ UNCHANGED <<code, slots, handlers, caught, trace, heard, outcome>>

LoadException == Fetch({"LOAD_EXCEPTION"}) /\ Compute(0, caught)

ExceptionIsType == Fetch({"EXCEPTION_IS_TYPE"}) /\ Compute(0, BoolVal(IsClass(caught.cls, I.sym)))

Step ==
    \/ Constant \/ LoadLocal \/ StoreLocal \/ Drop \/ AddOrCompare \/ Truncate \/ Array \/ NewObject
    \/ CallMade \/ CallAnswered \/ Jump \/ JumpIfFalse \/ Return \/ ReturnVoid \/ MatchFail
    \/ TryBegin \/ TryEnd \/ Throw \/ LoadException \/ ExceptionIsType \/ LoadThis \/ SetField

\* the answers are used up
Waiting == Fetch(Calls) /\ Callee \notin DOMAIN Makes /\ Len(heard) = AnswersMax
Ended   == outcome.how # "running" \/ Waiting
=============================================================================
