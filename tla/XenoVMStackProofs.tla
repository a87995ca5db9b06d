------------------------- MODULE XenoVMStackProofs -------------------------
(***************************************************************************)
(* The value stack of XenoVM: for scripts that are Disciplined, every      *)
(* frame's part of it is as deep as the verifier predicted, whatever the   *)
(* program and the limits.                                                 *)
(*                                                                         *)
(* The argument follows the frames.  A frame that waits for the next one   *)
(* knows where that one's return will leave sp (EndOf); the pending fire   *)
(* decides whether the return pushes a value, so a call, a fire, a return  *)
(* or a throw must not change that answer for the frames that stay.        *)
(***************************************************************************)
EXTENDS XenoVMProofs

\* frame i's part of the stack lies within the stack and is as deep as the
\* verifier predicted at the instruction the frame is at
BaseFits(i)  == frames[i].base \in 0..StackMax /\ frames[i].base + Peak[frames[i].fn] <= StackMax
DepthFits(i) == Within(EndOf(i) - frames[i].base, frames[i].fn, frames[i].pc)

\* so is the part it will have if handler k catches
CatchFits(k) == Within(handlers[k].sp - frames[handlers[k].depth].base,
                       handlers[k].fn, handlers[k].pc)

Layout ==
    /\ \A i \in 1..fc : BaseFits(i) /\ DepthFits(i)
    /\ \A k \in 1..hc : CatchFits(k)
    /\ pending.active => 0 < pending.base /\ pending.base < fc

StackInv ==
    /\ exec => Layout
    /\ host = "run" /\ ~exec => sp >= 0

(***************************************************************************)
(* What the verifier knows about depths                                    *)
(***************************************************************************)
LEMMA VerifiedDepth ==
    ASSUME NEW f, NEW pc, Verified(f, pc), NEW d \in Int, Within(d, f, pc)
    PROVE  LET i == Code[f][pc] IN
           /\ i.pops <= d /\ d <= Peak[f] /\ Peak[f] \in Int
           /\ ~Terminates(i) /\ i.op \notin {"jump", "coalesce"} =>
                /\ Within(d - i.pops + i.pushes, f, pc + 1)
                /\ d - i.pops + i.pushes <= Peak[f]
           /\ i.op \in {"jump", "branch", "try"} => Within(d - i.pops + i.pushes, f, i.to)
           /\ i.op = "coalesce" => Within(d, f, i.to) /\ Within(d - 1, f, pc + 1)
<1> DEFINE i == Code[f][pc]
<1>1. f \in Fns /\ pc \in 1..Len(Code[f]) /\ Lo[f][pc] >= 0
  BY DEF Verified
<1>2. Accepted(Code[f], Lo[f], Hi[f], Peak[f], StackMax)
  BY <1>1, CodeAssumption DEF VerifiedCode
<1>3. i.pops \in Nat /\ i.pushes \in Nat /\ Delta(i) = i.pushes - i.pops
  BY VerifiedStep DEF Instruction, Delta
<1>4. Peak[f] \in Int /\ Lo[f][pc] \in Int /\ Hi[f][pc] \in Int
  BY <1>1, CodeAssumption DEF TypedCode
<1>5. i.pops <= Lo[f][pc] /\ Hi[f][pc] <= Peak[f]
  BY <1>1, <1>2 DEF Accepted
<1>6. i.pops <= d /\ d <= Peak[f]
  BY <1>3, <1>4, <1>5 DEF Within
<1>7. ASSUME NEW e \in Edges(i, pc), NEW c \in Int, e.min <= c, c <= e.max, e.min \in Int, e.max \in Int
      PROVE  Within(d + c, f, e.to) /\ d + c <= Peak[f]
  <2>1. /\ e.to \in 1..Len(Code[f]) /\ 0 <= Lo[f][e.to]
        /\ Lo[f][e.to] <= Lo[f][pc] + e.min /\ Hi[f][pc] + e.max <= Hi[f][e.to]
    BY <1>1, <1>2 DEF Accepted
  <2>2. Lo[f][e.to] \in Int /\ Hi[f][e.to] \in Int
    BY <1>1, <2>1, CodeAssumption DEF TypedCode
  <2>3. Hi[f][e.to] <= Peak[f]
    BY <1>2, <2>1, <2>2 DEF Accepted
  <2>4. Lo[f][pc] <= d /\ d <= Hi[f][pc]
    BY DEF Within
  <2>5. Lo[f][e.to] <= d + c
    BY <1>4, <1>7, <2>1, <2>2, <2>4
  <2>6. d + c <= Hi[f][e.to]
    BY <1>4, <1>7, <2>1, <2>2, <2>4
  <2>7. d + c <= Peak[f]
    BY <1>4, <1>7, <2>2, <2>3, <2>6
  <2> QED BY <2>5, <2>6, <2>7 DEF Within
<1>8. ASSUME ~Terminates(i), i.op \notin {"jump", "coalesce"}
      PROVE  /\ Within(d - i.pops + i.pushes, f, pc + 1)
             /\ d - i.pops + i.pushes <= Peak[f]
  <2> DEFINE e == [to |-> pc + 1, min |-> Delta(i), max |-> Delta(i)]
  <2>1. e \in Edges(i, pc)
    BY <1>8 DEF Edges
  <2>2. Delta(i) \in Int /\ d + Delta(i) = d - i.pops + i.pushes
    BY <1>3
  <2>3. Within(d + Delta(i), f, e.to) /\ d + Delta(i) <= Peak[f]
    BY <1>7, <2>1, <2>2
  <2> QED BY <2>2, <2>3
<1>9. ASSUME i.op \in {"jump", "branch", "try"}
      PROVE  Within(d - i.pops + i.pushes, f, i.to)
  <2> DEFINE e == [to |-> i.to, min |-> Delta(i), max |-> Delta(i)]
  <2>1. e \in Edges(i, pc)
    BY <1>9 DEF Edges
  <2>2. Delta(i) \in Int /\ d + Delta(i) = d - i.pops + i.pushes
    BY <1>3
  <2>3. Within(d + Delta(i), f, e.to)
    BY <1>7, <2>1, <2>2
  <2> QED BY <2>2, <2>3
<1>10. ASSUME i.op = "coalesce"
       PROVE  Within(d, f, i.to) /\ Within(d - 1, f, pc + 1)
  <2> DEFINE e == [to |-> i.to, min |-> 0, max |-> 0]
             g == [to |-> pc + 1, min |-> -1, max |-> 0]
  <2>1. e \in Edges(i, pc) /\ g \in Edges(i, pc)
    BY <1>10 DEF Edges, Terminates
  <2>2. Within(d + 0, f, e.to)
    BY <1>7, <2>1
  <2>3. Within(d + (-1), f, g.to)
    BY <1>7, <2>1
  <2> QED BY <2>2, <2>3
<1> QED BY <1>4, <1>6, <1>8, <1>9, <1>10

(***************************************************************************)
(* What the pieces of an action do to the layout                           *)
(***************************************************************************)
\* The running frame is as deep as predicted, and its base is on the stack.
LEMMA TopLayout ==
    ASSUME Inv, exec, Layout
    PROVE  /\ Top.base \in 0..StackMax /\ Top.base + Peak[Top.fn] <= StackMax
           /\ Within(sp - Top.base, Top.fn, Top.pc) /\ Verified(Top.fn, Top.pc)
           /\ sp \in Int /\ sp - Top.base \in Int /\ Peak[Top.fn] \in Nat
           /\ EntryDepth(sp) = Top.base /\ EntryDepth(sp - 1) = Top.base
           /\ Top.base + 1 \in Int
<1>1. fc \in 1..fc /\ sp \in Int /\ Sound /\ StackMax \in Nat
  BY AtInstr, Limits
<1>2. BaseFits(fc) /\ DepthFits(fc) /\ Verified(Top.fn, Top.pc)
  BY <1>1 DEF Layout, Sound, Top
<1>3. Top.base \in 0..StackMax /\ Top.base + Peak[Top.fn] <= StackMax
  BY <1>2 DEF BaseFits, Top
<1>4. Within(sp - Top.base, Top.fn, Top.pc)
  BY <1>2 DEF DepthFits, EndOf, Top
<1>5. Top.fn \in Fns
  BY <1>2, VerifiedTyped
<1>6. Peak[Top.fn] \in Nat
  BY <1>5, ChunkStart, Limits
<1> QED BY <1>1, <1>2, <1>3, <1>4, <1>6 DEF EntryDepth

\* The frames below frame n keep what they have when they stay as they are and
\* the pending fire waits for the same of them.
LEMMA BelowFits ==
    ASSUME NEW n \in Nat, n <= fc, fc \in Nat, Layout,
           n <= fc', fc' \in Nat,
           \A i \in 1..n : frames'[i].fn = frames[i].fn /\ frames'[i].base = frames[i].base,
           \A i \in 1..(n - 1) : frames'[i].pc = frames[i].pc,
           \A i \in 1..(n - 1) : (pending'.active /\ pending'.base = i)
                                  <=> (pending.active /\ pending.base = i)
    PROVE  /\ \A i \in 1..n : BaseFits(i)'
           /\ \A i \in 1..(n - 1) : DepthFits(i)'
<1>1. ASSUME NEW i \in 1..n PROVE BaseFits(i)'
  <2>1. BaseFits(i)
    BY DEF Layout
  <2> QED BY <2>1 DEF BaseFits
<1>2. ASSUME NEW i \in 1..(n - 1) PROVE DepthFits(i)'
  <2>1. i # fc /\ i # fc' /\ i + 1 \in 1..n /\ i \in 1..fc /\ i \in 1..n /\ (i + 1) - 1 = i
    OBVIOUS
  <2>2. DepthFits(i)
    BY <2>1 DEF Layout
  <2>3. ReturnPushes(i + 1)' = ReturnPushes(i + 1)
    BY <2>1 DEF ReturnPushes, AwaitsHandlers
  <2>4. EndOf(i)' = frames'[i + 1].base + ReturnPushes(i + 1)'
    BY <2>1 DEF EndOf
  <2>5. EndOf(i) = frames[i + 1].base + ReturnPushes(i + 1)
    BY <2>1 DEF EndOf
  <2>6. EndOf(i)' = EndOf(i)
    BY <2>1, <2>3, <2>4, <2>5
  <2> QED BY <2>1, <2>2, <2>6 DEF DepthFits, Within
<1> QED BY <1>1, <1>2

\* ip moves within the running chunk; handlers come or go at the top.
LEMMA GotoLayout ==
    ASSUME Inv, exec, Layout, NEW pc, Goto(pc), Within(sp' - Top.base, Top.fn, pc),
           UNCHANGED <<fc, pending>>, hc' \in Nat,
           \A k \in 1..hc' : \/ k \in 1..hc /\ handlers'[k] = handlers[k]
                             \/ /\ handlers'[k].depth = fc /\ handlers'[k].fn = Top.fn
                                /\ Within(handlers'[k].sp - Top.base, Top.fn, handlers'[k].pc)
    PROVE  Layout'
<1>1. fc \in 1..FrameMax /\ frames \in [1..FrameMax -> Frame] /\ Sound /\ MachineTyped
  BY AtInstr DEF MachineTyped
<1>2. frames' = [frames EXCEPT ![fc] = [@ EXCEPT !.pc = pc]]
  BY DEF Goto
<1>3. /\ \A i \in 1..fc : frames'[i].fn = frames[i].fn /\ frames'[i].base = frames[i].base
      /\ \A i \in 1..(fc - 1) : frames'[i].pc = frames[i].pc
      /\ frames'[fc].pc = pc
  BY <1>1, <1>2 DEF Frame
<1>4. \A i \in 1..fc : BaseFits(i)' /\ (i # fc => DepthFits(i)')
  <2>1. fc \in Nat /\ fc <= fc /\ fc' \in Nat /\ fc <= fc'
    BY <1>1, Limits
  <2>2. (\A i \in 1..fc : BaseFits(i)') /\ (\A i \in 1..(fc - 1) : DepthFits(i)')
    BY <1>3, <2>1, BelowFits
  <2> QED BY <1>1, <2>2
<1>5. DepthFits(fc)'
  <2>1. frames'[fc].fn = Top.fn /\ frames'[fc].base = Top.base
    BY <1>1, <1>3 DEF Top
  <2> QED BY <1>1, <1>3, <2>1 DEF DepthFits, EndOf, Within
<1>6. ASSUME NEW k \in 1..hc' PROVE CatchFits(k)'
  <2>1. CASE k \in 1..hc /\ handlers'[k] = handlers[k]
    <3>1. CatchFits(k) /\ handlers[k].depth \in 1..fc
      BY <1>1, <2>1 DEF Layout, Sound
    <3> QED BY <1>3, <2>1, <3>1 DEF CatchFits, Within
  <2>2. CASE /\ handlers'[k].depth = fc /\ handlers'[k].fn = Top.fn
             /\ Within(handlers'[k].sp - Top.base, Top.fn, handlers'[k].pc)
    <3>1. frames'[handlers'[k].depth].base = Top.base
      BY <1>1, <1>3, <2>2 DEF Top
    <3> QED BY <2>2, <3>1 DEF CatchFits, Within
  <2> QED BY <2>1, <2>2
<1>7. (\A i \in 1..fc : BaseFits(i) /\ DepthFits(i))'
  BY <1>4, <1>5
<1>8. (\A k \in 1..hc : CatchFits(k))'
  BY <1>6
<1>9. (pending.active => 0 < pending.base /\ pending.base < fc)'
  BY DEF Layout
<1> QED BY <1>7, <1>8, <1>9 DEF Layout

\* A catch clause fits as long as the frame it belongs to keeps its base.
LEMMA CatchesKept ==
    ASSUME Sound, Layout, NEW n \in Nat, n <= fc, fc \in Nat, hc \in Nat, hc' \in 0..hc,
           handlers' = handlers,
           \A k \in 1..hc' : handlers[k].depth <= n,
           \A i \in 1..n : frames'[i].base = frames[i].base
    PROVE  (\A k \in 1..hc : CatchFits(k))'
<1> SUFFICES ASSUME NEW k \in 1..hc' PROVE CatchFits(k)'
  OBVIOUS
<1>1. k \in 1..hc
  OBVIOUS
<1>2. CatchFits(k) /\ handlers[k].depth \in 1..n
  BY <1>1 DEF Layout, Sound
<1> QED BY <1>1, <1>2 DEF CatchFits, Within

\* The callee starts at depth 0, and will leave the caller what the verifier
\* predicted at its next instruction.
LEMMA EnterLayout ==
    ASSUME Inv, exec, Layout, NEW f \in Fns, NEW depth \in 0..StackMax, CanPush(f, depth),
           Verified(Top.fn, Top.pc + 1), Enter(f, depth), NEW left \in {0, 1},
           left = IF (pending'.active /\ pending'.base = fc) \/ IsCtor[f] THEN 0 ELSE 1,
           Within(depth + left - Top.base, Top.fn, Top.pc + 1),
           \A i \in 1..(fc - 1) : (pending'.active /\ pending'.base = i)
                                  <=> (pending.active /\ pending.base = i),
           pending'.active => pending'.base \in 1..fc
    PROVE  Layout'
<1>1. /\ MachineTyped /\ Sound /\ fc \in Nat /\ fc > 0 /\ fc - 1 \in Nat
      /\ fc < FrameMax /\ depth + Peak[f] <= StackMax /\ depth \in Int /\ hc \in Nat
  BY AtInstr, Limits DEF CanPush, MachineTyped
<1>2. /\ fc' = fc + 1 /\ sp' = depth /\ handlers' = handlers /\ hc' = hc
      /\ frames'[fc] = [Top EXCEPT !.pc = @ + 1]
      /\ frames'[fc + 1] = [fn |-> f, pc |-> 1, base |-> depth]
      /\ \A i \in 1..(fc - 1) : frames'[i] = frames[i]
  BY <1>1, EnterSound DEF Enter
<1>3. Top \in Frame
  BY <1>1 DEF MachineTyped, Top
<1>4. frames'[fc].fn = Top.fn /\ frames'[fc].pc = Top.pc + 1 /\ frames'[fc].base = Top.base
  BY <1>2, <1>3 DEF Frame
<1>5. \A i \in 1..fc : frames'[i].fn = frames[i].fn /\ frames'[i].base = frames[i].base
  <2>1. \A i \in 1..fc : i = fc \/ i \in 1..(fc - 1)
    BY <1>1
  <2> QED BY <1>2, <1>4, <2>1 DEF Top
<1>6. (\A i \in 1..fc : BaseFits(i)') /\ (\A i \in 1..(fc - 1) : DepthFits(i)')
  <2>1. fc <= fc /\ fc' \in Nat /\ fc <= fc'
    BY <1>1, <1>2
  <2> QED BY <1>1, <1>2, <1>5, <2>1, BelowFits
<1>7. ASSUME NEW i \in Nat, i = fc + 1 PROVE BaseFits(i)' /\ DepthFits(i)'
  <2>1. Within(0, f, 1)
    BY ChunkStart DEF Within
  <2>2. frames'[i].fn = f /\ frames'[i].pc = 1 /\ frames'[i].base = depth
    BY <1>2, <1>7
  <2>3. EndOf(i)' = depth
    BY <1>2, <1>7 DEF EndOf
  <2>4. BaseFits(i)'
    BY <1>1, <2>2 DEF BaseFits
  <2>5. depth - depth = 0
    BY <1>1
  <2> QED BY <2>1, <2>2, <2>3, <2>4, <2>5 DEF DepthFits, Within
<1>8. ASSUME NEW i \in Nat, i = fc PROVE DepthFits(i)'
  <2>1. frames'[i + 1].fn = f /\ frames'[i + 1].base = depth
    BY <1>2, <1>8
  <2>2. ReturnPushes(i + 1)' = left
    <3>1. (i + 1) - 1 = i
      OBVIOUS
    <3> QED BY <1>8, <2>1, <3>1 DEF ReturnPushes, AwaitsHandlers
  <2>3. i # fc'
    BY <1>1, <1>2, <1>8
  <2>4. EndOf(i)' = depth + left
    BY <2>1, <2>2, <2>3 DEF EndOf
  <2>5. frames'[i].fn = Top.fn /\ frames'[i].pc = Top.pc + 1 /\ frames'[i].base = Top.base
    BY <1>4, <1>8
  <2>6. EndOf(i)' - frames'[i].base = depth + left - Top.base
    <3>1. Top.base \in Int /\ depth + left \in Int
      BY <1>1, TopLayout, Limits
    <3> QED BY <2>4, <2>5, <3>1
  <2> QED BY <2>5, <2>6 DEF DepthFits, Within
<1>9. ASSUME NEW i \in 1..fc' PROVE BaseFits(i)' /\ DepthFits(i)'
  <2>1. i \in 1..(fc - 1) \/ i = fc \/ i = fc + 1
    BY <1>1, <1>2
  <2>2. CASE i \in 1..(fc - 1)
    BY <1>1, <1>6, <2>2
  <2>3. CASE i = fc
    BY <1>1, <1>6, <1>8, <2>3
  <2>4. CASE i = fc + 1
    BY <1>1, <1>7, <2>4
  <2> QED BY <2>1, <2>2, <2>3, <2>4
<1>10. (\A i \in 1..fc : BaseFits(i) /\ DepthFits(i))'
  BY <1>9
<1>11. (\A k \in 1..hc : CatchFits(k))'
  <2>1. \A k \in 1..hc' : handlers[k].depth <= fc
    BY <1>1, <1>2 DEF Sound
  <2> QED BY <1>1, <1>2, <1>5, <2>1, CatchesKept
<1>12. (pending.active => 0 < pending.base /\ pending.base < fc)'
  BY <1>1, <1>2
<1> QED BY <1>10, <1>11, <1>12 DEF Layout

\* The frame below takes over with the depth it was promised.
LEMMA LeaveLayout ==
    ASSUME Inv, exec, Layout, fc > 1, Leave, sp' = Top.base + ReturnPushes(fc),
           \A i \in 1..(fc - 2) : (pending'.active /\ pending'.base = i)
                                  <=> (pending.active /\ pending.base = i),
           pending'.active => 0 < pending'.base /\ pending'.base < fc - 1
    PROVE  Layout'
<1>1. /\ MachineTyped /\ Sound /\ fc \in Nat /\ fc - 1 \in Nat /\ fc - 1 <= fc /\ hc \in Nat
      /\ fc - 1 \in 1..fc
  BY AtInstr, Limits DEF MachineTyped
<1>2. fc' = fc - 1 /\ frames' = frames /\ handlers' = handlers /\ DropHandlers(fc - 1)
  BY DEF Leave
<1>3. hc' \in 0..hc /\ \A k \in 1..hc' : handlers[k].depth <= fc - 1
  BY <1>1, <1>2, DropSound
<1>4. (\A i \in 1..(fc - 1) : BaseFits(i)') /\ (\A i \in 1..((fc - 1) - 1) : DepthFits(i)')
  <2>1. (fc - 1) - 1 = fc - 2 /\ fc - 1 <= fc' /\ fc' \in Nat
    BY <1>1, <1>2
  <2> QED BY <1>1, <1>2, <2>1, BelowFits
<1>5. ASSUME NEW i \in Nat, i = fc - 1 PROVE DepthFits(i)'
  <2>1. i + 1 = fc /\ i # fc /\ i \in 1..fc
    BY <1>1, <1>5
  <2>2. EndOf(i) = Top.base + ReturnPushes(fc)
    BY <2>1 DEF EndOf, Top
  <2>3. EndOf(i)' = sp'
    BY <1>2, <1>5 DEF EndOf
  <2>4. DepthFits(i)
    BY <2>1 DEF Layout
  <2> QED BY <1>2, <2>2, <2>3, <2>4 DEF DepthFits, Within
<1>6. ASSUME NEW i \in 1..fc' PROVE BaseFits(i)' /\ DepthFits(i)'
  <2>1. i \in 1..((fc - 1) - 1) \/ i = fc - 1
    BY <1>1, <1>2
  <2> QED BY <1>1, <1>2, <1>4, <1>5, <2>1
<1>7. (\A i \in 1..fc : BaseFits(i) /\ DepthFits(i))'
  BY <1>6
<1>8. (\A k \in 1..hc : CatchFits(k))'
  BY <1>1, <1>2, <1>3, CatchesKept
<1>9. (pending.active => 0 < pending.base /\ pending.base < fc)'
  BY <1>2
<1> QED BY <1>7, <1>8, <1>9 DEF Layout

\* The next event handler starts where the previous one did.
LEMMA ReplaceLayout ==
    ASSUME Inv, exec, Layout, EndsHandler, NEW f \in Fns, Top.base + Peak[f] <= StackMax,
           frames' = [frames EXCEPT ![fc] = [fn |-> f, pc |-> 1, base |-> Top.base]],
           fc' = fc, sp' = Top.base, handlers' = handlers, DropHandlers(fc - 1),
           pending'.active <=> pending.active, pending'.base = pending.base
    PROVE  Layout'
<1>1. /\ MachineTyped /\ Sound /\ fc \in Nat /\ fc > 1 /\ fc - 1 \in Nat /\ fc - 1 <= fc
      /\ hc \in Nat /\ fc \in 1..FrameMax /\ pending.active /\ pending.base = fc - 1
  BY AtInstr, Limits DEF MachineTyped, EndsHandler
<1>2. hc' \in 0..hc /\ \A k \in 1..hc' : handlers[k].depth <= fc - 1
  BY <1>1, DropSound
<1>3. /\ frames'[fc] = [fn |-> f, pc |-> 1, base |-> Top.base]
      /\ \A i \in 1..(fc - 1) : frames'[i] = frames[i]
  BY <1>1 DEF MachineTyped
<1>4. (\A i \in 1..(fc - 1) : BaseFits(i)') /\ (\A i \in 1..((fc - 1) - 1) : DepthFits(i)')
  <2>1. fc - 1 <= fc' /\ fc' \in Nat
    BY <1>1
  <2>2. \A i \in 1..((fc - 1) - 1) : frames'[i] = frames[i]
    BY <1>1, <1>3
  <2> QED BY <1>1, <1>3, <2>1, <2>2, BelowFits
<1>5. ASSUME NEW i \in Nat, i = fc - 1 PROVE DepthFits(i)'
  <2>1. i + 1 = fc /\ i # fc /\ i \in 1..fc /\ (i + 1) - 1 = i /\ i \in 1..(fc - 1)
    BY <1>1, <1>5
  <2>2. frames'[i + 1].base = Top.base /\ frames[i + 1].base = Top.base
    BY <1>3, <2>1 DEF Top
  <2>3. ReturnPushes(i + 1) = 0
    BY <1>1, <1>5, <2>1 DEF ReturnPushes, AwaitsHandlers
  <2>4. ReturnPushes(i + 1)' = 0
    BY <1>1, <1>5, <2>1 DEF ReturnPushes, AwaitsHandlers
  <2>5. EndOf(i)' = EndOf(i)
    BY <2>1, <2>2, <2>3, <2>4 DEF EndOf
  <2>6. DepthFits(i)
    BY <2>1 DEF Layout
  <2> QED BY <1>3, <2>1, <2>5, <2>6 DEF DepthFits, Within
<1>6. ASSUME NEW i \in Nat, i = fc PROVE BaseFits(i)' /\ DepthFits(i)'
  <2>1. Within(0, f, 1)
    BY ChunkStart DEF Within
  <2>2. frames'[i].fn = f /\ frames'[i].pc = 1 /\ frames'[i].base = Top.base
    BY <1>3, <1>6
  <2>3. EndOf(i)' = Top.base
    BY <1>6 DEF EndOf
  <2>4. Top.base \in 0..StackMax /\ Top.base - Top.base = 0
    BY TopLayout, Limits
  <2>5. BaseFits(i)'
    BY <2>2, <2>4 DEF BaseFits
  <2> QED BY <2>1, <2>2, <2>3, <2>4, <2>5 DEF DepthFits, Within
<1>7. ASSUME NEW i \in 1..fc' PROVE BaseFits(i)' /\ DepthFits(i)'
  <2>1. i \in 1..((fc - 1) - 1) \/ i = fc - 1 \/ i = fc
    BY <1>1
  <2>2. CASE i = fc
    BY <1>6, <2>2
  <2>3. CASE i # fc
    <3>1. i \in 1..(fc - 1)
      BY <1>1, <2>3
    <3> QED BY <1>1, <1>4, <1>5, <2>1, <2>3, <3>1
  <2> QED BY <2>2, <2>3
<1>8. (\A i \in 1..fc : BaseFits(i) /\ DepthFits(i))'
  BY <1>7
<1>9. (\A k \in 1..hc : CatchFits(k))'
  BY <1>1, <1>2, <1>3, CatchesKept
<1>10. (pending.active => 0 < pending.base /\ pending.base < fc)'
  BY DEF Layout
<1> QED BY <1>8, <1>9, <1>10 DEF Layout

\* The catching frame resumes at its catch with the depth its try began with.
LEMMA ThrowLayout ==
    ASSUME Inv, exec, Layout, hc > 0, NEW n \in Nat, n = handlers[hc].depth,
           fc' = n, sp' = handlers[hc].sp, hc' = hc - 1,
           frames' = [frames EXCEPT ![n] = [fn |-> handlers[hc].fn, pc |-> handlers[hc].pc,
                                            base |-> @.base]],
           UNCHANGED <<handlers, pending>>, pending.active => pending.base < n
    PROVE  Layout'
<1>1. /\ MachineTyped /\ Sound /\ fc \in Nat /\ hc \in 1..hc /\ hc' \in 0..hc /\ hc \in Nat
      /\ frames \in [1..FrameMax -> Frame] /\ fc \in 1..FrameMax
  BY AtInstr, Limits DEF MachineTyped
<1>2. /\ n \in 1..fc /\ handlers[hc].fn = frames[n].fn /\ CatchFits(hc)
      /\ n \in 1..FrameMax
  <2>1. n \in 1..fc /\ handlers[hc].fn = frames[n].fn /\ CatchFits(hc)
    BY <1>1 DEF Sound, Layout
  <2> QED BY <1>1, <2>1, Limits
<1>3. /\ frames'[n] = [fn |-> handlers[hc].fn, pc |-> handlers[hc].pc, base |-> frames[n].base]
      /\ \A i \in 1..(n - 1) : frames'[i] = frames[i]
  BY <1>1, <1>2
<1>4. \A i \in 1..n : frames'[i].fn = frames[i].fn /\ frames'[i].base = frames[i].base
  <2>1. \A i \in 1..n : i = n \/ i \in 1..(n - 1)
    OBVIOUS
  <2> QED BY <1>2, <1>3, <2>1
<1>5. (\A i \in 1..n : BaseFits(i)') /\ (\A i \in 1..(n - 1) : DepthFits(i)')
  <2>1. n <= fc /\ n <= fc' /\ fc' \in Nat
    BY <1>1, <1>2
  <2> QED BY <1>1, <1>3, <1>4, <2>1, BelowFits
<1>6. DepthFits(n)'
  <2>1. EndOf(n)' = handlers[hc].sp
    BY DEF EndOf
  <2> QED BY <1>2, <1>3, <2>1 DEF DepthFits, CatchFits, Within
<1>7. ASSUME NEW i \in 1..fc' PROVE BaseFits(i)' /\ DepthFits(i)'
  BY <1>5, <1>6
<1>8. (\A i \in 1..fc : BaseFits(i) /\ DepthFits(i))'
  BY <1>7
<1>9. (\A k \in 1..hc : CatchFits(k))'
  <2>1. \A k \in 1..hc' : k \in 1..hc /\ k <= hc
    BY <1>1
  <2>2. \A k \in 1..hc' : handlers[k].depth <= n
    BY <1>1, <2>1 DEF Sound
  <2> QED BY <1>1, <1>2, <1>4, <2>2, CatchesKept
<1>10. (pending.active => 0 < pending.base /\ pending.base < fc)'
  BY DEF Layout
<1> QED BY <1>8, <1>9, <1>10 DEF Layout

(***************************************************************************)
(* The actions                                                             *)
(***************************************************************************)
\* The running instruction, as the verifier and the compiler know it.
LEMMA AtDepth ==
    ASSUME Inv, exec, Layout
    PROVE  /\ Top.base \in Int /\ Top.base >= 0 /\ Top.fn \in Fns
           /\ sp - Instr.pops >= Top.base /\ sp <= StackMax
           /\ ~Terminates(Instr) /\ Instr.op \notin {"jump", "coalesce"} =>
                /\ Within(sp - Instr.pops + Instr.pushes - Top.base, Top.fn, Top.pc + 1)
                /\ sp - Instr.pops + Instr.pushes <= StackMax
           /\ Instr.op \in {"jump", "branch", "try"} =>
                Within(sp - Instr.pops + Instr.pushes - Top.base, Top.fn, Instr.to)
           /\ Instr.op = "coalesce" =>
                /\ Within(sp - Top.base, Top.fn, Instr.to)
                /\ Within(sp - 1 - Top.base, Top.fn, Top.pc + 1)
<1> DEFINE d == sp - Top.base
<1>1. /\ Top.base \in Int /\ Top.base >= 0 /\ Top.base + Peak[Top.fn] <= StackMax
      /\ Peak[Top.fn] \in Int /\ StackMax \in Nat /\ sp \in Int /\ d \in Int
      /\ Within(d, Top.fn, Top.pc) /\ Verified(Top.fn, Top.pc)
  BY TopLayout, Limits
<1>2. Instr.pops \in Nat /\ Instr.pushes \in Nat
  BY AtInstr
<1> HIDE DEF d
<1>3. /\ Instr.pops <= d /\ d <= Peak[Top.fn]
      /\ ~Terminates(Instr) /\ Instr.op \notin {"jump", "coalesce"} =>
           /\ Within(d - Instr.pops + Instr.pushes, Top.fn, Top.pc + 1)
           /\ d - Instr.pops + Instr.pushes <= Peak[Top.fn]
      /\ Instr.op \in {"jump", "branch", "try"} =>
           Within(d - Instr.pops + Instr.pushes, Top.fn, Instr.to)
      /\ Instr.op = "coalesce" => Within(d, Top.fn, Instr.to) /\ Within(d - 1, Top.fn, Top.pc + 1)
  BY <1>1, VerifiedDepth DEF Instr
<1>4. /\ d - Instr.pops + Instr.pushes = sp - Instr.pops + Instr.pushes - Top.base
      /\ d - 1 = sp - 1 - Top.base
  BY <1>1, <1>2 DEF d
<1>5. sp - Instr.pops >= Top.base /\ sp <= StackMax
  BY <1>1, <1>2, <1>3 DEF d
<1>6. d - Instr.pops + Instr.pushes <= Peak[Top.fn] => sp - Instr.pops + Instr.pushes <= StackMax
  BY <1>1, <1>2 DEF d
<1>7. Top.fn \in Fns
  BY <1>1, VerifiedTyped
<1> QED BY <1>1, <1>3, <1>4, <1>5, <1>6, <1>7 DEF d

LEMMA AtCompiled ==
    ASSUME Inv, exec
    PROVE  /\ Instr.op = "ret"  => ~IsCtor[Top.fn]
           /\ Instr.op = "call" => \A g \in Instr.fns : Instr.pushes = (IF IsCtor[g] THEN 0 ELSE 1)
           /\ Instr.op = "new"  => /\ Instr.pushes = 1
                                   /\ Instr.fns = {} => Instr.pops = 0
                                   /\ \A g \in Instr.fns : IsCtor[g]
           /\ Instr.op = "fire" => Instr.pops <= EventArgsMax /\ Instr.pushes = 0
<1>1. Top.fn \in Fns /\ Top.pc \in 1..Len(Code[Top.fn])
  BY AtInstr DEF Sound, Top, Verified
<1> QED BY <1>1, CodeAssumption DEF CompiledCode, Instr

LEMMA AbortStack == ASSUME Inv, Abort PROVE StackInv'
BY AbortTyped DEF Inv, TypeOK, StackInv

LEMMA ResumedStack == ASSUME Inv, exec, UNCHANGED control, Layout' PROVE StackInv'
<1>1. exec = TRUE
  BY DEF Inv, TypeOK, HostTyped
<1> QED BY <1>1 DEF StackInv, control

LEMMA AdvanceLayout ==
    ASSUME Inv, exec, Layout, Advance, ~Terminates(Instr), Instr.op \notin {"jump", "coalesce"},
           sp' = sp - Instr.pops + Instr.pushes, UNCHANGED <<fc, handlers, hc, pending>>
    PROVE  Layout'
<1>1. Within(sp' - Top.base, Top.fn, Top.pc + 1)
  <2>1. Within(sp - Instr.pops + Instr.pushes - Top.base, Top.fn, Top.pc + 1)
    BY AtDepth
  <2>2. /\ sp \in Int /\ Instr.pops \in Int /\ Instr.pushes \in Int /\ Top.base \in Int
        /\ sp' = sp - Instr.pops + Instr.pushes
    BY AtInstr, TopLayout
  <2> DEFINE s == sp - Instr.pops + Instr.pushes
  <2>3. s \in Int /\ sp' = s /\ Within(s - Top.base, Top.fn, Top.pc + 1)
    BY <2>1, <2>2
  <2> QED BY <2>3, Zenon DEF Within
<1>2. hc' \in Nat /\ \A k \in 1..hc' : k \in 1..hc /\ handlers'[k] = handlers[k]
  BY AtInstr, Limits DEF MachineTyped
<1> QED BY <1>1, <1>2, GotoLayout DEF Advance

LEMMA StackOpsStack ==
    ASSUME Inv, exec, Layout, Plain \/ Jump \/ Branch \/ Coalesce
    PROVE  StackInv'
<1>1. /\ hc \in Nat /\ sp \in Int /\ Shaped(Instr) /\ Instr.pops \in Nat
  BY AtInstr, Limits DEF MachineTyped
<1>2. \A k \in 1..hc : k \in 1..hc /\ handlers[k] = handlers[k]
  OBVIOUS
<1>3. ASSUME NEW pc, Goto(pc), Within(sp' - Top.base, Top.fn, pc),
             UNCHANGED <<fc, handlers, hc, events, objects, control>>
      PROVE  StackInv'
  <2>1. Layout'
    BY <1>1, <1>2, <1>3, GotoLayout DEF events
  <2> QED BY <1>3, <2>1, ResumedStack
<1>4. CASE Plain
  <2>1. Instr.op = "plain"
    BY <1>4, FetchTyped DEF Plain
  <2>2. CASE Fail
    BY <2>2, AbortStack DEF Fail, Halt
  <2>3. CASE sp' = sp - Instr.pops + Instr.pushes /\ Advance
             /\ UNCHANGED <<fc, handlers, hc, events, objects, control>>
    <3>1. Layout'
      BY <2>1, <2>3, AdvanceLayout DEF Terminates, events
    <3> QED BY <2>3, <3>1, ResumedStack
  <2> QED BY <1>4, <2>2, <2>3 DEF Plain
<1>5. CASE Jump
  <2>1. Instr.op = "jump" /\ Instr.pops = 0 /\ Instr.pushes = 0
    BY <1>1, <1>5, FetchTyped DEF Jump, Shaped
  <2>2. /\ Goto(Instr.to) /\ sp' = sp
        /\ UNCHANGED <<fc, handlers, hc, events, objects, control>>
    BY <1>5 DEF Jump
  <2>3. Within(sp' - Top.base, Top.fn, Instr.to)
    <3>1. sp - 0 + 0 - Top.base = sp - Top.base
      BY <1>1, TopLayout
    <3> QED BY <2>1, <2>2, <3>1, AtDepth
  <2> QED BY <1>3, <2>2, <2>3
<1>6. CASE Branch
  <2>1. Instr.op = "branch" /\ Instr.pops = 1 /\ Instr.pushes = 0
    BY <1>1, <1>6, FetchTyped DEF Branch, Shaped
  <2>2. /\ Goto(Instr.to) \/ Goto(Top.pc + 1)
        /\ sp' = sp - 1 /\ UNCHANGED <<fc, handlers, hc, events, objects, control>>
    BY <1>6 DEF Branch, Advance
  <2>3. /\ Within(sp' - Top.base, Top.fn, Instr.to)
        /\ Within(sp' - Top.base, Top.fn, Top.pc + 1)
    <3>1. sp - 1 + 0 - Top.base = sp - 1 - Top.base
      BY <1>1, TopLayout
    <3> QED BY <2>1, <2>2, <3>1, AtDepth DEF Terminates
  <2> QED BY <1>3, <2>2, <2>3
<1>7. CASE Coalesce
  <2>1. Instr.op = "coalesce"
    BY <1>7, FetchTyped DEF Coalesce
  <2>2. /\ UNCHANGED <<fc, handlers, hc, events, objects, control>>
        /\ (Goto(Instr.to) /\ sp' = sp) \/ (Goto(Top.pc + 1) /\ sp' = sp - 1)
    BY <1>7 DEF Coalesce, Advance
  <2> QED BY <1>3, <2>1, <2>2, AtDepth
<1> QED BY <1>4, <1>5, <1>6, <1>7

LEMMA CallStack ==
    ASSUME Inv, exec, Layout, Call
    PROVE  StackInv'
<1>1. Instr.op = "call" /\ Instr.pops \in Nat /\ Instr.pushes \in Nat /\ Instr.fns \subseteq Fns
  BY FetchTyped, AtInstr DEF Call
<1>2. CASE Fail
  BY <1>2, AbortStack DEF Fail, Halt
<1>3. ASSUME NEW f \in Instr.fns, CanPush(f, sp - Instr.pops), Enter(f, sp - Instr.pops),
             UNCHANGED <<events, objects, control>>
      PROVE  StackInv'
  <2> DEFINE depth == sp - Instr.pops
             left  == IF IsCtor[f] THEN 0 ELSE 1
  <2>1. f \in Fns /\ Instr.pushes = left /\ left \in {0, 1}
    BY <1>1, AtCompiled
  <2>2. depth \in 0..StackMax
    BY <1>1, AtDepth, AtInstr, Limits
  <2>3. Within(depth + left - Top.base, Top.fn, Top.pc + 1)
    <3>1. Within(sp - Instr.pops + Instr.pushes - Top.base, Top.fn, Top.pc + 1)
      BY <1>1, AtDepth DEF Terminates
    <3> QED BY <2>1, <3>1, Zenon
  <2>4. ~(pending'.active /\ pending'.base = fc) /\ pending' = pending
    BY <1>3, AtInstr DEF Layout, events
  <2>5. pending'.active => pending'.base \in 1..fc
    <3>1. pending.base \in Nat /\ fc \in Nat
      BY PendingTyped, AtInstr, Limits DEF Pending
    <3> QED BY <2>4, <3>1 DEF Layout
  <2>6. Verified(Top.fn, Top.pc + 1)
    BY <1>1, AtInstr DEF Terminates
  <2>7. left = IF (pending'.active /\ pending'.base = fc) \/ IsCtor[f] THEN 0 ELSE 1
    BY <2>4
  <2> HIDE DEF left, depth
  <2>8. CanPush(f, depth) /\ Enter(f, depth)
    BY <1>3 DEF depth
  <2>9. Layout'
    BY <2>1, <2>2, <2>3, <2>4, <2>5, <2>6, <2>7, <2>8, EnterLayout
  <2> QED BY <1>3, <2>9, ResumedStack
<1> QED BY <1>2, <1>3 DEF Call

LEMMA NewStack ==
    ASSUME Inv, exec, Layout, New
    PROVE  StackInv'
<1>1. /\ Instr.op = "new" /\ Instr.pops \in Nat /\ Instr.fns \subseteq Fns
      /\ UNCHANGED events /\ Instr.pushes = 1 /\ sp \in Int
  BY FetchTyped, AtInstr, AtCompiled DEF New
<1>2. CASE Halt
  BY <1>2, AbortStack DEF Halt
<1>3. CASE Instr.fns = {} /\ sp' = sp + 1 /\ Advance /\ UNCHANGED <<fc, handlers, hc, control>>
  <2>1. sp' = sp - Instr.pops + Instr.pushes
    <3>1. Instr.pops = 0
      BY <1>1, <1>3, AtCompiled
    <3> QED BY <1>1, <1>3, <3>1
  <2>2. Layout'
    BY <1>1, <1>3, <2>1, AdvanceLayout DEF Terminates, events
  <2> QED BY <1>3, <2>2, ResumedStack
<1>4. ASSUME NEW f \in Instr.fns, sp - Instr.pops + 1 <= StackMax,
             CanPush(f, sp - Instr.pops + 1),
             Enter(f, sp - Instr.pops + 1), UNCHANGED control
      PROVE  StackInv'
  <2> DEFINE depth == sp - Instr.pops + 1
  <2>1. f \in Fns /\ IsCtor[f]
    BY <1>1, AtCompiled
  <2>2. depth \in 0..StackMax
    BY <1>1, <1>4, AtDepth, Limits
  <2>3. Within(depth + 0 - Top.base, Top.fn, Top.pc + 1)
    <3>1. Within(sp - Instr.pops + Instr.pushes - Top.base, Top.fn, Top.pc + 1)
      BY <1>1, AtDepth DEF Terminates
    <3>2. sp - Instr.pops + Instr.pushes - Top.base = depth + 0 - Top.base
      BY <1>1, AtDepth
    <3> QED BY <3>1, <3>2
  <2>4. pending' = pending
    BY <1>1 DEF events
  <2>5. pending'.active => pending'.base \in 1..fc
    <3>1. pending.base \in Nat /\ fc \in Nat
      BY PendingTyped, AtInstr, Limits DEF Pending
    <3> QED BY <2>4, <3>1 DEF Layout
  <2>6. Verified(Top.fn, Top.pc + 1)
    BY <1>1, AtInstr DEF Terminates
  <2>7. 0 = IF (pending'.active /\ pending'.base = fc) \/ IsCtor[f] THEN 0 ELSE 1
    BY <2>1
  <2> HIDE DEF depth
  <2>8. CanPush(f, depth) /\ Enter(f, depth)
    BY <1>4 DEF depth
  <2>9. Layout'
    BY <2>1, <2>2, <2>3, <2>4, <2>5, <2>6, <2>7, <2>8, EnterLayout
  <2> QED BY <1>4, <2>9, ResumedStack
<1> QED BY <1>2, <1>3, <1>4 DEF New

\* RETURN and RETURN_VOID outside the pending fire.
LEMMA ReturnStack ==
    ASSUME Inv, exec, Layout, Disciplined, Return \/ ReturnVoid
    PROVE  StackInv'
<1>1. /\ Leave /\ ExecuteReturns /\ UNCHANGED events /\ ~EndsHandler
      /\ fc > 1 => sp' = Top.base + (IF IsCtor[Top.fn] THEN 0 ELSE 1)
      /\ fc = 1 => sp' >= 0
  <2>1. Top.base \in Int /\ Top.base >= 0 /\ EntryDepth(sp) = Top.base
        /\ EntryDepth(sp - 1) = Top.base
    BY TopLayout, AtDepth
  <2>2. CASE Return
    <3>1. Instr.op = "ret" /\ Leave /\ ExecuteReturns /\ UNCHANGED events /\ sp' = Top.base + 1
      BY <2>1, <2>2, FetchTyped DEF Return
    <3>2. ~IsCtor[Top.fn] /\ ~EndsHandler
      BY <3>1, AtCompiled DEF Disciplined, HandlerReturnsValue
    <3> QED BY <2>1, <3>1, <3>2
  <2>3. CASE ReturnVoid
    <3>1. Leave /\ ExecuteReturns /\ UNCHANGED events /\ ~EndsHandler
          /\ sp' = Top.base + VoidPushes
      BY <2>1, <2>3 DEF ReturnVoid
    <3> QED BY <2>1, <3>1 DEF VoidPushes
  <2> QED BY <2>2, <2>3
<1>2. fc \in Nat /\ fc > 0 /\ exec' = (fc > 1)
  BY <1>1, AtInstr, Limits DEF ExecuteReturns
<1>3. CASE fc = 1
  <2>1. (fc > 1) = FALSE
    BY <1>3
  <2>2. exec' = FALSE
    BY <1>2, <2>1, Zenon
  <2> QED BY <1>1, <1>3, <2>2 DEF StackInv
<1>4. CASE fc > 1
  <2>1. ~(pending.active /\ pending.base = fc - 1) /\ pending' = pending
    BY <1>1, <1>4 DEF EndsHandler, events
  <2>2. sp' = Top.base + ReturnPushes(fc)
    BY <1>1, <1>4, <2>1 DEF ReturnPushes, AwaitsHandlers, Top
  <2>3. pending'.active => 0 < pending'.base /\ pending'.base < fc - 1
    <3>1. pending.base \in Nat
      BY PendingTyped DEF Pending
    <3> QED BY <1>2, <2>1, <3>1 DEF Layout
  <2>4. Layout'
    BY <1>1, <1>4, <2>1, <2>2, <2>3, LeaveLayout
  <2>5. exec' = TRUE
    <3>1. (fc > 1) = TRUE
      BY <1>4
    <3> QED BY <1>2, <3>1, Zenon
  <2> QED BY <2>4, <2>5 DEF StackInv
<1> QED BY <1>2, <1>3, <1>4

LEMMA NextHandlerStack ==
    ASSUME Inv, exec, Layout, NextHandler
    PROVE  StackInv'
<1>1. EndsHandler /\ DropHandlers(fc - 1) /\ UNCHANGED handlers
  BY DEF NextHandler
<1>2. PICK i \in Remaining :
        /\ pending' = [pending EXCEPT !.at = i]
        /\ sp' = EntryDepth(sp)
        /\ IF EntryDepth(sp) + Peak[Resolve[pending.list[i]]] <= StackMax
             THEN /\ frames' = [frames EXCEPT ![fc] =
                       [fn |-> Resolve[pending.list[i]], pc |-> 1, base |-> EntryDepth(sp)]]
                  /\ UNCHANGED <<fc, control>>
             ELSE Abort
  BY DEF NextHandler
<1> DEFINE f == Resolve[pending.list[i]]
<1>3. /\ pending \in Pending /\ f \in Fns /\ EntryDepth(sp) = Top.base
  BY PendingTyped, TopLayout
<1>4. pending'.active = pending.active /\ pending'.base = pending.base
  BY <1>2, <1>3 DEF Pending
<1> HIDE DEF f
<1>5. CASE Top.base + Peak[f] <= StackMax
  <2>1. /\ frames' = [frames EXCEPT ![fc] = [fn |-> f, pc |-> 1, base |-> Top.base]]
        /\ UNCHANGED <<fc, control>> /\ sp' = Top.base
    BY <1>2, <1>3, <1>5 DEF f
  <2>2. Layout'
    BY <1>1, <1>3, <1>4, <1>5, <2>1, ReplaceLayout
  <2> QED BY <2>1, <2>2, ResumedStack
<1>6. CASE ~(Top.base + Peak[f] <= StackMax)
  BY <1>2, <1>3, <1>6, AbortStack DEF f
<1> QED BY <1>5, <1>6

LEMMA FireDoneStack ==
    ASSUME Inv, exec, Layout, FireDone
    PROVE  StackInv'
<1>1. /\ EndsHandler /\ Leave /\ sp' = Top.base /\ UNCHANGED control
      /\ pending' = [pending EXCEPT !.active = FALSE]
  BY TopLayout DEF FireDone
<1>2. pending \in Pending /\ fc \in Nat /\ Top.base \in Int
  BY PendingTyped, AtInstr, Limits, TopLayout
<1>3. pending'.active = FALSE /\ pending.active /\ fc > 1 /\ pending.base = fc - 1
  BY <1>1, <1>2 DEF Pending, EndsHandler
<1>4. ReturnPushes(fc) = 0
  BY <1>3 DEF ReturnPushes, AwaitsHandlers
<1>5. sp' = Top.base + ReturnPushes(fc)
  BY <1>1, <1>2, <1>4
<1>6. \A i \in 1..(fc - 2) : (pending'.active /\ pending'.base = i)
                              <=> (pending.active /\ pending.base = i)
  BY <1>2, <1>3
<1>7. Layout'
  BY <1>1, <1>3, <1>5, <1>6, LeaveLayout
<1> QED BY <1>1, <1>7, ResumedStack

LEMMA TryStack ==
    ASSUME Inv, exec, Layout, Try \/ EndTry
    PROVE  StackInv'
<1>1. /\ MachineTyped /\ hc \in Nat /\ sp \in Int /\ Top.base \in Int /\ sp - Top.base \in Int
  BY AtInstr, TopLayout, Limits DEF MachineTyped
<1>2. ASSUME Instr.op \in {"try", "endtry"}
      PROVE  /\ Within(sp - Top.base, Top.fn, Top.pc + 1)
             /\ Instr.op = "try" => Within(sp - Top.base, Top.fn, Instr.to)
  <2>1. Instr.pops = 0 /\ Instr.pushes = 0
    BY <1>2, AtInstr DEF Shaped
  <2>2. sp - Instr.pops + Instr.pushes - Top.base = sp - Top.base
    BY <1>1, <2>1
  <2> QED BY <1>2, <2>2, AtDepth DEF Terminates
<1>3. CASE Try
  <2>1. Instr.op = "try"
    BY <1>3, FetchTyped DEF Try
  <2>2. CASE Fail
    BY <2>2, AbortStack DEF Fail, Halt
  <2>3. CASE ~Fail
    <3> DEFINE h == [fn |-> Top.fn, pc |-> Instr.to, depth |-> fc, sp |-> sp]
    <3>1. /\ hc < HandlerMax /\ hc' = hc + 1 /\ handlers' = [handlers EXCEPT ![hc + 1] = h]
          /\ Goto(Top.pc + 1) /\ UNCHANGED <<fc, sp, events, objects, control>>
      BY <1>3, <2>3 DEF Try, Advance
    <3>2. hc + 1 \in 1..HandlerMax /\ hc' \in Nat
      BY <1>1, <3>1, Limits
    <3>3. ASSUME NEW k \in 1..hc'
          PROVE  \/ k \in 1..hc /\ handlers'[k] = handlers[k]
                 \/ /\ handlers'[k].depth = fc /\ handlers'[k].fn = Top.fn
                    /\ Within(handlers'[k].sp - Top.base, Top.fn, handlers'[k].pc)
      <4>1. handlers \in [1..HandlerMax -> Handler]
        BY <1>1 DEF MachineTyped
      <4>2. CASE k = hc + 1
        <5>1. handlers'[k] = h
          BY <3>1, <3>2, <4>1, <4>2
        <5> QED BY <1>2, <2>1, <5>1
      <4>3. CASE k # hc + 1
        BY <1>1, <3>1, <4>1, <4>3
      <4> QED BY <4>2, <4>3
    <3> HIDE DEF h
    <3>4. Within(sp' - Top.base, Top.fn, Top.pc + 1)
      BY <1>2, <2>1, <3>1
    <3>5. UNCHANGED <<fc, pending>>
      BY <3>1 DEF events
    <3>6. Layout'
      BY <3>1, <3>2, <3>3, <3>4, <3>5, GotoLayout
    <3> QED BY <3>1, <3>6, ResumedStack
  <2> QED BY <2>2, <2>3
<1>4. CASE EndTry
  <2>1. /\ Instr.op = "endtry" /\ Goto(Top.pc + 1)
        /\ UNCHANGED <<fc, sp, handlers, events, objects, control>>
        /\ hc' = IF hc > 0 THEN hc - 1 ELSE 0
    BY <1>4, FetchTyped DEF EndTry, Advance
  <2>2. hc' \in Nat /\ \A k \in 1..hc' : k \in 1..hc /\ handlers'[k] = handlers[k]
    BY <1>1, <2>1
  <2>3. Within(sp' - Top.base, Top.fn, Top.pc + 1) /\ UNCHANGED <<fc, pending>>
    BY <1>2, <2>1 DEF events
  <2>4. Layout'
    BY <2>1, <2>2, <2>3, GotoLayout
  <2> QED BY <2>1, <2>4, ResumedStack
<1> QED BY <1>3, <1>4

LEMMA ThrowStack ==
    ASSUME Inv, exec, Layout, Disciplined, Throw
    PROVE  StackInv'
<1>1. Instr.op = "throw"
  BY FetchTyped DEF Throw
<1>2. CASE Fail
  BY <1>2, AbortStack DEF Fail, Halt
<1>3. CASE ~Fail
  <2> DEFINE n == handlers[hc].depth
  <2>1. /\ hc > 0 /\ fc' = n /\ sp' = handlers[hc].sp /\ hc' = hc - 1
        /\ frames' = [frames EXCEPT ![n] = [fn |-> handlers[hc].fn, pc |-> handlers[hc].pc,
                                            base |-> @.base]]
        /\ UNCHANGED <<handlers, events, control>>
    BY <1>3 DEF Throw
  <2>2. /\ n \in Nat
    <3>1. handlers[hc] \in Handler
      BY <2>1, AtInstr, Limits DEF MachineTyped
    <3> QED BY <3>1, Limits DEF Handler
  <2>3. pending.active => pending.base < n
    <3>1. pending.base \in Nat
      BY PendingTyped, Limits DEF Pending
    <3>2. ~EscapingThrow
      BY DEF Disciplined
    <3> QED BY <1>1, <2>1, <2>2, <3>1, <3>2 DEF EscapingThrow
  <2>4. UNCHANGED <<handlers, pending>>
    BY <2>1 DEF events
  <2> HIDE DEF n
  <2>5. n = handlers[hc].depth
    BY DEF n
  <2>6. Layout'
    BY <2>1, <2>2, <2>3, <2>4, <2>5, ThrowLayout
  <2> QED BY <2>1, <2>6, ResumedStack
<1> QED BY <1>2, <1>3

LEMMA SubscriptionStack ==
    ASSUME Inv, exec, Layout, Subscribe \/ Unsubscribe
    PROVE  StackInv'
<1>1. Instr.op \in {"subscribe", "unsubscribe"}
  BY FetchTyped DEF Subscribe, Unsubscribe
<1>2. CASE Fail
  BY <1>2, AbortStack DEF Fail, Halt
<1>3. CASE ~Fail
  <2>1. /\ sp' = sp - Instr.pops /\ Advance
        /\ UNCHANGED <<fc, handlers, hc, pending, objects, control>>
    BY <1>3 DEF Subscribe, Unsubscribe
  <2>2. sp' = sp - Instr.pops + Instr.pushes
    <3>1. Instr.pushes = 0 /\ sp \in Int /\ Instr.pops \in Nat
      BY <1>1, AtInstr DEF Shaped
    <3> QED BY <2>1, <3>1
  <2>3. Layout'
    BY <1>1, <2>1, <2>2, AdvanceLayout DEF Terminates
  <2> QED BY <2>1, <2>3, ResumedStack
<1> QED BY <1>2, <1>3

\* The pending fire waits for the frame that fires, and no other fire was
\* pending: the frames below await the same as before.
LEMMA FireStack ==
    ASSUME Inv, exec, Layout, Disciplined, FireNobody \/ Fire
    PROVE  StackInv'
<1>1. /\ Instr.op = "fire" /\ Instr.pops \in Nat /\ Instr.pops <= EventArgsMax
      /\ Instr.pushes = 0 /\ sp \in Int /\ EventArgsMax \in Nat /\ Instr.ev \in Events
  <2>1. Instr.op = "fire"
    BY FetchTyped DEF FireNobody, Fire
  <2> QED BY <2>1, AtInstr, AtCompiled, Limits
<1>2. sp - Instr.pops + Instr.pushes = sp - Instr.pops
  BY <1>1
<1>3. CASE FireNobody
  <2>1. /\ sp' = sp - Instr.pops + Instr.pushes /\ Advance
        /\ UNCHANGED <<fc, handlers, hc, events, objects, control>>
    BY <1>2, <1>3 DEF FireNobody
  <2>2. Layout'
    BY <1>1, <2>1, AdvanceLayout DEF Terminates, events
  <2> QED BY <2>1, <2>2, ResumedStack
<1>4. CASE Fire
  <2>1. PICK i \in Resolvable(table[Instr.ev]) :
          LET f    == Resolve[table[Instr.ev][i]]
              argc == IF Instr.pops < EventArgsMax THEN Instr.pops ELSE EventArgsMax
          IN /\ pending' = Snapshot(table[Instr.ev], i)
             /\ IF CanPush(f, sp - argc)
                  THEN Enter(f, sp - argc) /\ UNCHANGED control
                  ELSE Halt
    BY <1>4 DEF Fire
  <2> DEFINE f == Resolve[table[Instr.ev][i]]
             depth == sp - Instr.pops
  <2>2. (IF Instr.pops < EventArgsMax THEN Instr.pops ELSE EventArgsMax) = Instr.pops
    BY <1>1
  <2>3. /\ pending' = Snapshot(table[Instr.ev], i)
        /\ \/ CanPush(f, depth) /\ Enter(f, depth) /\ UNCHANGED control
           \/ Halt
    BY <2>1, <2>2
  <2>4. f \in Fns
    <3>1. table[Instr.ev] \in Seq(Subs)
      BY <1>1, AtInstr DEF EventsTyped
    <3>2. Resolve[table[Instr.ev][i]] # NoFn /\ table[Instr.ev][i] \in Subs
      BY <3>1 DEF Resolvable
    <3> QED BY <3>2, CodeAssumption DEF TypedCode
  <2>5. depth \in 0..StackMax
    BY <1>1, AtDepth, Limits
  <2>6. pending'.active = TRUE /\ pending'.base = fc /\ fc \in Nat /\ fc > 0
    BY <2>3, AtInstr, Limits DEF Snapshot
  <2>7. ~pending.active
    BY <1>1 DEF Disciplined, NestedFire
  <2>8. \A k \in 1..(fc - 1) : (pending'.active /\ pending'.base = k)
                                <=> (pending.active /\ pending.base = k)
    BY <2>6, <2>7
  <2>9. Within(depth + 0 - Top.base, Top.fn, Top.pc + 1)
    <3>1. Within(sp - Instr.pops + Instr.pushes - Top.base, Top.fn, Top.pc + 1)
      BY <1>1, AtDepth DEF Terminates
    <3>2. sp - Instr.pops + Instr.pushes - Top.base = depth + 0 - Top.base
      BY <1>1, AtDepth
    <3> QED BY <3>1, <3>2
  <2>10. /\ 0 = IF (pending'.active /\ pending'.base = fc) \/ IsCtor[f] THEN 0 ELSE 1
         /\ pending'.active => pending'.base \in 1..fc
    BY <2>6
  <2>11. Verified(Top.fn, Top.pc + 1)
    BY <1>1, AtInstr DEF Terminates
  <2> HIDE DEF f, depth
  <2>12. CASE Halt
    BY <2>12, AbortStack DEF Halt
  <2>13. CASE CanPush(f, depth) /\ Enter(f, depth) /\ UNCHANGED control
    <3>1. Layout'
      BY <2>4, <2>5, <2>8, <2>9, <2>10, <2>11, <2>13, EnterLayout
    <3> QED BY <2>13, <3>1, ResumedStack
  <2> QED BY <2>3, <2>12, <2>13
<1> QED BY <1>3, <1>4

LEMMA ExecuteStack ==
    ASSUME Inv, StackInv, Disciplined, Execute
    PROVE  StackInv'
<1>1. exec
  BY FetchTyped DEF Execute, Plain, Jump, Branch, Coalesce, Call, New, Return, ReturnVoid,
     NextHandler, FireDone, MatchFailure, Try, EndTry, Throw, Subscribe, Unsubscribe,
     FireNobody, Fire, BudgetExceeded
<1>2. Layout
  BY <1>1 DEF StackInv
<1>3. CASE MatchFailure \/ BudgetExceeded
  BY <1>3, AbortStack DEF MatchFailure, BudgetExceeded, Fail, Halt
<1> QED BY <1>1, <1>2, <1>3, StackOpsStack, CallStack, NewStack, ReturnStack, NextHandlerStack,
       FireDoneStack, TryStack, ThrowStack, SubscriptionStack, FireStack DEF Execute

(***************************************************************************)
(* Host calls                                                              *)
(***************************************************************************)
\* A single frame, at the start of its chunk, with nothing pending.
LEMMA FirstFrame ==
    ASSUME Inv, NEW f \in Fns, NEW depth \in 0..StackMax, depth + Peak[f] <= StackMax,
           frames' = [frames EXCEPT ![1] = [fn |-> f, pc |-> 1, base |-> depth]],
           fc' = 1, sp' = depth, hc' = 0, ~pending'.active
    PROVE  Layout'
<1>1. frames \in [1..FrameMax -> Frame] /\ 1 \in 1..FrameMax /\ depth - depth = 0
  BY Limits DEF Inv, TypeOK, MachineTyped
<1>2. frames'[1] = [fn |-> f, pc |-> 1, base |-> depth]
  BY <1>1
<1>3. ASSUME NEW i \in Nat, i = 1 PROVE BaseFits(i)' /\ DepthFits(i)'
  <2>1. Within(0, f, 1)
    BY ChunkStart DEF Within
  <2>2. EndOf(i)' = depth /\ frames'[i] = [fn |-> f, pc |-> 1, base |-> depth]
    BY <1>2, <1>3 DEF EndOf
  <2>3. BaseFits(i)'
    BY <2>2 DEF BaseFits
  <2> QED BY <1>1, <2>1, <2>2, <2>3 DEF DepthFits, Within
<1>4. (\A i \in 1..fc : BaseFits(i) /\ DepthFits(i))'
  BY <1>3
<1>5. (\A k \in 1..hc : CatchFits(k))'
  OBVIOUS
<1> QED BY <1>4, <1>5 DEF Layout

LEMMA HostStack ==
    ASSUME Inv, StackInv, Disciplined,
           BeginRun \/ BeginLoad \/ StartSinit \/ StartEntry \/ Finish \/ Recreate
    PROVE  StackInv'
<1> USE DEF StackInv
<1>1. CASE BeginRun
  <2>1. sp' = 0 /\ exec' = exec /\ host = "idle"
    BY <1>1 DEF BeginRun, HostMayCall
  <2>2. ~exec
    BY <2>1 DEF Inv, TypeOK, HostTyped
  <2> QED BY <2>1, <2>2
<1>2. CASE BeginLoad
  <2>1. host' = "load" /\ exec' = exec /\ host = "idle"
    BY <1>2 DEF BeginLoad, HostMayCall
  <2>2. ~exec
    BY <2>1 DEF Inv, TypeOK, HostTyped
  <2> QED BY <2>1, <2>2
<1>3. CASE StartSinit
  <2>1. /\ host # "idle" /\ ~exec /\ todo # <<>> /\ exec' = TRUE
        /\ sp' = 0 /\ fc' = 1 /\ UNCHANGED <<handlers, hc, events>>
        /\ frames' = [frames EXCEPT ![1] = [fn |-> Head(todo), pc |-> 1, base |-> 0]]
    BY <1>3 DEF StartSinit
  <2>2. hc = 0 /\ ~pending.active
    BY <2>1 DEF Disciplined, CleanStart
  <2>3. Head(todo) \in Fns
    BY <2>1 DEF Inv, TypeOK, HostTyped
  <2>4. 0 \in 0..StackMax /\ 0 + Peak[Head(todo)] <= StackMax
    <3>1. Peak[Head(todo)] \in 0..StackMax
      BY <2>3, ChunkStart
    <3> QED BY <3>1, Limits
  <2>5. hc' = 0 /\ ~pending'.active
    BY <2>1, <2>2 DEF events
  <2>6. Layout'
    BY <2>1, <2>3, <2>4, <2>5, FirstFrame
  <2> QED BY <2>1, <2>6
<1>4. CASE StartEntry
  <2>1. host = "run" /\ ~exec /\ entry # NoFn /\ UNCHANGED <<events, count>>
    BY <1>4 DEF StartEntry
  <2>2. CASE Abort
    BY <2>2, AbortStack
  <2>3. CASE ~Abort
    <3>1. /\ CanPush(entry, sp) /\ fc' = fc + 1 /\ exec' = TRUE
          /\ frames' = [frames EXCEPT ![fc + 1] = [fn |-> entry, pc |-> 1, base |-> sp]]
          /\ UNCHANGED <<sp, handlers, hc>>
      BY <1>4, <2>3 DEF StartEntry
    <3>2. fc = 0 /\ sp \in Int /\ sp >= 0 /\ entry \in Fns
      BY <2>1 DEF Inv, TypeOK, MachineTyped, HostTyped
    <3>3. fc' = 1 /\ frames' = [frames EXCEPT ![1] = [fn |-> entry, pc |-> 1, base |-> sp]]
      BY <3>1, <3>2
    <3>4. sp \in 0..StackMax /\ sp + Peak[entry] <= StackMax
      <4>1. Peak[entry] \in 0..StackMax
        BY <3>2, ChunkStart
      <4> QED BY <3>1, <3>2, <4>1, Limits DEF CanPush
    <3>5. hc' = 0 /\ ~pending'.active /\ sp' = sp
      BY <2>1, <3>1 DEF Disciplined, CleanStart, events
    <3>6. Layout'
      BY <3>2, <3>3, <3>4, <3>5, FirstFrame
    <3> QED BY <3>1, <3>6
  <2> QED BY <2>2, <2>3
<1>5. CASE Finish
  BY <1>5 DEF Finish
<1>6. CASE Recreate
  <2>1. host = "idle" /\ host' = host /\ exec' = exec
    BY <1>6 DEF Recreate
  <2>2. ~exec
    BY <2>1 DEF Inv, TypeOK, HostTyped
  <2> QED BY <2>1, <2>2
<1> QED BY <1>1, <1>2, <1>3, <1>4, <1>5, <1>6

LEMMA StackStep == Inv /\ StackInv /\ Disciplined /\ [Next]_vars => StackInv'
<1> SUFFICES ASSUME Inv, StackInv, Disciplined, [Next]_vars PROVE StackInv'
  OBVIOUS
<1>1. CASE UNCHANGED vars
  BY <1>1 DEF vars, machine, events, control, StackInv, Layout, BaseFits, DepthFits, CatchFits,
     EndOf, ReturnPushes, AwaitsHandlers, Within
<1>2. CASE Next
  BY <1>2, ExecuteStack, HostStack DEF Next, HostCallStep
<1> QED BY <1>1, <1>2

LEMMA StackInit == Init => StackInv
BY DEF Init, StackInv

(***************************************************************************)
(* What the layout is for                                                  *)
(***************************************************************************)
LEMMA LayoutSafe ==
    Inv /\ StackInv => StackDiscipline /\ OperandsInFrame /\ HandlersLive /\ PendingInProgress
<1> SUFFICES ASSUME Inv, StackInv, exec
             PROVE  StackDiscipline /\ OperandsInFrame /\ HandlersLive /\ PendingInProgress
  BY DEF StackDiscipline, OperandsInFrame, HandlersLive, PendingInProgress
<1>1. Layout /\ Sound
  BY AtInstr DEF StackInv
<1>2. StackDiscipline
  BY <1>1 DEF Layout, DepthFits, StackDiscipline
<1>3. OperandsInFrame
  <2>1. sp \in Int /\ Instr.pops \in Nat /\ Instr.pushes \in Nat /\ Shaped(Instr)
    BY AtInstr
  <2>2. Top.base <= sp - Instr.pops /\ 0 <= Top.base
    BY <1>1, <2>1, AtDepth
  <2>3. sp - Instr.pops + Instr.pushes <= StackMax
    <3>1. sp <= StackMax /\ StackMax \in Nat
      BY <1>1, AtDepth, Limits
    <3>2. CASE ~Terminates(Instr) /\ Instr.op \notin {"jump", "coalesce"}
      BY <1>1, <3>2, AtDepth
    <3>3. CASE Terminates(Instr) \/ Instr.op \in {"jump", "coalesce"}
      <4>1. Instr.pushes = 0
        BY <2>1, <3>3 DEF Terminates, Shaped
      <4> QED BY <2>1, <3>1, <4>1
    <3> QED BY <3>2, <3>3
  <2> QED BY <2>2, <2>3 DEF OperandsInFrame
<1>4. HandlersLive
  BY <1>1 DEF Layout, Sound, CatchFits, HandlersLive
<1>5. PendingInProgress
  BY <1>1 DEF Layout, PendingInProgress
<1> QED BY <1>2, <1>3, <1>4, <1>5

LEMMA StackInductive == Spec /\ []Disciplined => [](Inv /\ StackInv)
<1>1. Disciplined => CleanStart
  BY DEF Disciplined
<1> QED BY <1>1, InitInv, StepInv, StackInit, StackStep, PTL DEF Spec

\* What a call, a constructor, a fire or a catch leaves on the value stack is
\* what ver_chunk assumed when it verified the chunk that resumes, for every
\* verified program and every limit, as long as no fire is nested, no
\* exception leaves an event handler and no failed call left its handlers.
THEOREM FramesAreDisciplined == Spec /\ []Disciplined => []StackDiscipline
BY StackInductive, LayoutSafe, PTL

\* No opcode of such a run reads below its frame's base_sp or writes past
\* vm->stack, although xeno_execute tests neither for most of them.
THEOREM OperandsAreInFrame == Spec /\ []Disciplined => []OperandsInFrame
BY StackInductive, LayoutSafe, PTL

\* THROW in such a run always finds a live frame that a try of its own chunk
\* registered, and restores a depth the verifier knows there.
THEOREM CatchesAreLive == Spec /\ []Disciplined => []HandlersLive
BY StackInductive, LayoutSafe, PTL

\* While a fire is pending the frame that fired is live below the handler's.
THEOREM PendingFireIsLive == Spec /\ []Disciplined => []PendingInProgress
BY StackInductive, LayoutSafe, PTL
=============================================================================
