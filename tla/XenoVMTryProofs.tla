--------------------------- MODULE XenoVMTryProofs ---------------------------
(***************************************************************************)
(* The exception handlers of XenoVM: in chunks whose try blocks nest, the  *)
(* handlers of a live frame are exactly the try blocks its instruction is  *)
(* in, whatever the program throws, returns and fires in between.          *)
(*                                                                         *)
(* The handler stack is cut into one segment for each frame, in the order  *)
(* of the frames: seg[i] is where the segment of frame i ends.  A return   *)
(* cuts the last segment off, a throw cuts the segments of the frames it   *)
(* leaves, which are empty, and the last handler of the one it lands in.   *)
(***************************************************************************)
EXTENDS XenoVMProofs

CONSTANT Open   \* [Fns -> [pc -> the catch targets of the try blocks around it]]

\* what the compiler emits for try blocks without a continue in them
NestedTries == \A f \in Fns : TriesNest(Code[f], Lo[f], Open[f])

OpenOf(frame) == Open[frame.fn][frame.pc]

\* The first m of the handlers hs belong to the first n of the frames fs, and
\* seg[i] of them to the first i.
Segmented(seg, fs, n, hs, m) ==
    /\ seg \in [Nat -> Nat] /\ seg[n] = m
    /\ \A i, j \in 0..n : i <= j => seg[i] <= seg[j]
    /\ \A i \in 1..n : seg[i] = seg[i - 1] + Len(OpenOf(fs[i]))
    /\ \A k \in 1..m :
         LET d == hs[k].depth IN
         /\ d \in 1..n
         /\ seg[d - 1] < k /\ k <= seg[d]
         /\ hs[k].pc = OpenOf(fs[d])[k - seg[d - 1]]

TrySegments == exec => \E seg : Segmented(seg, frames, fc, handlers, hc)

(***************************************************************************)
(* Segments                                                                *)
(***************************************************************************)
\* The handlers of the frames that stay are those below the end of the last.
LEMMA SegmentsBelow ==
    ASSUME NEW seg, NEW fs, NEW n \in Nat, NEW hs, NEW m \in Nat, Segmented(seg, fs, n, hs, m),
           NEW d \in 0..n
    PROVE  /\ seg[d] \in 0..m
           /\ Segmented(seg, fs, d, hs, seg[d])
           /\ \A k \in 1..m : k <= seg[d] <=> hs[k].depth <= d
<1>1. seg \in [Nat -> Nat] /\ seg[n] = m
  BY DEF Segmented
<1>2. \A i, j \in 0..n : i <= j => seg[i] <= seg[j]
  BY DEF Segmented
<1>3. \A i \in 1..n : seg[i] = seg[i - 1] + Len(OpenOf(fs[i]))
  BY DEF Segmented
<1>4. \A k \in 1..m : /\ hs[k].depth \in 1..n
                      /\ seg[hs[k].depth - 1] < k /\ k <= seg[hs[k].depth]
                      /\ hs[k].pc = OpenOf(fs[hs[k].depth])[k - seg[hs[k].depth - 1]]
  BY DEF Segmented
<1>5. d \in Nat /\ d <= n /\ n \in 0..n
  OBVIOUS
<1>6. seg[d] \in Nat /\ seg[d] <= m
  BY <1>1, <1>2, <1>5
<1>7. ASSUME NEW k \in 1..m PROVE k <= seg[d] <=> hs[k].depth <= d
  <2>1. PICK j \in 1..n : j = hs[k].depth
    BY <1>4
  <2>2. seg[j - 1] < k /\ k <= seg[j] /\ j \in 0..n /\ j - 1 \in 0..n
    BY <1>4, <2>1
  <2>3. seg[j] \in Nat /\ seg[j - 1] \in Nat
    BY <1>1, <2>1
  <2>4. j <= d => seg[j] <= seg[d]
    BY <1>2, <2>2
  <2>5. ~(j <= d) => seg[d] <= seg[j - 1]
    <3>1. ~(j <= d) => d <= j - 1
      BY <1>5, <2>1
    <3> QED BY <1>2, <2>2, <3>1
  <2> QED BY <1>6, <2>1, <2>2, <2>3, <2>4, <2>5
<1>8. Segmented(seg, fs, d, hs, seg[d])
  <2>1. \A i, j \in 0..d : i <= j => seg[i] <= seg[j]
    BY <1>2, <1>5
  <2>2. \A i \in 1..d : seg[i] = seg[i - 1] + Len(OpenOf(fs[i]))
    BY <1>3, <1>5
  <2>3. \A k \in 1..seg[d] : k \in 1..m
    BY <1>6
  <2>4. \A k \in 1..seg[d] : hs[k].depth \in 1..d
    BY <1>4, <1>5, <1>7, <2>3
  <2> QED BY <1>1, <1>4, <2>1, <2>2, <2>3, <2>4 DEF Segmented
<1> QED BY <1>6, <1>7, <1>8

\* The last frame is in the try blocks q, with a handler for each above the
\* first low.
Last(seg, fs, n, hs, m, q, low) ==
    /\ low \in 0..m
    /\ Segmented(seg, fs, n - 1, hs, low)
    /\ m = low + Len(q)
    /\ \A k \in (low + 1)..m : hs[k].depth = n /\ hs[k].pc = q[k - low]

LEMMA LastSegment ==
    ASSUME NEW seg, NEW fs, NEW n \in Nat, NEW hs, NEW m \in Nat, Segmented(seg, fs, n, hs, m), n > 0,
           NEW q \in Seq(Nat), q = OpenOf(fs[n])
    PROVE  \E low : Last(seg, fs, n, hs, m, q, low)
<1>1. n - 1 \in 0..n /\ n \in 1..n
  OBVIOUS
<1>2. PICK low \in 0..m : low = seg[n - 1] /\ Segmented(seg, fs, n - 1, hs, low)
  BY <1>1, SegmentsBelow
<1>3. \A k \in 1..m : k <= low <=> hs[k].depth <= n - 1
  BY <1>1, <1>2, SegmentsBelow
<1>4. m = low + Len(q)
  BY <1>1, <1>2 DEF Segmented
<1>5. ASSUME NEW k \in (low + 1)..m PROVE hs[k].depth = n /\ hs[k].pc = q[k - low]
  <2>1. k \in 1..m /\ ~(k <= low)
    BY <1>2
  <2>2. PICK d \in 1..n : d = hs[k].depth /\ hs[k].pc = OpenOf(fs[d])[k - seg[d - 1]]
    BY <2>1 DEF Segmented
  <2>3. d = n
    BY <1>3, <2>1, <2>2
  <2> QED BY <1>2, <2>2, <2>3
<1> QED BY <1>2, <1>4, <1>5 DEF Last

\* fs2 has the first n frames of fs and one that is in the try blocks q; hs2
\* has the first m handlers of hs and one for each of those blocks.
OnTop(fs, fs2, n, hs, hs2, m, q) ==
    /\ \A i \in 1..n : OpenOf(fs2[i]) = OpenOf(fs[i])
    /\ OpenOf(fs2[n + 1]) = q
    /\ \A k \in 1..m : hs2[k] = hs[k]
    /\ \A k \in (m + 1)..(m + Len(q)) : hs2[k].depth = n + 1 /\ hs2[k].pc = q[k - m]

LEMMA SegmentOnTop ==
    ASSUME NEW seg, NEW fs, NEW n \in Nat, NEW hs, NEW m \in Nat, Segmented(seg, fs, n, hs, m),
           NEW fs2, NEW hs2, NEW q \in Seq(Nat), OnTop(fs, fs2, n, hs, hs2, m, q)
    PROVE  Segmented([seg EXCEPT ![n + 1] = m + Len(q)], fs2, n + 1, hs2, m + Len(q))
<1>1. seg \in [Nat -> Nat] /\ seg[n] = m
  BY DEF Segmented
<1>2. \A i, j \in 0..n : i <= j => seg[i] <= seg[j]
  BY DEF Segmented
<1>3. \A i \in 1..n : seg[i] = seg[i - 1] + Len(OpenOf(fs[i]))
  BY DEF Segmented
<1>4. \A k \in 1..m : /\ hs[k].depth \in 1..n
                      /\ seg[hs[k].depth - 1] < k /\ k <= seg[hs[k].depth]
                      /\ hs[k].pc = OpenOf(fs[hs[k].depth])[k - seg[hs[k].depth - 1]]
  BY DEF Segmented
<1>5. PICK top \in Nat : top = m + Len(q) /\ m <= top
  OBVIOUS
<1> DEFINE new == [seg EXCEPT ![n + 1] = top]
<1>6. new \in [Nat -> Nat] /\ new[n + 1] = top /\ \A i \in 0..n : new[i] = seg[i]
  BY <1>1
<1> HIDE DEF new
<1>7. ASSUME NEW i \in 0..(n + 1), NEW j \in 0..(n + 1), i <= j PROVE new[i] <= new[j]
  <2>1. CASE j \in 0..n
    <3>1. i \in 0..n
      BY <1>7, <2>1
    <3>2. seg[i] <= seg[j]
      BY <1>2, <1>7, <2>1, <3>1
    <3> QED BY <1>6, <2>1, <3>1, <3>2
  <2>2. CASE j = n + 1 /\ i \in 0..n
    <3>1. seg[i] <= seg[n] /\ seg[i] \in Nat /\ seg[n] \in Nat
      BY <1>1, <1>2, <2>2
    <3> QED BY <1>1, <1>5, <1>6, <2>2, <3>1
  <2>3. CASE j = n + 1 /\ i = n + 1
    BY <1>6, <2>3
  <2> QED BY <1>7, <2>1, <2>2, <2>3
<1>8. \A i \in 1..(n + 1) : new[i] = new[i - 1] + Len(OpenOf(fs2[i]))
  <2>1. ASSUME NEW i \in 1..n PROVE new[i] = new[i - 1] + Len(OpenOf(fs2[i]))
    <3>1. i \in 0..n /\ i - 1 \in 0..n
      OBVIOUS
    <3>2. OpenOf(fs2[i]) = OpenOf(fs[i])
      BY DEF OnTop
    <3> QED BY <1>3, <1>6, <3>1, <3>2
  <2>2. new[n + 1] = new[n] + Len(OpenOf(fs2[n + 1]))
    BY <1>1, <1>5, <1>6 DEF OnTop
  <2>3. \A i \in 1..(n + 1) : i \in 1..n \/ i = n + 1
    OBVIOUS
  <2>4. (n + 1) - 1 = n
    OBVIOUS
  <2> QED BY <2>1, <2>2, <2>3, <2>4
<1>9. ASSUME NEW k \in 1..top
      PROVE  /\ hs2[k].depth \in 1..(n + 1)
             /\ new[hs2[k].depth - 1] < k /\ k <= new[hs2[k].depth]
             /\ hs2[k].pc = OpenOf(fs2[hs2[k].depth])[k - new[hs2[k].depth - 1]]
  <2>1. CASE k \in 1..m
    <3>1. hs2[k] = hs[k]
      BY <2>1 DEF OnTop
    <3>2. PICK d \in 1..n : d = hs[k].depth
      BY <1>4, <2>1
    <3>3. seg[d - 1] < k /\ k <= seg[d] /\ hs[k].pc = OpenOf(fs[d])[k - seg[d - 1]]
      BY <1>4, <2>1, <3>2
    <3>4. d \in 0..n /\ d - 1 \in 0..n /\ d \in 1..(n + 1)
      OBVIOUS
    <3>5. OpenOf(fs2[d]) = OpenOf(fs[d])
      BY DEF OnTop
    <3> QED BY <1>6, <3>1, <3>2, <3>3, <3>4, <3>5
  <2>2. CASE ~(k \in 1..m)
    <3>1. k \in (m + 1)..(m + Len(q))
      BY <1>5, <2>2
    <3>2. hs2[k].depth = n + 1 /\ hs2[k].pc = q[k - m]
      BY <3>1 DEF OnTop
    <3>3. new[n] = m /\ new[n + 1] = top /\ OpenOf(fs2[n + 1]) = q
      BY <1>1, <1>6 DEF OnTop
    <3>5. (n + 1) - 1 = n /\ n + 1 \in 1..(n + 1)
      OBVIOUS
    <3>4. m < k /\ k <= top
      BY <3>1, <1>5
    <3> QED BY <3>2, <3>3, <3>4, <3>5
  <2> QED BY <2>1, <2>2
<1>10. Segmented(new, fs2, n + 1, hs2, top)
  BY <1>6, <1>7, <1>8, <1>9 DEF Segmented
<1> QED BY <1>5, <1>10 DEF new

\* Only the try blocks of the frames matter.
LEMMA SegmentsOfOpen ==
    ASSUME NEW seg, NEW fs, NEW n \in Nat, NEW hs, NEW m \in Nat, Segmented(seg, fs, n, hs, m),
           NEW fs2, \A i \in 1..n : OpenOf(fs2[i]) = OpenOf(fs[i])
    PROVE  Segmented(seg, fs2, n, hs, m)
<1>1. \A k \in 1..m : hs[k].depth \in 1..n
  BY DEF Segmented
<1> QED BY <1>1 DEF Segmented

\* The handlers DropHandlers keeps are those of the frames that stay.
LEMMA DropSegments ==
    ASSUME MachineTyped, NEW seg, Segmented(seg, frames, fc, handlers, hc),
           NEW d \in 0..fc, DropHandlers(d)
    PROVE  hc' = seg[d] /\ Segmented(seg, frames, d, handlers, hc')
<1>1. fc \in Nat /\ hc \in Nat
  BY Limits DEF MachineTyped
<1>2. /\ seg[d] \in 0..hc /\ Segmented(seg, frames, d, handlers, seg[d])
      /\ \A k \in 1..hc : k <= seg[d] <=> handlers[k].depth <= d
  BY <1>1, SegmentsBelow
<1>3. /\ hc' \in 0..hc /\ (hc' = 0 \/ handlers[hc'].depth <= d)
      /\ \A k \in (hc' + 1)..hc : handlers[k].depth > d
  BY DEF DropHandlers, Surviving
<1>4. hc' <= seg[d]
  <2>1. CASE hc' = 0
    BY <1>1, <1>2, <2>1
  <2>2. CASE hc' # 0
    <3>1. hc' \in 1..hc
      BY <1>1, <1>3, <2>2
    <3> QED BY <1>2, <1>3, <2>2, <3>1
  <2> QED BY <2>1, <2>2
<1>5. ~(hc' < seg[d])
  <2> SUFFICES ASSUME hc' < seg[d] PROVE FALSE
    OBVIOUS
  <2>1. seg[d] \in (hc' + 1)..hc /\ seg[d] \in 1..hc /\ seg[d] <= seg[d]
    BY <1>1, <1>2, <1>3
  <2>2. handlers[seg[d]].depth > d /\ handlers[seg[d]].depth <= d
    BY <1>2, <1>3, <2>1
  <2>3. handlers[seg[d]].depth \in Int /\ d \in Int
    <3>1. seg[d] \in 1..HandlerMax /\ handlers \in [1..HandlerMax -> Handler]
      BY <1>1, <2>1, Limits DEF MachineTyped
    <3> QED BY <3>1, Limits DEF Handler
  <2> QED BY <2>2, <2>3
<1>6. hc' = seg[d]
  BY <1>1, <1>2, <1>3, <1>4, <1>5
<1> QED BY <1>2, <1>6

(***************************************************************************)
(* The try blocks of an instruction                                        *)
(***************************************************************************)
\* Along its edges an instruction keeps them, opens one or closes one.
OpenStep(f, pc) ==
    LET i == Code[f][pc]
        q == Open[f][pc]
    IN /\ q \in Seq(Nat)
       /\ \A k \in 1..Len(q) : Open[f][q[k]] = SubSeq(q, 1, k - 1)
       /\ i.op = "try" => Open[f][pc + 1] = Append(q, i.to)
       /\ i.op = "endtry" => q # <<>> /\ Open[f][pc + 1] = SubSeq(q, 1, Len(q) - 1)
       /\ i.op \notin {"try", "endtry", "jump"} /\ ~Terminates(i) => Open[f][pc + 1] = q
       /\ i.op \in {"jump", "branch", "coalesce"} => Open[f][i.to] = q

LEMMA VerifiedOpenStep ==
    ASSUME NestedTries, NEW f, NEW pc, Verified(f, pc)
    PROVE  OpenStep(f, pc)
<1> DEFINE i == Code[f][pc]  q == Open[f][pc]
<1>1. f \in Fns /\ pc \in 1..Len(Code[f]) /\ Lo[f][pc] >= 0
  BY DEF Verified
<1>2. /\ q \in Seq(Nat)
      /\ \A k \in 1..Len(q) : Open[f][q[k]] = SubSeq(q, 1, k - 1)
      /\ IF i.op = "try" THEN Open[f][pc + 1] = Append(q, i.to)
         ELSE IF i.op = "endtry" THEN q # <<>> /\ Open[f][pc + 1] = SubSeq(q, 1, Len(q) - 1)
         ELSE \A e \in Edges(i, pc) : Open[f][e.to] = q
  BY <1>1 DEF NestedTries, TriesNest
<1> HIDE DEF q, i
<1>3. ASSUME i.op \notin {"try", "endtry", "jump"}, ~Terminates(i) PROVE Open[f][pc + 1] = q
  <2>1. \E e \in Edges(i, pc) : e.to = pc + 1
    <3>1. CASE i.op = "coalesce"
      <4>1. [to |-> pc + 1, min |-> -1, max |-> 0] \in Edges(i, pc)
        BY <1>3, <3>1 DEF Edges
      <4> QED BY <4>1
    <3>2. CASE i.op # "coalesce"
      <4>1. [to |-> pc + 1, min |-> Delta(i), max |-> Delta(i)] \in Edges(i, pc)
        BY <1>3, <3>2 DEF Edges
      <4> QED BY <4>1
    <3> QED BY <3>1, <3>2
  <2> QED BY <1>2, <1>3, <2>1
<1>4. ASSUME i.op \in {"jump", "branch", "coalesce"} PROVE Open[f][i.to] = q
  <2>1. \E e \in Edges(i, pc) : e.to = i.to
    <3>1. CASE i.op = "coalesce"
      <4>1. [to |-> i.to, min |-> 0, max |-> 0] \in Edges(i, pc)
        BY <3>1 DEF Edges
      <4> QED BY <4>1
    <3>2. CASE i.op # "coalesce"
      <4>1. [to |-> i.to, min |-> Delta(i), max |-> Delta(i)] \in Edges(i, pc)
        BY <1>4, <3>2 DEF Edges
      <4> QED BY <4>1
    <3> QED BY <3>1, <3>2
  <2> QED BY <1>2, <1>4, <2>1
<1>5. i.op = "try" => Open[f][pc + 1] = Append(q, i.to)
  BY <1>2
<1>6. i.op = "endtry" => q # <<>> /\ Open[f][pc + 1] = SubSeq(q, 1, Len(q) - 1)
  BY <1>2
<1> QED BY <1>2, <1>3, <1>4, <1>5, <1>6 DEF OpenStep, i, q

LEMMA ChunkOpensNothing ==
    ASSUME NestedTries, NEW f \in Fns
    PROVE  Open[f][1] = <<>>
BY DEF NestedTries, TriesNest

\* The try blocks of the running instruction.
LEMMA AtOpen ==
    ASSUME NestedTries, Inv, exec
    PROVE  /\ MachineTyped /\ Sound /\ fc \in 1..FrameMax /\ fc \in Nat /\ hc \in Nat /\ FrameMax \in Nat
           /\ frames \in [1..FrameMax -> Frame] /\ Top = frames[fc] /\ Top \in Frame
           /\ OpenOf(Top) \in Seq(Nat)
           /\ \A k \in 1..Len(OpenOf(Top)) :
                Open[Top.fn][OpenOf(Top)[k]] = SubSeq(OpenOf(Top), 1, k - 1)
           /\ Instr.op = "try" => Open[Top.fn][Top.pc + 1] = Append(OpenOf(Top), Instr.to)
           /\ Instr.op = "endtry" => /\ OpenOf(Top) # <<>>
                                     /\ Open[Top.fn][Top.pc + 1] = SubSeq(OpenOf(Top), 1, Len(OpenOf(Top)) - 1)
           /\ Instr.op \notin {"try", "endtry", "jump"} /\ ~Terminates(Instr)
                => Open[Top.fn][Top.pc + 1] = OpenOf(Top)
           /\ Instr.op \in {"jump", "branch", "coalesce"} => Open[Top.fn][Instr.to] = OpenOf(Top)
<1>1. /\ MachineTyped /\ Sound /\ fc \in 1..FrameMax /\ fc \in Nat /\ hc \in Nat /\ FrameMax \in Nat
      /\ frames \in [1..FrameMax -> Frame] /\ fc \in 1..fc
  BY AtInstr, Limits DEF MachineTyped
<1>2. Verified(Top.fn, Top.pc)
  BY <1>1 DEF Sound, Top
<1>3. Top = frames[fc] /\ Top \in Frame
  BY <1>1 DEF Top
<1>4. OpenOf(Top) = Open[Top.fn][Top.pc] /\ Instr = Code[Top.fn][Top.pc]
  BY DEF OpenOf, Instr
<1>5. OpenStep(Top.fn, Top.pc)
  BY <1>2, VerifiedOpenStep
<1> QED BY <1>1, <1>3, <1>4, <1>5 DEF OpenStep

(***************************************************************************)
(* The actions                                                             *)
(***************************************************************************)
LEMMA HaltTries == ASSUME exec' = FALSE PROVE TrySegments'
BY DEF TrySegments

\* Moving ip within the try blocks it is in.
LEMMA GotoTries ==
    ASSUME NestedTries, Inv, exec, TrySegments, NEW pc, Open[Top.fn][pc] = OpenOf(Top),
           Goto(pc), UNCHANGED <<fc, handlers, hc>>
    PROVE  TrySegments'
<1>1. PICK seg : Segmented(seg, frames, fc, handlers, hc)
  BY DEF TrySegments
<1>2. fc \in Nat /\ hc \in Nat /\ fc \in 1..FrameMax /\ frames \in [1..FrameMax -> Frame] /\ Top = frames[fc]
  BY AtOpen
<1>3. frames' = [frames EXCEPT ![fc] = [@ EXCEPT !.pc = pc]]
  BY DEF Goto
<1>4. \A i \in 1..fc : OpenOf(frames'[i]) = OpenOf(frames[i])
  BY <1>2, <1>3 DEF OpenOf, Frame
<1>5. Segmented(seg, frames', fc, handlers, hc)
  BY <1>1, <1>2, <1>4, SegmentsOfOpen
<1> QED BY <1>5 DEF TrySegments

\* A call, a constructor or a fire: the caller waits in the same try blocks.
LEMMA EnterTries ==
    ASSUME NestedTries, Inv, exec, TrySegments, Instr.op \in {"call", "new", "fire"},
           fc < FrameMax, NEW f \in Fns, NEW depth \in Int, Enter(f, depth)
    PROVE  TrySegments'
<1>1. PICK seg : Segmented(seg, frames, fc, handlers, hc)
  BY DEF TrySegments
<1>2. /\ fc \in Nat /\ hc \in Nat /\ fc \in 1..FrameMax /\ Top = frames[fc] /\ Top \in Frame
      /\ MachineTyped /\ Sound /\ fc > 0
      /\ Open[Top.fn][Top.pc + 1] = OpenOf(Top)
  BY AtOpen, AtInstr DEF Terminates
<1>3. Verified(Top.fn, Top.pc + 1)
  BY AtInstr DEF Terminates
<1>4. /\ fc' = fc + 1 /\ UNCHANGED <<handlers, hc>>
      /\ frames'[fc] = [Top EXCEPT !.pc = @ + 1]
      /\ frames'[fc + 1] = [fn |-> f, pc |-> 1, base |-> depth]
      /\ \A i \in 1..(fc - 1) : frames'[i] = frames[i]
  BY <1>2, <1>3, EnterSound DEF Enter
<1>5. OpenOf(frames'[fc]) = OpenOf(frames[fc])
  BY <1>2, <1>4 DEF OpenOf, Frame
<1>6. \A i \in 1..fc : OpenOf(frames'[i]) = OpenOf(frames[i])
  <2>1. \A i \in 1..fc : i \in 1..(fc - 1) \/ i = fc
    BY <1>2
  <2> QED BY <1>4, <1>5, <2>1
<1>7. OpenOf(frames'[fc + 1]) = <<>>
  BY <1>4, ChunkOpensNothing DEF OpenOf
<1>8. OnTop(frames, frames', fc, handlers, handlers, hc, <<>>)
  BY <1>2, <1>6, <1>7 DEF OnTop
<1>9. Segmented([seg EXCEPT ![fc + 1] = hc + Len(<<>>)], frames', fc + 1, handlers, hc + Len(<<>>))
  <2>1. <<>> \in Seq(Nat)
    OBVIOUS
  <2> QED BY <1>1, <1>2, <1>8, <2>1, SegmentOnTop
<1>10. hc + Len(<<>>) = hc
  BY <1>2
<1> QED BY <1>4, <1>9, <1>10 DEF TrySegments

\* A return takes the handlers of its frame along.
LEMMA LeaveTries ==
    ASSUME NestedTries, Inv, exec, TrySegments, Leave
    PROVE  TrySegments'
<1>1. PICK seg : Segmented(seg, frames, fc, handlers, hc)
  BY DEF TrySegments
<1>2. fc - 1 \in 0..fc /\ MachineTyped
  BY AtOpen
<1>3. Segmented(seg, frames, fc - 1, handlers, hc')
  BY <1>1, <1>2, DropSegments DEF Leave
<1> QED BY <1>3 DEF Leave, TrySegments

\* The next event handler starts where the last one was, without its handlers.
LEMMA NextHandlerTries ==
    ASSUME NestedTries, Inv, exec, TrySegments, NextHandler
    PROVE  TrySegments'
<1>1. PICK seg : Segmented(seg, frames, fc, handlers, hc)
  BY DEF TrySegments
<1>2. /\ fc \in Nat /\ hc \in Nat /\ fc \in 1..FrameMax /\ frames \in [1..FrameMax -> Frame]
      /\ MachineTyped /\ fc - 1 \in 0..fc /\ fc - 1 \in Nat
  BY AtOpen
<1>3. Segmented(seg, frames, fc - 1, handlers, hc') /\ hc' = seg[fc - 1] /\ UNCHANGED handlers
  BY <1>1, <1>2, DropSegments DEF NextHandler
<1>4. PICK m \in Nat : m = hc'
  <2>1. seg[fc - 1] \in 0..hc
    BY <1>1, <1>2, SegmentsBelow
  <2> QED BY <1>2, <1>3, <2>1
<1>5. PICK i \in Remaining :
        \/ exec' = FALSE
        \/ /\ fc' = fc
           /\ \E depth : frames' = [frames EXCEPT ![fc] =
                                      [fn |-> Resolve[pending.list[i]], pc |-> 1, base |-> depth]]
  BY DEF NextHandler, Abort
<1>6. CASE exec' = FALSE
  BY <1>6, HaltTries
<1>7. CASE exec' # FALSE
  <2>1. Resolve[pending.list[i]] \in Fns
    BY PendingTyped
  <2>2. PICK depth : frames' = [frames EXCEPT ![fc] =
                                  [fn |-> Resolve[pending.list[i]], pc |-> 1, base |-> depth]]
    BY <1>5, <1>7
  <2>3. OpenOf(frames'[fc]) = <<>>
    BY <1>2, <2>1, <2>2, ChunkOpensNothing DEF OpenOf
  <2>4. \A j \in 1..(fc - 1) : OpenOf(frames'[j]) = OpenOf(frames[j])
    BY <1>2, <2>2
  <2>5. fc - 1 + 1 = fc
    BY <1>2
  <2>6. OnTop(frames, frames', fc - 1, handlers, handlers, m, <<>>)
    BY <2>3, <2>4, <2>5 DEF OnTop
  <2>7. Segmented([seg EXCEPT ![fc - 1 + 1] = m + Len(<<>>)], frames', fc - 1 + 1, handlers, m + Len(<<>>))
    <3>1. <<>> \in Seq(Nat)
      OBVIOUS
    <3> QED BY <1>2, <1>3, <1>4, <2>6, <3>1, SegmentOnTop
  <2>8. m + Len(<<>>) = m
    OBVIOUS
  <2> QED BY <1>3, <1>4, <1>5, <1>7, <2>5, <2>7, <2>8 DEF TrySegments
<1> QED BY <1>6, <1>7

\* TRY pushes the handler of the block it opens.
LEMMA TryTries ==
    ASSUME NestedTries, Inv, exec, TrySegments, Try
    PROVE  TrySegments'
<1>1. PICK seg : Segmented(seg, frames, fc, handlers, hc)
  BY DEF TrySegments
<1>2. /\ fc \in Nat /\ hc \in Nat /\ fc \in 1..FrameMax /\ frames \in [1..FrameMax -> Frame]
      /\ MachineTyped /\ fc - 1 \in 0..fc /\ fc - 1 \in Nat /\ fc - 1 + 1 = fc /\ Top = frames[fc]
      /\ fc > 0
  BY AtOpen
<1>3. CASE Fail
  BY <1>3, HaltTries DEF Fail, Halt, Abort
<1>4. CASE ~Fail
  <2>1. /\ Instr.op = "try" /\ hc < HandlerMax /\ hc' = hc + 1 /\ fc' = fc
        /\ handlers' = [handlers EXCEPT ![hc + 1] =
                          [fn |-> Top.fn, pc |-> Instr.to, depth |-> fc, sp |-> sp]]
        /\ frames' = [frames EXCEPT ![fc] = [@ EXCEPT !.pc = Top.pc + 1]]
    BY <1>4 DEF Try, Fetch, Advance, Goto
  <2>2. PICK q \in Seq(Nat) : q = OpenOf(Top)
    BY AtOpen
  <2>3. Open[Top.fn][Top.pc + 1] = Append(q, Instr.to) /\ Instr.to \in Nat
    BY <2>1, <2>2, AtOpen, AtInstr
  <2>a. PICK low : Last(seg, frames, fc, handlers, hc, q, low)
    BY <1>1, <1>2, <2>2, LastSegment
  <2>4. /\ low \in 0..hc /\ Segmented(seg, frames, fc - 1, handlers, low)
        /\ hc = low + Len(q)
        /\ \A k \in (low + 1)..hc : handlers[k].depth = fc /\ handlers[k].pc = q[k - low]
    BY <2>a DEF Last
  <2>b. low \in Nat /\ low + Len(q) = hc /\ \A k \in 1..low : k \in 1..hc
    BY <1>2, <2>4
  <2> DEFINE r == Append(q, Instr.to)
  <2>5. r \in Seq(Nat) /\ Len(r) = Len(q) + 1 /\ r[Len(q) + 1] = Instr.to /\ \A k \in 1..Len(q) : r[k] = q[k]
    BY <2>3
  <2>6. OpenOf(frames'[fc]) = r /\ \A i \in 1..(fc - 1) : OpenOf(frames'[i]) = OpenOf(frames[i])
    BY <1>2, <2>1, <2>3 DEF OpenOf, Frame
  <2> HIDE DEF r
  <2>7. hc + 1 \in 1..HandlerMax /\ handlers \in [1..HandlerMax -> Handler] /\ Len(q) \in Nat
    BY <1>2, <2>1, Limits DEF MachineTyped
  <2>8. /\ \A k \in 1..hc : handlers'[k] = handlers[k]
        /\ handlers'[hc + 1].depth = fc /\ handlers'[hc + 1].pc = Instr.to
    BY <1>2, <2>1, <2>7
  <2>9. \A k \in (low + 1)..(low + Len(r)) : handlers'[k].depth = fc /\ handlers'[k].pc = r[k - low]
    <3> SUFFICES ASSUME NEW k \in (low + 1)..(low + Len(r))
                 PROVE  handlers'[k].depth = fc /\ handlers'[k].pc = r[k - low]
      OBVIOUS
    <3>1. CASE k <= hc
      <4>1. k \in (low + 1)..hc /\ k \in 1..hc /\ k - low \in 1..Len(q)
        BY <1>2, <2>4, <2>7, <3>1
      <4> QED BY <2>4, <2>5, <2>8, <4>1
    <3>2. CASE ~(k <= hc)
      <4>1. k = hc + 1 /\ k - low = Len(q) + 1
        <5>1. Len(r) = Len(q) + 1 /\ Len(q) \in Nat
          BY <2>5, <2>7
        <5> QED BY <1>2, <2>b, <3>2, <5>1
      <4> QED BY <2>5, <2>8, <4>1
    <3> QED BY <3>1, <3>2
  <2>10. OnTop(frames, frames', fc - 1, handlers, handlers', low, r)
    BY <1>2, <2>b, <2>6, <2>8, <2>9 DEF OnTop
  <2>11. Segmented([seg EXCEPT ![fc - 1 + 1] = low + Len(r)], frames', fc - 1 + 1, handlers', low + Len(r))
    BY <1>2, <2>4, <2>b, <2>5, <2>10, SegmentOnTop
  <2>12. hc' = low + Len(r)
    BY <1>2, <2>1, <2>4, <2>5, <2>7
  <2> QED BY <1>2, <2>1, <2>11, <2>12 DEF TrySegments
<1> QED BY <1>3, <1>4

\* A frame leaves its innermost try block, by its end or by its catch.
LEMMA InnermostLeft ==
    ASSUME NEW seg, NEW fs, NEW n \in Nat, NEW hs, NEW m \in Nat, Segmented(seg, fs, n, hs, m), n > 0,
           NEW q \in Seq(Nat), q = OpenOf(fs[n]), q # <<>>,
           NEW fs2, \A i \in 1..(n - 1) : OpenOf(fs2[i]) = OpenOf(fs[i]),
           OpenOf(fs2[n]) = SubSeq(q, 1, Len(q) - 1)
    PROVE  m > 0 /\ \E new : Segmented(new, fs2, n, hs, m - 1)
<1> DEFINE r == SubSeq(q, 1, Len(q) - 1)
<1>a. PICK low : Last(seg, fs, n, hs, m, q, low)
  BY LastSegment
<1>1. /\ low \in 0..m /\ low \in Nat /\ Segmented(seg, fs, n - 1, hs, low)
      /\ m = low + Len(q)
      /\ \A k \in (low + 1)..m : hs[k].depth = n /\ hs[k].pc = q[k - low]
  BY <1>a DEF Last
<1>2. Len(q) \in Nat /\ Len(q) > 0
  OBVIOUS
<1>3. r \in Seq(Nat) /\ Len(r) = Len(q) - 1 /\ \A k \in 1..Len(r) : r[k] = q[k]
  BY <1>2
<1> HIDE DEF r
<1>4. n - 1 + 1 = n /\ n - 1 \in Nat
  OBVIOUS
<1>5. \A k \in (low + 1)..(low + Len(r)) : hs[k].depth = n /\ hs[k].pc = r[k - low]
  <2> SUFFICES ASSUME NEW k \in (low + 1)..(low + Len(r)) PROVE hs[k].depth = n /\ hs[k].pc = r[k - low]
    OBVIOUS
  <2>1. k \in (low + 1)..m /\ k - low \in 1..Len(r)
    BY <1>1, <1>2, <1>3
  <2> QED BY <1>1, <1>3, <2>1
<1>6. OnTop(fs, fs2, n - 1, hs, hs, low, r)
  BY <1>4, <1>5 DEF OnTop, r
<1>7. Segmented([seg EXCEPT ![n - 1 + 1] = low + Len(r)], fs2, n - 1 + 1, hs, low + Len(r))
  BY <1>1, <1>3, <1>4, <1>6, SegmentOnTop
<1>8. low + Len(r) = m - 1 /\ m > 0
  BY <1>1, <1>2, <1>3
<1> QED BY <1>4, <1>7, <1>8

LEMMA EndTryTries ==
    ASSUME NestedTries, Inv, exec, TrySegments, EndTry
    PROVE  TrySegments'
<1>1. PICK seg : Segmented(seg, frames, fc, handlers, hc)
  BY DEF TrySegments
<1>2. /\ fc \in Nat /\ hc \in Nat /\ fc \in 1..FrameMax /\ frames \in [1..FrameMax -> Frame]
      /\ fc > 0 /\ Top = frames[fc]
  BY AtOpen
<1>3. /\ Instr.op = "endtry" /\ fc' = fc /\ UNCHANGED handlers
      /\ hc' = (IF hc > 0 THEN hc - 1 ELSE 0)
      /\ frames' = [frames EXCEPT ![fc] = [@ EXCEPT !.pc = Top.pc + 1]]
  BY DEF EndTry, Fetch, Advance, Goto
<1>4. PICK q \in Seq(Nat) : q = OpenOf(Top)
  BY AtOpen
<1>5. q # <<>> /\ Open[Top.fn][Top.pc + 1] = SubSeq(q, 1, Len(q) - 1)
  BY <1>3, <1>4, AtOpen
<1>6. /\ OpenOf(frames'[fc]) = SubSeq(q, 1, Len(q) - 1)
      /\ \A i \in 1..(fc - 1) : OpenOf(frames'[i]) = OpenOf(frames[i])
  <2>1. frames'[fc].fn = Top.fn /\ frames'[fc].pc = Top.pc + 1
    BY <1>2, <1>3 DEF Frame
  <2>2. \A i \in 1..(fc - 1) : frames'[i] = frames[i]
    BY <1>2, <1>3
  <2> QED BY <1>5, <2>1, <2>2 DEF OpenOf
<1>7. hc > 0 /\ \E new : Segmented(new, frames', fc, handlers, hc - 1)
  BY <1>1, <1>2, <1>4, <1>5, <1>6, InnermostLeft
<1> QED BY <1>3, <1>7 DEF TrySegments

\* THROW lands outside the try block of the handler it takes.
LEMMA ThrowTries ==
    ASSUME NestedTries, Inv, exec, TrySegments, Throw
    PROVE  TrySegments'
<1>1. CASE Fail
  BY <1>1, HaltTries DEF Fail, Halt, Abort
<1>2. CASE ~Fail
  <2>1. PICK seg : Segmented(seg, frames, fc, handlers, hc)
    BY DEF TrySegments
  <2>2. /\ fc \in Nat /\ hc \in Nat /\ fc \in 1..FrameMax /\ frames \in [1..FrameMax -> Frame]
        /\ MachineTyped /\ Sound
    BY AtOpen
  <2>3. /\ hc > 0 /\ hc \in 1..hc
        /\ fc' = handlers[hc].depth /\ hc' = hc - 1 /\ UNCHANGED handlers
        /\ frames' = [frames EXCEPT ![handlers[hc].depth] =
                        [fn |-> handlers[hc].fn, pc |-> handlers[hc].pc, base |-> @.base]]
    BY <1>2, <2>2 DEF Throw
  <2>4. PICK d \in 1..fc : d = handlers[hc].depth
    BY <2>2, <2>3 DEF Sound
  <2>5. handlers[hc].fn = frames[d].fn /\ Verified(frames[d].fn, frames[d].pc)
    BY <2>2, <2>3, <2>4 DEF Sound
  <2>6. d \in 0..fc /\ d \in Nat /\ d > 0 /\ d \in 1..FrameMax
    BY <2>2, Limits
  <2>7. Segmented(seg, frames, d, handlers, hc)
    <3>1. /\ Segmented(seg, frames, d, handlers, seg[d]) /\ seg[d] \in 0..hc
          /\ \A k \in 1..hc : k <= seg[d] <=> handlers[k].depth <= d
      BY <2>1, <2>2, <2>6, SegmentsBelow
    <3>2. hc <= seg[d]
      BY <2>3, <2>4, <2>6, <3>1
    <3>3. seg[d] = hc
      BY <2>2, <3>1, <3>2
    <3> QED BY <3>1, <3>3
  <2>8. OpenStep(frames[d].fn, frames[d].pc)
    BY <2>5, VerifiedOpenStep
  <2>9. PICK q \in Seq(Nat) : q = OpenOf(frames[d])
    BY <2>8 DEF OpenStep, OpenOf
  <2>10. \A k \in 1..Len(q) : Open[frames[d].fn][q[k]] = SubSeq(q, 1, k - 1)
    BY <2>8, <2>9 DEF OpenStep, OpenOf
  <2>a. PICK low : Last(seg, frames, d, handlers, hc, q, low)
    BY <2>2, <2>6, <2>7, <2>9, LastSegment
  <2>11. /\ low \in 0..hc /\ Segmented(seg, frames, d - 1, handlers, low)
         /\ hc = low + Len(q)
         /\ \A k \in (low + 1)..hc : handlers[k].depth = d /\ handlers[k].pc = q[k - low]
    BY <2>a DEF Last
  <2>12. Len(q) > 0
    <3> SUFFICES ASSUME Len(q) = 0 PROVE FALSE
      OBVIOUS
    <3>1. low = hc /\ d - 1 \in Nat
      BY <2>2, <2>6, <2>11
    <3>2. handlers[hc].depth \in 1..(d - 1)
      BY <2>3, <2>11, <3>1 DEF Segmented
    <3> QED BY <2>4, <2>6, <3>2
  <2>13. handlers[hc].pc = q[Len(q)] /\ q # <<>> /\ Len(q) \in 1..Len(q)
    <3>1. hc \in (low + 1)..hc /\ hc - low = Len(q)
      BY <2>2, <2>11, <2>12
    <3>2. handlers[hc].pc = q[hc - low]
      BY <2>11, <3>1
    <3> QED BY <2>12, <3>1, <3>2
  <2>14. OpenOf(frames'[d]) = SubSeq(q, 1, Len(q) - 1)
    <3>1. frames'[d].fn = frames[d].fn /\ frames'[d].pc = q[Len(q)]
      BY <2>2, <2>3, <2>4, <2>5, <2>6, <2>13
    <3> QED BY <2>10, <2>13, <3>1 DEF OpenOf
  <2>15. \A i \in 1..(d - 1) : OpenOf(frames'[i]) = OpenOf(frames[i])
    BY <2>2, <2>3, <2>4, <2>6
  <2>16. \E new : Segmented(new, frames', d, handlers, hc - 1)
    BY <2>2, <2>6, <2>7, <2>9, <2>13, <2>14, <2>15, InnermostLeft
  <2> QED BY <2>3, <2>4, <2>16 DEF TrySegments
<1> QED BY <1>1, <1>2

LEMMA OpcodesTries ==
    ASSUME NestedTries, Inv, exec, TrySegments,
           Plain \/ Jump \/ Branch \/ Coalesce \/ Call \/ New \/ Return \/ ReturnVoid \/ FireDone
             \/ MatchFailure \/ Subscribe \/ Unsubscribe \/ FireNobody \/ Fire \/ BudgetExceeded
    PROVE  TrySegments'
<1>1. CASE Halt
  BY <1>1, HaltTries DEF Halt, Abort
<1>2. CASE ~Halt
  <2>1. CASE Plain \/ Subscribe \/ Unsubscribe \/ FireNobody
    <3>1. /\ Instr.op \in {"plain", "subscribe", "unsubscribe", "fire"}
          /\ Goto(Top.pc + 1) /\ UNCHANGED <<fc, handlers, hc>>
      BY <1>2, <2>1 DEF Plain, Subscribe, Unsubscribe, FireNobody, Fail, Fetch, Advance
    <3>2. Open[Top.fn][Top.pc + 1] = OpenOf(Top)
      BY <3>1, AtOpen DEF Terminates
    <3> QED BY <3>1, <3>2, GotoTries
  <2>2. CASE Jump \/ Branch \/ Coalesce
    <3>1. PICK pc \in {Instr.to, Top.pc + 1} :
            /\ Instr.op \in {"jump", "branch", "coalesce"}
            /\ Instr.op = "jump" => pc = Instr.to
            /\ Goto(pc) /\ UNCHANGED <<fc, handlers, hc>>
      BY <2>2 DEF Jump, Branch, Coalesce, Fetch, Advance
    <3>2. Open[Top.fn][pc] = OpenOf(Top)
      BY <3>1, AtOpen DEF Terminates
    <3> QED BY <3>1, <3>2, GotoTries
  <2>3. CASE New /\ Instr.fns = {}
    <3>1. /\ Instr.op = "new" /\ Goto(Top.pc + 1) /\ UNCHANGED <<fc, handlers, hc>>
      BY <1>2, <2>3 DEF New, Fetch, Advance
    <3>2. Open[Top.fn][Top.pc + 1] = OpenOf(Top)
      BY <3>1, AtOpen DEF Terminates
    <3> QED BY <3>1, <3>2, GotoTries
  <2>4. CASE Call \/ (New /\ Instr.fns # {}) \/ Fire
    <3>1. /\ Instr.op \in {"call", "new", "fire"} /\ fc < FrameMax
          /\ \E f \in Fns, depth \in Int : Enter(f, depth)
      <4>1. sp \in Int /\ Instr.pops \in Nat /\ Instr.fns \subseteq Fns /\ EventArgsMax \in Nat
        BY AtInstr, Limits
      <4>2. sp - Instr.pops \in Int /\ sp - Instr.pops + 1 \in Int
        BY <4>1
      <4>3. CASE Call
        BY <1>2, <4>1, <4>2, <4>3 DEF Call, Fail, Fetch, CanPush
      <4>4. CASE New /\ Instr.fns # {}
        BY <1>2, <4>1, <4>2, <4>4 DEF New, Fetch, CanPush
      <4>5. CASE Fire
        <5>1. Instr.op = "fire" /\ Instr.ev \in Events
          BY <4>5, AtInstr DEF Fire, Fetch
        <5>2. \A i \in Resolvable(table[Instr.ev]) : Resolve[table[Instr.ev][i]] \in Fns
          <6>1. table[Instr.ev] \in Seq(Subs)
            BY <5>1 DEF Inv, TypeOK, EventsTyped
          <6> QED BY <6>1, CodeAssumption DEF Resolvable, TypedCode
        <5>3. PICK argc \in Nat : argc = IF Instr.pops < EventArgsMax THEN Instr.pops ELSE EventArgsMax
          BY <4>1
        <5>4. sp - argc \in Int
          BY <4>1
        <5>5. \E f \in Fns : fc < FrameMax /\ Enter(f, sp - argc)
          BY <1>2, <4>5, <5>2, <5>3 DEF Fire, CanPush
        <5> QED BY <5>1, <5>4, <5>5
      <4> QED BY <2>4, <4>3, <4>4, <4>5
    <3> QED BY <3>1, EnterTries
  <2>5. CASE Return \/ ReturnVoid \/ FireDone
    BY <2>5, LeaveTries DEF Return, ReturnVoid, FireDone
  <2>6. CASE MatchFailure \/ BudgetExceeded
    BY <1>2, <2>6 DEF MatchFailure, BudgetExceeded, Fail
  <2> QED BY <2>1, <2>2, <2>3, <2>4, <2>5, <2>6
<1> QED BY <1>1, <1>2

\* Bytecode starts in one frame, outside every try block.
LEMMA StartTries ==
    ASSUME NestedTries, fc' = 1, hc' = 0, NEW f \in Fns, frames'[1].fn = f, frames'[1].pc = 1
    PROVE  TrySegments'
<1> DEFINE seg == [i \in Nat |-> 0]
<1>1. OpenOf(frames'[1]) = <<>>
  BY ChunkOpensNothing DEF OpenOf
<1>2. Segmented(seg, frames', 1, handlers', 0)
  <2>1. \A i, j \in 0..1 : i <= j => seg[i] <= seg[j]
    OBVIOUS
  <2>2. \A i \in 1..1 : i = 1 /\ i - 1 = 0
    OBVIOUS
  <2>3. seg[1] = 0 /\ seg[0] = 0 /\ Len(<<>>) = 0
    OBVIOUS
  <2>4. \A i \in 1..1 : seg[i] = seg[i - 1] + Len(OpenOf(frames'[i]))
    BY <1>1, <2>2, <2>3
  <2> QED BY <2>1, <2>3, <2>4 DEF Segmented
<1> QED BY <1>2 DEF TrySegments

LEMMA HostTries ==
    ASSUME NestedTries, Inv, CleanStart, TrySegments,
           BeginRun \/ BeginLoad \/ StartSinit \/ StartEntry \/ Finish \/ Recreate
    PROVE  TrySegments'
<1>1. exec \in BOOLEAN /\ (exec => host # "idle") /\ MachineTyped /\ todo \in Seq(Fns)
      /\ entry \in Fns \cup {NoFn} /\ (host = "run" /\ ~exec => fc = 0)
  BY DEF Inv, TypeOK, HostTyped
<1>2. FrameMax \in Nat /\ FrameMax > 0 /\ frames \in [1..FrameMax -> Frame] /\ 1 \in 1..FrameMax
  BY <1>1, Limits DEF MachineTyped
<1>3. CASE BeginRun \/ BeginLoad \/ Finish \/ Recreate
  BY <1>1, <1>3 DEF BeginRun, BeginLoad, Finish, Recreate, HostMayCall, TrySegments
<1>4. CASE StartSinit
  <2>1. /\ fc' = 1 /\ hc' = hc /\ hc = 0 /\ todo # <<>>
        /\ frames' = [frames EXCEPT ![1] = [fn |-> Head(todo), pc |-> 1, base |-> 0]]
    BY <1>4 DEF StartSinit, CleanStart
  <2>2. Head(todo) \in Fns /\ frames'[1].fn = Head(todo) /\ frames'[1].pc = 1
    BY <1>1, <1>2, <2>1
  <2> QED BY <2>1, <2>2, StartTries
<1>5. CASE StartEntry
  <2>1. CASE Abort
    BY <2>1, HaltTries DEF Abort
  <2>2. CASE ~Abort
    <3>1. /\ host = "run" /\ ~exec /\ entry # NoFn /\ fc' = fc + 1 /\ hc' = hc
          /\ frames' = [frames EXCEPT ![fc + 1] = [fn |-> entry, pc |-> 1, base |-> sp]]
      BY <1>5, <2>2 DEF StartEntry
    <3>2. fc = 0 /\ hc = 0 /\ entry \in Fns /\ fc' = 1 /\ fc + 1 = 1
      BY <1>1, <3>1 DEF CleanStart
    <3>3. frames'[1].fn = entry /\ frames'[1].pc = 1
      BY <1>2, <3>1, <3>2
    <3> QED BY <3>1, <3>2, <3>3, StartTries
  <2> QED BY <2>1, <2>2
<1> QED BY <1>3, <1>4, <1>5

LEMMA TryStep == NestedTries /\ Inv /\ CleanStart /\ TrySegments /\ [Next]_vars => TrySegments'
<1> SUFFICES ASSUME NestedTries, Inv, CleanStart, TrySegments, [Next]_vars PROVE TrySegments'
  OBVIOUS
<1>1. CASE UNCHANGED vars
  BY <1>1 DEF vars, machine, control, TrySegments
<1>2. CASE Execute
  <2>1. exec
    BY <1>2, FetchTyped DEF Execute, Plain, Jump, Branch, Coalesce, Call, New, Return, ReturnVoid,
       NextHandler, FireDone, MatchFailure, Try, EndTry, Throw, Subscribe, Unsubscribe,
       FireNobody, Fire, BudgetExceeded
  <2> QED BY <1>2, <2>1, OpcodesTries, NextHandlerTries, TryTries, EndTryTries, ThrowTries DEF Execute
<1>3. CASE BeginRun \/ BeginLoad \/ StartSinit \/ StartEntry \/ Finish \/ Recreate
  BY <1>3, HostTries
<1> QED BY <1>1, <1>2, <1>3 DEF Next, HostCallStep

(***************************************************************************)
(* What the segments are for                                               *)
(***************************************************************************)
\* The catch targets around an instruction are different: those around each
\* of them are as many as it has before it.
LEMMA CatchesDiffer ==
    ASSUME NestedTries, NEW f, NEW pc, Verified(f, pc),
           NEW j \in 1..Len(Open[f][pc]), NEW k \in 1..Len(Open[f][pc]),
           Open[f][pc][j] = Open[f][pc][k]
    PROVE  j = k
<1>1. PICK q \in Seq(Nat) : q = Open[f][pc]
  BY VerifiedOpenStep DEF OpenStep
<1>2. \A i \in 1..Len(q) : Open[f][q[i]] = SubSeq(q, 1, i - 1)
  BY <1>1, VerifiedOpenStep DEF OpenStep
<1>3. \A i \in 1..Len(q) : Len(SubSeq(q, 1, i - 1)) = i - 1
  BY <1>1
<1>4. SubSeq(q, 1, j - 1) = SubSeq(q, 1, k - 1)
  BY <1>1, <1>2
<1>5. j - 1 = k - 1 /\ j \in Int /\ k \in Int
  BY <1>1, <1>3, <1>4
<1> QED BY <1>5

LEMMA SegmentsSafe == NestedTries /\ Inv /\ TrySegments => OneHandlerPerTry
<1> SUFFICES ASSUME NestedTries, Inv, TrySegments, exec,
                    NEW j \in 1..hc, NEW k \in 1..hc,
                    handlers[j].depth = handlers[k].depth, handlers[j].pc = handlers[k].pc
             PROVE  j = k
  BY DEF OneHandlerPerTry
<1>1. PICK seg : Segmented(seg, frames, fc, handlers, hc)
  BY DEF TrySegments
<1>2. fc \in Nat /\ hc \in Nat /\ Sound
  BY AtOpen
<1>3. PICK d \in 1..fc : d = handlers[j].depth
  BY <1>1 DEF Segmented
<1>4. /\ seg \in [Nat -> Nat] /\ seg[d] = seg[d - 1] + Len(OpenOf(frames[d])) /\ d - 1 \in Nat
      /\ seg[d - 1] < j /\ j <= seg[d] /\ handlers[j].pc = OpenOf(frames[d])[j - seg[d - 1]]
      /\ seg[d - 1] < k /\ k <= seg[d] /\ handlers[k].pc = OpenOf(frames[d])[k - seg[d - 1]]
  <2>1. /\ seg \in [Nat -> Nat]
        /\ \A i \in 1..fc : seg[i] = seg[i - 1] + Len(OpenOf(frames[i]))
        /\ \A i \in 1..hc : /\ seg[handlers[i].depth - 1] < i /\ i <= seg[handlers[i].depth]
                            /\ handlers[i].pc = OpenOf(frames[handlers[i].depth])[i - seg[handlers[i].depth - 1]]
    BY <1>1 DEF Segmented
  <2>2. handlers[k].depth = d
    BY <1>3
  <2>3. d - 1 \in Nat
    BY <1>2
  <2> QED BY <1>3, <2>1, <2>2, <2>3
<1>5. PICK low \in Nat : low = seg[d - 1]
  BY <1>4
<1>6. Verified(frames[d].fn, frames[d].pc)
  BY <1>2 DEF Sound
<1>7. PICK q \in Seq(Nat) : q = OpenOf(frames[d]) /\ q = Open[frames[d].fn][frames[d].pc]
  BY <1>6, VerifiedOpenStep DEF OpenStep, OpenOf
<1>8. Len(q) \in Nat /\ j - low \in 1..Len(q) /\ k - low \in 1..Len(q) /\ q[j - low] = q[k - low]
  <2>1. /\ low < j /\ j <= low + Len(q) /\ low < k /\ k <= low + Len(q)
        /\ q[j - low] = q[k - low]
    BY <1>4, <1>5, <1>7
  <2>2. j \in Int /\ k \in Int /\ Len(q) \in Nat
    BY <1>2
  <2> QED BY <2>1, <2>2
<1>9. j - low = k - low
  BY <1>6, <1>7, <1>8, CatchesDiffer
<1> QED BY <1>2, <1>9

\* No handler is registered twice in chunks whose try blocks nest, whatever is
\* thrown, returned and fired across them: handler_count is the try blocks the
\* live frames are in, and XENO_HANDLER_MAX bounds their nesting.
THEOREM TriesAreRegisteredOnce ==
    ASSUME NestedTries
    PROVE  Spec /\ []CleanStart => []OneHandlerPerTry
<1>1. Init => TrySegments
  BY DEF Init, TrySegments
<1> QED BY <1>1, InitInv, StepInv, TryStep, SegmentsSafe, PTL DEF Spec
=============================================================================
