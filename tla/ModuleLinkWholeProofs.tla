------------------------ MODULE ModuleLinkWholeProofs ------------------------
(***************************************************************************)
(* For every separate build, in every order: what is linked has each       *)
(* function of each module once, and each class with what any module had   *)
(* of it; and xbc_verify, which runs on it again at the seal, accepts it.  *)
(***************************************************************************)
EXTENDS ModuleLinkProofs

WholeBuilds == \A b \in Builds : Whole(b)

(***************************************************************************)
(* The functions                                                           *)
(***************************************************************************)
\* the chunk a of dst is the function c of the part n of the build
Holds(a, n, c) ==
    /\ dst.chunks[a].body = c.body
    /\ \/ dst.chunks[a].name = c.name
       \/ n # 0 /\ c.name = Sinit /\ IsNumbered(dst.chunks[a].name)

BodiesOnce ==
    \A a, b \in 1..Len(dst.chunks) : dst.chunks[a].body = dst.chunks[b].body => a = b

BodiesPlaced == \A k \in PlacedChunks : dst.chunks[FnRemap(k)].body = src.chunks[k].body

BodiesKnown ==
    \A a \in 1..Len(dst.chunks) :
      \/ \E k \in PlacedChunks : FnRemap(k) = a
      \/ \E n \in 0..Done : \E c \in Chunks(Part(build, n)) : Holds(a, n, c)

BodiesMerged ==
    \A n \in 1..Done : \A c \in Chunks(Part(build, n)) :
      \E a \in 1..Len(dst.chunks) : dst.chunks[a].body = c.body

BodyInv == Live => BodiesOnce /\ BodiesPlaced /\ BodiesKnown /\ BodiesMerged

\* The functions of two modules are the same if their names are.
LEMMA SameFunction ==
  ASSUME WholeBuilds, Typed, NEW n \in 0..Len(build.plan), NEW p \in 0..Len(build.plan), n # p,
         NEW c \in Chunks(Part(build, n)), NEW d \in Chunks(Part(build, p))
  PROVE  c.body = d.body <=> c.name = d.name /\ c.name # Sinit
  <1>1. OneFunctionPerName(build)
    BY DEF WholeBuilds, Whole, Typed
  <1>2. PICK k \in 1..Len(Part(build, n).chunks) : c = Part(build, n).chunks[k]
    BY DEF Chunks
  <1>3. PICK l \in 1..Len(Part(build, p).chunks) : d = Part(build, p).chunks[l]
    BY DEF Chunks
  <1>. QED
    BY <1>1, <1>2, <1>3 DEF OneFunctionPerName

\* A module has no function twice.
LEMMA OwnFunctions ==
  ASSUME WholeBuilds, Typed, NEW n \in 0..Len(build.plan), Sound(Part(build, n)),
         NEW k \in 1..Len(Part(build, n).chunks), NEW l \in 1..Len(Part(build, n).chunks),
         Part(build, n).chunks[k].body = Part(build, n).chunks[l].body
  PROVE  k = l
  <1>1. OneFunctionPerName(build)
    BY DEF WholeBuilds, Whole, Typed
  <1>2. k = l \/ (Part(build, n).chunks[k].name = Part(build, n).chunks[l].name
                  /\ Part(build, n).chunks[k].name # Sinit)
    BY <1>1 DEF OneFunctionPerName
  <1>. QED
    BY <1>2 DEF Sound

\* What keeps names, bodies and places keeps what is known of them.
LEMMA BodiesKept ==
  ASSUME Typed, Live, Live', ChunkNames, BodyInv, UNCHANGED <<build, src>>, Done' = Done,
         PlacedChunks' = PlacedChunks,
         \A k \in PlacedChunks : FnRemap(k)' = FnRemap(k),
         Len(dst'.chunks) = Len(dst.chunks),
         \A a \in 1..Len(dst.chunks) :
           dst'.chunks[a].name = dst.chunks[a].name /\ dst'.chunks[a].body = dst.chunks[a].body
  PROVE  BodyInv'
  <1>1. BodiesOnce /\ BodiesPlaced /\ BodiesKnown /\ BodiesMerged /\ PlacesKnown
    BY DEF BodyInv, ChunkNames
  <1>2. BodiesOnce'
    BY <1>1 DEF BodiesOnce
  <1>3. BodiesPlaced'
    <2>. SUFFICES ASSUME NEW k \in PlacedChunks
                  PROVE  dst'.chunks[FnRemap(k)'].body = src'.chunks[k].body
      BY DEF BodiesPlaced
    <2>1. PICK a \in 1..Len(dst.chunks) : a = FnRemap(k)
      BY <1>1 DEF PlacesKnown, Named, NamedIn
    <2>2. dst.chunks[a].body = src.chunks[k].body /\ FnRemap(k)' = a
      BY <1>1, <2>1 DEF BodiesPlaced
    <2>. QED
      BY <2>1, <2>2
  <1>4. BodiesKnown'
    <2>. SUFFICES ASSUME NEW a \in 1..Len(dst.chunks)
                  PROVE  \/ \E k \in PlacedChunks' : FnRemap(k)' = a
                         \/ \E n \in 0..Done' : \E c \in Chunks(Part(build', n)) : Holds(a, n, c)'
      BY DEF BodiesKnown, Part
    <2>1. \A n, c : Holds(a, n, c) => Holds(a, n, c)'
      BY DEF Holds
    <2>2. CASE \E k \in PlacedChunks : FnRemap(k) = a
      BY <2>2
    <2>3. CASE \E n \in 0..Done : \E c \in Chunks(Part(build, n)) : Holds(a, n, c)
      BY <2>1, <2>3
    <2>. QED
      BY <1>1, <2>2, <2>3 DEF BodiesKnown
  <1>5. BodiesMerged'
    BY <1>1 DEF BodiesMerged, Part
  <1>. QED
    BY <1>2, <1>3, <1>4, <1>5 DEF BodyInv

\* The chunk that the first loop adds.
LEMMA AddedBody ==
  ASSUME Typed, AddChunk, NEW j \in Nat, j = i, ~Present(src.chunks[j])
  PROVE  /\ j \in 1..Len(src.chunks)
         /\ dst'.chunks[Len(dst.chunks) + 1].body = src.chunks[j].body
         /\ src.chunks[j].name # Sinit =>
              dst'.chunks[Len(dst.chunks) + 1].name = src.chunks[j].name
         /\ src.chunks[j].name = Sinit => IsNumbered(dst'.chunks[Len(dst.chunks) + 1].name)
  <1>. DEFINE c == src.chunks[j]
              added == [c EXCEPT !.name = NewName(c)]
  <1>1. /\ phase = "chunks" /\ i <= Len(src.chunks)
        /\ dst' = [dst EXCEPT !.chunks = Append(@, added)]
    BY DEF AddChunk
  <1>2. i \in 1..(Len(src.chunks) + 1) /\ Len(src.chunks) \in Nat /\ dst \in Module
        /\ Len(dst.chunks) \in Nat
    BY <1>1, ModuleFacts DEF Typed
  <1>3. j \in 1..Len(src.chunks)
    BY <1>1, <1>2
  <1>4. c \in ChunkType
    BY <1>3, ModuleFacts DEF Typed
  <1>5. NewName(c) \in Names
    BY <1>2, <1>4, SinitNames DEF NewName, ChunkType
  <1>6. added \in ChunkType /\ added.name = NewName(c) /\ added.body = c.body
    BY <1>4, <1>5 DEF ChunkType
  <1>. HIDE DEF added
  <1>7. dst'.chunks[Len(dst.chunks) + 1] = added
    BY <1>1, <1>2, <1>6, AddedChunk
  <1>. QED
    BY <1>3, <1>6, <1>7, NumberedIsNumbered DEF NewName

\* A function that module_merge leaves alone is the one dst has.
LEMMA PresentBody ==
  ASSUME SeparateBuilds, WholeBuilds, Typed, Where, ChunkNames, BodyInv,
         phase = "chunks", i <= Len(src.chunks), Present(src.chunks[i]),
         NEW a \in 1..Len(dst.chunks), a = Find(dst.chunks, src.chunks[i].name)
  PROVE  dst.chunks[a].body = src.chunks[i].body
  <1>. DEFINE c == src.chunks[i]
  <1>1. Busy /\ Live
    BY DEF Busy, Live
  <1>2. /\ Named(i, a) /\ \A k \in PlacedChunks : FnRemap(k) # a
    BY PresentIsOld
  <1>3. /\ src = Part(build, Current) /\ Current \in 1..Len(build.plan) /\ Done = Current - 1
        /\ src = build.plan[Current]
        /\ Len(build.plan) \in Nat
    BY <1>1, PartFacts, LinkAssumption DEF Typed, Where
  <1>4. PICK n \in 0..Done : \E d \in Chunks(Part(build, n)) : Holds(a, n, d)
    BY <1>1, <1>2 DEF BodyInv, BodiesKnown
  <1>5. PICK d \in Chunks(Part(build, n)) : Holds(a, n, d)
    BY <1>4
  <1>6. i \in 1..Len(src.chunks) /\ c.name # Sinit /\ dst.chunks[a].name = c.name
    <2>1. i \in 1..(Len(src.chunks) + 1) /\ Len(src.chunks) \in Nat
      BY ModuleFacts DEF Typed
    <2>. QED
      BY <1>2, <2>1 DEF Present, Named, NamedIn
  <1>7. c \in Chunks(Part(build, Current)) /\ c \in Chunks(build.plan[Current])
    BY <1>3, <1>6 DEF Chunks
  <1>8. n \in 0..Len(build.plan) /\ Current \in 0..Len(build.plan) /\ n # Current
    BY <1>3
  <1>9. d.name = c.name
    <2>1. CASE dst.chunks[a].name = d.name
      BY <1>6, <2>1
    <2>2. CASE n # 0 /\ d.name = Sinit /\ IsNumbered(dst.chunks[a].name)
      <3>1. n \in 1..Len(build.plan) /\ d \in Chunks(build.plan[n])
        BY <1>8, <2>2 DEF Part
      <3>2. ~IsNumbered(c.name)
        BY <1>3, <1>7, <2>2, <3>1, NoNumbers
      <3>. QED
        BY <1>6, <2>2, <3>2
    <2>. QED
      BY <1>5, <2>1, <2>2 DEF Holds
  <1>10. d.body = c.body
    BY <1>6, <1>7, <1>8, <1>9, SameFunction
  <1>. QED
    BY <1>5, <1>10 DEF Holds

\* A function that is added is none that dst has.
LEMMA AddedIsNew ==
  ASSUME SeparateBuilds, WholeBuilds, Typed, Where, ChunkNames, BodyInv,
         phase = "chunks", i <= Len(src.chunks), ~Present(src.chunks[i]),
         NEW a \in 1..Len(dst.chunks)
  PROVE  dst.chunks[a].body # src.chunks[i].body
  <1>. DEFINE c == src.chunks[i]
  <1>. SUFFICES ASSUME dst.chunks[a].body = c.body PROVE FALSE
    OBVIOUS
  <1>1. Busy /\ Live
    BY DEF Busy, Live
  <1>2. /\ src = Part(build, Current) /\ Current \in 1..Len(build.plan) /\ Done = Current - 1
        /\ Len(build.plan) \in Nat /\ Sound(src)
    BY <1>1, PartFacts, LinkAssumption DEF Typed
  <1>3. i \in 1..Len(src.chunks) /\ Len(dst.chunks) \in Nat
    <2>1. i \in 1..(Len(src.chunks) + 1) /\ Len(src.chunks) \in Nat
      BY ModuleFacts DEF Typed
    <2>. QED
      BY <2>1, ModuleFacts DEF Typed
  <1>4. c \in Chunks(Part(build, Current)) /\ Current \in 0..Len(build.plan)
    BY <1>2, <1>3 DEF Chunks
  <1>5. CASE \E k \in PlacedChunks : FnRemap(k) = a
    <2>1. PICK k \in PlacedChunks : FnRemap(k) = a
      BY <1>5
    <2>2. k \in 1..Len(src.chunks) /\ k < i
      BY <1>1, <2>1 DEF PlacedChunks
    <2>3. src.chunks[k].body = src.chunks[i].body
      BY <1>1, <2>1 DEF BodyInv, BodiesPlaced
    <2>4. k = i
      BY <1>2, <1>3, <1>4, <2>2, <2>3, OwnFunctions
    <2>. QED
      BY <1>3, <2>2, <2>4
  <1>6. CASE \E n \in 0..Done : \E d \in Chunks(Part(build, n)) : Holds(a, n, d)
    <2>1. PICK n \in 0..Done : \E d \in Chunks(Part(build, n)) : Holds(a, n, d)
      BY <1>6
    <2>2. PICK d \in Chunks(Part(build, n)) : Holds(a, n, d)
      BY <2>1
    <2>3. n \in 0..Len(build.plan) /\ n # Current
      BY <1>2
    <2>4. d.name = c.name /\ c.name # Sinit
      <3>1. d.body = c.body
        BY <2>2 DEF Holds
      <3>. QED
        BY <1>4, <2>3, <3>1, SameFunction
    <2>5. dst.chunks[a].name = c.name
      BY <2>2, <2>4 DEF Holds
    <2>. QED
      BY <1>3, <2>4, <2>5, FindFacts DEF Present
  <1>. QED
    BY <1>1, <1>5, <1>6 DEF BodyInv, BodiesKnown

LEMMA AddChunkBodies ==
  ASSUME SeparateBuilds, WholeBuilds, Typed, Typed', Where, ChunkNames, BodyInv, AddChunk
  PROVE  BodyInv'
  <1>1. PICK j \in Nat : j = i
    BY DEF Typed
  <1>2. /\ ChunkNames' /\ \A k \in PlacedChunks : FnRemap(k)' = FnRemap(k)
        /\ j \notin PlacedChunks /\ PlacedChunks' = PlacedChunks \cup {j} /\ Done' = Done
        /\ Present(src.chunks[j]) =>
              /\ dst'.chunks = dst.chunks /\ FnRemap(j)' = Find(dst.chunks, src.chunks[j].name)
        /\ ~Present(src.chunks[j]) =>
              /\ FnRemap(j)' = Len(dst.chunks) + 1
              /\ Len(dst'.chunks) = Len(dst.chunks) + 1
              /\ \A a \in 1..Len(dst.chunks) : dst'.chunks[a] = dst.chunks[a]
    BY <1>1, AddChunkNames
  <1>3. /\ phase = "chunks" /\ i <= Len(src.chunks) /\ UNCHANGED <<build, src>> /\ Live /\ Busy
        /\ src' = src
    BY DEF AddChunk, Live, Busy
  <1>4. /\ BodiesOnce /\ BodiesPlaced /\ BodiesKnown /\ BodiesMerged /\ PlacesKnown
        /\ Len(dst.chunks) \in Nat
    BY <1>3, ModuleFacts DEF BodyInv, ChunkNames, Typed
  <1>5. PICK A \in Nat : A = Len(dst.chunks) + 1
    BY <1>4
  <1>6. PICK at \in 1..Len(dst'.chunks) :
          /\ at = FnRemap(j)' /\ dst'.chunks[at].body = src.chunks[j].body
          /\ Len(dst.chunks) <= Len(dst'.chunks)
          /\ \A a \in 1..Len(dst.chunks) : dst'.chunks[a] = dst.chunks[a]
          /\ Present(src.chunks[j]) => at \in 1..Len(dst.chunks) /\ Len(dst'.chunks) = Len(dst.chunks)
          /\ ~Present(src.chunks[j]) => at = A /\ Len(dst'.chunks) = A
    <2>1. CASE Present(src.chunks[j])
      <3>1. PICK at \in 1..Len(dst.chunks) : at = Find(dst.chunks, src.chunks[j].name)
        BY <1>4, <2>1, FindFacts DEF Present
      <3>2. dst.chunks[at].body = src.chunks[j].body
        BY <1>1, <1>3, <2>1, <3>1, PresentBody
      <3>. QED
        BY <1>2, <1>4, <2>1, <3>1, <3>2
    <2>2. CASE ~Present(src.chunks[j])
      <3>1. dst'.chunks[A].body = src.chunks[j].body
        BY <1>1, <1>5, <2>2, AddedBody
      <3>2. A \in 1..Len(dst'.chunks) /\ Len(dst.chunks) <= Len(dst'.chunks)
        BY <1>2, <1>4, <1>5, <2>2
      <3>. QED
        BY <1>2, <1>5, <2>2, <3>1, <3>2
    <2>. QED
      BY <2>1, <2>2
  <1>7. BodiesOnce'
    <2>1. CASE Present(src.chunks[j])
      BY <1>4, <1>6, <2>1 DEF BodiesOnce
    <2>2. CASE ~Present(src.chunks[j])
      <3>1. \A a \in 1..Len(dst.chunks) : dst.chunks[a].body # src.chunks[j].body
        BY <1>1, <1>3, <2>2, AddedIsNew
      <3>2. \A a \in 1..Len(dst'.chunks) : a \in 1..Len(dst.chunks) \/ a = A
        BY <1>4, <1>5, <1>6, <2>2
      <3>. QED
        BY <1>4, <1>6, <2>2, <3>1, <3>2 DEF BodiesOnce
    <2>. QED
      BY <2>1, <2>2
  <1>8. BodiesPlaced'
    <2>. SUFFICES ASSUME NEW k \in PlacedChunks'
                  PROVE  dst'.chunks[FnRemap(k)'].body = src'.chunks[k].body
      BY DEF BodiesPlaced
    <2>1. CASE k = j
      BY <1>3, <1>6, <2>1
    <2>2. CASE k \in PlacedChunks
      <3>1. PICK a \in 1..Len(dst.chunks) : a = FnRemap(k)
        BY <1>4, <2>2 DEF PlacesKnown, Named, NamedIn
      <3>2. dst.chunks[a].body = src.chunks[k].body /\ FnRemap(k)' = a
        BY <1>2, <1>4, <2>2, <3>1 DEF BodiesPlaced
      <3>. QED
        BY <1>3, <1>6, <3>1, <3>2
    <2>. QED
      BY <1>2, <2>1, <2>2
  <1>9. BodiesKnown'
    <2>. SUFFICES ASSUME NEW a \in 1..Len(dst'.chunks)
                  PROVE  \/ \E k \in PlacedChunks' : FnRemap(k)' = a
                         \/ \E n \in 0..Done' : \E c \in Chunks(Part(build', n)) : Holds(a, n, c)'
      BY DEF BodiesKnown, Part
    <2>1. CASE a \in 1..Len(dst.chunks)
      <3>1. \A n, c : Holds(a, n, c) => Holds(a, n, c)'
        BY <1>6, <2>1 DEF Holds
      <3>2. CASE \E k \in PlacedChunks : FnRemap(k) = a
        BY <1>2, <3>2
      <3>3. CASE \E n \in 0..Done : \E c \in Chunks(Part(build, n)) : Holds(a, n, c)
        BY <1>2, <1>3, <3>1, <3>3
      <3>. QED
        BY <1>4, <2>1, <3>2, <3>3 DEF BodiesKnown
    <2>2. CASE a = at
      BY <1>2, <1>6, <2>2
    <2>3. a \in 1..Len(dst.chunks) \/ a = at
      <3>1. CASE Present(src.chunks[j])
        BY <1>6, <3>1
      <3>2. CASE ~Present(src.chunks[j])
        BY <1>4, <1>5, <1>6, <3>2
      <3>. QED
        BY <3>1, <3>2
    <2>. QED
      BY <2>1, <2>2, <2>3
  <1>10. BodiesMerged'
    <2>. SUFFICES ASSUME NEW n \in 1..Done, NEW c \in Chunks(Part(build, n))
                  PROVE  \E a \in 1..Len(dst'.chunks) : dst'.chunks[a].body = c.body
      BY <1>2, <1>3 DEF BodiesMerged, Part
    <2>1. PICK a \in 1..Len(dst.chunks) : dst.chunks[a].body = c.body
      BY <1>4 DEF BodiesMerged
    <2>2. a \in 1..Len(dst'.chunks)
      BY <1>4, <1>6, ModuleFacts DEF Typed
    <2>. QED
      BY <1>6, <2>1, <2>2
  <1>. QED
    BY <1>7, <1>8, <1>9, <1>10 DEF BodyInv

\* When a merge is over, the functions of src are ones of a module merged before.
LEMMA MergedBodies ==
  ASSUME SeparateBuilds, Typed, Where, ChunkNames, BodyInv, Merged
  PROVE  BodyInv'
  <1>1. /\ phase = "methods" /\ Busy /\ Live /\ ~Busy' /\ Done' = Done + 1
        /\ PlacedChunks' = {} /\ UNCHANGED <<build, dst>>
    BY MergedNames DEF Merged, Busy, Live
  <1>2. /\ Current \in 1..Len(build.plan) /\ Done = Current - 1 /\ src = Part(build, Current)
        /\ Len(build.plan) \in Nat /\ Len(src.chunks) \in Nat
    BY <1>1, PartFacts, LinkAssumption, ModuleFacts DEF Typed
  <1>3. BodiesOnce /\ BodiesPlaced /\ BodiesKnown /\ BodiesMerged /\ PlacesKnown
    BY <1>1 DEF BodyInv, ChunkNames
  <1>4. PICK p \in 1..Done' : p = Current
    BY <1>1, <1>2
  <1>5. p \in 0..Done' /\ p # 0 /\ (\A n \in 0..Done : n \in 0..Done')
    BY <1>1, <1>2, <1>4
  <1>6. \A k \in 1..Len(src.chunks) : k \in PlacedChunks
    BY <1>1 DEF PlacedChunks
  <1>7. BodiesKnown'
    <2>. SUFFICES ASSUME NEW a \in 1..Len(dst.chunks)
                  PROVE  \E n \in 0..Done' : \E c \in Chunks(Part(build, n)) : Holds(a, n, c)
      BY <1>1 DEF BodiesKnown, Part, Holds
    <2>1. CASE \E n \in 0..Done : \E c \in Chunks(Part(build, n)) : Holds(a, n, c)
      BY <1>5, <2>1
    <2>2. CASE \E k \in PlacedChunks : FnRemap(k) = a
      <3>1. PICK k \in PlacedChunks : FnRemap(k) = a
        BY <2>2
      <3>2. Named(k, a) /\ dst.chunks[a].body = src.chunks[k].body
        BY <1>3, <3>1 DEF PlacesKnown, BodiesPlaced
      <3>3. PICK c \in Chunks(src) : c = src.chunks[k]
        BY DEF PlacedChunks, Chunks
      <3>4. Holds(a, p, c)
        BY <1>5, <3>2, <3>3, NumberedIsNumbered DEF Holds, Named, NamedIn
      <3>. QED
        BY <1>2, <1>4, <1>5, <3>3, <3>4
    <2>. QED
      BY <1>3, <2>1, <2>2 DEF BodiesKnown
  <1>8. BodiesMerged'
    <2>. SUFFICES ASSUME NEW n \in 1..Done', NEW c \in Chunks(Part(build, n))
                  PROVE  \E a \in 1..Len(dst.chunks) : dst.chunks[a].body = c.body
      BY <1>1 DEF BodiesMerged, Part
    <2>1. CASE n \in 1..Done
      BY <1>3, <2>1 DEF BodiesMerged
    <2>2. CASE n = Current
      <3>1. PICK k \in 1..Len(src.chunks) : c = src.chunks[k]
        BY <1>2, <2>2 DEF Chunks
      <3>2. PICK a \in 1..Len(dst.chunks) : a = FnRemap(k)
        BY <1>3, <1>6, <3>1 DEF PlacesKnown, Named, NamedIn
      <3>. QED
        BY <1>3, <1>6, <3>1, <3>2 DEF BodiesPlaced
    <2>. QED
      BY <1>1, <1>2, <2>1, <2>2
  <1>. QED
    BY <1>1, <1>3, <1>7, <1>8 DEF BodyInv, BodiesOnce, BodiesPlaced

\* The loops after the first change the operands of chunks, and nothing else of them.
LEMMA LaterChunks ==
  ASSUME Typed, ChunksDone \/ AddClass \/ ClassesDone \/ RemapChunk \/ RemapDone \/ FixClass
  PROVE  /\ Len(dst'.chunks) = Len(dst.chunks)
         /\ \A a \in 1..Len(dst.chunks) :
              dst'.chunks[a].name = dst.chunks[a].name /\ dst'.chunks[a].body = dst.chunks[a].body
  <1>1. CASE ChunksDone \/ ClassesDone \/ RemapDone
    BY <1>1 DEF ChunksDone, ClassesDone, RemapDone, Ends
  <1>2. CASE AddClass
    <2>1. PICK at \in 0..Len(dst.classes) : at = Find(dst.classes, src.classes[i].name)
      BY FindFacts, ModuleFacts DEF Typed
    <2>. QED
      BY <1>2, <2>1, AddClassStep
  <1>3. CASE FixClass
    <2>1. PICK at \in 0..Len(dst.classes) : at = Find(dst.classes, src.classes[i].name)
      BY FindFacts, ModuleFacts DEF Typed
    <2>. QED
      BY <1>3, <2>1, FixStep
  <1>4. CASE RemapChunk
    <2>1. phase = "remap" /\ i <= Len(src.chunks) /\ Len(placed) = Len(src.chunks)
      BY <1>4 DEF RemapChunk, Typed, Busy
    <2>2. i \in 1..(Len(src.chunks) + 1) /\ Len(src.chunks) \in Nat /\ dst \in Module
      BY <2>1, ModuleFacts DEF Typed
    <2>3. i \in 1..Len(src.chunks)
      BY <2>1, <2>2
    <2>4. PICK at \in 0..Len(dst.chunks) : at = FnRemap(i)
      BY <2>1, <2>3, PlaceTyped
    <2>5. /\ Len(dst'.chunks) = Len(dst.chunks)
          /\ \A a \in 1..Len(dst.chunks) :
               dst'.chunks[a] = dst.chunks[a] \/ dst'.chunks[a] = RemapCode(dst.chunks[a])
      <3>1. \A a \in 1..Len(dst.chunks) : a # 0
        OBVIOUS
      <3>. QED
        BY <1>4, <2>4, <3>1, RemapStep
    <2>6. \A a \in 1..Len(dst.chunks) :
            /\ RemapCode(dst.chunks[a]).name = dst.chunks[a].name
            /\ RemapCode(dst.chunks[a]).body = dst.chunks[a].body
      BY <2>1, <2>2, ModuleFacts, RemapCodeTyped
    <2>. QED
      BY <2>5, <2>6
  <1>. QED
    BY <1>1, <1>2, <1>3, <1>4

LEMMA InitBodies == ASSUME SeparateBuilds, WholeBuilds, Typed, Init PROVE BodyInv
  <1>1. /\ dst = build.start /\ todo = build.plan /\ ~Busy /\ PlacedChunks = {}
        /\ Len(build.plan) \in Nat
    BY LinkAssumption DEF Init, Busy, PlacedChunks, Typed
  <1>2. Done = 0 /\ 0 \in 0..Len(build.plan) /\ dst = Part(build, 0)
    BY <1>1 DEF Done, Current, Part
  <1>3. Sound(Part(build, 0))
    BY <1>2 DEF SeparateBuilds, Separate, Typed
  <1>4. BodiesOnce
    BY <1>2, <1>3, OwnFunctions DEF BodiesOnce
  <1>5. BodiesKnown
    BY <1>2 DEF BodiesKnown, Holds, Chunks
  <1>. QED
    BY <1>1, <1>2, <1>4, <1>5 DEF BodyInv, BodiesPlaced, BodiesMerged

LEMMA AlwaysBodies ==
  ASSUME SeparateBuilds, WholeBuilds
  PROVE  Spec => []BodyInv
  <1>1. Typed /\ Init => BodyInv
    BY InitBodies
  <1>2. Typed /\ Typed' /\ Where /\ ChunkNames /\ BodyInv /\ [Next]_vars => BodyInv'
    <2>. SUFFICES ASSUME Typed, Typed', Where, ChunkNames, BodyInv, [Next]_vars, Live'
                  PROVE  BodyInv'
      BY DEF BodyInv
    <2>1. CASE Begin
      <3>1. Busy' /\ phase = "idle"
        BY <2>1 DEF Begin, Pass, Live
      <3>2. PlacedChunks' = {} /\ Done' = Done /\ UNCHANGED <<build, dst>>
        BY <2>1, <3>1, BeginNames
      <3>3. Live /\ PlacedChunks = {}
        BY <3>1 DEF Live, Busy, PlacedChunks
      <3>. QED
        BY <3>2, <3>3 DEF BodyInv, BodiesOnce, BodiesPlaced, BodiesKnown, BodiesMerged, Holds, Part
    <2>2. CASE AddChunk
      BY <2>2, AddChunkBodies
    <2>3. CASE ChunksDone \/ AddClass \/ ClassesDone \/ RemapChunk \/ RemapDone \/ FixClass
      <3>1. /\ Len(dst'.chunks) = Len(dst.chunks)
            /\ \A a \in 1..Len(dst.chunks) :
                 dst'.chunks[a].name = dst.chunks[a].name /\ dst'.chunks[a].body = dst.chunks[a].body
        BY <2>3, LaterChunks
      <3>2. /\ Busy' /\ PlacedChunks' = PlacedChunks
            /\ \A k \in PlacedChunks : FnRemap(k)' = FnRemap(k)
        BY <2>3, LaterNames
      <3>3. Busy /\ Live /\ UNCHANGED <<build, src, todo>>
        BY <2>3 DEF ChunksDone, AddClass, ClassesDone, RemapChunk, RemapDone, FixClass, Ends,
                    Busy, Live
      <3>4. Done' = Done
        BY <3>2, <3>3 DEF Done, Current
      <3>. QED
        BY <3>1, <3>2, <3>3, <3>4, BodiesKept
    <2>4. CASE Merged
      BY <2>4, MergedBodies
    <2>5. CASE MergeFails
      BY <2>5 DEF MergeFails, Live, Busy
    <2>6. CASE Seal \/ UNCHANGED vars
      <3>1. /\ Live /\ PlacedChunks' = PlacedChunks /\ Done' = Done
            /\ dst'.chunks = dst.chunks /\ UNCHANGED <<build, src>>
            /\ \A k \in PlacedChunks : FnRemap(k)' = FnRemap(k)
        BY <2>6, IdleNames
      <3>. QED
        BY <3>1, BodiesKept
    <2>. QED
      BY <2>1, <2>2, <2>3, <2>4, <2>5, <2>6 DEF Next, Merge
  <1>. QED
    BY <1>1, <1>2, AlwaysTyped, AlwaysWhere, AlwaysNames, PTL DEF Spec

(***************************************************************************)
(* The classes                                                             *)
(***************************************************************************)
\* class has the methods of from, if from has any; and its constructor
HasMethods(class, from) == class.name = from.name /\ (Hollow(class) => Hollow(from))
HasCtor(class, from) == from.ctor.index # 0 => class.ctor.index # 0

\* classes of src that the fourth loop has passed
FixedClasses == {k \in PlacedClasses : phase = "methods" /\ k < i}

ClassesMerged ==
    \A n \in 0..Done : \A from \in Classes(Part(build, n)) :
      \E a \in 1..Len(dst.classes) :
        HasMethods(dst.classes[a], from) /\ HasCtor(dst.classes[a], from)

MethodsPlaced == \A k \in PlacedClasses : HasMethods(dst.classes[ClassRemap(k)], src.classes[k])

CtorsPlaced == \A k \in FixedClasses : HasCtor(dst.classes[ClassRemap(k)], src.classes[k])

WholeInv == Live /\ Fits => ClassesMerged /\ MethodsPlaced /\ CtorsPlaced

\* A class that has its methods has the constructor that a namesake has.
LEMMA CtorOfNamesake ==
  ASSUME WholeBuilds, Typed, NEW n \in 0..Len(build.plan), NEW p \in 0..Len(build.plan),
         NEW class \in Classes(Part(build, n)), NEW from \in Classes(Part(build, p)),
         class.name = from.name, ~Hollow(class)
  PROVE  HasCtor(class, from)
  <1>1. WholeClasses(build)
    BY DEF WholeBuilds, Whole, Typed
  <1>. QED
    BY <1>1 DEF WholeClasses, HasCtor

\* What has the methods and the constructor of a class keeps them.
LEMMA ClassesHeld ==
  ASSUME Typed, Live, Live', Fits, ClassNames, WholeInv, UNCHANGED <<build, src>>, Done' = Done,
         PlacedClasses' = PlacedClasses, FixedClasses' \subseteq FixedClasses,
         \A k \in PlacedClasses : ClassRemap(k)' = ClassRemap(k) /\ ClassRemap(k) \in 1..Len(dst.classes),
         Len(dst'.classes) = Len(dst.classes),
         \A a \in 1..Len(dst.classes) :
           /\ Kin(dst'.classes[a], dst.classes[a])
           /\ dst.classes[a].ctor.index # 0 => dst'.classes[a].ctor.index # 0
  PROVE  WholeInv'
  <1>1. ClassesMerged /\ MethodsPlaced /\ CtorsPlaced
    BY DEF WholeInv
  <1>2. \A a \in 1..Len(dst.classes) : \A from :
          /\ HasMethods(dst.classes[a], from) => HasMethods(dst'.classes[a], from)
          /\ HasCtor(dst.classes[a], from) => HasCtor(dst'.classes[a], from)
    BY DEF HasMethods, HasCtor, Kin
  <1>3. ClassesMerged'
    BY <1>1, <1>2 DEF ClassesMerged, Part
  <1>4. MethodsPlaced'
    BY <1>1, <1>2 DEF MethodsPlaced
  <1>5. CtorsPlaced'
    <2>1. \A k \in FixedClasses' : k \in FixedClasses /\ k \in PlacedClasses
      BY DEF FixedClasses
    <2>. QED
      BY <1>1, <1>2, <2>1 DEF CtorsPlaced
  <1>. QED
    BY <1>3, <1>4, <1>5 DEF WholeInv

\* The second loop replaces a class only where it is hollow and class i of src is not.
LEMMA FilledClass ==
  ASSUME Typed, AddClass, NEW j \in Nat, j = i
  PROVE  \A a \in 1..Len(dst.classes) :
           \/ dst'.classes[a] = dst.classes[a]
           \/ dst'.classes[a] = src.classes[j] /\ ~Hollow(src.classes[j])
  <1>1. PICK at \in 0..Len(dst.classes) : at = Find(dst.classes, src.classes[i].name)
    BY FindFacts, ModuleFacts DEF Typed
  <1>2. CASE at # 0 /\ Fills(src.classes[i], at)
    <2>1. ~Hollow(src.classes[j])
      BY <1>2 DEF Fills
    <2>2. /\ dst'.classes[at] = src.classes[j]
          /\ \A a \in 1..Len(dst.classes) : a # at => dst'.classes[a] = dst.classes[a]
      BY <1>1, <1>2, AddClassStep
    <2>. QED
      BY <2>1, <2>2
  <1>3. CASE ~(at # 0 /\ Fills(src.classes[i], at))
    BY <1>1, <1>3, AddClassStep
  <1>. QED
    BY <1>2, <1>3

LEMMA AddClassWhole ==
  ASSUME SeparateBuilds, WholeBuilds, Typed, Typed', Where, ClassNames, WholeInv, Fits, AddClass
  PROVE  WholeInv'
  <1>1. PICK j \in Nat : j = i
    BY DEF Typed
  <1>. DEFINE c == src.classes[j]
  <1>2. /\ ClassNames' /\ \A k \in PlacedClasses : ClassRemap(k)' = ClassRemap(k)
        /\ j \in 1..Len(src.classes) /\ j \notin PlacedClasses
        /\ PlacedClasses' = PlacedClasses \cup {j} /\ Done' = Done
        /\ UNCHANGED <<build, src>>
        /\ Len(dst.classes) <= Len(dst'.classes)
        /\ \A a \in 1..Len(dst.classes) :
              \/ dst'.classes[a] = dst.classes[a]
              \/ dst'.classes[a] = c /\ dst.classes[a].name = c.name
        /\ \/ dst'.classes[ClassRemap(j)'] = c
           \/ /\ ClassRemap(j)' \in 1..Len(dst.classes)
              /\ dst'.classes[ClassRemap(j)'] = dst.classes[ClassRemap(j)']
              /\ ~Fills(c, ClassRemap(j)')
    BY <1>1, AddClassNames
  <1>3. \A a \in 1..Len(dst.classes) :
          \/ dst'.classes[a] = dst.classes[a]
          \/ dst'.classes[a] = c /\ dst.classes[a].name = c.name /\ ~Hollow(c)
    BY <1>1, <1>2, FilledClass
  <1>4. /\ phase = "classes" /\ phase' = "classes" /\ Busy /\ Live /\ Live' /\ src' = src
        /\ build' = build
    BY DEF AddClass, Busy, Live
  <1>5. /\ src = Part(build, Current) /\ Current \in 1..Len(build.plan) /\ Done = Current - 1
        /\ Len(build.plan) \in Nat
    BY <1>4, PartFacts, LinkAssumption DEF Typed
  <1>6. ClassesMerged /\ MethodsPlaced
    BY <1>4 DEF WholeInv
  <1>7. Len(dst.classes) \in Nat /\ Len(dst'.classes) \in Nat
    BY ModuleFacts DEF Typed
  <1>8. ClassesMerged'
    <2>. SUFFICES ASSUME NEW n \in 0..Done, NEW from \in Classes(Part(build, n))
                  PROVE  \E a \in 1..Len(dst'.classes) :
                           HasMethods(dst'.classes[a], from) /\ HasCtor(dst'.classes[a], from)
      BY <1>2, <1>4 DEF ClassesMerged, Part
    <2>1. PICK a \in 1..Len(dst.classes) :
            HasMethods(dst.classes[a], from) /\ HasCtor(dst.classes[a], from)
      BY <1>6 DEF ClassesMerged
    <2>2. a \in 1..Len(dst'.classes)
      BY <1>2, <1>7
    <2>3. CASE dst'.classes[a] = dst.classes[a]
      BY <2>1, <2>2, <2>3
    <2>4. CASE dst'.classes[a] = c /\ dst.classes[a].name = c.name /\ ~Hollow(c)
      <3>1. c.name = from.name
        BY <2>1, <2>4 DEF HasMethods
      <3>2. c \in Classes(Part(build, Current))
        BY <1>2, <1>5 DEF Classes
      <3>3. n \in 0..Len(build.plan) /\ Current \in 0..Len(build.plan)
        BY <1>5
      <3>4. HasCtor(c, from)
        BY <2>4, <3>1, <3>2, <3>3, CtorOfNamesake
      <3>. QED
        BY <2>2, <2>4, <3>1, <3>4 DEF HasMethods
    <2>. QED
      BY <1>3, <2>3, <2>4
  <1>9. MethodsPlaced'
    <2>. SUFFICES ASSUME NEW k \in PlacedClasses'
                  PROVE  HasMethods(dst'.classes[ClassRemap(k)'], src.classes[k])
      BY <1>4 DEF MethodsPlaced, HasMethods, Hollow
    <2>1. CASE k \in PlacedClasses
      <3>1. PICK a \in 1..Len(dst.classes) : a = ClassRemap(k)
        BY <2>1, ClassPlaces
      <3>2. HasMethods(dst.classes[a], src.classes[k]) /\ ClassRemap(k)' = a
        BY <1>2, <1>6, <2>1, <3>1 DEF MethodsPlaced
      <3>3. dst'.classes[a] = dst.classes[a]
              \/ (dst'.classes[a] = c /\ dst.classes[a].name = c.name /\ ~Hollow(c))
        BY <1>3
      <3>. HIDE DEF c
      <3>. QED
        BY <3>2, <3>3 DEF HasMethods
    <2>2. CASE k = j
      <3>1. CASE dst'.classes[ClassRemap(j)'] = c
        BY <2>2, <3>1 DEF HasMethods
      <3>2. CASE /\ ClassRemap(j)' \in 1..Len(dst.classes)
                 /\ dst'.classes[ClassRemap(j)'] = dst.classes[ClassRemap(j)']
                 /\ ~Fills(c, ClassRemap(j)')
        <4>1. PICK a \in 1..Len(dst.classes) : a = ClassRemap(j)'
          BY <3>2
        <4>2. dst'.classes[a] = dst.classes[a] /\ (Hollow(dst.classes[a]) => Hollow(c))
          BY <3>2, <4>1 DEF Fills
        <4>3. a = Find(dst'.classes, c.name) /\ a # 0
          BY <1>4, <4>1 DEF ClassRemap
        <4>4. dst'.classes[a].name = c.name
          BY <1>7, <4>3, FindFacts
        <4>. QED
          BY <2>2, <4>1, <4>2, <4>4 DEF HasMethods
      <3>. QED
        BY <1>2, <3>1, <3>2
    <2>. QED
      BY <1>2, <2>1, <2>2
  <1>10. CtorsPlaced'
    BY <1>4 DEF CtorsPlaced, FixedClasses
  <1>. QED
    BY <1>8, <1>9, <1>10 DEF WholeInv

\* The fourth loop takes no constructor away, and gives the class the one that from has.
LEMMA FixedCtor ==
  ASSUME SeparateBuilds, Typed, Where, ChunkNames, phase = "methods",
         NEW class \in ClassType, NEW from \in ClassType
  PROVE  /\ class.ctor.index # 0 => Fixed(class, from).ctor.index # 0
         /\ from \in Classes(src) => HasCtor(Fixed(class, from), from)
  <1>1. Fixed(class, from).ctor = Renamed(class.ctor, from.ctor)
    BY FixedTyped
  <1>2. class.ctor \in Refs({"fn"}) /\ from.ctor \in Refs({"fn"})
    BY DEF ClassType
  <1>3. class.ctor.index # 0 => Renamed(class.ctor, from.ctor).index # 0
    BY <1>2 DEF Renamed, Refs
  <1>4. ASSUME from \in Classes(src), from.ctor.index # 0
        PROVE  Renamed(class.ctor, from.ctor).index # 0
    <2>1. Busy /\ Live /\ Sound(src) /\ Len(dst.chunks) \in Nat
      BY PartFacts, ModuleFacts DEF Busy, Live, Typed
    <2>2. Right(src, from.ctor) /\ from.ctor.name # Sinit
      <3>1. MembersByName(src, from) /\ ~Initialiser(from.ctor.name)
        BY <1>4, <2>1, Zenon DEF Sound
      <3>. QED
        BY <1>4, <3>1, Zenon DEF MembersByName, Initialiser
    <2>3. PICK k \in 1..Len(src.chunks) : k = from.ctor.index /\ src.chunks[k].name # Sinit
      BY <1>2, <2>2 DEF Right, Refs
    <2>4. k \in PlacedChunks
      BY <2>1 DEF PlacedChunks
    <2>5. NamedIn(dst.chunks, src.chunks[k].name, placed[k], FnRemap(k))
      BY <2>1, <2>4 DEF ChunkNames, PlacesKnown, Named
    <2>6. PICK at \in 0..Len(dst.chunks) : at = Find(dst.chunks, src.chunks[k].name)
      BY <2>1, FindFacts
    <2>7. at # 0
      BY <2>1, <2>3, <2>5, <2>6, FindFacts DEF NamedIn
    <2>. QED
      BY <1>2, <2>3, <2>6, <2>7 DEF Renamed, Refs
  <1>. QED
    BY <1>1, <1>3, <1>4 DEF HasCtor

LEMMA FixClassWhole ==
  ASSUME SeparateBuilds, WholeBuilds, Typed, Typed', Where, ChunkNames, ClassNames, WholeInv,
         Fits, FixClass
  PROVE  WholeInv'
  <1>1. PICK j \in Nat : j = i
    BY DEF Typed
  <1>2. /\ phase = "methods" /\ phase' = "methods" /\ Busy /\ Live /\ Live' /\ i' = j + 1
        /\ src' = src
    BY <1>1 DEF FixClass, Busy, Live
  <1>3. PICK f \in 0..Len(dst.classes) : f = Find(dst.classes, src.classes[i].name)
    BY FindFacts, ModuleFacts DEF Typed
  <1>4. /\ j \in 1..Len(src.classes) /\ Len(dst'.classes) = Len(dst.classes)
        /\ \A a \in 1..Len(dst.classes) : a # f => dst'.classes[a] = dst.classes[a]
        /\ f # 0 => dst'.classes[f] = Fixed(dst.classes[f], src.classes[j])
    BY <1>1, <1>3, FixStep
  <1>5. /\ PlacedClasses' = PlacedClasses /\ Done' = Done /\ UNCHANGED <<build, src>>
        /\ \A k \in PlacedClasses : ClassRemap(k)' = ClassRemap(k)
        /\ PlacedClasses = 1..Len(src.classes)
        /\ \A a \in 1..Len(dst.classes) : Kin(dst'.classes[a], dst.classes[a])
    BY <1>2, LaterClasses DEF PlacedClasses
  <1>6. f = ClassRemap(j) /\ f \in 1..Len(dst.classes) /\ f # 0
    BY <1>1, <1>3, <1>4, <1>5, ClassPlaces DEF ClassRemap
  <1>7. /\ src.classes[j] \in ClassType /\ src.classes[j] \in Classes(src)
        /\ \A a \in 1..Len(dst.classes) : dst.classes[a] \in ClassType
    BY <1>4, ModuleFacts DEF Typed, Classes
  <1>8. \A a \in 1..Len(dst.classes) :
          dst.classes[a].ctor.index # 0 => dst'.classes[a].ctor.index # 0
    <2>1. dst.classes[f].ctor.index # 0 => dst'.classes[f].ctor.index # 0
      BY <1>2, <1>4, <1>6, <1>7, FixedCtor
    <2>. QED
      BY <1>4, <2>1
  <1>9. ClassesMerged /\ MethodsPlaced /\ CtorsPlaced
    BY <1>2 DEF WholeInv
  <1>10. \A a \in 1..Len(dst.classes) : \A from :
           /\ HasMethods(dst.classes[a], from) => HasMethods(dst'.classes[a], from)
           /\ HasCtor(dst.classes[a], from) => HasCtor(dst'.classes[a], from)
    BY <1>5, <1>8 DEF HasMethods, HasCtor, Kin
  <1>11. ClassesMerged'
    BY <1>4, <1>5, <1>9, <1>10 DEF ClassesMerged, Part
  <1>12. \A k \in PlacedClasses : ClassRemap(k) \in 1..Len(dst.classes)
    BY ClassPlaces
  <1>13. MethodsPlaced'
    BY <1>2, <1>5, <1>9, <1>10, <1>12 DEF MethodsPlaced
  <1>14. CtorsPlaced'
    <2>. SUFFICES ASSUME NEW k \in FixedClasses'
                  PROVE  HasCtor(dst'.classes[ClassRemap(k)'], src.classes[k])
      BY <1>2 DEF CtorsPlaced, HasCtor
    <2>1. k \in PlacedClasses /\ k \in Nat /\ k < j + 1
      BY <1>2, <1>5, ModuleFacts DEF FixedClasses, Typed
    <2>2. CASE k = j
      <3>1. HasCtor(Fixed(dst.classes[f], src.classes[j]), src.classes[j])
        BY <1>2, <1>6, <1>7, FixedCtor
      <3>. QED
        BY <1>4, <1>5, <1>6, <2>1, <2>2, <3>1
    <2>3. CASE k # j
      <3>1. k \in FixedClasses
        BY <1>1, <1>2, <2>1, <2>3 DEF FixedClasses
      <3>. QED
        BY <1>5, <1>9, <1>10, <1>12, <2>1, <3>1 DEF CtorsPlaced
    <2>. QED
      BY <2>2, <2>3
  <1>. QED
    BY <1>11, <1>13, <1>14 DEF WholeInv

\* When a merge is over, dst has what the classes of src had.
LEMMA MergedWhole ==
  ASSUME SeparateBuilds, WholeBuilds, Typed, Where, ChunkNames, ClassNames, WholeInv, Fits, Merged
  PROVE  WholeInv'
  <1>1. /\ phase = "methods" /\ Busy /\ Live /\ Done' = Done + 1 /\ UNCHANGED <<build, dst>>
        /\ PlacedClasses' = {}
    BY MergedNames, MergedClasses DEF Merged, Busy, Live
  <1>2. /\ Current \in 1..Len(build.plan) /\ Done = Current - 1 /\ src = Part(build, Current)
        /\ Len(build.plan) \in Nat /\ Len(src.classes) \in Nat
    BY <1>1, PartFacts, LinkAssumption, ModuleFacts DEF Typed
  <1>3. ClassesMerged /\ MethodsPlaced /\ CtorsPlaced
    BY <1>1 DEF WholeInv
  <1>4. i \in Nat /\ i > Len(src.classes)
    BY DEF Merged, Typed
  <1>5. \A k \in 1..Len(src.classes) : k \in PlacedClasses /\ k \in FixedClasses
    BY <1>1, <1>2, <1>4 DEF PlacedClasses, FixedClasses
  <1>6. ClassesMerged'
    <2>. SUFFICES ASSUME NEW n \in 0..Done', NEW from \in Classes(Part(build, n))
                  PROVE  \E a \in 1..Len(dst.classes) :
                           HasMethods(dst.classes[a], from) /\ HasCtor(dst.classes[a], from)
      BY <1>1 DEF ClassesMerged, Part
    <2>1. CASE n \in 0..Done
      BY <1>3, <2>1 DEF ClassesMerged
    <2>2. CASE n = Current
      <3>1. PICK k \in 1..Len(src.classes) : from = src.classes[k]
        BY <1>2, <2>2 DEF Classes
      <3>2. PICK a \in 1..Len(dst.classes) : a = ClassRemap(k)
        BY <1>5, <3>1, ClassPlaces
      <3>. QED
        BY <1>3, <1>5, <3>1, <3>2 DEF MethodsPlaced, CtorsPlaced
    <2>. QED
      BY <1>1, <1>2, <2>1, <2>2
  <1>. QED
    BY <1>1, <1>6 DEF WholeInv, MethodsPlaced, CtorsPlaced, FixedClasses

LEMMA InitWhole == ASSUME Typed, Init PROVE WholeInv
  <1>1. todo = build.plan /\ ~Busy /\ Len(build.plan) \in Nat /\ dst = build.start
    BY LinkAssumption DEF Init, Busy, Typed
  <1>2. Done = 0 /\ PlacedClasses = {}
    BY <1>1 DEF Done, Current, PlacedClasses
  <1>3. \A n \in 0..Done : Part(build, n) = dst
    BY <1>1, <1>2 DEF Part
  <1>4. ClassesMerged
    BY <1>3 DEF ClassesMerged, Classes, HasMethods, HasCtor
  <1>. QED
    BY <1>2, <1>4 DEF WholeInv, MethodsPlaced, CtorsPlaced, FixedClasses

LEMMA AlwaysWhole ==
  ASSUME SeparateBuilds, WholeBuilds
  PROVE  Spec => []WholeInv
  <1>1. Typed /\ Init => WholeInv
    BY InitWhole
  <1>2. Typed /\ Typed' /\ Where /\ ChunkNames /\ ClassNames /\ WholeInv /\ [Next]_vars => WholeInv'
    <2>. SUFFICES ASSUME Typed, Typed', Where, ChunkNames, ClassNames, WholeInv, [Next]_vars,
                         Live', Fits'
                  PROVE  WholeInv'
      BY DEF WholeInv
    <2>1. build' = build /\ (Live \/ MergeFails)
      BY DEF Next, Merge, Begin, AddChunk, ChunksDone, AddClass, ClassesDone, RemapChunk,
             RemapDone, FixClass, Merged, MergeFails, Seal, Ends, Pass, vars, Live, Busy
    <2>2. Fits
      BY <2>1 DEF Fits, AllClasses
    <2>3. CASE Begin
      <3>1. Busy' /\ phase = "idle" /\ Live
        BY <2>3 DEF Begin, Pass, Live
      <3>2. PlacedClasses' = {} /\ Done' = Done /\ UNCHANGED <<build, dst>>
        BY <2>3, <3>1, BeginNames, BeginClasses
      <3>3. ClassesMerged
        BY <2>2, <3>1 DEF WholeInv
      <3>. QED
        BY <3>2, <3>3 DEF WholeInv, ClassesMerged, MethodsPlaced, CtorsPlaced, FixedClasses, Part
    <2>4. CASE AddClass
      BY <2>2, <2>4, AddClassWhole
    <2>5. CASE FixClass
      BY <2>2, <2>5, FixClassWhole
    <2>6. CASE Merged
      BY <2>2, <2>6, MergedWhole
    <2>7. CASE MergeFails
      BY <2>7 DEF MergeFails, Live, Busy
    <2>8. CASE AddChunk \/ ChunksDone \/ ClassesDone \/ RemapChunk \/ RemapDone
      <3>1. ~FixClass
        BY <2>8 DEF AddChunk, ChunksDone, ClassesDone, RemapChunk, RemapDone, FixClass
      <3>2. /\ PlacedClasses' = PlacedClasses /\ Done' = Done /\ UNCHANGED <<build, src>>
            /\ \A k \in PlacedClasses : ClassRemap(k)' = ClassRemap(k)
            /\ dst'.classes = dst.classes
        BY <2>2, <2>8, <3>1, LaterClasses
      <3>3. FixedClasses' = {}
        <4>1. CASE AddChunk \/ ChunksDone \/ ClassesDone \/ RemapChunk
          BY <4>1 DEF AddChunk, ChunksDone, ClassesDone, RemapChunk, Ends, Pass, FixedClasses
        <4>2. CASE RemapDone
          BY <3>2, <4>2, ModuleFacts DEF RemapDone, Ends, Pass, FixedClasses, PlacedClasses, Typed
        <4>. QED
          BY <2>8, <4>1, <4>2
      <3>4. Live
        BY <2>8 DEF AddChunk, ChunksDone, ClassesDone, RemapChunk, RemapDone, Live, Busy
      <3>. QED
        BY <2>2, <3>2, <3>3, <3>4, KinOfItself, ClassPlaces, ClassesHeld
    <2>9. CASE Seal \/ UNCHANGED vars
      <3>1. /\ Live /\ Done' = Done /\ dst'.classes = dst.classes
            /\ UNCHANGED <<build, src, phase, i>>
        BY <2>9, IdleNames
      <3>2. /\ PlacedClasses' = PlacedClasses
            /\ \A k \in PlacedClasses : ClassRemap(k)' = ClassRemap(k)
        BY <2>2, <2>9, IdleClasses
      <3>3. FixedClasses' = FixedClasses
        BY <3>1, <3>2 DEF FixedClasses
      <3>. QED
        BY <2>2, <3>1, <3>2, <3>3, KinOfItself, ClassPlaces, ClassesHeld
    <2>. QED
      BY <2>3, <2>4, <2>5, <2>6, <2>7, <2>8, <2>9 DEF Next, Merge
  <1>. QED
    BY <1>1, <1>2, AlwaysTyped, AlwaysWhere, AlwaysNames, AlwaysClasses, PTL DEF Spec

\* A linked module holds every function of every module of the plan once, the static
\* initialisers too (module_merge renames them, so that none shadows another), and
\* every class, with the methods and the constructor that any module had of it.
THEOREM NothingIsLost ==
  ASSUME SeparateBuilds, WholeBuilds
  PROVE  Spec => []NothingLost
  <1>1. Typed /\ Where /\ BodyInv /\ WholeInv => NothingLost
    <2>. SUFFICES ASSUME Typed, Where, BodyInv, WholeInv, Linked, NEW n \in 1..Len(build.plan)
                  PROVE  /\ \A c \in Chunks(build.plan[n]) :
                              Cardinality({k \in 1..Len(dst.chunks) : dst.chunks[k].body = c.body}) = 1
                         /\ \A class \in Classes(build.plan[n]) : \E d \in Classes(dst) :
                              /\ d.name = class.name
                              /\ Hollow(d) => Hollow(class)
                              /\ class.ctor.index # 0 => d.ctor.index # 0
      BY DEF NothingLost
    <2>1. /\ Live /\ Fits /\ ~Busy /\ todo = <<>> /\ Len(build.plan) \in Nat
      BY LinkAssumption DEF Linked, Live, Busy, Typed
    <2>2. n \in 1..Done /\ n \in 0..Done /\ Part(build, n) = build.plan[n]
      BY <2>1 DEF Done, Current, Part
    <2>3. BodiesOnce /\ BodiesMerged /\ ClassesMerged
      BY <2>1 DEF BodyInv, WholeInv
    <2>4. ASSUME NEW c \in Chunks(build.plan[n])
          PROVE  Cardinality({k \in 1..Len(dst.chunks) : dst.chunks[k].body = c.body}) = 1
      <3>1. PICK a \in 1..Len(dst.chunks) : dst.chunks[a].body = c.body
        BY <2>2, <2>3 DEF BodiesMerged
      <3>2. {k \in 1..Len(dst.chunks) : dst.chunks[k].body = c.body} = {a}
        BY <2>3, <3>1 DEF BodiesOnce
      <3>. QED
        BY <3>2, FS_Singleton
    <2>5. ASSUME NEW class \in Classes(build.plan[n])
          PROVE  \E d \in Classes(dst) :
                   /\ d.name = class.name
                   /\ Hollow(d) => Hollow(class)
                   /\ class.ctor.index # 0 => d.ctor.index # 0
      <3>1. PICK a \in 1..Len(dst.classes) :
              HasMethods(dst.classes[a], class) /\ HasCtor(dst.classes[a], class)
        BY <2>2, <2>3 DEF ClassesMerged
      <3>2. dst.classes[a] \in Classes(dst)
        BY DEF Classes
      <3>. QED
        BY <3>1, <3>2 DEF HasMethods, HasCtor
    <2>. QED
      BY <2>4, <2>5
  <1>. QED
    BY <1>1, AlwaysTyped, AlwaysWhere, AlwaysBodies, AlwaysWhole, PTL

(***************************************************************************)
(* The verification after the merge                                        *)
(***************************************************************************)
ParentsAreFirst == \A b \in Builds : ParentsFirst(b)

\* A set of natural numbers has a least one.
LEMMA Least == ASSUME NEW S, S \subseteq Nat, S # {} PROVE \E k \in S : \A j \in S : ~(j < k)
  <1>. DEFINE R == OpToRel(<, Nat)
  <1>1. IsWellFoundedOn(R, Nat) /\ \A j, k \in Nat : j < k => <<j, k>> \in R
    BY NatLessThanWellFounded DEF OpToRel
  <1>. HIDE DEF R
  <1>2. PICK k \in S : \A j \in S : ~(<<j, k>> \in R)
    <2>1. IsWellFoundedOn(R, Nat) /\ S \subseteq Nat /\ S # {}
      BY <1>1
    <2>. QED
      BY <2>1, WFMin, Zenon
  <1>. QED
    BY <1>1, <1>2

\* The ancestors of a class are the parents of the classes it reaches: where every
\* parent comes before its class, they all do.
LEMMA AncestorsBelow ==
  ASSUME NEW m \in Module, NEW k \in 1..Len(m.classes),
         \A a \in 1..Len(m.classes) : m.classes[a].parent.index < a
  PROVE  k \notin Ancestors(m, k)
  <1>. DEFINE N == Len(m.classes)
              parent(l) == m.classes[l].parent.index
              Step(S) == S \cup {parent(l) : l \in S \ {0}}
              Value(f, n) == IF n = 0 THEN {parent(k)} ELSE Step(f[n - 1])
              Up(f) == f = [n \in 0..N |-> Value(f, n)]
              UpTo(f, j) == f = [n \in 0..j |-> Value(f, n)]
  <1>1. N \in Nat /\ \A l \in 1..N : parent(l) \in Nat /\ parent(l) < l
    BY ModuleFacts DEF ClassType, Refs
  <1>2. \A j \in 0..N : \E f : UpTo(f, j)
    <2>. DEFINE Bad == {j \in 0..N : ~\E f : UpTo(f, j)}
    <2>. SUFFICES ASSUME Bad # {} PROVE FALSE
      OBVIOUS
    <2>1. PICK j \in Bad : \A l \in Bad : ~(l < j)
      <3>1. Bad \subseteq Nat
        BY <1>1
      <3>. HIDE DEF Bad
      <3>. QED
        BY <3>1, Least
    <2>2. CASE j = 0
      <3>1. UpTo([n \in 0..0 |-> {parent(k)}], 0)
        OBVIOUS
      <3>. QED
        BY <2>2, <3>1
    <2>3. CASE j # 0
      <3>1. j - 1 \in 0..N /\ j \in Nat /\ j - 1 < j
        BY <1>1, <2>3
      <3>2. PICK f : UpTo(f, j - 1)
        BY <2>1, <3>1
      <3>. DEFINE g == [n \in 0..j |-> IF n = j THEN Step(f[j - 1]) ELSE f[n]]
      <3>3. \A n \in 0..(j - 1) : g[n] = f[n] /\ f[n] = Value(f, n)
        <4>1. \A n \in 0..(j - 1) : n \in 0..j /\ n # j
          BY <3>1
        <4>2. \A n \in 0..(j - 1) : f[n] = Value(f, n)
          <5>. HIDE DEF Value
          <5>. QED
            BY <3>2
        <4>. QED
          BY <4>1, <4>2
      <3>4. \A n \in 0..j : g[n] = Value(g, n)
        <4>. SUFFICES ASSUME NEW n \in 0..j PROVE g[n] = Value(g, n)
          OBVIOUS
        <4>1. CASE n = j
          <5>1. j - 1 \in 0..(j - 1)
            BY <3>1
          <5>2. g[j] = Step(f[j - 1]) /\ g[j - 1] = f[j - 1]
            BY <3>1, <3>3, <5>1
          <5>. HIDE DEF g, Step
          <5>. QED
            BY <2>3, <4>1, <5>2
        <4>2. CASE n # j /\ n # 0
          <5>1. n \in 0..(j - 1) /\ n - 1 \in 0..(j - 1)
            BY <3>1, <4>2
          <5>. HIDE DEF g, Step
          <5>. QED
            BY <3>3, <4>2, <5>1
        <4>3. CASE n # j /\ n = 0
          <5>1. n \in 0..(j - 1)
            BY <3>1, <4>3
          <5>. HIDE DEF g, Step
          <5>. QED
            BY <3>3, <4>3, <5>1
        <4>. QED
          BY <4>1, <4>2, <4>3
      <3>5. UpTo(g, j)
        <4>1. g = [n \in 0..j |-> g[n]]
          OBVIOUS
        <4>. HIDE DEF g, Value
        <4>. QED
          BY <3>4, <4>1
      <3>. QED
        BY <3>5
    <2>. QED
      BY <2>2, <2>3
  <1>. DEFINE up == CHOOSE f : Up(f)
  <1>3. Up(up)
    <2>1. N \in 0..N
      BY <1>1
    <2>2. \E f : Up(f)
      <3>. HIDE DEF N, Value
      <3>. QED
        BY <1>2, <2>1
    <2>. HIDE DEF Up
    <2>. QED
      BY <2>2
  <1>4. Ancestors(m, k) = up[N] \ {0}
    BY DEF Ancestors
  <1>. HIDE DEF up
  <1>5. up[0] = {parent(k)} /\ \A n \in 1..N : up[n] = Step(up[n - 1])
    <2>1. 0 \in 0..N /\ (\A n \in 1..N : n \in 0..N /\ n # 0)
      BY <1>1
    <2>2. \A n \in 0..N : up[n] = Value(up, n)
      <3>. HIDE DEF Value
      <3>. QED
        BY <1>3
    <2>. HIDE DEF Step
    <2>. QED
      BY <2>1, <2>2
  <1>6. \A n \in 0..N : \A l \in up[n] : l \in 0..(k - 1)
    <2>. DEFINE Bad == {n \in 0..N : ~\A l \in up[n] : l \in 0..(k - 1)}
    <2>. SUFFICES ASSUME Bad # {} PROVE FALSE
      OBVIOUS
    <2>1. PICK n \in Bad : \A l \in Bad : ~(l < n)
      <3>1. Bad \subseteq Nat
        BY <1>1
      <3>. HIDE DEF Bad
      <3>. QED
        BY <3>1, Least
    <2>2. n # 0
      BY <1>1, <1>5
    <2>3. n - 1 \in 0..N /\ n \in 1..N /\ n - 1 < n
      BY <1>1, <2>2
    <2>4. \A l \in up[n - 1] : l \in 0..(k - 1)
      BY <2>1, <2>3
    <2>5. \A l \in up[n - 1] \ {0} : parent(l) \in 0..(k - 1)
      BY <1>1, <2>4
    <2>6. up[n] = Step(up[n - 1])
      BY <1>5, <2>3
    <2>. QED
      BY <2>4, <2>5, <2>6
  <1>7. N \in 0..N /\ k \notin 0..(k - 1)
    BY <1>1
  <1>. QED
    BY <1>4, <1>6, <1>7

\* a class of dst stands after its parent, and no lower than in the module it came from
Stands(a) ==
    /\ dst.classes[a].parent.index < a
    /\ \E n \in 0..Current : \E k \in 1..Len(Part(build, n).classes) :
         k <= a /\ Part(build, n).classes[k].name = dst.classes[a].name

ParentInv == Live /\ Fits => \A a \in 1..Len(dst.classes) : Stands(a)

\* Where no class is replaced and none is added, they stand where they stood.
LEMMA StandsKept ==
  ASSUME Live, Fits, ParentInv, UNCHANGED build, Current \in Nat, Current' \in Nat, Current <= Current',
         Len(dst'.classes) = Len(dst.classes),
         \A a \in 1..Len(dst.classes) : /\ dst'.classes[a].name = dst.classes[a].name
                                        /\ dst'.classes[a].parent = dst.classes[a].parent
  PROVE  ParentInv'
  <1>1. \A n \in 0..Current : n \in 0..Current'
    OBVIOUS
  <1>2. \A a \in 1..Len(dst.classes) : Stands(a) => Stands(a)'
    BY <1>1 DEF Stands, Part
  <1>. QED
    BY <1>2 DEF ParentInv

\* The classes that the second loop has passed are in dst, each in a place of its own.
LEMMA RoomBelow ==
  ASSUME SeparateBuilds, Typed, Where, ClassNames, Fits, phase = "classes", NEW j \in Nat, j = i
  PROVE  j - 1 <= Len(dst.classes)
  <1>0. PICK n \in Nat : n = Len(dst.classes)
    BY ModuleFacts DEF Typed
  <1>. DEFINE f == [k \in 1..(j - 1) |-> ClassRemap(k)]
  <1>1. j >= 1 /\ \A k \in 1..(j - 1) : k \in PlacedClasses
    <2>1. j \in 1..(Len(src.classes) + 1) /\ Len(src.classes) \in Nat
      BY ModuleFacts DEF Typed
    <2>. QED
      BY <2>1 DEF PlacedClasses, Busy
  <1>2. f \in Injection(1..(j - 1), 1..n)
    <2>1. \A k \in 1..(j - 1) : ClassRemap(k) \in 1..n
      BY <1>0, <1>1, ClassPlaces
    <2>2. ASSUME NEW k \in 1..(j - 1), NEW l \in 1..(j - 1), ClassRemap(k) = ClassRemap(l)
          PROVE  k = l
      <3>1. src.classes[k].name = src.classes[l].name /\ k \in 1..Len(src.classes)
        BY <1>1, <2>2, ClassPlaces
      <3>. QED
        BY <1>1, <3>1, ClassPlaces
    <2>3. f \in [1..(j - 1) -> 1..n]
      BY <2>1
    <2>4. \A k, l \in 1..(j - 1) : f[k] = f[l] => k = l
      BY <2>2
    <2>. HIDE DEF f
    <2>. QED
      BY <2>3, <2>4, Zenon DEF Injection, IsInjective
  <1>. HIDE DEF f
  <1>3. IsFiniteSet(1..n) /\ Cardinality(1..n) = (IF 1 > n THEN 0 ELSE n - 1 + 1)
    BY FS_Interval
  <1>4. Cardinality(1..(j - 1)) = IF 1 > j - 1 THEN 0 ELSE (j - 1) - 1 + 1
    BY FS_Interval
  <1>5. Cardinality(1..(j - 1)) <= Cardinality(1..n)
    BY <1>2, <1>3, FS_Injection
  <1>. QED
    BY <1>0, <1>1, <1>3, <1>4, <1>5

LEMMA InitStands == ASSUME ParentsAreFirst, Typed, Init PROVE ParentInv
  <1>1. /\ dst = build.start /\ todo = build.plan /\ Len(build.plan) \in Nat
        /\ Len(dst.classes) \in Nat
    BY LinkAssumption, ModuleFacts DEF Init, Typed
  <1>2. Current = 0 /\ 0 \in 0..Current /\ 0 \in 0..Len(build.plan) /\ dst = Part(build, 0)
    BY <1>1 DEF Current, Part
  <1>3. ParentsFirst(build)
    BY DEF ParentsAreFirst, Typed
  <1>. SUFFICES ASSUME NEW a \in 1..Len(dst.classes) PROVE Stands(a)
    BY DEF ParentInv
  <1>4. dst.classes[a].parent.index < a
    <2>1. 0 \in 0..Len(build.plan)
      BY <1>2
    <2>. QED
      BY <1>2, <1>3, <2>1 DEF ParentsFirst
  <1>. QED
    BY <1>2, <1>4 DEF Stands

LEMMA AddClassStands ==
  ASSUME SeparateBuilds, ParentsAreFirst, Typed, Typed', Where, ClassNames, Fits, ParentInv, AddClass
  PROVE  ParentInv'
  <1>1. PICK j \in Nat : j = i
    BY DEF Typed
  <1>2. PICK at \in 0..Len(dst.classes) : at = Find(dst.classes, src.classes[i].name)
    BY FindFacts, ModuleFacts DEF Typed
  <1>3. /\ phase = "classes" /\ j \in 1..Len(src.classes) /\ UNCHANGED <<build, todo>>
        /\ Busy /\ Live /\ Current' = Current
    BY <1>1, <1>2, AddClassStep DEF Busy, Live, Current
  <1>4. /\ src = Part(build, Current) /\ Current \in 1..Len(build.plan) /\ Len(build.plan) \in Nat
        /\ Len(dst.classes) \in Nat
    BY <1>3, PartFacts, LinkAssumption, ModuleFacts DEF Typed
  <1>5. ParentsFirst(build)
    BY DEF ParentsAreFirst, Typed
  <1>6. \A a \in 1..Len(dst.classes) : Stands(a)
    BY <1>3 DEF ParentInv
  <1>7. ASSUME NEW a \in 1..Len(dst.classes), dst'.classes[a] = dst.classes[a] PROVE Stands(a)'
    BY <1>3, <1>6, <1>7 DEF Stands, Part
  <1>8. CASE at # 0 /\ Fills(src.classes[i], at)
    <2>1. /\ Len(dst'.classes) = Len(dst.classes) /\ dst'.classes[at] = src.classes[j]
          /\ \A a \in 1..Len(dst.classes) : a # at => dst'.classes[a] = dst.classes[a]
          /\ at \in 1..Len(dst.classes) /\ dst.classes[at].name = src.classes[j].name
      BY <1>1, <1>2, <1>4, <1>8, AddClassStep, FindFacts
    <2>2. PICK n \in 0..Current : \E k \in 1..Len(Part(build, n).classes) :
            k <= at /\ Part(build, n).classes[k].name = dst.classes[at].name
      BY <1>6, <2>1 DEF Stands
    <2>3. PICK k \in 1..Len(Part(build, n).classes) :
            k <= at /\ Part(build, n).classes[k].name = dst.classes[at].name
      BY <2>2
    <2>4. n \in 0..Len(build.plan) /\ Current \in n..Len(build.plan)
      BY <1>4
    <2>5. src.classes[j].parent.index < k
      BY <1>3, <1>4, <1>5, <2>1, <2>3, <2>4 DEF ParentsFirst
    <2>6. src.classes[j].parent.index \in Nat
      BY <1>3, ModuleFacts DEF Typed, ClassType, Refs
    <2>7. k \in Nat
      OBVIOUS
    <2>8. dst'.classes[at].parent.index < at
      <3>1. src.classes[j].parent.index < at
        BY <2>3, <2>5, <2>6, <2>7
      <3>. QED
        BY <2>1, <3>1
    <2>9. Stands(at)'
      BY <1>3, <2>1, <2>3, <2>8 DEF Stands, Part
    <2>. QED
      BY <1>7, <2>1, <2>9 DEF ParentInv
  <1>9. CASE at = 0 /\ ClassRoom
    <2>1. /\ Len(dst'.classes) = Len(dst.classes) + 1
          /\ dst'.classes[Len(dst.classes) + 1] = src.classes[j]
          /\ \A a \in 1..Len(dst.classes) : dst'.classes[a] = dst.classes[a]
      BY <1>1, <1>2, <1>9, AddClassStep
    <2>2. PICK A \in Nat : A = Len(dst.classes) + 1
      BY <1>4
    <2>3. j <= A
      BY <1>1, <1>3, <1>4, <2>2, RoomBelow
    <2>4. Current \in 0..Len(build.plan) /\ Current \in Current..Len(build.plan) /\ Current \in 0..Current
      BY <1>4
    <2>5. src.classes[j].parent.index < j
      BY <1>3, <1>4, <1>5, <2>4 DEF ParentsFirst
    <2>6. src.classes[j].parent.index \in Nat
      BY <1>3, ModuleFacts DEF Typed, ClassType, Refs
    <2>7. src.classes[j].parent.index < A
      BY <2>3, <2>5, <2>6
    <2>8. Stands(A)'
      BY <1>3, <1>4, <2>1, <2>2, <2>3, <2>4, <2>7 DEF Stands, Part
    <2>9. \A a \in 1..Len(dst'.classes) : a \in 1..Len(dst.classes) \/ a = A
      BY <1>4, <2>1, <2>2
    <2>. QED
      BY <1>7, <2>1, <2>8, <2>9 DEF ParentInv
  <1>10. CASE (at # 0 /\ ~Fills(src.classes[i], at)) \/ (at = 0 /\ ~ClassRoom)
    <2>1. dst'.classes = dst.classes
      BY <1>2, <1>10, AddClassStep
    <2>. QED
      BY <1>7, <2>1 DEF ParentInv
  <1>. QED
    BY <1>8, <1>9, <1>10

LEMMA FixClassStands ==
  ASSUME Typed, Where, Fits, ParentInv, FixClass
  PROVE  ParentInv'
  <1>1. PICK at \in 0..Len(dst.classes) : at = Find(dst.classes, src.classes[i].name)
    BY FindFacts, ModuleFacts DEF Typed
  <1>2. /\ phase = "methods" /\ i \in 1..Len(src.classes) /\ UNCHANGED <<build, todo>>
        /\ Len(dst'.classes) = Len(dst.classes)
        /\ \A a \in 1..Len(dst.classes) : a # at => dst'.classes[a] = dst.classes[a]
        /\ at # 0 => dst'.classes[at] = Fixed(dst.classes[at], src.classes[i])
    BY <1>1, FixStep
  <1>3. src.classes[i] \in ClassType /\ \A a \in 1..Len(dst.classes) : dst.classes[a] \in ClassType
    BY <1>2, ModuleFacts DEF Typed
  <1>4. \A a \in 1..Len(dst.classes) : /\ dst'.classes[a].name = dst.classes[a].name
                                       /\ dst'.classes[a].parent = dst.classes[a].parent
    <2>. SUFFICES ASSUME NEW a \in 1..Len(dst.classes)
                  PROVE  /\ dst'.classes[a].name = dst.classes[a].name
                         /\ dst'.classes[a].parent = dst.classes[a].parent
      OBVIOUS
    <2>1. CASE a = at
      <3>1. a # 0 /\ dst'.classes[a] = Fixed(dst.classes[a], src.classes[i])
        BY <1>2, <2>1
      <3>. QED
        BY <1>3, <3>1, FixedTyped
    <2>2. CASE a # at
      BY <1>2, <2>2
    <2>. QED
      BY <2>1, <2>2
  <1>5. Live /\ Current \in Nat /\ Current' = Current
    BY <1>2, LinkAssumption DEF Live, Busy, Where, Current, Typed
  <1>. QED
    BY <1>2, <1>4, <1>5, StandsKept

LEMMA AlwaysStands ==
  ASSUME SeparateBuilds, ParentsAreFirst
  PROVE  Spec => []ParentInv
  <1>1. Typed /\ Init => ParentInv
    BY InitStands
  <1>2. Typed /\ Typed' /\ Where /\ Where' /\ ChunkNames /\ ClassNames /\ ParentInv /\ [Next]_vars
          => ParentInv'
    <2>. SUFFICES ASSUME Typed, Typed', Where, Where', ChunkNames, ClassNames, ParentInv,
                         [Next]_vars, Live', Fits'
                  PROVE  ParentInv'
      BY DEF ParentInv
    <2>1. build' = build /\ (Live \/ MergeFails)
      BY DEF Next, Merge, Begin, AddChunk, ChunksDone, AddClass, ClassesDone, RemapChunk,
             RemapDone, FixClass, Merged, MergeFails, Seal, Ends, Pass, vars, Live, Busy
    <2>2. Fits
      BY <2>1 DEF Fits, AllClasses
    <2>3. /\ Current \in Nat /\ Current' \in Nat
      BY LinkAssumption DEF Where, Typed
    <2>4. CASE Begin
      <3>1. Busy' /\ ~Busy /\ phase = "idle" /\ Live /\ dst' = dst
        BY <2>4 DEF Begin, Pass, Live, Busy
      <3>2. Current' = Current + 1
        <4>1. Done' = Done
          BY <2>4, <3>1, BeginNames
        <4>2. Done' = Current' - 1 /\ Done = Current
          BY <3>1 DEF Done
        <4>3. PICK n \in Nat, m \in Nat : n = Current /\ m = Current'
          BY <2>3
        <4>4. m - 1 = n
          BY <4>1, <4>2, <4>3
        <4>5. m = n + 1
          BY <4>4
        <4>. QED
          BY <4>3, <4>5
      <3>. QED
        BY <2>1, <2>2, <2>3, <3>1, <3>2, StandsKept
    <2>5. CASE AddClass
      BY <2>2, <2>5, AddClassStands
    <2>6. CASE FixClass
      BY <2>2, <2>6, FixClassStands
    <2>7. CASE MergeFails
      BY <2>7 DEF MergeFails, Live, Busy
    <2>8. CASE AddChunk \/ ChunksDone \/ ClassesDone \/ RemapChunk \/ RemapDone
      <3>1. ~FixClass /\ Live /\ UNCHANGED todo
        BY <2>8 DEF AddChunk, ChunksDone, ClassesDone, RemapChunk, RemapDone, Ends, FixClass,
                    Live, Busy
      <3>2. dst'.classes = dst.classes
        BY <2>8, <3>1, LaterClasses
      <3>3. Current' = Current
        BY <2>1, <3>1 DEF Current
      <3>. QED
        BY <2>1, <2>2, <2>3, <3>1, <3>2, <3>3, StandsKept
    <2>9. CASE Merged
      <3>1. Live /\ dst' = dst /\ UNCHANGED todo
        BY <2>9 DEF Merged, Live, Busy
      <3>2. Current' = Current
        BY <2>1, <3>1 DEF Current
      <3>. QED
        BY <2>1, <2>2, <2>3, <3>1, <3>2, StandsKept
    <2>10. CASE Seal \/ UNCHANGED vars
      <3>1. Live /\ dst'.classes = dst.classes /\ UNCHANGED todo
        BY <2>10, IdleNames
      <3>2. Current' = Current
        BY <2>1, <3>1 DEF Current
      <3>. QED
        BY <2>1, <2>2, <2>3, <3>1, <3>2, StandsKept
    <2>. QED
      BY <2>4, <2>5, <2>6, <2>7, <2>8, <2>9, <2>10 DEF Next, Merge
  <1>. QED
    BY <1>1, <1>2, AlwaysTyped, AlwaysWhere, AlwaysNames, AlwaysClasses, PTL DEF Spec

(***************************************************************************)
(* Where the chunks and classes of dst come from                           *)
(***************************************************************************)
\* the same references, at whatever indices
SameRefs(code, other) ==
    /\ Len(code) = Len(other)
    /\ \A j \in 1..Len(code) : /\ code[j].kind = other[j].kind /\ code[j].name = other[j].name
                               /\ code[j].needs = other[j].needs

\* c is d but for its indices, and its name
FromChunk(c, d) ==
    /\ c.body = d.body /\ c.params = d.params /\ c.named = d.named /\ c.fit = d.fit
    /\ SameRefs(c.code, d.code)

FromClass(class, from) ==
    /\ class.name = from.name /\ class.iface = from.iface /\ class.fields = from.fields
    /\ class.ctor.name = from.ctor.name
    /\ Len(class.methods) = Len(from.methods)
    /\ \A j \in 1..Len(class.methods) : class.methods[j].name = from.methods[j].name

SameName(c, d) == c.name = d.name \/ (d.name = Sinit /\ IsNumbered(c.name))

ChunkOrigin(c, last) ==
    \E n \in 0..last : \E d \in Chunks(Part(build, n)) : FromChunk(c, d) /\ SameName(c, d)
ClassOrigin(class, last) ==
    \E n \in 0..last : \E from \in Classes(Part(build, n)) : FromClass(class, from)

OriginInv == Live => /\ \A a \in 1..Len(dst.chunks) : ChunkOrigin(dst.chunks[a], Current)
                     /\ \A a \in 1..Len(dst.classes) : ClassOrigin(dst.classes[a], Current)

LEMMA OriginOfItself == \A c : FromChunk(c, c) /\ FromClass(c, c) /\ SameName(c, c)
  BY DEF FromChunk, FromClass, SameRefs, SameName

\* What has changed its indices only comes from where it came from.
LEMMA OriginKept ==
  ASSUME NEW last \in Nat, NEW more \in Nat, last <= more
  PROVE  /\ \A c, d : FromChunk(c, d) /\ c.name = d.name /\ ChunkOrigin(d, last) => ChunkOrigin(c, more)
         /\ \A c, d : FromClass(c, d) /\ ClassOrigin(d, last) => ClassOrigin(c, more)
  <1>1. \A n \in 0..last : n \in 0..more
    OBVIOUS
  <1>2. ASSUME NEW c, NEW d, FromChunk(c, d), c.name = d.name, ChunkOrigin(d, last)
        PROVE  ChunkOrigin(c, more)
    <2>1. PICK n \in 0..last : \E e \in Chunks(Part(build, n)) : FromChunk(d, e) /\ SameName(d, e)
      BY <1>2 DEF ChunkOrigin
    <2>2. PICK e \in Chunks(Part(build, n)) : FromChunk(d, e) /\ SameName(d, e)
      BY <2>1
    <2>3. FromChunk(c, e)
      BY <1>2, <2>2 DEF FromChunk, SameRefs
    <2>4. SameName(c, e)
      BY <1>2, <2>2 DEF SameName
    <2>. QED
      BY <1>1, <2>3, <2>4 DEF ChunkOrigin
  <1>3. ASSUME NEW c, NEW d, FromClass(c, d), ClassOrigin(d, last)
        PROVE  ClassOrigin(c, more)
    <2>1. PICK n \in 0..last : \E e \in Classes(Part(build, n)) : FromClass(d, e)
      BY <1>3 DEF ClassOrigin
    <2>2. PICK e \in Classes(Part(build, n)) : FromClass(d, e)
      BY <2>1
    <2>3. FromClass(c, e)
      BY <1>3, <2>2 DEF FromClass
    <2>. QED
      BY <1>1, <2>3 DEF ClassOrigin
  <1>. QED
    BY <1>2, <1>3

\* A step after which each chunk and each class is one that was there, but for its
\* indices, or has an origin.
LEMMA OriginsKept ==
  ASSUME OriginInv, Live, UNCHANGED build, Current \in Nat, Current' \in Nat, Current <= Current',
         \A a \in 1..Len(dst'.chunks) :
           \/ \E b \in 1..Len(dst.chunks) : /\ FromChunk(dst'.chunks[a], dst.chunks[b])
                                            /\ dst'.chunks[a].name = dst.chunks[b].name
           \/ ChunkOrigin(dst'.chunks[a], Current'),
         \A a \in 1..Len(dst'.classes) :
           \/ \E b \in 1..Len(dst.classes) : FromClass(dst'.classes[a], dst.classes[b])
           \/ ClassOrigin(dst'.classes[a], Current')
  PROVE  OriginInv'
  <1>1. /\ \A a \in 1..Len(dst.chunks) : ChunkOrigin(dst.chunks[a], Current)
        /\ \A a \in 1..Len(dst.classes) : ClassOrigin(dst.classes[a], Current)
    BY DEF OriginInv
  <1>2. \A a \in 1..Len(dst'.chunks) : ChunkOrigin(dst'.chunks[a], Current')
    BY <1>1, OriginKept
  <1>3. \A a \in 1..Len(dst'.classes) : ClassOrigin(dst'.classes[a], Current')
    BY <1>1, OriginKept
  <1>4. \A c, last : /\ ChunkOrigin(c, last)' = ChunkOrigin(c, last)
                     /\ ClassOrigin(c, last)' = ClassOrigin(c, last)
    BY DEF ChunkOrigin, ClassOrigin
  <1>. QED
    BY <1>2, <1>3 DEF OriginInv, ChunkOrigin, ClassOrigin

\* The chunks and classes of src have it for their origin.
LEMMA OriginInSrc ==
  ASSUME SeparateBuilds, Typed, Where, Busy
  PROVE  /\ \A k \in 1..Len(src.chunks) : \A c :
              FromChunk(c, src.chunks[k]) /\ SameName(c, src.chunks[k]) => ChunkOrigin(c, Current)
         /\ \A k \in 1..Len(src.classes) : ClassOrigin(src.classes[k], Current)
  <1>1. src = Part(build, Current) /\ Current \in 0..Current
    BY PartFacts, LinkAssumption DEF Typed
  <1>2. /\ \A k \in 1..Len(src.chunks) : src.chunks[k] \in Chunks(Part(build, Current))
        /\ \A k \in 1..Len(src.classes) : src.classes[k] \in Classes(Part(build, Current))
    BY <1>1 DEF Chunks, Classes
  <1>. QED
    BY <1>1, <1>2, OriginOfItself DEF ChunkOrigin, ClassOrigin

LEMMA InitOrigins == ASSUME Typed, Init PROVE OriginInv
  <1>1. Current \in Nat /\ 0 \in 0..Current /\ dst = Part(build, 0)
    BY LinkAssumption DEF Init, Typed, Current, Part
  <1>2. /\ \A a \in 1..Len(dst.chunks) : dst.chunks[a] \in Chunks(Part(build, 0))
        /\ \A a \in 1..Len(dst.classes) : dst.classes[a] \in Classes(Part(build, 0))
    BY <1>1 DEF Chunks, Classes
  <1>. QED
    BY <1>1, <1>2, OriginOfItself DEF OriginInv, ChunkOrigin, ClassOrigin

\* The first loop adds a chunk of src, perhaps under a number.
LEMMA AddChunkOrigin ==
  ASSUME SeparateBuilds, Typed, Where, AddChunk
  PROVE  \A a \in 1..Len(dst'.chunks) :
           \/ a \in 1..Len(dst.chunks) /\ dst'.chunks[a] = dst.chunks[a]
           \/ ChunkOrigin(dst'.chunks[a], Current)
  <1>1. PICK j \in Nat : j = i
    BY DEF Typed
  <1>. DEFINE c == src.chunks[j]
              added == [c EXCEPT !.name = NewName(c)]
  <1>2. /\ phase = "chunks" /\ i <= Len(src.chunks) /\ Busy
        /\ dst' = dst \/ dst' = [dst EXCEPT !.chunks = Append(@, added)]
    BY <1>1 DEF AddChunk, Busy
  <1>3. i \in 1..(Len(src.chunks) + 1) /\ Len(src.chunks) \in Nat /\ dst \in Module
        /\ Len(dst.chunks) \in Nat
    BY <1>2, ModuleFacts DEF Typed
  <1>4. j \in 1..Len(src.chunks) /\ c \in ChunkType
    BY <1>1, <1>2, <1>3, ModuleFacts DEF Typed
  <1>5. NewName(c) \in Names
    BY <1>3, <1>4, SinitNames DEF NewName, ChunkType
  <1>6. /\ added \in ChunkType /\ added.name = NewName(c) /\ added.body = c.body
        /\ added.params = c.params /\ added.named = c.named /\ added.fit = c.fit
        /\ added.code = c.code
    BY <1>4, <1>5 DEF ChunkType
  <1>7. FromChunk(added, c)
    BY <1>6 DEF FromChunk, SameRefs
  <1>8. SameName(added, c)
    BY <1>6, NumberedIsNumbered DEF SameName, NewName
  <1>9. ChunkOrigin(added, Current)
    BY <1>2, <1>4, <1>7, <1>8, OriginInSrc
  <1>. HIDE DEF added
  <1>10. CASE dst' = dst
    BY <1>10
  <1>11. CASE dst' = [dst EXCEPT !.chunks = Append(@, added)]
    <2>1. /\ Len(dst'.chunks) = Len(dst.chunks) + 1
          /\ dst'.chunks[Len(dst.chunks) + 1] = added
          /\ \A k \in 1..Len(dst.chunks) : dst'.chunks[k] = dst.chunks[k]
      BY <1>3, <1>6, <1>11, AddedChunk
    <2>2. \A a \in 1..Len(dst'.chunks) : a \in 1..Len(dst.chunks) \/ a = Len(dst.chunks) + 1
      BY <1>3, <2>1
    <2>. QED
      BY <1>9, <2>1, <2>2
  <1>. QED
    BY <1>2, <1>10, <1>11

\* The third loop changes indices only.
LEMMA RemapChunkOrigin ==
  ASSUME Typed, RemapChunk
  PROVE  /\ Len(dst'.chunks) = Len(dst.chunks)
         /\ \A a \in 1..Len(dst.chunks) : /\ FromChunk(dst'.chunks[a], dst.chunks[a])
                                          /\ dst'.chunks[a].name = dst.chunks[a].name
  <1>1. phase = "remap" /\ i <= Len(src.chunks) /\ Busy
    BY DEF RemapChunk, Busy
  <1>2. i \in 1..(Len(src.chunks) + 1) /\ Len(src.chunks) \in Nat /\ Len(placed) = Len(src.chunks)
    BY <1>1, ModuleFacts DEF Typed
  <1>3. i \in 1..Len(src.chunks)
    BY <1>1, <1>2
  <1>4. PICK at \in 0..Len(dst.chunks) : at = FnRemap(i)
    BY <1>2, <1>3, PlaceTyped
  <1>5. /\ Len(dst'.chunks) = Len(dst.chunks)
        /\ \A a \in 1..Len(dst.chunks) :
             (a # at \/ src.chunks[i].body = "") => dst'.chunks[a] = dst.chunks[a]
        /\ (at # 0 /\ src.chunks[i].body # "") => dst'.chunks[at] = RemapCode(dst.chunks[at])
    BY <1>4, RemapStep
  <1>6. \A a \in 1..Len(dst.chunks) :
          dst'.chunks[a] = dst.chunks[a] \/ dst'.chunks[a] = RemapCode(dst.chunks[a])
    <2>1. \A a \in 1..Len(dst.chunks) : a # 0
      OBVIOUS
    <2>. QED
      BY <1>5, <2>1
  <1>7. ASSUME NEW a \in 1..Len(dst.chunks)
        PROVE  /\ FromChunk(RemapCode(dst.chunks[a]), dst.chunks[a])
               /\ RemapCode(dst.chunks[a]).name = dst.chunks[a].name
    <2>. DEFINE c == dst.chunks[a]
    <2>1. c \in ChunkType
      BY ModuleFacts DEF Typed
    <2>2. \A j \in 1..Len(c.code) : c.code[j] \in Refs({"fn", "class"})
      BY <2>1 DEF ChunkType
    <2>. HIDE DEF c
    <2>3. /\ RemapCode(c).name = c.name /\ RemapCode(c).body = c.body
          /\ RemapCode(c).params = c.params /\ RemapCode(c).named = c.named
          /\ RemapCode(c).fit = c.fit /\ Len(RemapCode(c).code) = Len(c.code)
          /\ \A j \in 1..Len(c.code) : RemapCode(c).code[j] = Remapped(c.code[j])
      BY <1>2, <2>1, RemapCodeTyped
    <2>4. \A j \in 1..Len(c.code) :
            /\ Remapped(c.code[j]).kind = c.code[j].kind /\ Remapped(c.code[j]).name = c.code[j].name
            /\ Remapped(c.code[j]).needs = c.code[j].needs
      BY <1>2, <2>2, RemappedTyped
    <2>5. SameRefs(RemapCode(c).code, c.code)
      BY <2>3, <2>4 DEF SameRefs
    <2>6. FromChunk(RemapCode(c), c)
      BY <2>3, <2>5 DEF FromChunk
    <2>. QED
      BY <2>3, <2>6 DEF c
  <1>. QED
    BY <1>5, <1>6, <1>7, OriginOfItself

\* So does the fourth.
LEMMA FixClassOrigin ==
  ASSUME Typed, FixClass
  PROVE  /\ Len(dst'.classes) = Len(dst.classes)
         /\ \A a \in 1..Len(dst.classes) : FromClass(dst'.classes[a], dst.classes[a])
  <1>1. PICK at \in 0..Len(dst.classes) : at = Find(dst.classes, src.classes[i].name)
    BY FindFacts, ModuleFacts DEF Typed
  <1>2. /\ i \in 1..Len(src.classes) /\ Len(dst'.classes) = Len(dst.classes)
        /\ \A a \in 1..Len(dst.classes) : a # at => dst'.classes[a] = dst.classes[a]
        /\ at # 0 => dst'.classes[at] = Fixed(dst.classes[at], src.classes[i])
    BY <1>1, FixStep
  <1>3. ASSUME NEW a \in 1..Len(dst.classes)
        PROVE  FromClass(Fixed(dst.classes[a], src.classes[i]), dst.classes[a])
    <2>. DEFINE class == dst.classes[a]
                from == src.classes[i]
    <2>1. class \in ClassType /\ from \in ClassType
      BY <1>2, ModuleFacts DEF Typed
    <2>. HIDE DEF class, from
    <2>2. /\ class.methods \in Seq(Refs({"fn"})) /\ from.methods \in Seq(Refs({"fn"}))
          /\ class.ctor \in Refs({"fn"}) /\ from.ctor \in Refs({"fn"})
          /\ Len(class.methods) \in Nat /\ Len(from.methods) \in Nat
      BY <2>1 DEF ClassType
    <2>3. /\ \A j \in 1..Len(class.methods) : class.methods[j] \in Refs({"fn"})
          /\ \A j \in 1..Len(class.methods) :
               j <= Len(from.methods) => from.methods[j] \in Refs({"fn"})
      BY <2>2
    <2>4. /\ Fixed(class, from).name = class.name
          /\ Fixed(class, from).fields = class.fields /\ Fixed(class, from).iface = class.iface
          /\ Len(Fixed(class, from).methods) = Len(class.methods)
          /\ \A j \in 1..Len(class.methods) :
               Fixed(class, from).methods[j] =
                 IF j <= Len(from.methods) THEN Renamed(class.methods[j], from.methods[j])
                 ELSE class.methods[j]
          /\ Fixed(class, from).ctor = Renamed(class.ctor, from.ctor)
      BY <2>1, FixedTyped
    <2>5. \A j \in 1..Len(class.methods) : Fixed(class, from).methods[j].name = class.methods[j].name
      BY <2>3, <2>4, RenamedTyped
    <2>6. Fixed(class, from).ctor.name = class.ctor.name
      BY <2>2, <2>4, RenamedTyped
    <2>7. FromClass(Fixed(class, from), class)
      BY <2>4, <2>5, <2>6 DEF FromClass
    <2>. QED
      BY <2>7 DEF class, from
  <1>. QED
    BY <1>2, <1>3, OriginOfItself

LEMMA AlwaysOrigins ==
  ASSUME SeparateBuilds
  PROVE  Spec => []OriginInv
  <1>1. Typed /\ Init => OriginInv
    BY InitOrigins
  <1>2. Typed /\ Typed' /\ Where /\ Where' /\ OriginInv /\ [Next]_vars => OriginInv'
    <2>. SUFFICES ASSUME Typed, Typed', Where, Where', OriginInv, [Next]_vars, Live'
                  PROVE  OriginInv'
      BY DEF OriginInv
    <2>1. build' = build /\ Live
      BY DEF Next, Merge, Begin, AddChunk, ChunksDone, AddClass, ClassesDone, RemapChunk,
             RemapDone, FixClass, Merged, MergeFails, Seal, Ends, Pass, vars, Live, Busy
    <2>2. Current \in Nat /\ Current' \in Nat
      BY LinkAssumption DEF Where, Typed
    <2>3. Current <= Current'
      <3>1. CASE Begin
        <4>1. todo # <<>> /\ todo' = Tail(todo) /\ todo \in Seq(Module)
          BY <3>1 DEF Begin, Typed
        <4>2. Len(todo') = Len(todo) - 1 /\ Len(todo) \in Nat
          BY <4>1
        <4>3. Len(build.plan) \in Nat
          BY LinkAssumption DEF Typed
        <4>. QED
          BY <2>1, <4>2, <4>3 DEF Current
      <3>2. CASE ~Begin
        <4>1. todo' = todo
          BY <3>2 DEF Next, Merge, AddChunk, ChunksDone, AddClass, ClassesDone, RemapChunk,
             RemapDone, FixClass, Merged, MergeFails, Seal, Ends, Pass, vars
        <4>. QED
          BY <2>1, <2>2, <4>1 DEF Current
      <3>. QED
        BY <3>1, <3>2
    <2>. DEFINE NewChunks == \A a \in 1..Len(dst'.chunks) :
                  \/ \E b \in 1..Len(dst.chunks) : /\ FromChunk(dst'.chunks[a], dst.chunks[b])
                                                   /\ dst'.chunks[a].name = dst.chunks[b].name
                  \/ ChunkOrigin(dst'.chunks[a], Current')
                NewClasses == \A a \in 1..Len(dst'.classes) :
                  \/ \E b \in 1..Len(dst.classes) : FromClass(dst'.classes[a], dst.classes[b])
                  \/ ClassOrigin(dst'.classes[a], Current')
    <2>4. dst'.chunks = dst.chunks => NewChunks
      BY OriginOfItself
    <2>5. dst'.classes = dst.classes => NewClasses
      BY OriginOfItself
    <2>6. CASE AddChunk
      <3>1. UNCHANGED todo /\ Current' = Current
        BY <2>1, <2>6 DEF AddChunk, Current
      <3>2. NewChunks
        BY <2>6, <3>1, AddChunkOrigin, OriginOfItself
      <3>3. dst'.classes = dst.classes
        BY <2>6 DEF AddChunk, Typed, Module
      <3>. QED
        BY <2>1, <2>2, <2>3, <2>5, <3>2, <3>3, OriginsKept
    <2>7. CASE AddClass
      <3>1. PICK at \in 0..Len(dst.classes) : at = Find(dst.classes, src.classes[i].name)
        BY FindFacts, ModuleFacts DEF Typed
      <3>2. /\ Busy /\ i \in 1..Len(src.classes) /\ dst'.chunks = dst.chunks /\ UNCHANGED todo
            /\ Len(dst.classes) \in Nat
        BY <2>7, <3>1, AddClassStep, ModuleFacts DEF Busy, Typed
      <3>3. ClassOrigin(src.classes[i], Current')
        BY <2>1, <3>2, OriginInSrc DEF Current
      <3>4. \A a \in 1..Len(dst'.classes) :
              \/ a \in 1..Len(dst.classes) /\ dst'.classes[a] = dst.classes[a]
              \/ dst'.classes[a] = src.classes[i]
        <4>1. CASE at # 0 /\ Fills(src.classes[i], at)
          BY <2>7, <3>1, <4>1, AddClassStep
        <4>2. CASE at = 0 /\ ClassRoom
          <5>1. /\ Len(dst'.classes) = Len(dst.classes) + 1
                /\ dst'.classes[Len(dst.classes) + 1] = src.classes[i]
                /\ \A a \in 1..Len(dst.classes) : dst'.classes[a] = dst.classes[a]
            BY <2>7, <3>1, <4>2, AddClassStep
          <5>2. \A a \in 1..Len(dst'.classes) : a \in 1..Len(dst.classes) \/ a = Len(dst.classes) + 1
            BY <3>2, <5>1
          <5>. QED
            BY <5>1, <5>2
        <4>3. CASE (at # 0 /\ ~Fills(src.classes[i], at)) \/ (at = 0 /\ ~ClassRoom)
          BY <2>7, <3>1, <4>3, AddClassStep
        <4>. QED
          BY <4>1, <4>2, <4>3
      <3>5. NewClasses
        BY <3>3, <3>4, OriginOfItself
      <3>. QED
        BY <2>1, <2>2, <2>3, <2>4, <3>2, <3>5, OriginsKept
    <2>8. CASE RemapChunk
      <3>1. NewChunks
        BY <2>8, RemapChunkOrigin
      <3>2. dst'.classes = dst.classes
        BY <2>8 DEF RemapChunk, Typed, Module
      <3>. QED
        BY <2>1, <2>2, <2>3, <2>5, <3>1, <3>2, OriginsKept
    <2>9. CASE FixClass
      <3>1. NewClasses
        BY <2>9, FixClassOrigin
      <3>2. dst'.chunks = dst.chunks
        BY <2>9 DEF FixClass, Typed, Module
      <3>. QED
        BY <2>1, <2>2, <2>3, <2>4, <3>1, <3>2, OriginsKept
    <2>10. CASE ~(AddChunk \/ AddClass \/ RemapChunk \/ FixClass)
      <3>1. dst'.chunks = dst.chunks /\ dst'.classes = dst.classes
        BY <2>10 DEF Next, Merge, Begin, ChunksDone, ClassesDone, RemapDone, Merged, MergeFails,
             Seal, Ends, Pass, vars, Live, Busy, Typed, Module
      <3>. QED
        BY <2>1, <2>2, <2>3, <2>4, <2>5, <3>1, OriginsKept
    <2>. QED
      BY <2>6, <2>7, <2>8, <2>9, <2>10
  <1>. QED
    BY <1>1, <1>2, AlwaysTyped, AlwaysWhere, PTL DEF Spec

\* What a module of the build says of its functions and classes, true of any other.
LEMMA BuildFacts ==
  ASSUME SeparateBuilds, Typed, Compatible(build), NEW n \in 0..Len(build.plan)
  PROVE  /\ Sound(Part(build, n))
         /\ \A c \in Chunks(Part(build, n)) :
              /\ c.fit /\ \A name \in Fns(c.code) : ~Initialiser(name)
              /\ \A p \in 0..Len(build.plan) : Agrees(c, Part(build, p))
              /\ \A use \in c.named : \E p \in 0..Len(build.plan) : \E d \in Classes(Part(build, p)) :
                   d.name = use.name /\ (use.slots = 0 \/ ~Hollow(d))
         /\ \A class \in Classes(Part(build, n)) :
              /\ \A name \in Fns(class.methods) \cup {class.ctor.name} : ~Initialiser(name)
              /\ ~class.iface => \A p \in 0..Len(build.plan) : \A d \in Chunks(Part(build, p)) :
                   d.name \in Members(class) => d.body # ""
  <1>1. Separate(build)
    BY DEF SeparateBuilds, Typed
  <1>2. Sound(Part(build, n))
    BY <1>1 DEF Separate
  <1>3. /\ \A c \in Chunks(Part(build, n)) : \A name \in Fns(c.code) : ~Initialiser(name)
        /\ \A class \in Classes(Part(build, n)) :
             \A name \in Fns(class.methods) \cup {class.ctor.name} : ~Initialiser(name)
    BY <1>2, Zenon DEF Sound
  <1>4. /\ \A c \in Chunks(Part(build, n)) : \A p \in 0..Len(build.plan) :
             c.fit /\ Agrees(c, Part(build, p))
        /\ \A class \in Classes(Part(build, n)) : ~class.iface =>
             \A p \in 0..Len(build.plan) : \A d \in Chunks(Part(build, p)) :
               d.name \in Members(class) => d.body # ""
    <2>. SUFFICES ASSUME NEW p \in 0..Len(build.plan)
                  PROVE  /\ \A c \in Chunks(Part(build, n)) : c.fit /\ Agrees(c, Part(build, p))
                         /\ \A class \in Classes(Part(build, n)) : ~class.iface =>
                              \A d \in Chunks(Part(build, p)) : d.name \in Members(class) => d.body # ""
      BY Zenon
    <2>. QED
      BY Zenon DEF Compatible
  <1>5. \A c \in Chunks(Part(build, n)) : \A use \in c.named :
          \E p \in 0..Len(build.plan) : \E d \in Classes(Part(build, p)) :
            d.name = use.name /\ (use.slots = 0 \/ ~Hollow(d))
    BY DEF Compatible
  <1>. QED
    BY <1>2, <1>3, <1>4, <1>5

\* A function of dst that is no static initialiser is one of its name in the build.
LEMMA FunctionOrigin ==
  ASSUME SeparateBuilds, Typed, Where, Live, OriginInv,
         NEW a \in 1..Len(dst.chunks), ~Initialiser(dst.chunks[a].name)
  PROVE  \E p \in 0..Len(build.plan) : \E d \in Chunks(Part(build, p)) :
           FromChunk(dst.chunks[a], d) /\ d.name = dst.chunks[a].name
  <1>1. ChunkOrigin(dst.chunks[a], Current)
    BY DEF OriginInv
  <1>2. Current \in 0..Len(build.plan) /\ Len(build.plan) \in Nat
    BY LinkAssumption DEF Where, Typed
  <1>3. PICK p \in 0..Current : \E d \in Chunks(Part(build, p)) :
          FromChunk(dst.chunks[a], d) /\ SameName(dst.chunks[a], d)
    BY <1>1 DEF ChunkOrigin
  <1>4. PICK d \in Chunks(Part(build, p)) : FromChunk(dst.chunks[a], d) /\ SameName(dst.chunks[a], d)
    BY <1>3
  <1>5. d.name = dst.chunks[a].name
    BY <1>4 DEF SameName, Initialiser
  <1>. QED
    BY <1>2, <1>4, <1>5

\* What a member is called is the name of its function, which has code.
LEMMA MemberHasCode ==
  ASSUME SeparateBuilds, Typed, Where, Live, OriginInv, Compatible(build),
         NEW n \in 0..Len(build.plan), NEW from \in Classes(Part(build, n)), ~from.iface,
         NEW a \in 1..Len(dst.chunks), dst.chunks[a].name \in Members(from),
         ~Initialiser(dst.chunks[a].name)
  PROVE  HasCode(dst, a)
  <1>1. PICK p \in 0..Len(build.plan) : \E d \in Chunks(Part(build, p)) :
          FromChunk(dst.chunks[a], d) /\ d.name = dst.chunks[a].name
    BY FunctionOrigin
  <1>2. PICK d \in Chunks(Part(build, p)) :
          FromChunk(dst.chunks[a], d) /\ d.name = dst.chunks[a].name
    BY <1>1
  <1>3. d.body # ""
    <2>1. d.name \in Members(from)
      BY <1>2
    <2>2. \A e \in Chunks(Part(build, p)) : e.name \in Members(from) => e.body # ""
      BY BuildFacts, Zenon
    <2>. QED
      BY <2>1, <2>2, Zenon
  <1>4. dst.chunks[a].body = d.body
    BY <1>2 DEF FromChunk
  <1>. QED
    BY <1>3, <1>4, Zenon DEF HasCode

\* Methods and constructors have code, where there are any; an interface's need none.
LEMMA ClassResolved ==
  ASSUME SeparateBuilds, Typed, Where, Linked, OriginInv, MethodsByName, Compatible(build),
         NEW k \in 1..Len(dst.classes)
  PROVE  Resolved(dst, dst.classes[k])
  <1>. DEFINE class == dst.classes[k]
  <1>1. Live /\ dst \in Module /\ class \in ClassType /\ class \in Classes(dst)
    BY ModuleFacts DEF Linked, Live, Typed, Classes
  <1>2. /\ Len(dst.chunks) \in Nat /\ MembersIn(dst.chunks, class)
    BY <1>1, ModuleFacts, MembersAsMembersIn DEF MethodsByName, Typed
  <1>3. /\ class.methods \in Seq(Refs({"fn"})) /\ class.ctor \in Refs({"fn"})
        /\ class.ctor.index \in Nat
    BY <1>1 DEF ClassType, Refs
  <1>4. /\ class.ctor.index # 0 => NamedAt(dst.chunks, class.ctor)
        /\ \A j \in 1..Len(class.methods) :
             NamedAt(dst.chunks, class.methods[j]) \/ (class.iface /\ class.methods[j].index = 0)
    BY <1>2 DEF MembersIn
  <1>5. ClassOrigin(class, Current)
    BY <1>1 DEF OriginInv
  <1>6. Current \in 0..Len(build.plan) /\ Len(build.plan) \in Nat
    BY LinkAssumption DEF Where, Typed
  <1>. HIDE DEF class
  <1>7. PICK n \in 0..Current : \E from \in Classes(Part(build, n)) : FromClass(class, from)
    BY <1>5 DEF ClassOrigin
  <1>8. PICK from \in Classes(Part(build, n)) : FromClass(class, from)
    BY <1>7
  <1>9. n \in 0..Len(build.plan)
    BY <1>6
  <1>10. from \in ClassType
    <2>1. Part(build, n) \in Module
      BY <1>9, LinkAssumption DEF Part, Typed
    <2>. QED
      BY <2>1, ModuleFacts DEF Classes
  <1>11. \A name \in Fns(from.methods) \cup {from.ctor.name} : ~Initialiser(name)
    BY <1>9, BuildFacts
  <1>12. \A j \in 1..Len(class.methods) : /\ class.methods[j].name \in Members(from)
                                          /\ ~Initialiser(class.methods[j].name)
    <2>. SUFFICES ASSUME NEW j \in 1..Len(class.methods)
                  PROVE  class.methods[j].name \in Members(from) /\ ~Initialiser(class.methods[j].name)
      OBVIOUS
    <2>1. j \in 1..Len(from.methods) /\ class.methods[j].name = from.methods[j].name
      BY <1>8 DEF FromClass
    <2>2. from.methods[j].kind = "fn"
      <3>1. from.methods \in Seq(Refs({"fn"}))
        BY <1>10 DEF ClassType
      <3>2. from.methods[j] \in Refs({"fn"})
        BY <2>1, <3>1
      <3>. QED
        BY <3>2 DEF Refs
    <2>3. from.methods[j].name \in Fns(from.methods)
      BY <2>1, <2>2 DEF Fns
    <2>. QED
      BY <1>11, <2>1, <2>3 DEF Members
  <1>13. class.ctor.name \in Members(from) /\ ~Initialiser(class.ctor.name)
    BY <1>8, <1>11 DEF FromClass, Members
  <1>14. CASE class.iface
    BY <1>2, <1>3, <1>4, <1>14 DEF Resolved, NamedAt, class
  <1>15. CASE ~class.iface
    <2>1. ~from.iface
      BY <1>8, <1>15 DEF FromClass
    <2>2. \A a \in 1..Len(dst.chunks) :
            dst.chunks[a].name \in Members(from) /\ ~Initialiser(dst.chunks[a].name) => HasCode(dst, a)
      BY <1>1, <1>9, <2>1, MemberHasCode
    <2>3. class.ctor.index = 0 \/ HasCode(dst, class.ctor.index)
      BY <1>4, <1>13, <2>2 DEF NamedAt
    <2>4. \A j \in 1..Len(class.methods) : HasCode(dst, class.methods[j].index)
      BY <1>4, <1>12, <1>15, <2>2 DEF NamedAt
    <2>. QED
      BY <1>15, <2>3, <2>4, Zenon DEF Resolved, class
  <1>. QED
    BY <1>14, <1>15

\* A CALL finds a function with code and as many parameters, a static access its field.
LEMMA CodeFits ==
  ASSUME SeparateBuilds, Typed, Where, Linked, OriginInv, CallsByName, Compatible(build),
         NEW n \in 0..Len(build.plan), NEW d \in Chunks(Part(build, n)),
         NEW k \in 1..Len(dst.chunks), FromChunk(dst.chunks[k], d),
         NEW j \in 1..Len(dst.chunks[k].code)
  PROVE  Fitting(dst, dst.chunks[k].code[j])
  <1>. DEFINE r == dst.chunks[k].code[j]
              q == d.code[j]
  <1>1. Live /\ Right(dst, r)
    BY DEF Linked, Live, CallsByName, CodeByName, Chunks
  <1>2. j \in 1..Len(d.code) /\ r.kind = q.kind /\ r.name = q.name /\ r.needs = q.needs
    BY DEF FromChunk, SameRefs
  <1>3. /\ \A name \in Fns(d.code) : ~Initialiser(name)
        /\ \A p \in 0..Len(build.plan) : Agrees(d, Part(build, p))
    BY BuildFacts
  <1>. HIDE DEF r
  <1>4. CASE r.kind = "fn"
    <2>1. PICK a \in 1..Len(dst.chunks) : a = r.index /\ dst.chunks[a].name = r.name
      BY <1>1, <1>4 DEF Right
    <2>2. q.name \in Fns(d.code)
      BY <1>2, <1>4 DEF Fns
    <2>3. ~Initialiser(dst.chunks[a].name)
      BY <1>2, <1>3, <2>1, <2>2
    <2>4. PICK p \in 0..Len(build.plan) : \E e \in Chunks(Part(build, p)) :
            FromChunk(dst.chunks[a], e) /\ e.name = dst.chunks[a].name
      BY <1>1, <2>3, FunctionOrigin
    <2>5. PICK e \in Chunks(Part(build, p)) :
            FromChunk(dst.chunks[a], e) /\ e.name = dst.chunks[a].name
      BY <2>4
    <2>6. e.body # "" /\ e.params = q.needs
      <3>1. Agrees(d, Part(build, p))
        BY <1>3
      <3>2. \A f \in Chunks(Part(build, p)) : f.name = q.name => f.body # "" /\ f.params = q.needs
        BY <1>2, <1>4, <3>1, Zenon DEF Agrees
      <3>3. e.name = q.name
        BY <1>2, <2>1, <2>5
      <3>. QED
        BY <3>2, <3>3, Zenon
    <2>7. dst.chunks[a].body = e.body /\ dst.chunks[a].params = e.params
      BY <2>5 DEF FromChunk
    <2>8. dst.chunks[a].body # ""
      BY <2>6, <2>7, Zenon
    <2>9. HasCode(dst, r.index)
      BY <2>1, <2>8, Zenon DEF HasCode
    <2>10. dst.chunks[r.index].params = r.needs
      BY <1>2, <2>1, <2>6, <2>7
    <2>. QED
      BY <1>4, <2>9, <2>10, Zenon DEF Fitting, r
  <1>5. CASE r.kind # "fn"
    <2>1. PICK a \in 1..Len(dst.classes) : a = r.index /\ dst.classes[a].name = r.name
      BY <1>1, <1>5 DEF Right
    <2>2. ClassOrigin(dst.classes[a], Current) /\ Current \in 0..Len(build.plan) /\ Len(build.plan) \in Nat
      BY <1>1, LinkAssumption DEF OriginInv, Where, Typed
    <2>3. PICK p \in 0..Current : \E e \in Classes(Part(build, p)) : FromClass(dst.classes[a], e)
      BY <2>2 DEF ClassOrigin
    <2>4. PICK e \in Classes(Part(build, p)) : FromClass(dst.classes[a], e)
      BY <2>3
    <2>5. p \in 0..Len(build.plan)
      BY <2>2
    <2>6. q.needs <= e.fields
      <3>1. Agrees(d, Part(build, p))
        BY <1>3, <2>5
      <3>2. \A f \in Classes(Part(build, p)) : f.name = q.name => q.needs <= f.fields
        BY <1>2, <1>5, <3>1, Zenon DEF Agrees
      <3>3. e.name = q.name
        BY <1>2, <2>1, <2>4 DEF FromClass
      <3>. QED
        BY <3>2, <3>3
    <2>7. dst.classes[a].fields = e.fields
      BY <2>4 DEF FromClass
    <2>. QED
      BY <1>2, <1>5, <2>1, <2>6, <2>7 DEF Fitting, r
  <1>. QED
    BY <1>4, <1>5

\* NEW and CALL_STATIC find their class, with its methods if any module has them.
LEMMA UseFound ==
  ASSUME SeparateBuilds, Typed, Where, Linked, ClassNames, OriginInv, WholeInv, Compatible(build),
         NEW n \in 0..Len(build.plan), NEW c \in Chunks(Part(build, n)), NEW use \in c.named
  PROVE  FoundByName(dst, use)
  <1>1. /\ Live /\ Fits /\ ~Busy /\ Done = Len(build.plan) /\ Current = Len(build.plan)
        /\ Len(build.plan) \in Nat /\ Len(dst.classes) \in Nat
    BY LinkAssumption, ModuleFacts DEF Linked, Live, Busy, Done, Current, Typed
  <1>2. PICK p \in 0..Len(build.plan) : \E d \in Classes(Part(build, p)) :
          d.name = use.name /\ (use.slots = 0 \/ ~Hollow(d))
    BY BuildFacts
  <1>3. PICK d \in Classes(Part(build, p)) : d.name = use.name /\ (use.slots = 0 \/ ~Hollow(d))
    BY <1>2
  <1>4. PICK a \in 1..Len(dst.classes) : HasMethods(dst.classes[a], d)
    BY <1>1 DEF WholeInv, ClassesMerged
  <1>5. PICK at \in 0..Len(dst.classes) : at = Find(dst.classes, use.name)
    BY <1>1, FindFacts
  <1>6. at \in 1..Len(dst.classes) /\ dst.classes[at].name = use.name
    BY <1>1, <1>3, <1>4, <1>5, FindFacts DEF HasMethods
  <1>7. at = a
    BY <1>1, <1>3, <1>4, <1>6 DEF HasMethods, ClassNames, ClassesOnce
  <1>8. use.slots <= Len(dst.classes[at].methods)
    <2>1. ClassOrigin(dst.classes[at], Current)
      BY <1>1, <1>6 DEF OriginInv
    <2>2. PICK m \in 0..Current : \E e \in Classes(Part(build, m)) : FromClass(dst.classes[at], e)
      BY <2>1 DEF ClassOrigin
    <2>3. PICK e \in Classes(Part(build, m)) : FromClass(dst.classes[at], e)
      BY <2>2
    <2>4. m \in 0..Len(build.plan)
      BY <1>1
    <2>5. /\ Part(build, m) \in Module /\ e.name = use.name
          /\ Len(e.methods) = Len(dst.classes[at].methods)
      BY <1>6, <2>3, <2>4, LinkAssumption DEF Part, Typed, FromClass
    <2>6. e.methods \in Seq(Refs({"fn"})) /\ dst.classes[at].methods \in Seq(Refs({"fn"}))
      BY <1>6, <2>5, ModuleFacts DEF Classes, ClassType, Typed
    <2>7. CASE Hollow(dst.classes[at])
      <3>1. use.slots = 0
        BY <1>3, <1>4, <1>7, <2>7 DEF HasMethods
      <3>2. Len(dst.classes[at].methods) \in Nat
        BY <2>6
      <3>. QED
        BY <3>1, <3>2
    <2>8. CASE ~Hollow(dst.classes[at])
      <3>1. ~Hollow(e)
        BY <2>5, <2>6, <2>8 DEF Hollow
      <3>2. Agrees(c, Part(build, m))
        BY <2>4, BuildFacts
      <3>3. use.slots <= Len(e.methods)
        BY <2>5, <3>1, <3>2, Zenon DEF Agrees
      <3>. QED
        BY <2>5, <3>3
    <2>. QED
      BY <2>7, <2>8
  <1>. QED
    BY <1>5, <1>6, <1>8 DEF FoundByName

\* What the linker leaves is what the verifier asks for.
LEMMA LinkedIsVerified ==
  ASSUME SeparateBuilds, Typed, Where, ClassNames, Linked, CallsByName, MethodsByName, ParentInv,
         OriginInv, WholeInv, Compatible(build)
  PROVE  Verified(dst)
  <1>1. Live /\ Fits /\ dst \in Module /\ Len(dst.classes) \in Nat
    BY ModuleFacts DEF Linked, Live, Typed
  <1>2. ASSUME NEW k \in 1..Len(dst.classes) PROVE Descends(dst, k)
    <2>1. \A a \in 1..Len(dst.classes) : dst.classes[a].parent.index < a
      BY <1>1 DEF ParentInv, Stands
    <2>2. dst.classes[k].parent.index \in Nat
      BY <1>1, ModuleFacts DEF ClassType, Refs
    <2>3. dst.classes[k].parent.index \in 0..Len(dst.classes)
      <3>1. PICK l \in Nat : l = dst.classes[k].parent.index
        BY <2>2
      <3>2. l < k
        BY <2>1, <3>1
      <3>. QED
        BY <1>1, <3>1, <3>2
    <2>4. k \notin Ancestors(dst, k)
      BY <1>1, <2>1, AncestorsBelow
    <2>. QED
      BY <2>3, <2>4 DEF Descends
  <1>3. \A k \in 1..Len(dst.classes) : Resolved(dst, dst.classes[k])
    BY ClassResolved
  <1>4. ASSUME NEW k \in 1..Len(dst.chunks) PROVE Decodes(dst, dst.chunks[k])
    <2>1. ChunkOrigin(dst.chunks[k], Current) /\ Current \in 0..Len(build.plan) /\ Len(build.plan) \in Nat
      BY <1>1, LinkAssumption DEF OriginInv, Where, Typed
    <2>2. PICK n \in 0..Current : \E d \in Chunks(Part(build, n)) : FromChunk(dst.chunks[k], d)
      BY <2>1 DEF ChunkOrigin
    <2>3. PICK d \in Chunks(Part(build, n)) : FromChunk(dst.chunks[k], d)
      BY <2>2
    <2>4. n \in 0..Len(build.plan)
      BY <2>1
    <2>5. dst.chunks[k].fit
      BY <2>3, <2>4, BuildFacts DEF FromChunk
    <2>6. \A j \in 1..Len(dst.chunks[k].code) : Fitting(dst, dst.chunks[k].code[j])
      BY <2>3, <2>4, CodeFits
    <2>7. \A use \in dst.chunks[k].named : FoundByName(dst, use)
      BY <2>3, <2>4, UseFound DEF FromChunk
    <2>. QED
      BY <2>5, <2>6, <2>7, Zenon DEF Decodes
  <1>. QED
    BY <1>2, <1>3, <1>4, Zenon DEF Verified

\* A linked module is never refused by the verification after the merge: every method
\* and constructor has code, every CALL a callee of its arity, every static access its
\* field, NEW and CALL_STATIC their class and its methods, and no class is its own
\* ancestor, though a merge leaves parent indices as they were.
THEOREM LinkedIsAccepted ==
  ASSUME SeparateBuilds, WholeBuilds, ParentsAreFirst
  PROVE  Spec => []LinkIsAccepted
  <1>1. Init => LinkIsAccepted
    BY DEF Init, LinkIsAccepted
  <1>2. Typed /\ Where /\ ClassNames /\ CallsByName /\ MethodsByName /\ ParentInv /\ OriginInv
          /\ WholeInv /\ LinkIsAccepted /\ [Next]_vars => LinkIsAccepted'
    <2>. SUFFICES ASSUME Typed, Where, ClassNames, CallsByName, MethodsByName, ParentInv, OriginInv,
                         WholeInv, LinkIsAccepted, [Next]_vars, phase' = "refused"
                  PROVE  ~Fits' \/ ~Compatible(build)'
      BY DEF LinkIsAccepted
    <2>1. build' = build /\ (Seal \/ UNCHANGED vars)
      BY DEF Next, Merge, Begin, AddChunk, ChunksDone, AddClass, ClassesDone, RemapChunk,
             RemapDone, FixClass, Merged, MergeFails, Seal, Ends, Pass, vars
    <2>2. Fits' <=> Fits
      BY <2>1 DEF Fits, AllClasses
    <2>3. Compatible(build)' <=> Compatible(build)
      BY <2>1 DEF Compatible, Agrees, Part
    <2>4. CASE Seal
      <3>1. phase = "idle" /\ todo = <<>> /\ ~Verified(dst)
        BY <2>4 DEF Seal
      <3>. QED
        BY <2>2, <2>3, <3>1, LinkedIsVerified DEF Linked
    <2>5. CASE UNCHANGED vars
      BY <2>2, <2>3, <2>5 DEF vars, LinkIsAccepted
    <2>. QED
      BY <2>1, <2>4, <2>5
  <1>. QED
    BY <1>1, <1>2, AlwaysTyped, AlwaysWhere, AlwaysClasses, LinkedCodeIsRight,
       LinkedMembersAreRight, AlwaysStands, AlwaysOrigins, AlwaysWhole, PTL DEF Spec
=============================================================================
