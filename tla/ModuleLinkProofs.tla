-------------------------- MODULE ModuleLinkProofs --------------------------
(***************************************************************************)
(* For every build, in every order: module_merge stays within its tables,  *)
(* and where the modules are apart, what it links designates by index what *)
(* the compiler meant by name.                                             *)
(***************************************************************************)
EXTENDS ModuleLink, FiniteSetTheorems, TLAPS

Busy == phase \in {"chunks", "classes", "remap", "methods"}

(***************************************************************************)
(* The tables                                                              *)
(***************************************************************************)
Typed ==
    /\ build \in Builds /\ phase \in Phases /\ i \in Nat
    /\ dst \in Module /\ src \in Module /\ todo \in Seq(Module)
    /\ Len(dst.chunks) <= MaxFunctions /\ Len(dst.classes) <= MaxClasses
    /\ phase \in {"chunks", "remap"} => i \in 1..(Len(src.chunks) + 1)
    /\ phase \in {"classes", "methods"} => i \in 1..(Len(src.classes) + 1)
    /\ placed \in Seq(Nat) /\ (Busy => Len(placed) = Len(src.chunks))
    /\ \A k \in 1..Len(placed) : placed[k] <= Len(dst.chunks)

\* The parts of a module.
LEMMA ModuleFacts ==
  ASSUME NEW m \in Module
  PROVE  /\ m.chunks \in Seq(ChunkType) /\ m.classes \in Seq(ClassType) /\ m.sealed \in BOOLEAN
         /\ Len(m.chunks) \in Nat /\ Len(m.classes) \in Nat
         /\ \A k \in 1..Len(m.chunks) : m.chunks[k] \in ChunkType
         /\ \A k \in 1..Len(m.classes) : m.classes[k] \in ClassType
  BY DEF Module

LEMMA Singleton == ASSUME NEW S, NEW x \in S PROVE <<x>> \in Seq(S)
  OBVIOUS

\* __sinit__ and its numbers are names.
LEMMA SinitNames ==
  /\ Sinit \in Names /\ <<"">> \in Names
  /\ \A n \in Nat : Numbered(n) \in Names
  <1>1. Sinit \in Seq(Words) /\ <<"">> \in Seq(Words)
    <2>1. "" \in Words /\ "__sinit__" \in Words
      BY DEF Words
    <2>. QED
      BY <2>1, Singleton, Zenon DEF Sinit
  <1>2. \A n \in Nat : Numbered(n) \in Words \X Nat
    BY DEF Numbered, Words
  <1>. QED
    BY <1>1, <1>2 DEF Names

\* module_find finds an entry of that name wherever there is one.
LEMMA FindFacts ==
  ASSUME NEW table, Len(table) \in Nat, NEW name
  PROVE  /\ Find(table, name) \in 0..Len(table)
         /\ Find(table, name) # 0 => table[Find(table, name)].name = name
         /\ (\E k \in 1..Len(table) : table[k].name = name) => Find(table, name) # 0
  <1>. DEFINE First(k) == /\ k \in 1..Len(table) /\ table[k].name = name
                          /\ \A j \in 1..(k - 1) : table[j].name # name
              S == {k \in 1..Len(table) : table[k].name = name}
  <1>1. CASE S # {}
    <2>1. \E k : First(k)
      <3>. DEFINE R == OpToRel(<, Nat)
      <3>1. S \subseteq Nat
        OBVIOUS
      <3>2. IsWellFoundedOn(R, Nat) /\ \A j, k \in Nat : j < k => <<j, k>> \in R
        BY NatLessThanWellFounded DEF OpToRel
      <3>. HIDE DEF R
      <3>3. PICK k \in S : \A j \in S : ~(<<j, k>> \in R)
        <4>1. IsWellFoundedOn(R, Nat) /\ S \subseteq Nat /\ S # {}
          BY <1>1, <3>1, <3>2
        <4>. HIDE DEF S
        <4>. QED
          BY <4>1, WFMin, Zenon
      <3>4. \A j \in S : ~(j < k)
        BY <3>1, <3>2, <3>3
      <3>5. \A j \in 1..(k - 1) : j \in 1..Len(table) /\ j < k
        OBVIOUS
      <3>6. First(k)
        BY <3>4, <3>5
      <3>. QED
        BY <3>6
    <2>2. First(CHOOSE k : First(k))
      BY <2>1
    <2>. QED
      BY <1>1, <2>2 DEF Find
  <1>2. CASE S = {}
    BY <1>2 DEF Find
  <1>. QED
    BY <1>1, <1>2

\* A module with a chunk more, with another code in one of its chunks, or with
\* another class table is a module.
LEMMA AddedChunk ==
  ASSUME NEW m \in Module, NEW c \in ChunkType,
         NEW n, n = [m EXCEPT !.chunks = Append(@, c)]
  PROVE  /\ n \in Module /\ n.classes = m.classes /\ n.sealed = m.sealed
         /\ Len(n.chunks) = Len(m.chunks) + 1
         /\ n.chunks[Len(m.chunks) + 1] = c
         /\ \A k \in 1..Len(m.chunks) : n.chunks[k] = m.chunks[k]
  <1>1. n = [chunks |-> n.chunks, classes |-> n.classes, sealed |-> n.sealed]
    BY DEF Module
  <1>2. n.chunks = Append(m.chunks, c) /\ n.classes = m.classes /\ n.sealed = m.sealed
    BY DEF Module
  <1>3. /\ m.chunks \in Seq(ChunkType) /\ m.classes \in Seq(ClassType) /\ m.sealed \in BOOLEAN
        /\ Len(m.chunks) \in Nat
    BY ModuleFacts
  <1>4. n.chunks \in Seq(ChunkType)
    BY <1>2, <1>3
  <1>5. n \in Module
    BY <1>1, <1>2, <1>3, <1>4 DEF Module
  <1>. QED
    BY <1>2, <1>3, <1>5

LEMMA ChangedChunk ==
  ASSUME NEW m \in Module, NEW a \in 1..Len(m.chunks), NEW c \in ChunkType,
         NEW n, n = [m EXCEPT !.chunks[a] = c]
  PROVE  /\ n \in Module /\ n.classes = m.classes /\ n.sealed = m.sealed
         /\ Len(n.chunks) = Len(m.chunks)
         /\ n.chunks[a] = c
         /\ \A k \in 1..Len(m.chunks) : k # a => n.chunks[k] = m.chunks[k]
  <1>1. n = [chunks |-> n.chunks, classes |-> n.classes, sealed |-> n.sealed]
    BY DEF Module
  <1>2. n.chunks = [m.chunks EXCEPT ![a] = c] /\ n.classes = m.classes /\ n.sealed = m.sealed
    BY DEF Module
  <1>3. /\ m.chunks \in Seq(ChunkType) /\ m.classes \in Seq(ClassType) /\ m.sealed \in BOOLEAN
        /\ Len(m.chunks) \in Nat
    BY ModuleFacts
  <1>4. n.chunks \in Seq(ChunkType)
    BY <1>2, <1>3
  <1>5. n \in Module
    BY <1>1, <1>2, <1>3, <1>4 DEF Module
  <1>. QED
    BY <1>2, <1>3, <1>5

LEMMA AddedClass ==
  ASSUME NEW m \in Module, NEW c \in ClassType,
         NEW n, n = [m EXCEPT !.classes = Append(@, c)]
  PROVE  /\ n \in Module /\ n.chunks = m.chunks /\ n.sealed = m.sealed
         /\ Len(n.classes) = Len(m.classes) + 1
         /\ n.classes[Len(m.classes) + 1] = c
         /\ \A k \in 1..Len(m.classes) : n.classes[k] = m.classes[k]
  <1>1. n = [chunks |-> n.chunks, classes |-> n.classes, sealed |-> n.sealed]
    BY DEF Module
  <1>2. n.classes = Append(m.classes, c) /\ n.chunks = m.chunks /\ n.sealed = m.sealed
    BY DEF Module
  <1>3. /\ m.classes \in Seq(ClassType) /\ m.chunks \in Seq(ChunkType) /\ m.sealed \in BOOLEAN
        /\ Len(m.classes) \in Nat
    BY ModuleFacts
  <1>4. n.classes \in Seq(ClassType)
    BY <1>2, <1>3
  <1>5. n \in Module
    BY <1>1, <1>2, <1>3, <1>4 DEF Module
  <1>. QED
    BY <1>2, <1>3, <1>5

LEMMA ChangedClass ==
  ASSUME NEW m \in Module, NEW a \in 1..Len(m.classes), NEW c \in ClassType,
         NEW n, n = [m EXCEPT !.classes[a] = c]
  PROVE  /\ n \in Module /\ n.chunks = m.chunks /\ n.sealed = m.sealed
         /\ Len(n.classes) = Len(m.classes)
         /\ n.classes[a] = c
         /\ \A k \in 1..Len(m.classes) : k # a => n.classes[k] = m.classes[k]
  <1>1. n = [chunks |-> n.chunks, classes |-> n.classes, sealed |-> n.sealed]
    BY DEF Module
  <1>2. n.classes = [m.classes EXCEPT ![a] = c] /\ n.chunks = m.chunks /\ n.sealed = m.sealed
    BY DEF Module
  <1>3. /\ m.classes \in Seq(ClassType) /\ m.chunks \in Seq(ChunkType) /\ m.sealed \in BOOLEAN
        /\ Len(m.classes) \in Nat
    BY ModuleFacts
  <1>4. n.classes \in Seq(ClassType)
    BY <1>2, <1>3
  <1>5. n \in Module
    BY <1>1, <1>2, <1>3, <1>4 DEF Module
  <1>. QED
    BY <1>2, <1>3, <1>5

\* What AddClass makes of dst: nothing, one class replaced, or one more.
LEMMA WithClassFacts ==
  ASSUME dst \in Module, NEW class \in ClassType
  PROVE  LET at == Find(dst.classes, class.name)
             n  == WithClass(class) IN
         \/ n = dst /\ (at # 0 \/ ~ClassRoom)
         \/ /\ at \in 1..Len(dst.classes) /\ Fills(class, at)
            /\ n = [dst EXCEPT !.classes[at] = class]
         \/ at = 0 /\ ClassRoom /\ n = [dst EXCEPT !.classes = Append(@, class)]
  BY ModuleFacts, FindFacts DEF WithClass

LEMMA WithClassTyped ==
  ASSUME dst \in Module, NEW class \in ClassType, Len(dst.classes) <= MaxClasses
  PROVE  /\ WithClass(class) \in Module /\ WithClass(class).chunks = dst.chunks
         /\ WithClass(class).sealed = dst.sealed
         /\ Len(WithClass(class).classes) <= MaxClasses
         /\ Len(WithClass(class).classes) >= Len(dst.classes)
  <1>. DEFINE at == Find(dst.classes, class.name)
              n  == WithClass(class)
  <1>1. Len(dst.classes) \in Nat /\ MaxClasses \in Nat
    BY ModuleFacts, LinkAssumption
  <1>2. CASE n = dst
    BY <1>1, <1>2
  <1>3. CASE at \in 1..Len(dst.classes) /\ n = [dst EXCEPT !.classes[at] = class]
    <2>. HIDE DEF n
    <2>1. /\ n \in Module /\ n.chunks = dst.chunks /\ n.sealed = dst.sealed
          /\ Len(n.classes) <= MaxClasses /\ Len(n.classes) >= Len(dst.classes)
      BY <1>1, <1>3, ChangedClass
    <2>. QED
      BY <2>1 DEF n
  <1>4. CASE ClassRoom /\ n = [dst EXCEPT !.classes = Append(@, class)]
    <2>. HIDE DEF n
    <2>1. /\ n \in Module /\ n.chunks = dst.chunks /\ n.sealed = dst.sealed
          /\ Len(n.classes) <= MaxClasses /\ Len(n.classes) >= Len(dst.classes)
      BY <1>1, <1>4, AddedClass DEF ClassRoom
    <2>. QED
      BY <2>1 DEF n
  <1>. QED
    BY <1>2, <1>3, <1>4, WithClassFacts

\* References keep their kind and their name, and a place in a table is a number.
LEMMA RemappedTyped ==
  ASSUME Typed, Len(placed) = Len(src.chunks), NEW kinds, NEW r \in Refs(kinds)
  PROVE  /\ Remapped(r) \in Refs(kinds)
         /\ Remapped(r).kind = r.kind /\ Remapped(r).name = r.name /\ Remapped(r).needs = r.needs
  <1>1. /\ \A k \in 1..Len(src.chunks) : FnRemap(k) \in Nat
        /\ \A k \in 1..Len(src.classes) : ClassRemap(k) \in Nat
    BY ModuleFacts, FindFacts DEF Typed, FnRemap, ClassRemap
  <1>. QED
    BY <1>1 DEF Remapped, Refs

LEMMA RenamedTyped ==
  ASSUME Typed, NEW old \in Refs({"fn"}), NEW new \in Refs({"fn"})
  PROVE  Renamed(old, new) \in Refs({"fn"}) /\ Renamed(old, new).name = old.name
  <1>1. \A name : Find(dst.chunks, name) \in Nat
    BY ModuleFacts, FindFacts DEF Typed
  <1>. QED
    BY <1>1 DEF Renamed, Refs

LEMMA RemapCodeTyped ==
  ASSUME Typed, Len(placed) = Len(src.chunks), NEW c \in ChunkType
  PROVE  /\ RemapCode(c) \in ChunkType
         /\ RemapCode(c).name = c.name /\ RemapCode(c).body = c.body
         /\ RemapCode(c).params = c.params /\ RemapCode(c).named = c.named /\ RemapCode(c).fit = c.fit
         /\ Len(RemapCode(c).code) = Len(c.code)
         /\ \A j \in 1..Len(c.code) : RemapCode(c).code[j] = Remapped(c.code[j])
  <1>. DEFINE code == [j \in 1..Len(c.code) |-> Remapped(c.code[j])]
  <1>1. /\ c.code \in Seq(Refs({"fn", "class"})) /\ Len(c.code) \in Nat
        /\ \A j \in 1..Len(c.code) : c.code[j] \in Refs({"fn", "class"})
    BY DEF ChunkType
  <1>2. \A j \in 1..Len(c.code) : Remapped(c.code[j]) \in Refs({"fn", "class"})
    BY <1>1, RemappedTyped
  <1>3. code \in Seq(Refs({"fn", "class"})) /\ Len(code) = Len(c.code)
    BY <1>1, <1>2
  <1>4. RemapCode(c) = [c EXCEPT !.code = code]
    BY DEF RemapCode
  <1>. HIDE DEF code
  <1>5. RemapCode(c) \in ChunkType /\ RemapCode(c).code = code
        /\ RemapCode(c).name = c.name /\ RemapCode(c).body = c.body
        /\ RemapCode(c).params = c.params /\ RemapCode(c).named = c.named /\ RemapCode(c).fit = c.fit
    BY <1>3, <1>4 DEF ChunkType
  <1>. QED
    BY <1>3, <1>5 DEF code

LEMMA FixedTyped ==
  ASSUME Typed, NEW class \in ClassType, NEW from \in ClassType
  PROVE  /\ Fixed(class, from) \in ClassType
         /\ Fixed(class, from).name = class.name /\ Fixed(class, from).parent = class.parent
         /\ Fixed(class, from).fields = class.fields /\ Fixed(class, from).iface = class.iface
         /\ Len(Fixed(class, from).methods) = Len(class.methods)
         /\ \A j \in 1..Len(class.methods) :
              Fixed(class, from).methods[j] =
                IF j <= Len(from.methods) THEN Renamed(class.methods[j], from.methods[j])
                ELSE class.methods[j]
         /\ Fixed(class, from).ctor = Renamed(class.ctor, from.ctor)
  <1>. DEFINE methods == [j \in 1..Len(class.methods) |->
                            IF j <= Len(from.methods) THEN Renamed(class.methods[j], from.methods[j])
                            ELSE class.methods[j]]
              ctor == Renamed(class.ctor, from.ctor)
  <1>1. /\ class.methods \in Seq(Refs({"fn"})) /\ from.methods \in Seq(Refs({"fn"}))
        /\ class.ctor \in Refs({"fn"}) /\ from.ctor \in Refs({"fn"})
        /\ Len(class.methods) \in Nat /\ Len(from.methods) \in Nat
    BY DEF ClassType
  <1>2. /\ \A j \in 1..Len(class.methods) : class.methods[j] \in Refs({"fn"})
        /\ \A j \in 1..Len(class.methods) :
             j <= Len(from.methods) => from.methods[j] \in Refs({"fn"})
    BY <1>1
  <1>3. ctor \in Refs({"fn"})
    BY <1>1, RenamedTyped
  <1>4. \A j \in 1..Len(class.methods) : methods[j] \in Refs({"fn"})
    BY <1>2, RenamedTyped
  <1>5. methods \in Seq(Refs({"fn"})) /\ Len(methods) = Len(class.methods)
    <2>1. methods \in [1..Len(class.methods) -> Refs({"fn"})]
      BY <1>4
    <2>. HIDE DEF methods
    <2>. QED
      BY <1>1, <2>1
  <1>6. Fixed(class, from) = [class EXCEPT !.methods = methods, !.ctor = ctor]
    BY DEF Fixed
  <1>7. /\ Fixed(class, from) \in ClassType
        /\ Fixed(class, from).methods = methods /\ Fixed(class, from).ctor = ctor
        /\ Fixed(class, from).name = class.name /\ Fixed(class, from).parent = class.parent
        /\ Fixed(class, from).fields = class.fields /\ Fixed(class, from).iface = class.iface
    <2>. HIDE DEF methods, ctor
    <2>. QED
      BY <1>3, <1>5, <1>6 DEF ClassType
  <1>. QED
    BY <1>5, <1>7

\* A build starts with a module within the limits and nothing merged.
LEMMA InitTyped == Init => Typed
  <1>. SUFFICES ASSUME Init PROVE Typed
    OBVIOUS
  <1>1. /\ build \in Builds /\ build.start \in Module /\ build.plan \in Seq(Module)
        /\ Len(build.start.chunks) <= MaxFunctions /\ Len(build.start.classes) <= MaxClasses
    BY LinkAssumption DEF Init
  <1>2. NewModule \in Module /\ <<>> \in Seq(Nat) /\ Len(<<>>) = 0
    BY DEF NewModule, Module
  <1>. QED
    BY <1>1, <1>2 DEF Init, Typed, Phases, Busy

\* Every loop of module_merge keeps to its table, and every chunk and class is added
\* where there is room.
LEMMA NextTyped == Typed /\ [Next]_vars => Typed'
  <1>. SUFFICES ASSUME Typed, [Next]_vars PROVE Typed'
    OBVIOUS
  <1>1. /\ build \in Builds /\ phase \in Phases /\ i \in Nat
        /\ dst \in Module /\ src \in Module /\ todo \in Seq(Module) /\ placed \in Seq(Nat)
        /\ Len(dst.chunks) <= MaxFunctions /\ Len(dst.classes) <= MaxClasses
        /\ Busy => Len(placed) = Len(src.chunks)
        /\ \A k \in 1..Len(placed) : placed[k] \in Nat /\ placed[k] <= Len(dst.chunks)
        /\ Len(src.chunks) \in Nat /\ Len(src.classes) \in Nat
        /\ Len(dst.chunks) \in Nat /\ Len(dst.classes) \in Nat
        /\ MaxFunctions \in Nat /\ MaxClasses \in Nat
    BY ModuleFacts, LinkAssumption DEF Typed
  <1>2. /\ phase \in {"chunks", "remap"} => i \in 1..(Len(src.chunks) + 1)
        /\ phase \in {"classes", "methods"} => i \in 1..(Len(src.classes) + 1)
    BY DEF Typed
  <1>3. CASE Begin
    <2>1. /\ phase = "idle" /\ todo # <<>> /\ src' = Head(todo) /\ todo' = Tail(todo)
          /\ placed' = [k \in 1..Len(src'.chunks) |-> 0]
          /\ \/ phase' = "stopped" /\ i' = 0
             \/ phase' = "chunks" /\ i' = 1
          /\ UNCHANGED <<build, dst>>
      BY <1>3 DEF Begin, Pass
    <2>2. src' \in Module /\ todo' \in Seq(Module)
      BY <1>1, <2>1
    <2>3. Len(src'.chunks) \in Nat
      BY <2>2, ModuleFacts
    <2>4. placed' \in Seq(Nat) /\ Len(placed') = Len(src'.chunks)
          /\ \A k \in 1..Len(placed') : placed'[k] = 0
      BY <2>1, <2>3
    <2>. QED
      BY <1>1, <2>1, <2>2, <2>3, <2>4 DEF Typed, Phases, Busy
  <1>4. CASE AddChunk
    <2>. DEFINE c == src.chunks[i]
    <2>1. /\ phase = "chunks" /\ i <= Len(src.chunks) /\ i' = i + 1
          /\ UNCHANGED <<build, src, todo, phase>>
          /\ \/ UNCHANGED <<dst, placed>>
             \/ /\ Len(dst.chunks) < MaxFunctions
                /\ dst' = [dst EXCEPT !.chunks = Append(@, [c EXCEPT !.name = NewName(c)])]
                /\ \/ placed' = [placed EXCEPT ![i] = Len(dst.chunks) + 1]
                   \/ placed' = placed
      BY <1>4 DEF AddChunk
    <2>2. i \in 1..Len(src.chunks) /\ c \in ChunkType /\ Len(placed) = Len(src.chunks)
      BY <1>1, <1>2, <2>1, ModuleFacts DEF Busy
    <2>3. [c EXCEPT !.name = NewName(c)] \in ChunkType
      <3>1. NewName(c) \in Names
        BY <1>1, <2>2, SinitNames DEF NewName, ChunkType
      <3>. QED
        BY <2>2, <3>1 DEF ChunkType
    <2>. HIDE DEF c
    <2>4. /\ dst' \in Module /\ Len(dst'.classes) = Len(dst.classes)
          /\ Len(dst'.chunks) <= MaxFunctions /\ Len(dst.chunks) <= Len(dst'.chunks)
          /\ \/ placed' = placed
             \/ /\ placed' = [placed EXCEPT ![i] = Len(dst.chunks) + 1]
                /\ Len(dst'.chunks) = Len(dst.chunks) + 1
      <3>1. CASE UNCHANGED <<dst, placed>>
        BY <1>1, <3>1
      <3>2. CASE ~UNCHANGED <<dst, placed>>
        BY <1>1, <2>1, <2>3, <3>2, AddedChunk
      <3>. QED
        BY <3>1, <3>2
    <2>5. /\ placed' \in Seq(Nat) /\ Len(placed') = Len(placed)
          /\ \A k \in 1..Len(placed') : placed'[k] <= Len(dst'.chunks)
      <3>1. Len(dst'.chunks) \in Nat
        BY <2>4, ModuleFacts
      <3>2. CASE placed' = placed
        BY <1>1, <2>4, <3>1, <3>2
      <3>3. CASE /\ placed' = [placed EXCEPT ![i] = Len(dst.chunks) + 1]
                 /\ Len(dst'.chunks) = Len(dst.chunks) + 1
        <4>1. placed' \in Seq(Nat) /\ Len(placed') = Len(placed)
          BY <1>1, <2>2, <3>3
        <4>2. \A k \in 1..Len(placed) :
                placed'[k] = IF k = i THEN Len(dst.chunks) + 1 ELSE placed[k]
          BY <1>1, <2>2, <3>3
        <4>. QED
          BY <1>1, <3>3, <4>1, <4>2
      <3>. QED
        BY <2>4, <3>2, <3>3
    <2>6. i' \in Nat /\ i' \in 1..(Len(src.chunks) + 1)
      BY <1>1, <2>1, <2>2
    <2>. QED
      BY <1>1, <2>1, <2>2, <2>4, <2>5, <2>6 DEF Typed, Busy
  <1>5. CASE AddClass
    <2>1. /\ phase = "classes" /\ i <= Len(src.classes) /\ i' = i + 1
          /\ dst' = WithClass(src.classes[i]) /\ UNCHANGED <<build, src, todo, phase, placed>>
      BY <1>5 DEF AddClass
    <2>2. src.classes[i] \in ClassType
      BY <1>1, <1>2, <2>1, ModuleFacts
    <2>3. dst' \in Module /\ dst'.chunks = dst.chunks /\ Len(dst'.classes) <= MaxClasses
      BY <1>1, <2>1, <2>2, WithClassTyped
    <2>. QED
      BY <1>1, <1>2, <2>1, <2>3 DEF Typed, Busy
  <1>6. CASE RemapChunk
    <2>1. /\ phase = "remap" /\ i <= Len(src.chunks) /\ i' = i + 1
          /\ UNCHANGED <<build, src, todo, phase, placed>>
          /\ \/ dst' = dst
             \/ /\ FnRemap(i) # 0
                /\ dst' = [dst EXCEPT !.chunks[FnRemap(i)] = RemapCode(@)]
      BY <1>6 DEF RemapChunk
    <2>2. dst' \in Module /\ Len(dst'.chunks) = Len(dst.chunks) /\ dst'.classes = dst.classes
      <3>1. CASE dst' = dst
        BY <1>1, <3>1
      <3>2. CASE dst' # dst
        <4>1. FnRemap(i) \in 1..Len(dst.chunks)
          BY <1>1, <1>2, <2>1, <3>2, FindFacts DEF FnRemap, Busy
        <4>2. RemapCode(dst.chunks[FnRemap(i)]) \in ChunkType
          BY <1>1, <2>1, <4>1, ModuleFacts, RemapCodeTyped DEF Busy
        <4>3. dst' = [dst EXCEPT !.chunks[FnRemap(i)] = RemapCode(dst.chunks[FnRemap(i)])]
          BY <2>1, <3>2
        <4>. QED
          BY <1>1, <4>1, <4>2, <4>3, ChangedChunk
      <3>. QED
        BY <3>1, <3>2
    <2>. QED
      BY <1>1, <1>2, <2>1, <2>2 DEF Typed, Busy
  <1>7. CASE FixClass
    <2>. DEFINE at == Find(dst.classes, src.classes[i].name)
    <2>1. /\ phase = "methods" /\ i <= Len(src.classes) /\ i' = i + 1
          /\ UNCHANGED <<build, src, todo, phase, placed>>
          /\ dst' = IF at = 0 THEN dst
                    ELSE [dst EXCEPT !.classes[at] = Fixed(dst.classes[at], src.classes[i])]
      BY <1>7 DEF FixClass
    <2>2. src.classes[i] \in ClassType /\ at \in 0..Len(dst.classes)
      BY <1>1, <1>2, <2>1, ModuleFacts, FindFacts
    <2>. HIDE DEF at
    <2>3. dst' \in Module /\ Len(dst'.classes) = Len(dst.classes) /\ dst'.chunks = dst.chunks
      <3>1. CASE at = 0
        BY <1>1, <2>1, <3>1
      <3>2. CASE at # 0
        <4>1. at \in 1..Len(dst.classes) /\ dst.classes[at] \in ClassType
          BY <1>1, <2>2, <3>2, ModuleFacts
        <4>2. Fixed(dst.classes[at], src.classes[i]) \in ClassType
          BY <2>2, <4>1, FixedTyped
        <4>3. dst' = [dst EXCEPT !.classes[at] = Fixed(dst.classes[at], src.classes[i])]
          BY <2>1, <3>2
        <4>. QED
          BY <1>1, <4>1, <4>2, <4>3, ChangedClass
      <3>. QED
        BY <3>1, <3>2
    <2>. QED
      BY <1>1, <1>2, <2>1, <2>3 DEF Typed, Busy
  <1>8. CASE MergeFails
    <2>1. /\ phase' = "stopped" /\ i' = 0 /\ UNCHANGED <<build, src, todo, placed>>
          /\ \/ dst' = dst
             \/ /\ phase = "chunks" /\ i <= Len(src.chunks) /\ Len(dst.chunks) < MaxFunctions
                /\ dst' = [dst EXCEPT !.chunks = Append(@, Unnamed(src.chunks[i]))]
             \/ phase = "classes" /\ i <= Len(src.classes) /\ dst' = WithClass(src.classes[i])
      BY <1>8 DEF MergeFails
    <2>2. /\ dst' \in Module /\ Len(dst'.classes) <= MaxClasses
          /\ Len(dst'.chunks) <= MaxFunctions /\ Len(dst.chunks) <= Len(dst'.chunks)
      <3>1. CASE dst' = dst
        BY <1>1, <3>1
      <3>2. CASE /\ phase = "chunks" /\ i <= Len(src.chunks) /\ Len(dst.chunks) < MaxFunctions
                 /\ dst' = [dst EXCEPT !.chunks = Append(@, Unnamed(src.chunks[i]))]
        <4>1. src.chunks[i] \in ChunkType
          BY <1>1, <1>2, <3>2, ModuleFacts
        <4>2. "" \in Words /\ <<>> \in Seq(Refs({"fn", "class"}))
          BY DEF Words
        <4>3. Unnamed(src.chunks[i]) \in ChunkType
          BY <4>1, <4>2, SinitNames DEF Unnamed, ChunkType
        <4>4. /\ dst' \in Module /\ dst'.classes = dst.classes
              /\ Len(dst'.chunks) = Len(dst.chunks) + 1
          <5>. DEFINE c == Unnamed(src.chunks[i])
          <5>1. c \in ChunkType /\ dst' = [dst EXCEPT !.chunks = Append(@, c)] /\ dst \in Module
            BY <1>1, <3>2, <4>3
          <5>. HIDE DEF c
          <5>. QED
            BY <5>1, AddedChunk
        <4>. QED
          BY <1>1, <3>2, <4>4
      <3>3. CASE phase = "classes" /\ i <= Len(src.classes) /\ dst' = WithClass(src.classes[i])
        <4>1. src.classes[i] \in ClassType
          BY <1>1, <1>2, <3>3, ModuleFacts
        <4>. QED
          BY <1>1, <3>3, <4>1, WithClassTyped
      <3>. QED
        BY <2>1, <3>1, <3>2, <3>3
    <2>3. Len(dst'.chunks) \in Nat
      BY <2>2, ModuleFacts
    <2>4. \A k \in 1..Len(placed') : placed'[k] <= Len(dst'.chunks)
      BY <1>1, <2>1, <2>2, <2>3
    <2>. QED
      BY <1>1, <2>1, <2>2, <2>4 DEF Typed, Busy, Phases
  <1>9. CASE ChunksDone \/ ClassesDone \/ RemapDone \/ Merged
    <2>1. /\ UNCHANGED <<build, dst, src, todo, placed>>
          /\ \/ phase' = "classes" /\ i' = 1 /\ Busy
             \/ phase' = "remap" /\ i' = 1 /\ Busy
             \/ phase' = "methods" /\ i' = 1 /\ Busy
             \/ phase' = "idle" /\ i' = 0
      BY <1>9 DEF ChunksDone, ClassesDone, RemapDone, Merged, Ends, Pass, Busy
    <2>. QED
      BY <1>1, <2>1 DEF Typed, Busy, Phases
  <1>10. CASE Seal
    <2>1. /\ UNCHANGED <<build, src, todo, i, placed>> /\ phase = "idle"
          /\ phase' \in {"idle", "refused"}
          /\ dst' = dst \/ dst' = [dst EXCEPT !.sealed = TRUE]
      BY <1>10 DEF Seal
    <2>2. dst' \in Module /\ dst'.chunks = dst.chunks /\ dst'.classes = dst.classes
      BY <1>1, <2>1 DEF Module
    <2>. QED
      BY <1>1, <2>1, <2>2 DEF Typed, Busy, Phases
  <1>11. CASE UNCHANGED vars
    BY <1>11 DEF vars, Typed, Busy
  <1>. QED
    BY <1>3, <1>4, <1>5, <1>6, <1>7, <1>8, <1>9, <1>10, <1>11 DEF Next, Merge

LEMMA AlwaysTyped == Spec => []Typed
  BY InitTyped, NextTyped, PTL DEF Spec

\* Whatever is linked, in whatever order, and wherever a merge fails: the tables stay
\* within MODULE_MAX_FUNCTIONS and MODULE_MAX_CLASSES, and the loops of module_merge
\* and sinit_dst within the tables.
THEOREM TablesWithinLimits == Spec => []TypeOK
  <1>1. Typed => TypeOK
    <2>. SUFFICES ASSUME Typed PROVE TypeOK
      OBVIOUS
    <2>1. /\ dst.sealed \in BOOLEAN /\ Len(dst.chunks) \in Nat
          /\ \A k \in DOMAIN placed : placed[k] \in 0..Len(dst.chunks)
      BY ModuleFacts DEF Typed
    <2>. QED
      BY <2>1 DEF Typed, TypeOK
  <1>. QED
    BY <1>1, AlwaysTyped, PTL

(***************************************************************************)
(* The plan.  Part(build, Current) is the module being merged, or the last *)
(* that was; those up to Done have been merged completely.                 *)
(***************************************************************************)
SeparateBuilds == \A b \in Builds : Separate(b)

Live == Busy \/ phase = "idle"

Current == Len(build.plan) - Len(todo)
Done == IF Busy THEN Current - 1 ELSE Current

Where ==
    /\ Current \in 0..Len(build.plan)
    /\ \A j \in 1..Len(todo) : todo[j] = build.plan[Current + j]
    /\ Busy => Current >= 1 /\ src = build.plan[Current]

LEMMA AlwaysWhere == Spec => []Where
  <1>1. Typed /\ Init => Where
    <2>. SUFFICES ASSUME Typed, Init PROVE Where
      OBVIOUS
    <2>1. build \in Builds /\ build.plan \in Seq(Module) /\ Len(build.plan) \in Nat
      BY LinkAssumption DEF Typed
    <2>2. todo = build.plan /\ phase = "idle"
      BY DEF Init
    <2>3. Current = 0
      BY <2>1, <2>2 DEF Current
    <2>. QED
      BY <2>1, <2>2, <2>3 DEF Where, Busy
  <1>2. Typed /\ Where /\ [Next]_vars => Where'
    <2>. SUFFICES ASSUME Typed, Where, [Next]_vars PROVE Where'
      OBVIOUS
    <2>1. /\ build \in Builds /\ build.plan \in Seq(Module) /\ Len(build.plan) \in Nat
          /\ todo \in Seq(Module) /\ Len(todo) \in Nat
      BY LinkAssumption DEF Typed
    <2>2. CASE Begin
      <3>1. /\ todo # <<>> /\ src' = Head(todo) /\ todo' = Tail(todo) /\ build' = build
        BY <2>2 DEF Begin
      <3>2. /\ Len(todo) >= 1 /\ Len(todo') = Len(todo) - 1 /\ src' = todo[1]
            /\ \A j \in 1..Len(todo') : todo'[j] = todo[j + 1]
        BY <2>1, <3>1
      <3>3. Current' = Current + 1 /\ Current \in Int
        BY <2>1, <3>1, <3>2 DEF Current
      <3>4. Current' \in 0..Len(build.plan)
        BY <2>1, <3>2, <3>3 DEF Where, Current
      <3>5. \A j \in 1..Len(todo') : todo'[j] = build.plan[Current' + j]
        <4>. SUFFICES ASSUME NEW j \in 1..Len(todo') PROVE todo'[j] = build.plan[Current' + j]
          OBVIOUS
        <4>1. j + 1 \in 1..Len(todo) /\ Current' + j = Current + (j + 1)
          BY <2>1, <3>2, <3>3
        <4>. QED
          BY <3>2, <4>1 DEF Where
      <3>6. src' = build.plan[Current']
        BY <2>1, <3>2, <3>3 DEF Where
      <3>. QED
        BY <3>1, <3>3, <3>4, <3>5, <3>6 DEF Where
    <2>3. CASE ~Begin
      <3>1. /\ build' = build /\ todo' = todo /\ src' = src
            /\ Busy' => Busy
        BY <2>3 DEF Next, Merge, AddChunk, ChunksDone, AddClass, ClassesDone, RemapChunk,
             RemapDone, FixClass, Merged, MergeFails, Seal, Ends, Pass, vars, Busy
      <3>. QED
        BY <3>1 DEF Where, Current
    <2>. QED
      BY <2>2, <2>3
  <1>. QED
    BY <1>1, <1>2, AlwaysTyped, PTL DEF Spec

\* What Separate says of the module being merged and of those before it.
LEMMA PartFacts ==
  ASSUME SeparateBuilds, Typed, Where, Busy
  PROVE  /\ src = Part(build, Current) /\ src \in Module /\ Sound(src)
         /\ Current \in 1..Len(build.plan) /\ Done = Current - 1
         /\ \A n \in 0..Done : Part(build, n) \in Module /\ Apart(Part(build, n), src)
                               /\ Apart(src, Part(build, n)) /\ Sound(Part(build, n))
  <1>1. /\ build \in Builds /\ build.start \in Module /\ build.plan \in Seq(Module)
        /\ Len(build.plan) \in Nat /\ Separate(build)
    BY LinkAssumption DEF Typed, SeparateBuilds
  <1>2. Current \in 1..Len(build.plan) /\ Done = Current - 1 /\ src = build.plan[Current]
    BY <1>1 DEF Where, Done
  <1>3. src = Part(build, Current) /\ Current # 0 /\ Current \in 0..Len(build.plan)
    BY <1>1, <1>2 DEF Part
  <1>4. \A n \in 0..Len(build.plan) : Part(build, n) \in Module
    BY <1>1 DEF Part
  <1>5. \A n \in 0..Done : n \in 0..Len(build.plan) /\ n # Current
    BY <1>1, <1>2
  <1>. QED
    BY <1>1, <1>2, <1>3, <1>4, <1>5 DEF Separate

(***************************************************************************)
(* The names of the functions                                              *)
(***************************************************************************)
PlacedChunks == {k \in 1..Len(src.chunks) : Busy /\ (phase = "chunks" => k < i)}

NamesOnce(table) ==
    \A a, b \in 1..Len(table) : table[a].name = table[b].name /\ table[a].name # Sinit => a = b

\* the place a of a chunk of src of that name, where place is its entry of sinit_dst
NamedIn(table, name, place, a) ==
    /\ a \in 1..Len(table)
    /\ name = Sinit => place = a /\ table[a].name = Numbered(a - 1)
    /\ name # Sinit => place = 0 /\ table[a].name = name

Named(k, a) == NamedIn(dst.chunks, src.chunks[k].name, placed[k], a)

\* the chunk a of dst comes from a module merged before
ComesFrom(a, c) ==
    /\ Len(dst.chunks[a].code) = Len(c.code)
    /\ dst.chunks[a].name = c.name \/ (c.name = Sinit /\ dst.chunks[a].name = Numbered(a - 1))

IsOld(a) ==
    \/ \E c \in Chunks(build.start) :
         dst.chunks[a].name = c.name /\ Len(dst.chunks[a].code) = Len(c.code)
    \/ \E n \in 1..Done : \E c \in Chunks(build.plan[n]) : ComesFrom(a, c)

PlacesKnown ==
    \A k \in PlacedChunks :
      Named(k, FnRemap(k)) /\ Len(dst.chunks[FnRemap(k)].code) = Len(src.chunks[k].code)

InitialisersOnce ==
    \A k, l \in PlacedChunks : placed[k] = placed[l] /\ placed[k] # 0 => k = l

NoneAhead == phase = "chunks" => \A k \in 1..Len(src.chunks) : k >= i => placed[k] = 0

AllKnown == \A a \in 1..Len(dst.chunks) : IsOld(a) \/ \E k \in PlacedChunks : FnRemap(k) = a

ChunkNames ==
    Live => /\ NamesOnce(dst.chunks) /\ PlacesKnown /\ InitialisersOnce /\ NoneAhead /\ AllKnown

\* A name that is there once is found where it is.
LEMMA FindOnce ==
  ASSUME NEW table, Len(table) \in Nat, NEW a \in 1..Len(table),
         \A b \in 1..Len(table) : table[b].name = table[a].name => b = a
  PROVE  Find(table, table[a].name) = a
  <1>1. Find(table, table[a].name) \in 1..Len(table)
    BY FindFacts
  <1>. QED
    BY <1>1, FindFacts

\* A function's name is found where it is.
LEMMA FunctionFound ==
  ASSUME NEW table, Len(table) \in Nat, NamesOnce(table), NEW a \in 1..Len(table),
         table[a].name # Sinit
  PROVE  Find(table, table[a].name) = a
  <1>1. \A b \in 1..Len(table) : table[b].name = table[a].name => b = a
    BY DEF NamesOnce
  <1>. QED
    BY <1>1, FindOnce

\* fn_remap finds it there.
LEMMA NamedFound ==
  ASSUME NEW table, Len(table) \in Nat, NamesOnce(table), NEW name, NEW place, NEW a,
         NamedIn(table, name, place, a)
  PROVE  (IF place # 0 THEN place ELSE Find(table, name)) = a
  <1>1. a \in 1..Len(table) /\ a # 0
    BY DEF NamedIn
  <1>2. CASE name = Sinit
    BY <1>1, <1>2 DEF NamedIn
  <1>3. CASE name # Sinit
    <2>1. place = 0 /\ table[a].name = name
      BY <1>3 DEF NamedIn
    <2>. QED
      BY <1>1, <1>3, <2>1, FunctionFound
  <1>. QED
    BY <1>2, <1>3

\* It stays there while the table grows.
LEMMA NamedStays ==
  ASSUME NEW table, Len(table) \in Nat, NEW grown, Len(grown) \in Nat, Len(table) <= Len(grown),
         NEW name, NEW place, NEW a, NamedIn(table, name, place, a),
         grown[a].name = table[a].name
  PROVE  NamedIn(grown, name, place, a)
  BY DEF NamedIn

LEMMA NumberedIsNumbered == \A n : IsNumbered(Numbered(n)) /\ Numbered(n) # Sinit
  <1>1. \A n : IsNumbered(Numbered(n))
    BY DEF IsNumbered, Numbered
  <1>2. ~IsNumbered(Sinit)
    BY DEF IsNumbered, Sinit
  <1>. QED
    BY <1>1, <1>2

\* Where the plan still has a __sinit__, no module has a number already.
LEMMA NoNumbers ==
  ASSUME SeparateBuilds, Typed, NEW n \in 1..Len(build.plan), NEW c \in Chunks(build.plan[n]),
         c.name = Sinit
  PROVE  /\ \A d \in Chunks(build.start) : ~IsNumbered(d.name)
         /\ \A p \in 1..Len(build.plan) : \A d \in Chunks(build.plan[p]) : ~IsNumbered(d.name)
  <1>1. build \in Builds /\ Len(build.plan) \in Nat /\ OneNumbering(build)
    BY LinkAssumption DEF Typed, SeparateBuilds, Separate
  <1>2. \A p \in 0..Len(build.plan) : \A d \in Chunks(Part(build, p)) : ~IsNumbered(d.name)
    BY <1>1 DEF OneNumbering
  <1>. QED
    BY <1>1, <1>2 DEF Part

\* A function that module_merge leaves alone because dst has its name already comes
\* from an earlier module, and refers to nothing.
LEMMA PresentIsOld ==
  ASSUME SeparateBuilds, Typed, Where, ChunkNames, phase = "chunks", i <= Len(src.chunks),
         Present(src.chunks[i])
  PROVE  /\ Named(i, Find(dst.chunks, src.chunks[i].name))
         /\ src.chunks[i].code = <<>>
         /\ Len(dst.chunks[Find(dst.chunks, src.chunks[i].name)].code) = 0
         /\ \A k \in PlacedChunks : FnRemap(k) # Find(dst.chunks, src.chunks[i].name)
  <1>. DEFINE c == src.chunks[i]
              a == Find(dst.chunks, c.name)
  <1>1. /\ Busy /\ Live /\ i \in 1..Len(src.chunks) /\ c.name # Sinit
        /\ Len(dst.chunks) \in Nat /\ Len(src.chunks) \in Nat
    BY ModuleFacts DEF Typed, Busy, Live, Present
  <1>2. /\ NamesOnce(dst.chunks) /\ PlacesKnown /\ NoneAhead /\ AllKnown
    BY <1>1 DEF ChunkNames
  <1>3. a \in 1..Len(dst.chunks) /\ dst.chunks[a].name = c.name /\ placed[i] = 0
    BY <1>1, <1>2, FindFacts DEF Present, NoneAhead
  <1>4. /\ src = Part(build, Current) /\ Sound(src) /\ Current \in 1..Len(build.plan)
        /\ Done = Current - 1 /\ Len(build.plan) \in Nat /\ c \in Chunks(src)
        /\ src = build.plan[Current]
        /\ \A n \in 0..Done : Apart(Part(build, n), src) /\ Apart(src, Part(build, n))
    BY <1>1, PartFacts, LinkAssumption DEF Typed, Chunks, Part
  <1>5. ASSUME NEW k \in PlacedChunks, FnRemap(k) = a PROVE FALSE
    <2>1. k \in 1..Len(src.chunks) /\ k < i /\ Named(k, a)
      BY <1>1, <1>2, <1>5 DEF PlacedChunks, PlacesKnown
    <2>2. CASE src.chunks[k].name = Sinit
      <3>1. src.chunks[k] \in Chunks(build.plan[Current])
        BY <2>1, <1>4 DEF Chunks
      <3>2. ~IsNumbered(c.name)
        BY <2>2, <3>1, <1>4, NoNumbers
      <3>. QED
        BY <2>1, <2>2, <3>2, <1>3, NumberedIsNumbered DEF Named, NamedIn
    <2>3. CASE src.chunks[k].name # Sinit
      <3>1. src.chunks[k].name = src.chunks[i].name
        BY <2>1, <2>3, <1>3 DEF Named, NamedIn
      <3>2. \A l, m \in 1..Len(src.chunks) :
              src.chunks[l].name = src.chunks[m].name /\ src.chunks[l].name # Sinit => l = m
        BY <1>4 DEF Sound
      <3>3. k = i
        BY <2>1, <2>3, <3>1, <3>2, <1>1
      <3>. QED
        BY <2>1, <3>3, <1>1
    <2>. QED
      BY <2>2, <2>3
  <1>6. IsOld(a)
    BY <1>2, <1>3, <1>5 DEF AllKnown
  <1>7. c.code = <<>> /\ Len(dst.chunks[a].code) = 0
    <2>1. ASSUME NEW n \in 0..Done, NEW d \in Chunks(Part(build, n)), d.name = c.name
          PROVE  c.code = <<>> /\ d.code = <<>>
      BY <2>1, <1>1, <1>4 DEF Apart
    <2>2. CASE \E d \in Chunks(build.start) :
                 dst.chunks[a].name = d.name /\ Len(dst.chunks[a].code) = Len(d.code)
      <3>1. PICK d \in Chunks(build.start) :
                 dst.chunks[a].name = d.name /\ Len(dst.chunks[a].code) = Len(d.code)
        BY <2>2
      <3>2. 0 \in 0..Done /\ Part(build, 0) = build.start
        BY <1>4 DEF Part
      <3>3. c.code = <<>> /\ d.code = <<>>
        BY <2>1, <3>1, <3>2, <1>3
      <3>. QED
        BY <3>1, <3>3
    <2>3. CASE \E n \in 1..Done : \E d \in Chunks(build.plan[n]) : ComesFrom(a, d)
      <3>1. PICK n \in 1..Done : \E d \in Chunks(build.plan[n]) : ComesFrom(a, d)
        BY <2>3
      <3>2. PICK d \in Chunks(build.plan[n]) : ComesFrom(a, d)
        BY <3>1
      <3>3. n \in 0..Done /\ Part(build, n) = build.plan[n] /\ n \in 1..Len(build.plan)
        BY <1>4 DEF Part
      <3>4. CASE dst.chunks[a].name = d.name
        <4>1. n \in 0..Done /\ d \in Chunks(Part(build, n)) /\ d.name = c.name
          BY <3>2, <3>3, <3>4, <1>3
        <4>2. c.code = <<>> /\ d.code = <<>>
          BY <4>1, <2>1
        <4>. QED
          BY <3>2, <4>2 DEF ComesFrom
      <3>5. CASE d.name = Sinit /\ dst.chunks[a].name = Numbered(a - 1)
        <4>1. ~IsNumbered(c.name)
          BY <3>3, <3>5, <1>4, NoNumbers
        <4>. QED
          BY <4>1, <3>5, <1>3, NumberedIsNumbered
      <3>. QED
        BY <3>2, <3>4, <3>5 DEF ComesFrom
    <2>. QED
      BY <1>6, <2>2, <2>3 DEF IsOld
  <1>8. Named(i, a)
    BY <1>1, <1>3 DEF Named, NamedIn
  <1>. QED
    BY <1>5, <1>7, <1>8

\* What keeps the names, the lengths and the places keeps what is known of them.
LEMMA NamesKept ==
  ASSUME Typed, Typed', Live, Live', ChunkNames, UNCHANGED <<build, src, placed>>, Done' = Done,
         PlacedChunks' = PlacedChunks,
         Len(dst'.chunks) = Len(dst.chunks),
         \A a \in 1..Len(dst.chunks) :
           /\ dst'.chunks[a].name = dst.chunks[a].name
           /\ Len(dst'.chunks[a].code) = Len(dst.chunks[a].code)
  PROVE  /\ NamesOnce(dst.chunks)' /\ PlacesKnown' /\ InitialisersOnce' /\ AllKnown'
         /\ \A k \in PlacedChunks : FnRemap(k)' = FnRemap(k)
  <1>1. /\ NamesOnce(dst.chunks) /\ PlacesKnown /\ InitialisersOnce /\ AllKnown
        /\ Len(dst.chunks) \in Nat
    BY ModuleFacts DEF ChunkNames, Typed
  <1>2. NamesOnce(dst.chunks)'
    BY <1>1 DEF NamesOnce
  <1>3. ASSUME NEW k \in PlacedChunks
        PROVE  Named(k, FnRemap(k))' /\ FnRemap(k)' = FnRemap(k)
    <2>1. PICK a \in 1..Len(dst.chunks) : a = FnRemap(k) /\ Named(k, a)
      BY <1>1, <1>3 DEF PlacesKnown, Named, NamedIn
    <2>2. Named(k, a)'
      BY <2>1 DEF Named, NamedIn
    <2>3. FnRemap(k)' = a
      <3>1. dst'.chunks = dst.chunks' /\ Len(dst'.chunks) \in Nat /\ a \in 1..Len(dst'.chunks)
        BY <1>1
      <3>2. /\ src'.chunks[k].name = Sinit => placed'[k] = a
            /\ src'.chunks[k].name # Sinit =>
                 placed'[k] = 0 /\ dst'.chunks[a].name = src'.chunks[k].name
        BY <2>2 DEF Named, NamedIn
      <3>. QED
        <4>1. NamesOnce(dst'.chunks)
          BY <1>2 DEF NamesOnce
        <4>2. src'.chunks[k].name # Sinit => Find(dst'.chunks, dst'.chunks[a].name) = a
          BY <3>1, <3>2, <4>1, FunctionFound
        <4>. QED
          BY <3>1, <3>2, <4>2 DEF FnRemap
    <2>. QED
      BY <2>1, <2>2, <2>3
  <1>4. PlacesKnown'
    <2>. SUFFICES ASSUME NEW k \in PlacedChunks'
                  PROVE  /\ Named(k, FnRemap(k))'
                         /\ Len(dst'.chunks[FnRemap(k)'].code) = Len(src'.chunks[k].code)
      BY DEF PlacesKnown
    <2>1. k \in PlacedChunks /\ FnRemap(k) \in 1..Len(dst.chunks)
      BY <1>1 DEF PlacesKnown, Named, NamedIn
    <2>. QED
      BY <1>1, <1>3, <2>1 DEF PlacesKnown
  <1>5. InitialisersOnce'
    BY <1>1 DEF InitialisersOnce
  <1>6. AllKnown'
    <2>. SUFFICES ASSUME NEW a \in 1..Len(dst'.chunks)
                  PROVE  IsOld(a)' \/ \E k \in PlacedChunks' : FnRemap(k)' = a
      BY DEF AllKnown
    <2>1. CASE IsOld(a)
      BY <2>1 DEF IsOld, ComesFrom
    <2>2. CASE \E k \in PlacedChunks : FnRemap(k) = a
      BY <2>2, <1>3
    <2>. QED
      BY <1>1, <2>1, <2>2 DEF AllKnown
  <1>. QED
    BY <1>2, <1>3, <1>4, <1>5, <1>6

\* The number a __sinit__ is given is no name yet.
LEMMA NumberIsNew ==
  ASSUME SeparateBuilds, Typed, Where, ChunkNames, phase = "chunks", i <= Len(src.chunks),
         src.chunks[i].name = Sinit, NEW a \in 1..Len(dst.chunks)
  PROVE  dst.chunks[a].name # Numbered(Len(dst.chunks))
  <1>1. /\ Busy /\ Live /\ i \in 1..Len(src.chunks) /\ Len(dst.chunks) \in Nat
        /\ Len(src.chunks) \in Nat
    BY ModuleFacts DEF Typed, Busy, Live
  <1>2. PlacesKnown /\ AllKnown
    BY <1>1 DEF ChunkNames
  <1>3. /\ src = build.plan[Current] /\ Current \in 1..Len(build.plan) /\ Done = Current - 1
        /\ Len(build.plan) \in Nat
        /\ src.chunks[i] \in Chunks(build.plan[Current])
    <2>1. /\ Current \in 1..Len(build.plan) /\ Done = Current - 1 /\ Len(build.plan) \in Nat
          /\ src = build.plan[Current]
      BY <1>1, PartFacts, LinkAssumption DEF Typed, Where
    <2>. QED
      BY <2>1, <1>1 DEF Chunks
  <1>4. /\ \A d \in Chunks(build.start) : ~IsNumbered(d.name)
        /\ \A p \in 1..Len(build.plan) : \A d \in Chunks(build.plan[p]) : ~IsNumbered(d.name)
    BY <1>3, NoNumbers
  <1>5. Numbered(a - 1) # Numbered(Len(dst.chunks))
    BY <1>1 DEF Numbered
  <1>6. IsNumbered(Numbered(Len(dst.chunks)))
    BY NumberedIsNumbered
  <1>7. CASE \E k \in PlacedChunks : FnRemap(k) = a
    <2>1. PICK k \in PlacedChunks : Named(k, a)
      BY <1>2, <1>7 DEF PlacesKnown
    <2>2. src.chunks[k] \in Chunks(build.plan[Current])
      BY <1>3 DEF PlacedChunks, Chunks
    <2>3. ~IsNumbered(src.chunks[k].name)
      BY <2>2, <1>3, <1>4
    <2>. QED
      BY <2>1, <2>3, <1>5, <1>6 DEF Named, NamedIn
  <1>8. CASE IsOld(a)
    <2>1. CASE \E d \in Chunks(build.start) :
                 dst.chunks[a].name = d.name /\ Len(dst.chunks[a].code) = Len(d.code)
      BY <2>1, <1>4, <1>6
    <2>2. CASE \E n \in 1..Done : \E d \in Chunks(build.plan[n]) : ComesFrom(a, d)
      <3>1. PICK n \in 1..Done : \E d \in Chunks(build.plan[n]) : ComesFrom(a, d)
        BY <2>2
      <3>2. PICK d \in Chunks(build.plan[n]) : ComesFrom(a, d)
        BY <3>1
      <3>3. ~IsNumbered(d.name)
        BY <3>2, <1>3, <1>4
      <3>. QED
        BY <3>2, <3>3, <1>5, <1>6 DEF ComesFrom
    <2>. QED
      BY <1>8, <2>1, <2>2 DEF IsOld
  <1>. QED
    BY <1>2, <1>7, <1>8 DEF AllKnown

\* A table that grows by a new name has every name once.
LEMMA AppendedOnce ==
  ASSUME NEW t, NEW u, Len(t) \in Nat, NamesOnce(t), Len(u) = Len(t) + 1,
         \A a \in 1..Len(t) : u[a].name = t[a].name,
         \A a \in 1..Len(t) : t[a].name # u[Len(t) + 1].name
  PROVE  NamesOnce(u)
  <1>. SUFFICES ASSUME NEW a \in 1..(Len(t) + 1), NEW b \in 1..(Len(t) + 1),
                       u[a].name = u[b].name, u[a].name # Sinit
                PROVE  a = b
    BY DEF NamesOnce
  <1>1. CASE a \in 1..Len(t) /\ b \in 1..Len(t)
    BY <1>1 DEF NamesOnce
  <1>2. CASE a \in 1..Len(t) /\ b = Len(t) + 1
    BY <1>2
  <1>3. CASE b \in 1..Len(t) /\ a = Len(t) + 1
    BY <1>3
  <1>. QED
    BY <1>1, <1>2, <1>3

\* The first loop of module_merge: a chunk that is added has a name of its own.
LEMMA AddChunkNames ==
  ASSUME SeparateBuilds, Typed, Typed', Where, ChunkNames, AddChunk, NEW j \in Nat, j = i
  PROVE  /\ ChunkNames' /\ \A k \in PlacedChunks : FnRemap(k)' = FnRemap(k)
         /\ j \notin PlacedChunks /\ PlacedChunks' = PlacedChunks \cup {j} /\ Done' = Done
         /\ dst'.classes = dst.classes
         /\ Present(src.chunks[j]) =>
              /\ dst'.chunks = dst.chunks /\ FnRemap(j)' = Find(dst.chunks, src.chunks[j].name)
         /\ ~Present(src.chunks[j]) =>
              /\ FnRemap(j)' = Len(dst.chunks) + 1
              /\ Len(dst'.chunks) = Len(dst.chunks) + 1
              /\ dst'.chunks[Len(dst.chunks) + 1].code = src.chunks[j].code
              /\ \A a \in 1..Len(dst.chunks) : dst'.chunks[a] = dst.chunks[a]
  <1>. DEFINE c == src.chunks[i]
  <1>0. PICK A \in Nat : A = Len(dst.chunks) + 1
    BY ModuleFacts DEF Typed
  <1>1. /\ phase = "chunks" /\ phase' = "chunks" /\ i <= Len(src.chunks) /\ i' = i + 1
        /\ UNCHANGED <<build, src, todo>> /\ src' = src
    BY DEF AddChunk
  <1>2. /\ Busy /\ Live /\ Busy' /\ Live' /\ i \in 1..Len(src.chunks)
        /\ Len(dst.chunks) \in Nat /\ Len(src.chunks) \in Nat
        /\ dst \in Module /\ c \in ChunkType
        /\ Len(placed) = Len(src.chunks) /\ placed \in Seq(Nat)
        /\ A \in Nat /\ A = Len(dst.chunks) + 1 /\ c = src.chunks[i] /\ j = i
    BY <1>0, <1>1, ModuleFacts DEF Typed, Busy, Live
  <1>3. NamesOnce(dst.chunks) /\ PlacesKnown /\ InitialisersOnce /\ NoneAhead /\ AllKnown
    BY <1>2 DEF ChunkNames
  <1>4. /\ Done' = Done /\ placed[i] = 0
        /\ PlacedChunks = 1..(i - 1) /\ PlacedChunks' = 1..i
        /\ j \notin PlacedChunks /\ PlacedChunks' = PlacedChunks \cup {j}
    <2>1. PlacedChunks = 1..(i - 1)
      BY <1>1, <1>2 DEF PlacedChunks
    <2>2. PlacedChunks' = 1..i
      BY <1>1, <1>2 DEF PlacedChunks
    <2>3. j \notin 1..(i - 1) /\ 1..i = (1..(i - 1)) \cup {j}
      BY <1>2
    <2>. QED
      BY <1>1, <1>2, <1>3, <2>1, <2>2, <2>3 DEF NoneAhead, Done, Current
  <1>5. CASE Present(c)
    <2>1. UNCHANGED <<dst, placed>>
      BY <1>1, <1>5 DEF AddChunk
    <2>2. /\ Named(i, Find(dst.chunks, c.name)) /\ c.code = <<>>
          /\ Len(dst.chunks[Find(dst.chunks, c.name)].code) = 0
      BY <1>1, <1>5, PresentIsOld
    <2>3. FnRemap(i) = Find(dst.chunks, c.name)
      BY <1>4 DEF FnRemap
    <2>4. \A k : FnRemap(k)' = FnRemap(k)
      BY <2>1, <1>1 DEF FnRemap
    <2>5. PlacesKnown'
      <3>. SUFFICES ASSUME NEW k \in PlacedChunks'
                    PROVE  /\ Named(k, FnRemap(k))
                           /\ Len(dst.chunks[FnRemap(k)].code) = Len(src.chunks[k].code)
        BY <2>1, <2>4, <1>1 DEF PlacesKnown, Named, NamedIn
      <3>1. k \in PlacedChunks \/ k = i
        BY <1>2, <1>4
      <3>. QED
        BY <3>1, <2>2, <2>3, <1>3 DEF PlacesKnown
    <2>6. NoneAhead'
      BY <1>1, <1>2, <1>3, <2>1 DEF NoneAhead
    <2>7. InitialisersOnce'
      <3>. SUFFICES ASSUME NEW k \in PlacedChunks', NEW l \in PlacedChunks',
                           placed[k] = placed[l], placed[k] # 0
                    PROVE  k = l
        BY <2>1 DEF InitialisersOnce
      <3>1. k \in PlacedChunks /\ l \in PlacedChunks
        BY <1>2, <1>4
      <3>. QED
        BY <3>1, <1>3 DEF InitialisersOnce
    <2>8. AllKnown'
      <3>1. \A a : IsOld(a) => IsOld(a)'
        BY <1>1, <1>4, <2>1 DEF IsOld, ComesFrom
      <3>2. PlacedChunks \subseteq PlacedChunks'
        BY <1>2, <1>4
      <3>. QED
        BY <3>1, <3>2, <2>1, <2>4, <1>3 DEF AllKnown
    <2>9. NamesOnce(dst.chunks)'
      BY <1>3, <2>1 DEF NamesOnce
    <2>10. FnRemap(j)' = Find(dst.chunks, src.chunks[j].name) /\ Present(src.chunks[j])
      BY <2>3, <2>4, <1>2, <1>5
    <2>11. dst'.chunks = dst.chunks /\ dst'.classes = dst.classes
      BY <2>1
    <2>12. ChunkNames'
      BY <2>5, <2>6, <2>7, <2>8, <2>9 DEF ChunkNames
    <2>13. \A k \in PlacedChunks : FnRemap(k)' = FnRemap(k)
      BY <2>4
    <2>. QED
      BY <1>4, <2>10, <2>11, <2>12, <2>13
  <1>6. CASE ~Present(c)
    <2>. DEFINE added == [c EXCEPT !.name = NewName(c)]
    <2>1. /\ dst' = [dst EXCEPT !.chunks = Append(@, added)]
          /\ placed' = IF c.name = Sinit THEN [placed EXCEPT ![i] = A] ELSE placed
      BY <1>1, <1>2, <1>6 DEF AddChunk
    <2>2. added \in ChunkType /\ added.name = NewName(c) /\ added.code = c.code
      <3>1. NewName(c) \in Names
        BY <1>2, SinitNames DEF NewName, ChunkType
      <3>. QED
        BY <1>2, <3>1 DEF ChunkType
    <2>3. /\ Len(dst'.chunks) = A /\ dst'.chunks[A].name = NewName(c)
          /\ dst'.chunks[A].code = c.code
          /\ \A a \in 1..Len(dst.chunks) : dst'.chunks[a] = dst.chunks[a]
      <3>. HIDE DEF added
      <3>1. /\ Len(dst'.chunks) = A /\ dst'.chunks[A] = added
            /\ \A a \in 1..Len(dst.chunks) : dst'.chunks[a] = dst.chunks[a]
        BY <1>2, <2>1, <2>2, AddedChunk
      <3>. QED
        BY <2>2, <3>1
    <2>4. /\ \A k \in 1..Len(src.chunks) : k # i => placed'[k] = placed[k]
          /\ c.name = Sinit => placed'[i] = A
          /\ c.name # Sinit => placed'[i] = 0
      BY <1>2, <1>4, <2>1
    <2>5. /\ NewName(c) # Sinit
          /\ c.name = Sinit => NewName(c) = Numbered(A - 1)
          /\ c.name # Sinit => NewName(c) = c.name
      <3>1. A - 1 = Len(dst.chunks)
        BY <1>2
      <3>. QED
        BY <3>1, NumberedIsNumbered DEF NewName
    <2>6. \A a \in 1..Len(dst.chunks) : dst.chunks[a].name # NewName(c)
      <3>1. CASE c.name = Sinit
        BY <3>1, <1>1, <1>2, NumberIsNew DEF NewName
      <3>2. CASE c.name # Sinit
        BY <3>2, <1>2, <1>6, FindFacts DEF NewName, Present
      <3>. QED
        BY <3>1, <3>2
    <2>7. NamesOnce(dst'.chunks)
      <3>1. \A a \in 1..Len(dst.chunks) : dst'.chunks[a].name = dst.chunks[a].name
        BY <2>3
      <3>2. /\ Len(dst'.chunks) = Len(dst.chunks) + 1 /\ dst'.chunks[A].name = NewName(c)
            /\ A = Len(dst.chunks) + 1
        BY <1>2, <2>3
      <3>. HIDE DEF c
      <3>. QED
        BY <1>2, <1>3, <2>6, <3>1, <3>2, AppendedOnce
    <2>8. ASSUME NEW k \in PlacedChunks
          PROVE  /\ k \in 1..Len(src.chunks) /\ k # i
                 /\ FnRemap(k) \in 1..Len(dst.chunks) /\ FnRemap(k)' = FnRemap(k)
                 /\ Named(k, FnRemap(k))'
                 /\ Len(dst'.chunks[FnRemap(k)].code) = Len(src.chunks[k].code)
      <3>1. k \in 1..Len(src.chunks) /\ k # i
        BY <1>2, <1>4, <2>8
      <3>2. PICK a \in 1..Len(dst.chunks) :
              a = FnRemap(k) /\ Named(k, a) /\ Len(dst.chunks[a].code) = Len(src.chunks[k].code)
        BY <1>3, <2>8 DEF PlacesKnown, Named, NamedIn
      <3>3. NamedIn(dst.chunks, src.chunks[k].name, placed[k], a)
        BY <3>2 DEF Named, NamedIn
      <3>4. /\ dst'.chunks[a].name = dst.chunks[a].name
            /\ dst'.chunks[a].code = dst.chunks[a].code
            /\ Len(dst'.chunks) \in Nat /\ Len(dst.chunks) <= Len(dst'.chunks)
        BY <2>3, <1>2
      <3>5. NamedIn(dst'.chunks, src.chunks[k].name, placed[k], a)
        BY <3>3, <3>4, <1>2, NamedStays
      <3>6. NamedIn(dst'.chunks, src'.chunks[k].name, placed'[k], a)
        BY <3>1, <3>5, <2>4, <1>1
      <3>7. FnRemap(k)' = a
        <4>1. FnRemap(k)' = IF placed'[k] # 0 THEN placed'[k]
                            ELSE Find(dst'.chunks, src'.chunks[k].name)
          BY DEF FnRemap
        <4>. QED
          BY <3>4, <3>6, <4>1, <2>7, NamedFound
      <3>8. Named(k, a)'
        BY <3>6 DEF Named, NamedIn
      <3>. QED
        BY <3>1, <3>2, <3>4, <3>7, <3>8
    <2>9. FnRemap(j)' = A /\ Named(j, A)' /\ Len(dst'.chunks[A].code) = Len(src.chunks[j].code)
      <3>1. A \in 1..Len(dst'.chunks) /\ Len(dst'.chunks) \in Nat
        BY <1>2, <2>3
      <3>2. NamedIn(dst'.chunks, src'.chunks[j].name, placed'[j], A)
        <4>1. NamedIn(dst'.chunks, c.name, placed'[j], A)
          BY <3>1, <2>3, <2>4, <2>5, <1>2 DEF NamedIn
        <4>. QED
          BY <4>1, <1>1, <1>2
      <3>3. FnRemap(j)' = A
        <4>1. FnRemap(j)' = IF placed'[j] # 0 THEN placed'[j]
                            ELSE Find(dst'.chunks, src'.chunks[j].name)
          BY DEF FnRemap
        <4>. QED
          BY <3>1, <3>2, <4>1, <2>7, NamedFound
      <3>4. Named(j, A)'
        BY <3>2 DEF Named, NamedIn
      <3>. QED
        BY <3>3, <3>4, <2>3, <1>2
    <2>10. PlacesKnown'
      <3>. SUFFICES ASSUME NEW k \in PlacedChunks'
                    PROVE  /\ Named(k, FnRemap(k))'
                           /\ Len(dst'.chunks[FnRemap(k)'].code) = Len(src'.chunks[k].code)
        BY DEF PlacesKnown
      <3>1. k \in PlacedChunks \/ k = i
        BY <1>2, <1>4
      <3>2. CASE k \in PlacedChunks
        BY <3>2, <2>8, <1>1
      <3>3. CASE k = i
        BY <3>3, <2>9, <1>1, <1>2
      <3>. QED
        BY <3>1, <3>2, <3>3
    <2>11. NoneAhead'
      <3>1. \A k \in 1..Len(src.chunks) : k >= i => placed[k] = 0
        BY <1>1, <1>3 DEF NoneAhead
      <3>2. \A k \in 1..Len(src.chunks) : k >= i + 1 => placed'[k] = 0
        <4>1. i \in Nat /\ \A k \in 1..Len(src.chunks) : k >= i + 1 => k >= i /\ k # i
          BY <1>2
        <4>2. \A k \in 1..Len(src.chunks) : k # i => placed'[k] = placed[k]
          BY <2>4
        <4>. QED
          BY <3>1, <4>1, <4>2
      <3>. QED
        BY <1>1, <3>2 DEF NoneAhead
    <2>12. InitialisersOnce'
      <3>1. A \in Nat /\ A > Len(dst.chunks)
        BY <1>2
      <3>2. \A k \in PlacedChunks : k # i /\ placed'[k] = placed[k] /\ placed[k] < A
        <4>1. \A k \in PlacedChunks : k # i /\ placed'[k] = placed[k] /\ k \in 1..Len(placed)
          BY <1>2, <2>4, <2>8
        <4>2. \A k \in 1..Len(placed) : placed[k] <= Len(dst.chunks) /\ placed[k] \in Nat
          <5>1. \A k \in 1..Len(placed) : placed[k] <= Len(dst.chunks)
            BY DEF Typed
          <5>2. \A k \in 1..Len(placed) : placed[k] \in Nat
            BY <1>2
          <5>. QED
            BY <5>1, <5>2
        <4>. QED
          BY <4>1, <4>2, <1>2
      <3>3. placed'[i] = A \/ placed'[i] = 0
        BY <2>4
      <3>4. \A k \in PlacedChunks' : k \in PlacedChunks \/ k = i
        BY <1>2, <1>4
      <3>5. \A k \in PlacedChunks : placed[k] # A
        BY <3>1, <3>2, <1>2
      <3>. QED
        BY <3>2, <3>3, <3>4, <3>5, <1>3 DEF InitialisersOnce
    <2>13. AllKnown'
      <3>. SUFFICES ASSUME NEW a \in 1..Len(dst'.chunks)
                    PROVE  IsOld(a)' \/ \E k \in PlacedChunks' : FnRemap(k)' = a
        BY DEF AllKnown
      <3>1. a \in 1..Len(dst.chunks) \/ a = A
        BY <1>2, <2>3
      <3>2. i \in PlacedChunks' /\ PlacedChunks \subseteq PlacedChunks'
        BY <1>2, <1>4
      <3>3. CASE a \in 1..Len(dst.chunks)
        <4>1. IsOld(a) => IsOld(a)'
          BY <3>3, <1>1, <1>4, <2>3 DEF IsOld, ComesFrom
        <4>. QED
          BY <3>2, <3>3, <4>1, <2>8, <1>3 DEF AllKnown
      <3>. QED
        BY <3>1, <3>2, <3>3, <2>9, <1>2
    <2>14. NamesOnce(dst.chunks)'
      BY <2>7 DEF NamesOnce
    <2>15. ChunkNames'
      BY <2>10, <2>11, <2>12, <2>13, <2>14 DEF ChunkNames
    <2>16. \A k \in PlacedChunks : FnRemap(k)' = FnRemap(k)
      BY <2>8
    <2>17. dst'.classes = dst.classes
      BY <1>2, <2>1 DEF Module
    <2>18. ~Present(src.chunks[j])
      BY <1>2, <1>6
    <2>19. /\ FnRemap(j)' = Len(dst.chunks) + 1
           /\ Len(dst'.chunks) = Len(dst.chunks) + 1
           /\ dst'.chunks[Len(dst.chunks) + 1].code = src.chunks[j].code
           /\ \A a \in 1..Len(dst.chunks) : dst'.chunks[a] = dst.chunks[a]
      BY <1>2, <2>3, <2>9
    <2>. QED
      BY <1>4, <2>15, <2>16, <2>17, <2>18, <2>19
  <1>. QED
    BY <1>5, <1>6

(***************************************************************************)
(* The other steps, as far as the names are concerned                      *)
(***************************************************************************)
\* fn_remap of a chunk is a place, or 0.
LEMMA PlaceTyped ==
  ASSUME Typed, Len(placed) = Len(src.chunks), NEW k \in 1..Len(src.chunks)
  PROVE  \E a \in 0..Len(dst.chunks) : a = FnRemap(k)
  <1>1. /\ Len(dst.chunks) \in Nat /\ placed \in Seq(Nat)
        /\ \A l \in 1..Len(placed) : placed[l] <= Len(dst.chunks)
    BY ModuleFacts DEF Typed
  <1>2. placed[k] \in Nat /\ placed[k] <= Len(dst.chunks)
    BY <1>1
  <1>. QED
    BY <1>1, <1>2, FindFacts DEF FnRemap

\* The third loop changes one chunk: the place of chunk i of src gets its indices.
LEMMA RemapStep ==
  ASSUME Typed, RemapChunk, NEW at \in 0..Len(dst.chunks), at = FnRemap(i)
  PROVE  /\ phase = "remap" /\ i \in 1..Len(src.chunks) /\ i' = i + 1
         /\ UNCHANGED <<build, src, todo, phase, placed>>
         /\ dst'.classes = dst.classes /\ Len(dst'.chunks) = Len(dst.chunks)
         /\ \A a \in 1..Len(dst.chunks) :
              (a # at \/ src.chunks[i].body = "") => dst'.chunks[a] = dst.chunks[a]
         /\ (at # 0 /\ src.chunks[i].body # "") => dst'.chunks[at] = RemapCode(dst.chunks[at])
  <1>1. /\ phase = "remap" /\ i <= Len(src.chunks) /\ i' = i + 1
        /\ UNCHANGED <<build, src, todo, phase, placed>>
        /\ (src.chunks[i].body # "" /\ at # 0) =>
             dst' = [dst EXCEPT !.chunks[at] = RemapCode(dst.chunks[at])]
        /\ ~(src.chunks[i].body # "" /\ at # 0) => dst' = dst
    BY DEF RemapChunk
  <1>2. /\ i \in 1..Len(src.chunks) /\ dst \in Module /\ Len(placed) = Len(src.chunks)
        /\ Len(dst.chunks) \in Nat
    <2>1. i \in 1..Len(src.chunks) /\ dst \in Module /\ Len(dst.chunks) \in Nat
      <3>1. i \in 1..(Len(src.chunks) + 1) /\ i <= Len(src.chunks) /\ dst \in Module
        BY <1>1 DEF Typed
      <3>2. Len(src.chunks) \in Nat /\ Len(dst.chunks) \in Nat
        BY ModuleFacts DEF Typed
      <3>. QED
        BY <3>1, <3>2
    <2>2. Len(placed) = Len(src.chunks)
      BY <1>1 DEF Typed, Busy
    <2>. QED
      BY <2>1, <2>2
  <1>3. CASE ~(src.chunks[i].body # "" /\ at # 0)
    BY <1>1, <1>2, <1>3
  <1>4. CASE src.chunks[i].body # "" /\ at # 0
    <2>0. at # 0 /\ dst' = [dst EXCEPT !.chunks[at] = RemapCode(dst.chunks[at])]
      BY <1>1, <1>4
    <2>1. at \in 1..Len(dst.chunks) /\ dst.chunks[at] \in ChunkType
      <3>1. at # 0
        BY <2>0
      <3>2. at \in 1..Len(dst.chunks)
        BY <1>2, <3>1
      <3>. QED
        BY <1>2, <3>2, ModuleFacts
    <2>2. RemapCode(dst.chunks[at]) \in ChunkType
      BY <1>2, <2>1, RemapCodeTyped
    <2>3. /\ dst'.classes = dst.classes /\ Len(dst'.chunks) = Len(dst.chunks)
          /\ dst'.chunks[at] = RemapCode(dst.chunks[at])
          /\ \A k \in 1..Len(dst.chunks) : k # at => dst'.chunks[k] = dst.chunks[k]
      BY <1>2, <2>0, <2>1, <2>2, ChangedChunk
    <2>. QED
      BY <1>1, <1>2, <1>4, <2>3
  <1>. QED
    BY <1>3, <1>4

\* The fourth changes one class: the one with the name of class i of src.
LEMMA FixStep ==
  ASSUME Typed, FixClass, NEW at \in 0..Len(dst.classes),
         at = Find(dst.classes, src.classes[i].name)
  PROVE  /\ phase = "methods" /\ i \in 1..Len(src.classes) /\ i' = i + 1
         /\ UNCHANGED <<build, src, todo, phase, placed>>
         /\ dst'.chunks = dst.chunks /\ Len(dst'.classes) = Len(dst.classes)
         /\ \A a \in 1..Len(dst.classes) : a # at => dst'.classes[a] = dst.classes[a]
         /\ at # 0 => dst'.classes[at] = Fixed(dst.classes[at], src.classes[i])
  <1>1. /\ phase = "methods" /\ i <= Len(src.classes) /\ i' = i + 1
        /\ UNCHANGED <<build, src, todo, phase, placed>>
        /\ at = 0 => dst' = dst
        /\ at # 0 => dst' = [dst EXCEPT !.classes[at] = Fixed(dst.classes[at], src.classes[i])]
    BY DEF FixClass
  <1>2. /\ i \in 1..Len(src.classes) /\ src.classes[i] \in ClassType /\ dst \in Module
        /\ Len(dst.classes) \in Nat
    BY <1>1, ModuleFacts DEF Typed
  <1>3. CASE at = 0
    BY <1>1, <1>2, <1>3
  <1>4. CASE at # 0
    <2>1. at \in 1..Len(dst.classes) /\ dst.classes[at] \in ClassType
      BY <1>2, <1>4, ModuleFacts
    <2>2. Fixed(dst.classes[at], src.classes[i]) \in ClassType
      BY <1>2, <2>1, FixedTyped
    <2>3. /\ dst'.chunks = dst.chunks /\ Len(dst'.classes) = Len(dst.classes)
          /\ dst'.classes[at] = Fixed(dst.classes[at], src.classes[i])
          /\ \A k \in 1..Len(dst.classes) : k # at => dst'.classes[k] = dst.classes[k]
      BY <1>1, <1>2, <1>4, <2>1, <2>2, ChangedClass
    <2>. QED
      BY <1>1, <1>2, <1>4, <2>3
  <1>. QED
    BY <1>3, <1>4

\* Between Begin and Merged no step changes the name of a chunk, its place, or how
\* much code it has.
LEMMA LaterNames ==
  ASSUME Typed, Typed', Where, ChunkNames,
         ChunksDone \/ AddClass \/ ClassesDone \/ RemapChunk \/ RemapDone \/ FixClass
  PROVE  /\ ChunkNames' /\ Busy' /\ PlacedChunks' = PlacedChunks
         /\ \A k \in PlacedChunks : FnRemap(k)' = FnRemap(k)
  <1>1. /\ Busy /\ Busy' /\ Live /\ Live' /\ phase' # "chunks"
        /\ UNCHANGED <<build, src, placed, todo>>
        /\ phase = "chunks" => i > Len(src.chunks)
    BY DEF ChunksDone, AddClass, ClassesDone, RemapChunk, RemapDone, FixClass, Ends, Pass,
           Busy, Live
  <1>2. /\ Len(src.chunks) \in Nat /\ i \in Nat
        /\ Len(dst.chunks) \in Nat /\ dst \in Module
    BY ModuleFacts DEF Typed
  <1>3. Done' = Done
    BY <1>1 DEF Done, Current
  <1>4. PlacedChunks' = PlacedChunks
    <2>1. PlacedChunks = 1..Len(src.chunks)
      BY <1>1, <1>2 DEF PlacedChunks
    <2>2. PlacedChunks' = 1..Len(src.chunks)
      BY <1>1 DEF PlacedChunks
    <2>. QED
      BY <2>1, <2>2
  <1>5. /\ Len(dst'.chunks) = Len(dst.chunks)
        /\ \A a \in 1..Len(dst.chunks) :
             /\ dst'.chunks[a].name = dst.chunks[a].name
             /\ Len(dst'.chunks[a].code) = Len(dst.chunks[a].code)
    <2>1. CASE ChunksDone \/ ClassesDone \/ RemapDone
      <3>1. dst' = dst
        BY <2>1 DEF ChunksDone, ClassesDone, RemapDone, Ends
      <3>. QED
        BY <3>1
    <2>2. CASE AddClass
      <3>1. /\ phase = "classes" /\ i <= Len(src.classes) /\ dst' = WithClass(src.classes[i])
        BY <2>2 DEF AddClass
      <3>2. src.classes[i] \in ClassType
        BY <3>1, ModuleFacts DEF Typed
      <3>3. dst'.chunks = dst.chunks
        BY <3>1, <3>2, WithClassTyped DEF Typed
      <3>. QED
        BY <3>3
    <2>3. CASE RemapChunk
      <3>1. /\ Len(dst'.chunks) = Len(dst.chunks)
            /\ \A a \in 1..Len(dst.chunks) :
                 dst'.chunks[a] = dst.chunks[a] \/ dst'.chunks[a] = RemapCode(dst.chunks[a])
        <4>1. i \in 1..Len(src.chunks) /\ Len(placed) = Len(src.chunks)
          <5>1. phase = "remap" /\ i <= Len(src.chunks)
            BY <2>3 DEF RemapChunk
          <5>2. i \in 1..(Len(src.chunks) + 1)
            BY <5>1 DEF Typed
          <5>3. Len(placed) = Len(src.chunks)
            BY <1>1 DEF Typed
          <5>. QED
            BY <5>1, <5>2, <5>3, <1>2
        <4>2. PICK at \in 0..Len(dst.chunks) : at = FnRemap(i)
          BY <4>1, PlaceTyped
        <4>. QED
          <5>1. /\ Len(dst'.chunks) = Len(dst.chunks)
                /\ \A a \in 1..Len(dst.chunks) :
                     (a # at \/ src.chunks[i].body = "") => dst'.chunks[a] = dst.chunks[a]
                /\ (at # 0 /\ src.chunks[i].body # "") =>
                     dst'.chunks[at] = RemapCode(dst.chunks[at])
            BY <2>3, <4>2, RemapStep
          <5>2. \A a \in 1..Len(dst.chunks) : a # 0
            OBVIOUS
          <5>. QED
            BY <5>1, <5>2
      <3>2. \A a \in 1..Len(dst.chunks) : dst.chunks[a] \in ChunkType
        BY <1>2, ModuleFacts
      <3>3. Len(placed) = Len(src.chunks)
        BY <1>1 DEF Typed
      <3>4. \A a \in 1..Len(dst.chunks) :
              /\ RemapCode(dst.chunks[a]).name = dst.chunks[a].name
              /\ Len(RemapCode(dst.chunks[a]).code) = Len(dst.chunks[a].code)
        BY <3>2, <3>3, RemapCodeTyped
      <3>. QED
        BY <3>1, <3>4
    <2>4. CASE FixClass
      <3>1. dst'.chunks = dst.chunks
        BY <2>4, FixStep, FindFacts, ModuleFacts DEF Typed
      <3>. QED
        BY <3>1
    <2>. QED
      BY <2>1, <2>2, <2>3, <2>4
  <1>6. /\ NamesOnce(dst.chunks)' /\ PlacesKnown' /\ InitialisersOnce' /\ AllKnown'
        /\ \A k \in PlacedChunks : FnRemap(k)' = FnRemap(k)
    BY <1>1, <1>3, <1>4, <1>5, NamesKept
  <1>. QED
    BY <1>1, <1>4, <1>6 DEF ChunkNames, NoneAhead

\* A build starts with the functions of its first module, each name once.
LEMMA InitNames == ASSUME SeparateBuilds, Typed, Init PROVE ChunkNames
  <1>1. /\ dst = build.start /\ phase = "idle" /\ ~Busy /\ PlacedChunks = {}
    BY DEF Init, Busy, PlacedChunks
  <1>2. Sound(build.start) /\ build.start \in Module
    <2>1. build \in Builds /\ Separate(build) /\ Len(build.plan) \in Nat /\ build.start \in Module
      BY LinkAssumption DEF Typed, SeparateBuilds
    <2>2. Sound(Part(build, 0))
      BY <2>1 DEF Separate
    <2>. QED
      BY <2>1, <2>2 DEF Part
  <1>3. NamesOnce(dst.chunks)
    BY <1>1, <1>2 DEF Sound, NamesOnce
  <1>4. AllKnown
    BY <1>1 DEF AllKnown, IsOld, Chunks
  <1>. QED
    BY <1>1, <1>3, <1>4 DEF ChunkNames, PlacesKnown, InitialisersOnce, NoneAhead

\* Begin adds nothing, and Merged makes the chunks of src ones of an earlier module.
LEMMA BeginNames ==
  ASSUME Typed, Where, ChunkNames, Begin, Busy'
  PROVE  /\ ChunkNames' /\ PlacedChunks' = {} /\ phase' = "chunks" /\ i' = 1 /\ Done' = Done
         /\ UNCHANGED <<build, dst>>
  <1>1. /\ phase = "idle" /\ phase' = "chunks" /\ i' = 1 /\ ~Busy /\ Live
        /\ todo # <<>> /\ todo' = Tail(todo) /\ build' = build /\ dst' = dst
        /\ placed' = [k \in 1..Len(src'.chunks) |-> 0]
    BY DEF Begin, Pass, Busy, Live
  <1>2. PlacedChunks = {} /\ PlacedChunks' = {}
    BY <1>1 DEF PlacedChunks
  <1>3. Done' = Done
    <2>1. todo \in Seq(Module) /\ Len(todo) \in Nat
      BY DEF Typed
    <2>2. Len(todo') = Len(todo) - 1 /\ Len(build.plan) \in Nat
      BY <1>1, <2>1, LinkAssumption DEF Typed
    <2>. QED
      BY <1>1, <2>1, <2>2 DEF Done, Current
  <1>4. NamesOnce(dst.chunks)'
    BY <1>1 DEF ChunkNames, NamesOnce
  <1>5. AllKnown'
    <2>1. \A a \in 1..Len(dst.chunks) : IsOld(a)
      BY <1>1, <1>2 DEF ChunkNames, AllKnown
    <2>2. \A a : IsOld(a) => IsOld(a)'
      BY <1>1, <1>3 DEF IsOld, ComesFrom
    <2>. QED
      BY <1>1, <2>1, <2>2 DEF AllKnown
  <1>. QED
    BY <1>1, <1>2, <1>3, <1>4, <1>5
       DEF ChunkNames, PlacesKnown, InitialisersOnce, NoneAhead

LEMMA MergedNames ==
  ASSUME SeparateBuilds, Typed, Where, ChunkNames, Merged
  PROVE  /\ ChunkNames' /\ PlacedChunks' = {} /\ Done' = Done + 1 /\ ~Busy'
         /\ UNCHANGED <<build, dst>>
  <1>1. /\ phase = "methods" /\ phase' = "idle" /\ Busy /\ ~Busy' /\ Live
        /\ UNCHANGED <<build, dst, src, todo, placed>>
    BY DEF Merged, Busy, Live
  <1>2. PlacedChunks' = {}
    BY <1>1 DEF PlacedChunks
  <1>3. /\ Current \in 1..Len(build.plan) /\ Done = Current - 1 /\ src = build.plan[Current]
        /\ Len(build.plan) \in Nat
    BY <1>1, PartFacts, LinkAssumption DEF Typed, Where
  <1>4. Done' = Current /\ Current = Done + 1
    BY <1>1, <1>3 DEF Done, Current
  <1>5. NamesOnce(dst.chunks)'
    BY <1>1 DEF ChunkNames, NamesOnce
  <1>6. ASSUME NEW a \in 1..Len(dst.chunks) PROVE IsOld(a)'
    <2>1. CASE IsOld(a)
      <3>1. \A n \in 1..Done : n \in 1..Done'
        BY <1>3, <1>4
      <3>. QED
        BY <2>1, <3>1, <1>1 DEF IsOld, ComesFrom
    <2>2. CASE \E k \in PlacedChunks : FnRemap(k) = a
      <3>1. PICK k \in PlacedChunks : FnRemap(k) = a
        BY <2>2
      <3>2. Named(k, a) /\ Len(dst.chunks[a].code) = Len(src.chunks[k].code)
        BY <1>1, <3>1 DEF ChunkNames, PlacesKnown
      <3>3. PICK c \in Chunks(src) : c = src.chunks[k]
        BY DEF PlacedChunks, Chunks
      <3>4. ComesFrom(a, c)
        BY <3>2, <3>3 DEF ComesFrom, Named, NamedIn
      <3>5. PICK n \in 1..Done' : n = Current
        BY <1>3, <1>4
      <3>6. c \in Chunks(build.plan[n])
        BY <1>3, <3>3, <3>5
      <3>. QED
        BY <1>1, <3>4, <3>5, <3>6 DEF IsOld, ComesFrom
    <2>. QED
      BY <1>1, <2>1, <2>2 DEF ChunkNames, AllKnown
  <1>7. AllKnown'
    BY <1>1, <1>6 DEF AllKnown
  <1>. QED
    BY <1>1, <1>2, <1>4, <1>5, <1>7
       DEF ChunkNames, PlacesKnown, InitialisersOnce, NoneAhead

\* Sealing and stuttering change no name.
LEMMA IdleNames ==
  ASSUME Typed, Typed', ChunkNames, Seal \/ UNCHANGED vars, Live'
  PROVE  /\ ChunkNames' /\ Live /\ PlacedChunks' = PlacedChunks /\ Done' = Done
         /\ dst'.chunks = dst.chunks /\ dst'.classes = dst.classes
         /\ UNCHANGED <<build, src, placed, todo, phase, i>>
         /\ \A k \in PlacedChunks : FnRemap(k)' = FnRemap(k)
  <1>1. /\ UNCHANGED <<build, src, placed, todo, i>>
        /\ phase' = phase
    BY DEF Seal, vars, Live, Busy
  <1>2. dst'.chunks = dst.chunks /\ dst'.classes = dst.classes
    BY DEF Seal, vars, Typed, Module
  <1>3. Live /\ PlacedChunks' = PlacedChunks /\ Done' = Done
    BY <1>1 DEF Live, Busy, PlacedChunks, Done, Current
  <1>4. /\ NamesOnce(dst.chunks)' /\ PlacesKnown' /\ InitialisersOnce' /\ AllKnown'
        /\ \A k \in PlacedChunks : FnRemap(k)' = FnRemap(k)
    BY <1>1, <1>2, <1>3, NamesKept
  <1>5. NoneAhead'
    BY <1>1, <1>3 DEF ChunkNames, NoneAhead
  <1>. QED
    BY <1>1, <1>2, <1>3, <1>4, <1>5 DEF ChunkNames

LEMMA AlwaysNames ==
  ASSUME SeparateBuilds
  PROVE  Spec => []ChunkNames
  <1>1. Typed /\ Init => ChunkNames
    BY InitNames
  <1>2. Typed /\ Typed' /\ Where /\ ChunkNames /\ [Next]_vars => ChunkNames'
    <2>. SUFFICES ASSUME Typed, Typed', Where, ChunkNames, [Next]_vars, Live'
                  PROVE  ChunkNames'
      BY DEF ChunkNames
    <2>1. CASE Begin
      <3>1. Busy'
        BY <2>1 DEF Begin, Pass, Live
      <3>. QED
        BY <2>1, <3>1, BeginNames
    <2>2. CASE AddChunk
      <3>1. PICK j \in Nat : j = i
        BY DEF Typed
      <3>. QED
        BY <2>2, <3>1, AddChunkNames
    <2>3. CASE ChunksDone \/ AddClass \/ ClassesDone \/ RemapChunk \/ RemapDone \/ FixClass
      BY <2>3, LaterNames
    <2>4. CASE Merged
      BY <2>4, MergedNames
    <2>5. CASE MergeFails
      BY <2>5 DEF MergeFails, Live, Busy
    <2>6. CASE Seal \/ UNCHANGED vars
      BY <2>6, IdleNames
    <2>. QED
      BY <2>1, <2>2, <2>3, <2>4, <2>5, <2>6 DEF Next, Merge
  <1>. QED
    BY <1>1, <1>2, AlwaysTyped, AlwaysWhere, PTL DEF Spec

\* No two chunks of src have the same place.
LEMMA PlacesApart ==
  ASSUME SeparateBuilds, Typed, Where, ChunkNames, NEW k \in PlacedChunks, NEW l \in PlacedChunks,
         FnRemap(k) = FnRemap(l)
  PROVE  k = l
  <1>1. Busy /\ Live /\ k \in 1..Len(src.chunks) /\ l \in 1..Len(src.chunks)
    BY DEF PlacedChunks, Live
  <1>2. PICK a \in 1..Len(dst.chunks) : a = FnRemap(k) /\ Named(k, a) /\ Named(l, a)
    BY <1>1 DEF ChunkNames, PlacesKnown, Named, NamedIn
  <1>3. /\ Current \in 1..Len(build.plan) /\ Sound(src)
        /\ src.chunks[k] \in Chunks(build.plan[Current])
        /\ src.chunks[l] \in Chunks(build.plan[Current])
    BY <1>1, PartFacts DEF Chunks, Where
  <1>4. src.chunks[k].name = Sinit <=> src.chunks[l].name = Sinit
    <2>1. CASE src.chunks[k].name = Sinit
      BY <2>1, <1>2, <1>3, NoNumbers, NumberedIsNumbered DEF Named, NamedIn
    <2>2. CASE src.chunks[l].name = Sinit
      BY <2>2, <1>2, <1>3, NoNumbers, NumberedIsNumbered DEF Named, NamedIn
    <2>. QED
      BY <2>1, <2>2
  <1>5. CASE src.chunks[k].name = Sinit
    <2>1. placed[k] = placed[l] /\ placed[k] # 0
      BY <1>2, <1>4, <1>5 DEF Named, NamedIn
    <2>. QED
      BY <1>1, <2>1 DEF ChunkNames, InitialisersOnce
  <1>6. CASE src.chunks[k].name # Sinit
    <2>1. src.chunks[k].name = src.chunks[l].name
      BY <1>2, <1>4, <1>6 DEF Named, NamedIn
    <2>. QED
      BY <1>1, <1>3, <1>6, <2>1 DEF Sound
  <1>. QED
    BY <1>5, <1>6

(***************************************************************************)
(* The names of the classes                                                *)
(***************************************************************************)
PlacedClasses ==
    {k \in 1..Len(src.classes) : Busy /\ phase # "chunks" /\ (phase = "classes" => k < i)}

ClassesOnce(table) == \A a, b \in 1..Len(table) : table[a].name = table[b].name => a = b

\* class came from the class from, whatever was done to its indices since
Kin(class, from) ==
    /\ class.name = from.name /\ class.ctor.name = from.ctor.name
    /\ Hollow(class) <=> Hollow(from)

OldClass(class) == \E n \in 0..Done : \E from \in Classes(Part(build, n)) : Kin(class, from)

ClassesKnown ==
    \A a \in 1..Len(dst.classes) :
      OldClass(dst.classes[a]) \/ \E k \in PlacedClasses : Kin(dst.classes[a], src.classes[k])

ClassesFound == Fits => \A k \in PlacedClasses : ClassRemap(k) # 0

ClassNames == Live => ClassesOnce(dst.classes) /\ ClassesKnown /\ ClassesFound

\* A build has finitely many classes, under finitely many names.
LEMMA FiniteNames ==
  ASSUME Typed
  PROVE  IsFiniteSet({class.name : class \in AllClasses})
  <1>1. build.start \in Module /\ build.plan \in Seq(Module) /\ Len(build.plan) \in Nat
    BY LinkAssumption DEF Typed
  <1>2. ASSUME NEW m \in Module PROVE IsFiniteSet(Classes(m))
    <2>. DEFINE f == [k \in 1..Len(m.classes) |-> m.classes[k]]
    <2>1. f \in Surjection(1..Len(m.classes), Classes(m))
      BY DEF Classes, Surjection
    <2>2. IsFiniteSet(1..Len(m.classes))
      BY ModuleFacts, FS_Interval
    <2>. HIDE DEF f
    <2>. QED
      BY <2>1, <2>2, FS_Surjection
  <1>3. IsFiniteSet({Classes(build.plan[n]) : n \in 1..Len(build.plan)})
    <2>. DEFINE S == {Classes(build.plan[n]) : n \in 1..Len(build.plan)}
                f == [n \in 1..Len(build.plan) |-> Classes(build.plan[n])]
    <2>1. f \in Surjection(1..Len(build.plan), S)
      BY DEF Surjection
    <2>2. IsFiniteSet(1..Len(build.plan))
      BY <1>1, FS_Interval
    <2>. HIDE DEF f, S
    <2>3. IsFiniteSet(S)
      BY <2>1, <2>2, FS_Surjection
    <2>. QED
      BY <2>3 DEF S
  <1>4. IsFiniteSet(AllClasses)
    <2>1. \A T \in {Classes(build.plan[n]) : n \in 1..Len(build.plan)} : IsFiniteSet(T)
      BY <1>1, <1>2
    <2>2. IsFiniteSet(UNION {Classes(build.plan[n]) : n \in 1..Len(build.plan)})
      BY <1>3, <2>1, FS_UNION
    <2>. QED
      BY <1>1, <1>2, <2>2, FS_Union DEF AllClasses
  <1>. DEFINE N == {class.name : class \in AllClasses}
              f == [class \in AllClasses |-> class.name]
  <1>5. f \in Surjection(AllClasses, N)
    BY DEF Surjection
  <1>. HIDE DEF f, N
  <1>6. IsFiniteSet(N)
    BY <1>4, <1>5, FS_Surjection
  <1>. QED
    BY <1>6 DEF N

\* The class table is never full where a class of a build that fits is still missing.
LEMMA RoomForClass ==
  ASSUME SeparateBuilds, Typed, Where, ClassNames, phase = "classes", i \in 1..Len(src.classes),
         ClassRemap(i) = 0, Fits
  PROVE  ClassRoom
  <1>. DEFINE N == {class.name : class \in AllClasses}
  <1>0. PICK n \in Nat : n = Len(dst.classes)
    BY ModuleFacts DEF Typed
  <1>. DEFINE f == [a \in 1..(n + 1) |-> IF a = n + 1 THEN src.classes[i].name
                                         ELSE dst.classes[a].name]
  <1>1. /\ Busy /\ Live /\ n <= MaxClasses /\ MaxClasses \in Nat
        /\ Len(src.classes) \in Nat /\ n = Len(dst.classes)
    BY <1>0, ModuleFacts, LinkAssumption DEF Busy, Live, Typed
  <1>2. /\ Current \in 1..Len(build.plan) /\ src = build.plan[Current] /\ Done = Current - 1
        /\ Len(build.plan) \in Nat
    BY <1>1, PartFacts, LinkAssumption DEF Where, Typed
  <1>3. \A m \in 0..Done : \A from \in Classes(Part(build, m)) : from.name \in N
    <2>1. \A m \in 0..Done : Part(build, m) = build.start \/
                             \E p \in 1..Len(build.plan) : Part(build, m) = build.plan[p]
      BY <1>2 DEF Part
    <2>. QED
      BY <2>1 DEF AllClasses
  <1>4. \A k \in 1..Len(src.classes) : src.classes[k].name \in N
    BY <1>2 DEF AllClasses, Classes
  <1>5. \A a \in 1..n : dst.classes[a].name \in N
    <2>. SUFFICES ASSUME NEW a \in 1..n PROVE dst.classes[a].name \in N
      OBVIOUS
    <2>1. CASE OldClass(dst.classes[a])
      BY <2>1, <1>3 DEF OldClass, Kin
    <2>2. CASE \E k \in PlacedClasses : Kin(dst.classes[a], src.classes[k])
      BY <2>2, <1>4 DEF PlacedClasses, Kin
    <2>. QED
      BY <1>1, <2>1, <2>2 DEF ClassNames, ClassesKnown
  <1>6. \A a \in 1..n : dst.classes[a].name # src.classes[i].name
    BY <1>1, FindFacts DEF ClassRemap
  <1>7. f \in Injection(1..(n + 1), N)
    <2>1. f \in [1..(n + 1) -> N]
      BY <1>1, <1>4, <1>5
    <2>2. ASSUME NEW a \in 1..(n + 1), NEW b \in 1..(n + 1), f[a] = f[b] PROVE a = b
      <3>1. ClassesOnce(dst.classes)
        BY <1>1 DEF ClassNames
      <3>2. CASE a \in 1..n /\ b \in 1..n
        <4>1. dst.classes[a].name = dst.classes[b].name
          BY <2>2, <3>2
        <4>. QED
          BY <3>1, <3>2, <4>1, <1>1 DEF ClassesOnce
      <3>3. CASE a \in 1..n /\ b = n + 1
        BY <2>2, <3>3, <1>6
      <3>4. CASE b \in 1..n /\ a = n + 1
        BY <2>2, <3>4, <1>6
      <3>. QED
        BY <3>2, <3>3, <3>4
    <2>. HIDE DEF f, N
    <2>. QED
      BY <2>1, <2>2, Zenon DEF Injection, IsInjective
  <1>8. IsFiniteSet(N)
    BY FiniteNames
  <1>9. Cardinality(1..(n + 1)) = n + 1 /\ Cardinality(N) \in Nat
    <2>1. Cardinality(1..(n + 1)) = IF 1 > n + 1 THEN 0 ELSE (n + 1) - 1 + 1
      BY FS_Interval
    <2>2. Cardinality(1..(n + 1)) = n + 1
      BY <2>1
    <2>. HIDE DEF N
    <2>. QED
      BY <1>8, <2>2, FS_CardinalityType
  <1>10. n + 1 <= Cardinality(N)
    <2>. HIDE DEF f, N
    <2>1. Cardinality(1..(n + 1)) <= Cardinality(N)
      BY <1>7, <1>8, FS_Injection
    <2>. QED
      BY <1>9, <2>1
  <1>11. Cardinality(N) <= MaxClasses
    BY DEF Fits
  <1>. HIDE DEF N
  <1>. QED
    BY <1>1, <1>9, <1>10, <1>11 DEF ClassRoom

\* The second loop: class i of src is there, or fills its namesake, or is added.
LEMMA AddClassStep ==
  ASSUME Typed, AddClass, NEW at \in 0..Len(dst.classes),
         at = Find(dst.classes, src.classes[i].name)
  PROVE  /\ phase = "classes" /\ i \in 1..Len(src.classes) /\ i' = i + 1
         /\ UNCHANGED <<build, src, todo, phase, placed>> /\ dst'.chunks = dst.chunks
         /\ (at # 0 /\ ~Fills(src.classes[i], at)) => dst'.classes = dst.classes
         /\ (at # 0 /\ Fills(src.classes[i], at)) =>
              /\ Len(dst'.classes) = Len(dst.classes) /\ dst'.classes[at] = src.classes[i]
              /\ \A a \in 1..Len(dst.classes) : a # at => dst'.classes[a] = dst.classes[a]
         /\ (at = 0 /\ ClassRoom) =>
              /\ Len(dst'.classes) = Len(dst.classes) + 1
              /\ dst'.classes[Len(dst.classes) + 1] = src.classes[i]
              /\ \A a \in 1..Len(dst.classes) : dst'.classes[a] = dst.classes[a]
         /\ (at = 0 /\ ~ClassRoom) => dst'.classes = dst.classes
  <1>1. /\ phase = "classes" /\ i <= Len(src.classes) /\ i' = i + 1
        /\ UNCHANGED <<build, src, todo, phase, placed>>
        /\ dst' = WithClass(src.classes[i])
    BY DEF AddClass
  <1>2. /\ i \in 1..Len(src.classes) /\ src.classes[i] \in ClassType /\ dst \in Module
        /\ Len(dst.classes) \in Nat
    <2>1. i \in 1..(Len(src.classes) + 1) /\ i <= Len(src.classes) /\ dst \in Module
      BY <1>1 DEF Typed
    <2>2. Len(src.classes) \in Nat /\ Len(dst.classes) \in Nat
      BY ModuleFacts DEF Typed
    <2>3. i \in 1..Len(src.classes)
      BY <2>1, <2>2
    <2>. QED
      BY <2>1, <2>2, <2>3, ModuleFacts DEF Typed
  <1>3. dst'.chunks = dst.chunks
    BY <1>1, <1>2, WithClassTyped DEF Typed
  <1>4. CASE at # 0 /\ Fills(src.classes[i], at)
    <2>1. at \in 1..Len(dst.classes)
      BY <1>2, <1>4
    <2>2. dst' = [dst EXCEPT !.classes[at] = src.classes[i]]
      BY <1>1, <1>4 DEF WithClass
    <2>3. /\ Len(dst'.classes) = Len(dst.classes) /\ dst'.classes[at] = src.classes[i]
          /\ \A a \in 1..Len(dst.classes) : a # at => dst'.classes[a] = dst.classes[a]
      BY <1>2, <2>1, <2>2, ChangedClass
    <2>. QED
      BY <1>1, <1>2, <1>3, <1>4, <2>3
  <1>5. CASE at = 0 /\ ClassRoom
    <2>1. dst' = [dst EXCEPT !.classes = Append(@, src.classes[i])]
      BY <1>1, <1>5 DEF WithClass
    <2>2. /\ Len(dst'.classes) = Len(dst.classes) + 1
          /\ dst'.classes[Len(dst.classes) + 1] = src.classes[i]
          /\ \A a \in 1..Len(dst.classes) : dst'.classes[a] = dst.classes[a]
      BY <1>2, <2>1, AddedClass
    <2>. QED
      BY <1>1, <1>2, <1>3, <1>5, <2>2
  <1>6. CASE (at # 0 /\ ~Fills(src.classes[i], at)) \/ (at = 0 /\ ~ClassRoom)
    <2>1. dst' = dst
      BY <1>1, <1>6 DEF WithClass
    <2>. QED
      BY <1>1, <1>2, <1>3, <1>6, <2>1
  <1>. QED
    BY <1>4, <1>5, <1>6

\* What is found in a table is found there in a table that has grown from it.
LEMMA FindKept ==
  ASSUME NEW t, NEW u, Len(t) \in Nat, Len(u) \in Nat, Len(t) <= Len(u), ClassesOnce(u),
         NEW name, Find(t, name) # 0, u[Find(t, name)].name = t[Find(t, name)].name
  PROVE  Find(u, name) = Find(t, name)
  <1>1. Find(t, name) \in 1..Len(u) /\ u[Find(t, name)].name = name
    <2>1. Find(t, name) \in 0..Len(t) /\ t[Find(t, name)].name = name
      BY FindFacts
    <2>. QED
      BY <2>1
  <1>2. Find(u, name) \in 1..Len(u) /\ u[Find(u, name)].name = name
    BY <1>1, FindFacts
  <1>. QED
    BY <1>1, <1>2 DEF ClassesOnce

\* What keeps the names of the classes and of their constructors, and which of them
\* are hollow, keeps what is known of them.
LEMMA ClassesKept ==
  ASSUME Typed, Typed', Live, Live', ClassNames, UNCHANGED <<build, src>>, Done' = Done,
         PlacedClasses' = PlacedClasses,
         Len(dst'.classes) = Len(dst.classes),
         \A a \in 1..Len(dst.classes) : Kin(dst'.classes[a], dst.classes[a])
  PROVE  ClassNames' /\ \A k \in PlacedClasses : Fits => ClassRemap(k)' = ClassRemap(k)
  <1>1. /\ ClassesOnce(dst.classes) /\ ClassesKnown /\ ClassesFound /\ Len(dst.classes) \in Nat
    BY ModuleFacts DEF ClassNames, Typed
  <1>2. \A a \in 1..Len(dst.classes) : dst'.classes[a].name = dst.classes[a].name
    BY DEF Kin
  <1>3. ClassesOnce(dst'.classes)
    BY <1>1, <1>2 DEF ClassesOnce
  <1>4. ASSUME NEW k \in PlacedClasses, Fits
        PROVE  ClassRemap(k)' = ClassRemap(k) /\ ClassRemap(k) # 0
    <2>1. PICK name : name = src.classes[k].name
      OBVIOUS
    <2>2. Find(dst.classes, name) # 0 /\ Find(dst.classes, name) \in 0..Len(dst.classes)
      BY <1>1, <1>4, <2>1, FindFacts DEF ClassesFound, ClassRemap
    <2>3. Find(dst.classes, name) \in 1..Len(dst.classes)
      BY <1>1, <2>2
    <2>4. Find(dst'.classes, name) = Find(dst.classes, name)
      BY <1>1, <1>2, <1>3, <2>2, <2>3, FindKept
    <2>. QED
      BY <2>1, <2>2, <2>4 DEF ClassRemap
  <1>5. ClassesFound'
    BY <1>4 DEF ClassesFound, Fits, AllClasses
  <1>6. ClassesKnown'
    <2>. SUFFICES ASSUME NEW a \in 1..Len(dst'.classes)
                  PROVE  \/ OldClass(dst.classes[a])'
                         \/ \E k \in PlacedClasses' : Kin(dst'.classes[a], src'.classes[k])
      BY DEF ClassesKnown
    <2>1. \A from : Kin(dst.classes[a], from) => Kin(dst'.classes[a], from)
      BY DEF Kin
    <2>2. CASE OldClass(dst.classes[a])
      BY <2>1, <2>2 DEF OldClass, Part
    <2>3. CASE \E k \in PlacedClasses : Kin(dst.classes[a], src.classes[k])
      BY <2>1, <2>3
    <2>. QED
      BY <1>1, <2>2, <2>3 DEF ClassesKnown
  <1>. QED
    BY <1>3, <1>4, <1>5, <1>6 DEF ClassNames

LEMMA KinOfItself == \A class : Kin(class, class)
  BY DEF Kin

\* The fourth loop changes indices only.
LEMMA FixedKin ==
  ASSUME Typed, NEW class \in ClassType, NEW from \in ClassType
  PROVE  Kin(Fixed(class, from), class)
  <1>1. /\ Fixed(class, from) \in ClassType /\ Fixed(class, from).name = class.name
        /\ Len(Fixed(class, from).methods) = Len(class.methods)
        /\ Fixed(class, from).ctor = Renamed(class.ctor, from.ctor)
    BY FixedTyped
  <1>2. class.ctor \in Refs({"fn"}) /\ from.ctor \in Refs({"fn"})
    BY DEF ClassType
  <1>3. Fixed(class, from).ctor.name = class.ctor.name
    BY <1>1, <1>2, RenamedTyped
  <1>4. \A d \in ClassType : Hollow(d) <=> Len(d.methods) = 0
    <2>1. \A d \in ClassType : d.methods \in Seq(Refs({"fn"}))
      BY DEF ClassType
    <2>. QED
      BY <2>1 DEF Hollow
  <1>. QED
    BY <1>1, <1>3, <1>4 DEF Kin

LEMMA InitClasses == ASSUME SeparateBuilds, Typed, Init PROVE ClassNames
  <1>1. /\ dst = build.start /\ phase = "idle" /\ ~Busy /\ PlacedClasses = {} /\ todo = build.plan
    BY DEF Init, Busy, PlacedClasses
  <1>2. Sound(build.start) /\ Len(build.plan) \in Nat
    <2>1. build \in Builds /\ Separate(build) /\ Len(build.plan) \in Nat
      BY LinkAssumption DEF Typed, SeparateBuilds
    <2>2. Sound(Part(build, 0))
      BY <2>1 DEF Separate
    <2>. QED
      BY <2>1, <2>2 DEF Part
  <1>3. ClassesOnce(dst.classes)
    BY <1>1, <1>2 DEF Sound, ClassesOnce
  <1>4. 0 \in 0..Done /\ Part(build, 0) = build.start
    BY <1>1, <1>2 DEF Done, Current, Part
  <1>5. \A a \in 1..Len(dst.classes) : dst.classes[a] \in Classes(Part(build, 0))
    BY <1>1, <1>4 DEF Classes
  <1>6. ClassesKnown
    BY <1>4, <1>5, KinOfItself DEF ClassesKnown, OldClass
  <1>. QED
    BY <1>1, <1>3, <1>6 DEF ClassNames, ClassesFound

\* The second loop keeps every class name once, and has a place for every class it
\* has seen.
LEMMA AddClassNames ==
  ASSUME SeparateBuilds, Typed, Typed', Where, ClassNames, AddClass, NEW j \in Nat, j = i
  PROVE  /\ ClassNames' /\ \A k \in PlacedClasses : Fits => ClassRemap(k)' = ClassRemap(k)
         /\ j \in 1..Len(src.classes) /\ j \notin PlacedClasses
         /\ PlacedClasses' = PlacedClasses \cup {j} /\ Done' = Done
         /\ UNCHANGED <<build, src, placed>> /\ dst'.chunks = dst.chunks
         /\ Len(dst.classes) <= Len(dst'.classes)
         /\ \A a \in 1..Len(dst.classes) :
              \/ dst'.classes[a] = dst.classes[a]
              \/ /\ dst'.classes[a] = src.classes[j] /\ dst.classes[a].name = src.classes[j].name
         /\ \A a \in 1..Len(dst'.classes) : a \in 1..Len(dst.classes) \/ dst'.classes[a] = src.classes[j]
         /\ Fits => \/ dst'.classes[ClassRemap(j)'] = src.classes[j]
                    \/ /\ ClassRemap(j)' \in 1..Len(dst.classes)
                       /\ dst'.classes[ClassRemap(j)'] = dst.classes[ClassRemap(j)']
                       /\ ~Fills(src.classes[j], ClassRemap(j)')
  <1>. DEFINE c == src.classes[j]
  <1>1. PICK at \in 0..Len(dst.classes) : at = Find(dst.classes, c.name)
    BY FindFacts, ModuleFacts DEF Typed
  <1>2. PICK L \in Nat : L = Len(dst.classes)
    BY ModuleFacts DEF Typed
  <1>3. /\ phase = "classes" /\ j \in 1..Len(src.classes) /\ i' = j + 1
        /\ UNCHANGED <<build, src, todo, phase, placed>> /\ dst'.chunks = dst.chunks
        /\ (at # 0 /\ ~Fills(c, at)) => dst'.classes = dst.classes
        /\ (at # 0 /\ Fills(c, at)) =>
              /\ Len(dst'.classes) = L /\ dst'.classes[at] = c
              /\ \A a \in 1..L : a # at => dst'.classes[a] = dst.classes[a]
        /\ (at = 0 /\ ClassRoom) =>
              /\ Len(dst'.classes) = L + 1 /\ dst'.classes[L + 1] = c
              /\ \A a \in 1..L : dst'.classes[a] = dst.classes[a]
        /\ (at = 0 /\ ~ClassRoom) => dst'.classes = dst.classes
    BY <1>1, <1>2, AddClassStep
  <1>4. /\ Busy /\ Live /\ Busy' /\ Live' /\ Done' = Done /\ src' = src /\ build' = build
        /\ Len(src.classes) \in Nat /\ phase' = "classes"
    BY <1>3, ModuleFacts DEF Busy, Live, Done, Current, Typed
  <1>5. /\ PlacedClasses' = PlacedClasses \cup {j} /\ j \notin PlacedClasses
        /\ PlacedClasses \subseteq 1..Len(src.classes)
    <2>1. PlacedClasses = 1..(j - 1)
      BY <1>3, <1>4 DEF PlacedClasses
    <2>2. PlacedClasses' = 1..j
      BY <1>3, <1>4 DEF PlacedClasses
    <2>. QED
      BY <1>3, <1>4, <2>1, <2>2
  <1>6. /\ ClassesOnce(dst.classes) /\ ClassesKnown /\ ClassesFound
        /\ at # 0 => at \in 1..L /\ dst.classes[at].name = c.name
        /\ at = 0 => \A a \in 1..L : dst.classes[a].name # c.name
    BY <1>1, <1>2, <1>4, FindFacts DEF ClassNames
  <1>7. /\ L <= Len(dst'.classes) /\ Len(dst'.classes) \in Nat
        /\ \A a \in 1..L :
              \/ dst'.classes[a] = dst.classes[a]
              \/ dst'.classes[a] = c /\ dst.classes[a].name = c.name
        /\ \A a \in 1..Len(dst'.classes) : a \in 1..L \/ (a = L + 1 /\ at = 0 /\ dst'.classes[a] = c)
    <2>. HIDE DEF c
    <2>1. CASE dst'.classes = dst.classes
      BY <1>2, <2>1
    <2>2. CASE at # 0 /\ Fills(c, at)
      <3>1. at \in 1..L /\ dst.classes[at].name = c.name
        BY <1>6, <2>2
      <3>2. /\ Len(dst'.classes) = L /\ dst'.classes[at] = c
            /\ \A a \in 1..L : a # at => dst'.classes[a] = dst.classes[a]
        BY <1>3, <2>2
      <3>. QED
        BY <3>1, <3>2
    <2>3. CASE at = 0 /\ ClassRoom
      BY <1>2, <1>3, <2>3
    <2>. QED
      BY <1>3, <2>1, <2>2, <2>3
  <1>8. \A a \in 1..L : dst'.classes[a].name = dst.classes[a].name
    BY <1>7
  <1>9. ClassesOnce(dst'.classes)
    <2>. SUFFICES ASSUME NEW a \in 1..Len(dst'.classes), NEW b \in 1..Len(dst'.classes),
                         dst'.classes[a].name = dst'.classes[b].name
                  PROVE  a = b
      BY DEF ClassesOnce
    <2>. HIDE DEF c
    <2>1. CASE a \in 1..L /\ b \in 1..L
      BY <1>2, <1>6, <1>8, <2>1 DEF ClassesOnce
    <2>2. CASE a \in 1..L /\ b = L + 1 /\ at = 0 /\ dst'.classes[b] = c
      BY <1>6, <1>8, <2>2
    <2>3. CASE b \in 1..L /\ a = L + 1 /\ at = 0 /\ dst'.classes[a] = c
      BY <1>6, <1>8, <2>3
    <2>. QED
      BY <1>7, <2>1, <2>2, <2>3
  <1>10. ASSUME NEW k \in PlacedClasses, Fits
         PROVE  ClassRemap(k)' = ClassRemap(k) /\ ClassRemap(k) # 0
    <2>1. PICK name : name = src.classes[k].name
      OBVIOUS
    <2>2. Find(dst.classes, name) # 0 /\ Find(dst.classes, name) \in 0..L
      BY <1>2, <1>6, <1>10, <2>1, FindFacts DEF ClassesFound, ClassRemap
    <2>3. Find(dst.classes, name) \in 1..L
      BY <2>2
    <2>4. Find(dst'.classes, name) = Find(dst.classes, name)
      BY <1>2, <1>7, <1>8, <1>9, <2>2, <2>3, FindKept
    <2>. QED
      BY <1>4, <2>1, <2>2, <2>4 DEF ClassRemap
  <1>11. ASSUME Fits
         PROVE  /\ ClassRemap(j)' # 0
                /\ \/ dst'.classes[ClassRemap(j)'] = c
                   \/ /\ ClassRemap(j)' \in 1..L
                      /\ dst'.classes[ClassRemap(j)'] = dst.classes[ClassRemap(j)']
                      /\ ~Fills(c, ClassRemap(j)')
    <2>1. ClassRemap(j)' = Find(dst'.classes, c.name)
      BY <1>4 DEF ClassRemap
    <2>2. CASE at # 0
      <3>1. Find(dst'.classes, c.name) = at
        BY <1>1, <1>2, <1>6, <1>7, <1>8, <1>9, <2>2, FindKept
      <3>. HIDE DEF c
      <3>2. CASE Fills(c, at)
        BY <1>3, <2>1, <2>2, <3>1, <3>2
      <3>3. CASE ~Fills(c, at)
        BY <1>3, <1>6, <2>1, <2>2, <3>1, <3>3
      <3>. QED
        BY <3>2, <3>3
    <2>3. CASE at = 0
      <3>1. ClassRoom
        <4>1. ClassRemap(i) = 0 /\ i \in 1..Len(src.classes)
          BY <1>1, <1>3, <2>3 DEF ClassRemap
        <4>. QED
          BY <1>3, <1>11, <4>1, RoomForClass
      <3>2. PICK b \in 1..Len(dst'.classes) : b = L + 1 /\ dst'.classes[b] = c
        BY <1>3, <2>3, <3>1
      <3>3. \A a \in 1..Len(dst'.classes) : dst'.classes[a].name = dst'.classes[b].name => a = b
        BY <1>9, <3>2 DEF ClassesOnce
      <3>4. Find(dst'.classes, dst'.classes[b].name) = b
        BY <1>7, <3>2, <3>3, FindOnce
      <3>. QED
        BY <2>1, <3>2, <3>4
    <2>. QED
      BY <2>2, <2>3
  <1>12. ClassesFound'
    BY <1>4, <1>5, <1>10, <1>11 DEF ClassesFound, Fits, AllClasses
  <1>13. ClassesKnown'
    <2>. SUFFICES ASSUME NEW a \in 1..Len(dst'.classes)
                  PROVE  \/ OldClass(dst.classes[a])'
                         \/ \E k \in PlacedClasses' : Kin(dst'.classes[a], src'.classes[k])
      BY DEF ClassesKnown
    <2>1. CASE dst'.classes[a] = c
      BY <1>4, <1>5, <2>1, KinOfItself
    <2>2. CASE a \in 1..L /\ dst'.classes[a] = dst.classes[a]
      <3>1. OldClass(dst.classes[a]) => OldClass(dst.classes[a])'
        BY <1>4, <2>2 DEF OldClass, Part
      <3>. QED
        BY <1>2, <1>4, <1>5, <1>6, <2>2, <3>1 DEF ClassesKnown
    <2>. QED
      BY <1>7, <2>1, <2>2
  <1>14. ClassNames'
    BY <1>9, <1>12, <1>13 DEF ClassNames
  <1>. QED
    BY <1>2, <1>3, <1>4, <1>5, <1>7, <1>10, <1>11, <1>14

\* The other steps of a merge change no name of a class.
LEMMA LaterClasses ==
  ASSUME SeparateBuilds, Typed, Typed', Where, ChunkNames, ClassNames,
         AddChunk \/ ChunksDone \/ ClassesDone \/ RemapChunk \/ RemapDone \/ FixClass
  PROVE  /\ ClassNames' /\ PlacedClasses' = PlacedClasses /\ Done' = Done
         /\ UNCHANGED <<build, src>>
         /\ Len(dst'.classes) = Len(dst.classes)
         /\ \A a \in 1..Len(dst.classes) : Kin(dst'.classes[a], dst.classes[a])
         /\ \A k \in PlacedClasses : Fits => ClassRemap(k)' = ClassRemap(k)
         /\ ~FixClass => dst'.classes = dst.classes
  <1>1. /\ Busy /\ Live /\ Busy' /\ Live' /\ UNCHANGED <<build, src, todo>>
        /\ phase = "chunks" => (phase' = "chunks" \/ (phase' = "classes" /\ i' = 1))
        /\ phase = "classes" => phase' = "remap" /\ i > Len(src.classes)
        /\ phase \in {"remap", "methods"} => phase' \in {"remap", "methods"}
        /\ phase \in {"chunks", "classes", "remap", "methods"}
    BY DEF AddChunk, ChunksDone, ClassesDone, RemapChunk, RemapDone, FixClass, Ends, Pass,
           Busy, Live
  <1>2. /\ Len(src.classes) \in Nat /\ i \in Nat /\ dst \in Module /\ Len(dst.classes) \in Nat
    BY ModuleFacts DEF Typed
  <1>3. Done' = Done
    BY <1>1 DEF Done, Current
  <1>4. PlacedClasses' = PlacedClasses
    <2>1. CASE phase = "chunks"
      <3>1. PlacedClasses = {} /\ PlacedClasses' = {}
        BY <1>1, <1>2, <2>1 DEF PlacedClasses
      <3>. QED
        BY <3>1
    <2>2. CASE phase = "classes"
      <3>1. PlacedClasses = 1..Len(src.classes) /\ PlacedClasses' = 1..Len(src.classes)
        BY <1>1, <1>2, <2>2 DEF PlacedClasses
      <3>. QED
        BY <3>1
    <2>3. CASE phase \in {"remap", "methods"}
      <3>1. PlacedClasses = 1..Len(src.classes) /\ PlacedClasses' = 1..Len(src.classes)
        BY <1>1, <1>2, <2>3 DEF PlacedClasses
      <3>. QED
        BY <3>1
    <2>. QED
      BY <1>1, <2>1, <2>2, <2>3
  <1>5. ~FixClass => dst'.classes = dst.classes
    <2>1. CASE AddChunk
      <3>1. PICK j \in Nat : j = i
        BY <1>2
      <3>. QED
        BY <2>1, <3>1, AddChunkNames
    <2>2. CASE ChunksDone \/ ClassesDone \/ RemapDone
      BY <2>2 DEF ChunksDone, ClassesDone, RemapDone, Ends
    <2>3. CASE RemapChunk
      <3>1. phase = "remap" /\ i <= Len(src.chunks)
        BY <2>3 DEF RemapChunk
      <3>2. i \in 1..(Len(src.chunks) + 1) /\ Len(src.chunks) \in Nat
        BY <3>1, ModuleFacts DEF Typed
      <3>3. Len(placed) = Len(src.chunks)
        BY <1>1 DEF Typed
      <3>4. i \in 1..Len(src.chunks)
        BY <3>1, <3>2
      <3>5. PICK at \in 0..Len(dst.chunks) : at = FnRemap(i)
        BY <3>3, <3>4, PlaceTyped
      <3>. QED
        BY <2>3, <3>5, RemapStep
    <2>. QED
      BY <2>1, <2>2, <2>3
  <1>6. /\ Len(dst'.classes) = Len(dst.classes)
        /\ \A a \in 1..Len(dst.classes) : Kin(dst'.classes[a], dst.classes[a])
    <2>1. CASE ~FixClass
      BY <1>5, <2>1, KinOfItself
    <2>2. CASE FixClass
      <3>1. PICK at \in 0..Len(dst.classes) : at = Find(dst.classes, src.classes[i].name)
        BY <1>2, FindFacts
      <3>2. /\ i \in 1..Len(src.classes) /\ Len(dst'.classes) = Len(dst.classes)
            /\ \A a \in 1..Len(dst.classes) : a # at => dst'.classes[a] = dst.classes[a]
            /\ at # 0 => dst'.classes[at] = Fixed(dst.classes[at], src.classes[i])
        BY <2>2, <3>1, FixStep
      <3>3. src.classes[i] \in ClassType
        BY <3>2, ModuleFacts DEF Typed
      <3>4. \A a \in 1..Len(dst.classes) : dst.classes[a] \in ClassType
        BY <1>2, ModuleFacts
      <3>5. \A a \in 1..Len(dst.classes) : Kin(Fixed(dst.classes[a], src.classes[i]), dst.classes[a])
        BY <3>3, <3>4, FixedKin
      <3>6. \A a \in 1..Len(dst.classes) : a # 0
        OBVIOUS
      <3>. QED
        BY <3>2, <3>5, <3>6, KinOfItself
    <2>. QED
      BY <2>1, <2>2
  <1>. QED
    BY <1>1, <1>3, <1>4, <1>5, <1>6, ClassesKept

LEMMA BeginClasses ==
  ASSUME Typed, Where, ChunkNames, ClassNames, Begin, Busy'
  PROVE  ClassNames' /\ PlacedClasses' = {}
  <1>1. /\ phase = "idle" /\ ~Busy /\ Live /\ phase' = "chunks" /\ Done' = Done
        /\ UNCHANGED <<build, dst>>
    BY BeginNames DEF Begin, Busy, Live
  <1>2. PlacedClasses = {} /\ PlacedClasses' = {}
    BY <1>1 DEF PlacedClasses
  <1>3. ClassesOnce(dst.classes)'
    BY <1>1 DEF ClassNames, ClassesOnce
  <1>4. ClassesKnown'
    <2>1. \A a \in 1..Len(dst.classes) : OldClass(dst.classes[a])
      BY <1>1, <1>2 DEF ClassNames, ClassesKnown
    <2>2. \A a : OldClass(dst.classes[a]) => OldClass(dst.classes[a])'
      BY <1>1 DEF OldClass, Part
    <2>. QED
      BY <1>1, <2>1, <2>2 DEF ClassesKnown
  <1>. QED
    BY <1>2, <1>3, <1>4 DEF ClassNames, ClassesFound

LEMMA MergedClasses ==
  ASSUME SeparateBuilds, Typed, Where, ChunkNames, ClassNames, Merged
  PROVE  ClassNames' /\ PlacedClasses' = {}
  <1>1. /\ phase = "methods" /\ Busy /\ Live /\ ~Busy' /\ Done' = Done + 1
        /\ UNCHANGED <<build, dst>>
    BY MergedNames DEF Merged, Busy, Live
  <1>2. /\ Current \in 1..Len(build.plan) /\ Done = Current - 1 /\ src = Part(build, Current)
        /\ Len(build.plan) \in Nat
    BY <1>1, PartFacts, LinkAssumption DEF Typed
  <1>3. PlacedClasses' = {}
    BY <1>1 DEF PlacedClasses
  <1>4. ClassesOnce(dst.classes)'
    BY <1>1 DEF ClassNames, ClassesOnce
  <1>5. PICK n \in 0..Done' : n = Current
    BY <1>1, <1>2
  <1>6. ASSUME NEW a \in 1..Len(dst.classes) PROVE OldClass(dst.classes[a])'
    <2>1. CASE OldClass(dst.classes[a])
      <3>1. \A m \in 0..Done : m \in 0..Done'
        BY <1>1, <1>2
      <3>. QED
        BY <2>1, <3>1, <1>1 DEF OldClass, Part
    <2>2. CASE \E k \in PlacedClasses : Kin(dst.classes[a], src.classes[k])
      <3>1. PICK k \in PlacedClasses : Kin(dst.classes[a], src.classes[k])
        BY <2>2
      <3>2. PICK from \in Classes(src) : from = src.classes[k]
        BY DEF PlacedClasses, Classes
      <3>3. from \in Classes(Part(build, n))
        BY <1>2, <1>5, <3>2
      <3>4. Kin(dst.classes[a], from)
        BY <3>1, <3>2
      <3>. QED
        BY <1>1, <3>3, <3>4 DEF OldClass, Part
    <2>. QED
      BY <1>1, <2>1, <2>2 DEF ClassNames, ClassesKnown
  <1>7. ClassesKnown'
    BY <1>1, <1>6 DEF ClassesKnown
  <1>. QED
    BY <1>3, <1>4, <1>7 DEF ClassNames, ClassesFound

LEMMA IdleClasses ==
  ASSUME Typed, Typed', ChunkNames, ClassNames, Seal \/ UNCHANGED vars, Live'
  PROVE  /\ ClassNames' /\ PlacedClasses' = PlacedClasses
         /\ \A k \in PlacedClasses : Fits => ClassRemap(k)' = ClassRemap(k)
  <1>1. /\ Live /\ Done' = Done /\ dst'.classes = dst.classes
        /\ UNCHANGED <<build, src, placed, todo, phase, i>>
    BY IdleNames
  <1>2. PlacedClasses' = PlacedClasses
    BY <1>1 DEF PlacedClasses, Busy
  <1>. QED
    BY <1>1, <1>2, KinOfItself, ClassesKept

LEMMA AlwaysClasses ==
  ASSUME SeparateBuilds
  PROVE  Spec => []ClassNames
  <1>1. Typed /\ Init => ClassNames
    BY InitClasses
  <1>2. Typed /\ Typed' /\ Where /\ ChunkNames /\ ClassNames /\ [Next]_vars => ClassNames'
    <2>. SUFFICES ASSUME Typed, Typed', Where, ChunkNames, ClassNames, [Next]_vars, Live'
                  PROVE  ClassNames'
      BY DEF ClassNames
    <2>1. CASE Begin
      <3>1. Busy'
        BY <2>1 DEF Begin, Pass, Live
      <3>. QED
        BY <2>1, <3>1, BeginClasses
    <2>2. CASE AddClass
      <3>1. PICK j \in Nat : j = i
        BY DEF Typed
      <3>. QED
        BY <2>2, <3>1, AddClassNames
    <2>3. CASE AddChunk \/ ChunksDone \/ ClassesDone \/ RemapChunk \/ RemapDone \/ FixClass
      BY <2>3, LaterClasses
    <2>4. CASE Merged
      BY <2>4, MergedClasses
    <2>5. CASE MergeFails
      BY <2>5 DEF MergeFails, Live, Busy
    <2>6. CASE Seal \/ UNCHANGED vars
      BY <2>6, IdleClasses
    <2>. QED
      BY <2>1, <2>2, <2>3, <2>4, <2>5, <2>6 DEF Next, Merge
  <1>. QED
    BY <1>1, <1>2, AlwaysTyped, AlwaysWhere, AlwaysNames, PTL DEF Spec

(***************************************************************************)
(* The indices in the code                                                 *)
(***************************************************************************)
Table(fns, classes, r) == IF r.kind = "fn" THEN fns ELSE classes

RightIn(fns, classes, r) ==
    /\ r.index \in 1..Len(Table(fns, classes, r))
    /\ Table(fns, classes, r)[r.index].name = r.name

CodeRight(fns, classes, code) == \A n \in 1..Len(code) : RightIn(fns, classes, code[n])

Grows(t, u) ==
    /\ Len(t) \in Nat /\ Len(u) \in Nat /\ Len(t) <= Len(u)
    /\ \A a \in 1..Len(t) : u[a].name = t[a].name

\* chunks of src whose code the third loop has not reached yet
WaitingChunks == {k \in PlacedChunks : phase # "methods" /\ (phase = "remap" => k >= i)}

WaitingAsCompiled ==
    \A k \in WaitingChunks : dst.chunks[FnRemap(k)].code = src.chunks[k].code

OthersRight ==
    \A a \in 1..Len(dst.chunks) :
      (\A k \in WaitingChunks : FnRemap(k) # a) =>
        CodeRight(dst.chunks, dst.classes, dst.chunks[a].code)

CodeInv == Live /\ Fits => WaitingAsCompiled /\ OthersRight

LEMMA RightAsRightIn ==
  ASSUME NEW m, NEW r
  PROVE  Right(m, r) <=> RightIn(m.chunks, m.classes, r)
  BY DEF Right, RightIn, Table

\* What designates the right entry still does when the tables have grown.
LEMMA RightStays ==
  ASSUME NEW fns, NEW fns2, Grows(fns, fns2), NEW classes, NEW classes2, Grows(classes, classes2),
         NEW r, RightIn(fns, classes, r)
  PROVE  RightIn(fns2, classes2, r)
  <1>1. CASE r.kind = "fn"
    BY <1>1 DEF RightIn, Table, Grows
  <1>2. CASE r.kind # "fn"
    BY <1>2 DEF RightIn, Table, Grows
  <1>. QED
    BY <1>1, <1>2

LEMMA CodeStays ==
  ASSUME NEW fns, NEW fns2, Grows(fns, fns2), NEW classes, NEW classes2, Grows(classes, classes2),
         NEW code, CodeRight(fns, classes, code)
  PROVE  CodeRight(fns2, classes2, code)
  BY RightStays DEF CodeRight

\* What a module as compiled says of one of its chunks.
LEMMA SoundChunk ==
  ASSUME NEW m, Sound(m), NEW c \in Chunks(m)
  PROVE  /\ Sinit \notin Fns(c.code)
         /\ c.body = "" => c.code = <<>>
  <1>1. /\ \A name \in Fns(c.code) : ~Initialiser(name)
        /\ c.body = "" => c.code = <<>>
    BY Zenon DEF Sound
  <1>. QED
    BY <1>1, Zenon DEF Initialiser

\* chunk_remap_indices: an operand that is right in src becomes right in dst.
LEMMA RemappedRight ==
  ASSUME SeparateBuilds, Typed, Where, ChunkNames, ClassNames, Fits, phase = "remap",
         NEW j \in 1..Len(src.chunks), NEW n \in 1..Len(src.chunks[j].code)
  PROVE  RightIn(dst.chunks, dst.classes, Remapped(src.chunks[j].code[n]))
  <1>. DEFINE r == src.chunks[j].code[n]
  <1>1. /\ Busy /\ Live /\ PlacedChunks = 1..Len(src.chunks)
        /\ PlacedClasses = 1..Len(src.classes)
    BY DEF Busy, Live, PlacedChunks, PlacedClasses
  <1>2. Sound(src) /\ src.chunks[j] \in Chunks(src)
    BY <1>1, PartFacts DEF Chunks
  <1>3. RightIn(src.chunks, src.classes, r) /\ Sinit \notin Fns(src.chunks[j].code)
    BY <1>2, RightAsRightIn, SoundChunk DEF Sound, CodeByName
  <1>4. r \in Refs({"fn", "class"})
    <2>1. src.chunks[j].code \in Seq(Refs({"fn", "class"}))
      BY ModuleFacts DEF Typed, ChunkType
    <2>. QED
      BY <2>1
  <1>5. CASE r.kind = "fn"
    <2>1. r.index \in 1..Len(src.chunks) /\ src.chunks[r.index].name = r.name
      BY <1>3, <1>5 DEF RightIn, Table
    <2>2. r.name # Sinit
      BY <1>3, <1>5 DEF Fns
    <2>3. PICK a \in 1..Len(dst.chunks) : a = FnRemap(r.index) /\ dst.chunks[a].name = r.name
      <3>1. Named(r.index, FnRemap(r.index))
        BY <1>1, <2>1 DEF ChunkNames, PlacesKnown
      <3>. QED
        BY <2>1, <2>2, <3>1 DEF Named, NamedIn
    <2>4. a # 0
      OBVIOUS
    <2>. HIDE DEF r
    <2>5. Remapped(r) = [r EXCEPT !.index = a]
      BY <1>5, <2>1, <2>3, <2>4 DEF Remapped
    <2>6. Remapped(r).kind = "fn" /\ Remapped(r).index = a /\ Remapped(r).name = r.name
      BY <1>4, <1>5, <2>5 DEF Refs
    <2>7. RightIn(dst.chunks, dst.classes, Remapped(r))
      BY <2>3, <2>6 DEF RightIn, Table
    <2>. QED
      BY <2>7 DEF r
  <1>6. CASE r.kind # "fn"
    <2>1. r.index \in 1..Len(src.classes) /\ src.classes[r.index].name = r.name
      BY <1>3, <1>6 DEF RightIn, Table
    <2>2. PICK a \in 1..Len(dst.classes) : a = ClassRemap(r.index) /\ dst.classes[a].name = r.name
      <3>1. ClassRemap(r.index) # 0 /\ Len(dst.classes) \in Nat
        BY <1>1, <2>1, ModuleFacts DEF ClassNames, ClassesFound, Typed
      <3>2. PICK name : name = src.classes[r.index].name /\ name = r.name
        BY <2>1
      <3>3. /\ Find(dst.classes, name) # 0 /\ Find(dst.classes, name) \in 0..Len(dst.classes)
            /\ dst.classes[Find(dst.classes, name)].name = name
        BY <3>1, <3>2, FindFacts DEF ClassRemap
      <3>4. Find(dst.classes, name) \in 1..Len(dst.classes)
        BY <3>1, <3>3
      <3>. QED
        BY <3>2, <3>3, <3>4 DEF ClassRemap
    <2>3. a # 0
      OBVIOUS
    <2>. HIDE DEF r
    <2>4. Remapped(r) = [r EXCEPT !.index = a]
      BY <1>6, <2>1, <2>2, <2>3 DEF Remapped
    <2>5. Remapped(r).kind # "fn" /\ Remapped(r).index = a /\ Remapped(r).name = r.name
      BY <1>4, <1>6, <2>4 DEF Refs
    <2>6. RightIn(dst.chunks, dst.classes, Remapped(r))
      BY <2>2, <2>5 DEF RightIn, Table
    <2>. QED
      BY <2>6 DEF r
  <1>. QED
    BY <1>5, <1>6

\* A step that changes no code and no place keeps what is known of the code.
LEMMA CodeKept ==
  ASSUME Live, Live', Fits, Fits', CodeInv,
         Grows(dst.chunks, dst'.chunks), Len(dst'.chunks) = Len(dst.chunks),
         Grows(dst.classes, dst'.classes),
         \A a \in 1..Len(dst.chunks) : dst'.chunks[a].code = dst.chunks[a].code,
         WaitingChunks' = WaitingChunks,
         \A k \in WaitingChunks :
           /\ FnRemap(k)' = FnRemap(k) /\ FnRemap(k) \in 1..Len(dst.chunks)
           /\ src'.chunks[k] = src.chunks[k]
  PROVE  CodeInv'
  <1>1. WaitingAsCompiled /\ OthersRight
    BY DEF CodeInv
  <1>2. WaitingAsCompiled'
    <2>. SUFFICES ASSUME NEW k \in WaitingChunks
                  PROVE  dst'.chunks[FnRemap(k)'].code = src'.chunks[k].code
      BY DEF WaitingAsCompiled
    <2>. QED
      BY <1>1 DEF WaitingAsCompiled
  <1>3. OthersRight'
    <2>. SUFFICES ASSUME NEW a \in 1..Len(dst.chunks),
                         \A k \in WaitingChunks : FnRemap(k)' # a
                  PROVE  CodeRight(dst'.chunks, dst'.classes, dst'.chunks[a].code)
      BY DEF OthersRight
    <2>1. CodeRight(dst.chunks, dst.classes, dst.chunks[a].code)
      BY <1>1 DEF OthersRight
    <2>2. dst'.chunks[a].code = dst.chunks[a].code
      OBVIOUS
    <2>. QED
      BY <2>1, <2>2, CodeStays
  <1>. QED
    BY <1>2, <1>3 DEF CodeInv

\* The first loop: a chunk arrives as it was compiled.
LEMMA AddChunkCode ==
  ASSUME SeparateBuilds, Typed, Typed', Where, ChunkNames, CodeInv, AddChunk, Fits
  PROVE  CodeInv'
  <1>1. PICK j \in Nat : j = i
    BY DEF Typed
  <1>2. /\ ChunkNames' /\ \A k \in PlacedChunks : FnRemap(k)' = FnRemap(k)
        /\ j \notin PlacedChunks /\ PlacedChunks' = PlacedChunks \cup {j}
        /\ dst'.classes = dst.classes
    BY <1>1, AddChunkNames
  <1>3. /\ phase = "chunks" /\ phase' = "chunks" /\ Live /\ Live' /\ src' = src
        /\ i <= Len(src.chunks)
    BY DEF AddChunk, Live, Busy
  <1>4. WaitingChunks = PlacedChunks /\ WaitingChunks' = PlacedChunks \cup {j}
    BY <1>2, <1>3 DEF WaitingChunks
  <1>5. WaitingAsCompiled /\ OthersRight
    BY <1>3 DEF CodeInv
  <1>6. PICK L \in Nat : L = Len(dst.chunks) /\ Len(dst.classes) \in Nat
    BY ModuleFacts DEF Typed
  <1>7. \A k \in PlacedChunks : FnRemap(k) \in 1..L
    BY <1>3, <1>6 DEF ChunkNames, PlacesKnown, Named, NamedIn
  <1>8. CASE Present(src.chunks[j])
    <2>1. dst'.chunks = dst.chunks /\ FnRemap(j)' = Find(dst.chunks, src.chunks[j].name)
      BY <1>1, <1>8, AddChunkNames
    <2>2. PICK a \in 1..L : a = FnRemap(j)' /\ src.chunks[j].code = <<>> /\ Len(dst.chunks[a].code) = 0
      BY <1>1, <1>3, <1>6, <1>8, <2>1, PresentIsOld DEF Named, NamedIn
    <2>3. dst.chunks[a].code = <<>>
      <3>1. dst.chunks[a] \in ChunkType
        BY <1>6, ModuleFacts DEF Typed
      <3>2. dst.chunks[a].code \in Seq(Refs({"fn", "class"}))
        BY <3>1 DEF ChunkType
      <3>. QED
        BY <2>2, <3>2
    <2>4. WaitingAsCompiled'
      <3>. SUFFICES ASSUME NEW k \in PlacedChunks \cup {j}
                    PROVE  dst.chunks[FnRemap(k)'].code = src.chunks[k].code
        BY <1>3, <1>4, <2>1 DEF WaitingAsCompiled
      <3>1. CASE k = j
        BY <2>2, <2>3, <3>1
      <3>2. CASE k \in PlacedChunks
        BY <1>2, <1>4, <1>5, <3>2 DEF WaitingAsCompiled
      <3>. QED
        BY <3>1, <3>2
    <2>5. OthersRight'
      <3>. SUFFICES ASSUME NEW b \in 1..L,
                           \A k \in PlacedChunks \cup {j} : FnRemap(k)' # b
                    PROVE  CodeRight(dst.chunks, dst.classes, dst.chunks[b].code)
        BY <1>2, <1>4, <1>6, <2>1 DEF OthersRight
      <3>. QED
        BY <1>2, <1>4, <1>5, <1>6 DEF OthersRight
    <2>. QED
      BY <2>4, <2>5 DEF CodeInv
  <1>9. CASE ~Present(src.chunks[j])
    <2>1. /\ FnRemap(j)' = L + 1 /\ Len(dst'.chunks) = L + 1
          /\ dst'.chunks[L + 1].code = src.chunks[j].code
          /\ \A a \in 1..L : dst'.chunks[a] = dst.chunks[a]
      BY <1>1, <1>6, <1>9, AddChunkNames
    <2>2. WaitingAsCompiled'
      <3>. SUFFICES ASSUME NEW k \in PlacedChunks \cup {j}
                    PROVE  dst'.chunks[FnRemap(k)'].code = src.chunks[k].code
        BY <1>3, <1>4 DEF WaitingAsCompiled
      <3>1. CASE k = j
        BY <2>1, <3>1
      <3>2. CASE k \in PlacedChunks
        BY <1>2, <1>4, <1>5, <1>7, <2>1, <3>2 DEF WaitingAsCompiled
      <3>. QED
        BY <3>1, <3>2
    <2>3. OthersRight'
      <3>. SUFFICES ASSUME NEW b \in 1..(L + 1),
                           \A k \in PlacedChunks \cup {j} : FnRemap(k)' # b
                    PROVE  CodeRight(dst'.chunks, dst'.classes, dst'.chunks[b].code)
        BY <1>4, <2>1 DEF OthersRight
      <3>1. b \in 1..L
        BY <2>1
      <3>2. CodeRight(dst.chunks, dst.classes, dst.chunks[b].code)
        BY <1>2, <1>4, <1>5, <1>6, <3>1 DEF OthersRight
      <3>3. Grows(dst.chunks, dst'.chunks) /\ Grows(dst.classes, dst'.classes)
        BY <1>2, <1>6, <2>1 DEF Grows
      <3>4. dst'.chunks[b].code = dst.chunks[b].code
        BY <2>1, <3>1
      <3>. QED
        BY <3>2, <3>3, <3>4, CodeStays
    <2>. QED
      BY <2>2, <2>3 DEF CodeInv
  <1>. QED
    BY <1>8, <1>9

\* The third loop: the code of chunk i of src gets the indices of dst.
LEMMA RemapChunkCode ==
  ASSUME SeparateBuilds, Typed, Typed', Where, ChunkNames, ClassNames, CodeInv, RemapChunk, Fits
  PROVE  CodeInv'
  <1>1. PICK j \in Nat : j = i
    BY DEF Typed
  <1>2. /\ phase = "remap" /\ i <= Len(src.chunks) /\ Busy /\ Live /\ Live' /\ i' = j + 1
        /\ UNCHANGED <<src, phase>> /\ Busy'
    BY <1>1 DEF RemapChunk, Live, Busy
  <1>3. /\ j \in 1..Len(src.chunks) /\ Len(placed) = Len(src.chunks)
    <2>1. i \in 1..(Len(src.chunks) + 1) /\ Len(placed) = Len(src.chunks)
      BY <1>2 DEF Typed
    <2>2. Len(src.chunks) \in Nat
      BY ModuleFacts DEF Typed
    <2>. QED
      BY <1>1, <1>2, <2>1, <2>2
  <1>4. /\ ChunkNames' /\ PlacedChunks' = PlacedChunks
        /\ \A k \in PlacedChunks : FnRemap(k)' = FnRemap(k)
        /\ PlacedChunks = 1..Len(src.chunks)
    BY <1>2, LaterNames DEF PlacedChunks
  <1>5. PICK at \in 1..Len(dst.chunks) : at = FnRemap(j) /\ at # 0
    BY <1>2, <1>3, <1>4 DEF ChunkNames, PlacesKnown, Named, NamedIn
  <1>6. Len(dst.chunks) \in Nat /\ Len(dst.classes) \in Nat /\ at \in 0..Len(dst.chunks)
    BY ModuleFacts DEF Typed
  <1>7. /\ dst'.classes = dst.classes /\ Len(dst'.chunks) = Len(dst.chunks)
        /\ \A a \in 1..Len(dst.chunks) :
              (a # at \/ src.chunks[j].body = "") => dst'.chunks[a] = dst.chunks[a]
        /\ src.chunks[j].body # "" => dst'.chunks[at] = RemapCode(dst.chunks[at])
    BY <1>1, <1>5, <1>6, RemapStep
  <1>8. WaitingChunks' = WaitingChunks \ {j} /\ j \in WaitingChunks
    <2>1. WaitingChunks = {k \in 1..Len(src.chunks) : k >= j}
      BY <1>1, <1>2, <1>4 DEF WaitingChunks
    <2>2. WaitingChunks' = {k \in 1..Len(src.chunks) : k >= j + 1}
      BY <1>2, <1>4 DEF WaitingChunks
    <2>. QED
      BY <1>3, <2>1, <2>2
  <1>9. WaitingAsCompiled /\ OthersRight
    BY <1>2 DEF CodeInv
  <1>10. \A k \in WaitingChunks : k \in PlacedChunks /\ FnRemap(k) \in 1..Len(dst.chunks)
    BY <1>2 DEF WaitingChunks, ChunkNames, PlacesKnown, Named, NamedIn
  <1>11. WaitingAsCompiled'
    <2>. SUFFICES ASSUME NEW k \in WaitingChunks, k # j
                  PROVE  dst'.chunks[FnRemap(k)'].code = src.chunks[k].code
      BY <1>2, <1>8 DEF WaitingAsCompiled
    <2>1. FnRemap(k) # at
      BY <1>3, <1>4, <1>5, <1>10, PlacesApart
    <2>2. dst'.chunks[FnRemap(k)] = dst.chunks[FnRemap(k)]
      BY <1>7, <1>10, <2>1
    <2>. QED
      BY <1>4, <1>9, <1>10, <2>2 DEF WaitingAsCompiled
  <1>12. Grows(dst.chunks, dst'.chunks) /\ Grows(dst.classes, dst'.classes)
    <2>1. RemapCode(dst.chunks[at]).name = dst.chunks[at].name
      BY <1>3, <1>6, ModuleFacts, RemapCodeTyped DEF Typed
    <2>2. \A a \in 1..Len(dst.chunks) : dst'.chunks[a].name = dst.chunks[a].name
      BY <1>7, <2>1
    <2>3. Len(dst'.chunks) = Len(dst.chunks) /\ dst'.classes = dst.classes
      BY <1>7
    <2>4. Grows(dst.chunks, dst'.chunks)
      BY <1>6, <2>2, <2>3 DEF Grows
    <2>5. Grows(dst.classes, dst'.classes)
      BY <1>6, <2>3 DEF Grows
    <2>. QED
      BY <2>4, <2>5
  <1>13. dst.chunks[at].code = src.chunks[j].code
    BY <1>5, <1>8, <1>9 DEF WaitingAsCompiled
  <1>14. CodeRight(dst'.chunks, dst'.classes, dst'.chunks[at].code)
    <2>1. CASE src.chunks[j].body = ""
      <3>1. Sound(src) /\ src.chunks[j] \in Chunks(src)
        BY <1>2, <1>3, PartFacts DEF Chunks
      <3>2. src.chunks[j].code = <<>>
        BY <2>1, <3>1, SoundChunk, Zenon
      <3>3. dst'.chunks[at].code = <<>>
        BY <1>7, <1>13, <2>1, <3>2
      <3>. QED
        BY <3>3 DEF CodeRight
    <2>2. CASE src.chunks[j].body # ""
      <3>1. /\ dst.chunks[at] \in ChunkType
        BY <1>6, ModuleFacts DEF Typed
      <3>2. /\ Len(dst'.chunks[at].code) = Len(src.chunks[j].code)
            /\ \A n \in 1..Len(src.chunks[j].code) :
                 dst'.chunks[at].code[n] = Remapped(src.chunks[j].code[n])
        <4>1. dst'.chunks[at] = RemapCode(dst.chunks[at])
          BY <1>7, <2>2
        <4>2. /\ Len(RemapCode(dst.chunks[at]).code) = Len(dst.chunks[at].code)
              /\ \A n \in 1..Len(dst.chunks[at].code) :
                   RemapCode(dst.chunks[at]).code[n] = Remapped(dst.chunks[at].code[n])
          BY <1>3, <3>1, RemapCodeTyped
        <4>. QED
          BY <1>13, <4>1, <4>2
      <3>3. \A n \in 1..Len(src.chunks[j].code) :
              RightIn(dst.chunks, dst.classes, Remapped(src.chunks[j].code[n]))
        BY <1>2, <1>3, RemappedRight
      <3>4. CodeRight(dst.chunks, dst.classes, dst'.chunks[at].code)
        BY <3>2, <3>3 DEF CodeRight
      <3>. QED
        BY <1>12, <3>4, CodeStays
    <2>. QED
      BY <2>1, <2>2
  <1>15. OthersRight'
    <2>. SUFFICES ASSUME NEW a \in 1..Len(dst.chunks),
                         \A k \in WaitingChunks' : FnRemap(k)' # a
                  PROVE  CodeRight(dst'.chunks, dst'.classes, dst'.chunks[a].code)
      BY <1>7 DEF OthersRight
    <2>1. CASE a = at
      BY <1>14, <2>1
    <2>2. CASE a # at
      <3>1. \A k \in WaitingChunks : FnRemap(k) # a
        BY <1>4, <1>5, <1>8, <1>10, <2>2
      <3>2. CodeRight(dst.chunks, dst.classes, dst.chunks[a].code)
        BY <1>9, <3>1 DEF OthersRight
      <3>3. dst'.chunks[a].code = dst.chunks[a].code
        BY <1>7, <2>2
      <3>. QED
        BY <1>12, <3>2, <3>3, CodeStays
    <2>. QED
      BY <2>1, <2>2
  <1>. QED
    BY <1>11, <1>15 DEF CodeInv

LEMMA GrowsFromItself == ASSUME NEW t, Len(t) \in Nat PROVE Grows(t, t)
  BY DEF Grows

LEMMA InitCode == ASSUME SeparateBuilds, Typed, Init PROVE CodeInv
  <1>1. dst = build.start /\ WaitingChunks = {}
    BY DEF Init, WaitingChunks, PlacedChunks, Busy
  <1>2. Sound(build.start)
    <2>1. build \in Builds /\ Separate(build) /\ Len(build.plan) \in Nat
      BY LinkAssumption DEF Typed, SeparateBuilds
    <2>2. Sound(Part(build, 0))
      BY <2>1 DEF Separate
    <2>. QED
      BY <2>1, <2>2 DEF Part
  <1>3. \A a \in 1..Len(dst.chunks) : CodeRight(dst.chunks, dst.classes, dst.chunks[a].code)
    BY <1>1, <1>2, RightAsRightIn DEF Sound, CodeByName, Chunks, CodeRight
  <1>. QED
    BY <1>1, <1>3 DEF CodeInv, WaitingAsCompiled, OthersRight

\* The steps between the loops, and the loops over the classes, change no code.
LEMMA OtherCode ==
  ASSUME SeparateBuilds, Typed, Typed', Where, ChunkNames, ClassNames, CodeInv, Fits, Live', Live,
         Begin \/ ChunksDone \/ AddClass \/ ClassesDone \/ RemapDone \/ FixClass \/ Merged
           \/ Seal \/ UNCHANGED vars
  PROVE  CodeInv'
  <1>1. Len(dst.chunks) \in Nat /\ Len(dst.classes) \in Nat /\ Len(src.chunks) \in Nat
    BY ModuleFacts DEF Typed
  <1>2. \A k \in WaitingChunks : k \in PlacedChunks /\ FnRemap(k) \in 1..Len(dst.chunks)
    BY DEF WaitingChunks, ChunkNames, PlacesKnown, Named, NamedIn
  <1>3. CASE Begin \/ Merged
    <2>1. UNCHANGED <<build, dst>> /\ WaitingChunks = {} /\ WaitingChunks' = {}
      <3>1. CASE Begin
        <4>1. Busy'
          BY <3>1 DEF Begin, Pass, Live
        <4>2. PlacedChunks' = {} /\ UNCHANGED <<build, dst>>
          BY <3>1, <4>1, BeginNames
        <4>3. PlacedChunks = {}
          BY <3>1 DEF Begin, PlacedChunks, Busy
        <4>. QED
          BY <4>2, <4>3 DEF WaitingChunks
      <3>2. CASE Merged
        <4>1. PlacedChunks' = {} /\ UNCHANGED <<build, dst>>
          BY <3>2, MergedNames
        <4>2. phase = "methods"
          BY <3>2 DEF Merged
        <4>. QED
          BY <4>1, <4>2 DEF WaitingChunks
      <3>. QED
        BY <1>3, <3>1, <3>2
    <2>2. Fits'
      BY <2>1 DEF Fits, AllClasses
    <2>3. /\ Grows(dst.chunks, dst'.chunks) /\ Grows(dst.classes, dst'.classes)
          /\ dst' = dst
      BY <1>1, <2>1, GrowsFromItself
    <2>. QED
      BY <2>1, <2>2, <2>3, CodeKept
  <1>4. CASE ChunksDone \/ AddClass \/ ClassesDone \/ RemapDone \/ FixClass
    <2>1. /\ PlacedChunks' = PlacedChunks /\ \A k \in PlacedChunks : FnRemap(k)' = FnRemap(k)
      BY <1>4, LaterNames
    <2>2. /\ UNCHANGED <<build, src>>
          /\ phase = "chunks" => phase' = "classes"
          /\ phase = "classes" => phase' = "classes" \/ (phase' = "remap" /\ i' = 1)
          /\ phase = "remap" => phase' = "methods" /\ i > Len(src.chunks)
          /\ phase = "methods" => phase' = "methods"
          /\ Busy /\ Busy'
      BY <1>4 DEF ChunksDone, AddClass, ClassesDone, RemapDone, FixClass, Ends, Pass, Busy
    <2>3. WaitingChunks' = WaitingChunks
      <3>0. PlacedChunks \subseteq 1..Len(src.chunks)
        BY DEF PlacedChunks
      <3>1. CASE phase = "remap"
        <4>1. i \in Nat /\ \A k \in 1..Len(src.chunks) : ~(k >= i)
          BY <1>1, <2>2, <3>1 DEF Typed
        <4>. QED
          BY <2>2, <3>0, <3>1, <4>1 DEF WaitingChunks
      <3>2. CASE phase = "methods"
        BY <2>2, <3>2 DEF WaitingChunks
      <3>3. CASE phase \in {"chunks", "classes"}
        <4>1. WaitingChunks = PlacedChunks
          BY <3>3 DEF WaitingChunks
        <4>2. WaitingChunks' = PlacedChunks'
          <5>1. phase' = "classes" \/ (phase' = "remap" /\ i' = 1)
            BY <2>2, <3>3
          <5>2. \A k \in PlacedChunks' : k >= 1
            BY <1>1, <2>1, <3>0
          <5>. QED
            BY <5>1, <5>2 DEF WaitingChunks
        <4>. QED
          BY <2>1, <4>1, <4>2
      <3>. QED
        BY <2>2, <3>1, <3>2, <3>3 DEF Busy
    <2>4. dst'.chunks = dst.chunks /\ Grows(dst.classes, dst'.classes)
      <3>1. CASE AddClass
        <4>1. PICK j \in Nat : j = i
          BY DEF Typed
        <4>2. /\ dst'.chunks = dst.chunks /\ Len(dst.classes) <= Len(dst'.classes)
              /\ \A a \in 1..Len(dst.classes) :
                   \/ dst'.classes[a] = dst.classes[a]
                   \/ /\ dst'.classes[a] = src.classes[j]
                      /\ dst.classes[a].name = src.classes[j].name
          BY <3>1, <4>1, AddClassNames
        <4>3. Len(dst'.classes) \in Nat
          BY ModuleFacts DEF Typed
        <4>. QED
          BY <1>1, <4>2, <4>3 DEF Grows
      <3>2. CASE ~AddClass
        <4>1. /\ Len(dst'.classes) = Len(dst.classes)
              /\ \A a \in 1..Len(dst.classes) : Kin(dst'.classes[a], dst.classes[a])
          BY <1>4, <3>2, LaterClasses
        <4>2. dst'.chunks = dst.chunks
          <5>1. CASE FixClass
            <6>1. PICK at \in 0..Len(dst.classes) : at = Find(dst.classes, src.classes[i].name)
              BY <1>1, FindFacts
            <6>. QED
              BY <5>1, <6>1, FixStep
          <5>2. CASE ~FixClass
            BY <1>4, <3>2, <5>2 DEF ChunksDone, ClassesDone, RemapDone, Ends
          <5>. QED
            BY <5>1, <5>2
        <4>. QED
          BY <1>1, <4>1, <4>2 DEF Grows, Kin
      <3>. QED
        BY <3>1, <3>2
    <2>5. Fits'
      BY <2>2 DEF Fits, AllClasses
    <2>6. Grows(dst.chunks, dst'.chunks)
      BY <1>1, <2>4, GrowsFromItself
    <2>. QED
      BY <1>2, <2>1, <2>2, <2>3, <2>4, <2>5, <2>6, CodeKept
  <1>5. CASE Seal \/ UNCHANGED vars
    <2>1. /\ PlacedChunks' = PlacedChunks /\ \A k \in PlacedChunks : FnRemap(k)' = FnRemap(k)
          /\ dst'.chunks = dst.chunks /\ dst'.classes = dst.classes
          /\ UNCHANGED <<build, src, placed, todo, phase, i>>
      BY <1>5, IdleNames
    <2>2. WaitingChunks' = WaitingChunks
      BY <2>1 DEF WaitingChunks
    <2>3. Fits'
      BY <2>1 DEF Fits, AllClasses
    <2>4. Grows(dst.chunks, dst'.chunks) /\ Grows(dst.classes, dst'.classes)
      BY <1>1, <2>1, GrowsFromItself
    <2>. QED
      BY <1>2, <2>1, <2>2, <2>3, <2>4, CodeKept
  <1>. QED
    BY <1>3, <1>4, <1>5

LEMMA AlwaysCode ==
  ASSUME SeparateBuilds
  PROVE  Spec => []CodeInv
  <1>1. Typed /\ Init => CodeInv
    BY InitCode
  <1>2. Typed /\ Typed' /\ Where /\ ChunkNames /\ ClassNames /\ CodeInv /\ [Next]_vars => CodeInv'
    <2>. SUFFICES ASSUME Typed, Typed', Where, ChunkNames, ClassNames, CodeInv, [Next]_vars,
                         Live', Fits'
                  PROVE  CodeInv'
      BY DEF CodeInv
    <2>1. build' = build /\ (Live \/ MergeFails)
      BY DEF Next, Merge, Begin, AddChunk, ChunksDone, AddClass, ClassesDone, RemapChunk,
             RemapDone, FixClass, Merged, MergeFails, Seal, Ends, Pass, vars, Live, Busy
    <2>2. Fits
      BY <2>1 DEF Fits, AllClasses
    <2>3. CASE AddChunk
      BY <2>2, <2>3, AddChunkCode
    <2>4. CASE RemapChunk
      BY <2>2, <2>4, RemapChunkCode
    <2>5. CASE MergeFails
      BY <2>5 DEF MergeFails, Live, Busy
    <2>6. CASE ~(AddChunk \/ RemapChunk \/ MergeFails)
      BY <2>1, <2>2, <2>6, OtherCode DEF Next, Merge
    <2>. QED
      BY <2>3, <2>4, <2>5, <2>6
  <1>. QED
    BY <1>1, <1>2, AlwaysTyped, AlwaysWhere, AlwaysNames, AlwaysClasses, PTL DEF Spec

\* Where the modules of a build are apart, however many they are and in whatever order
\* they are merged: afterwards every operand of every chunk designates the function or
\* the class it was compiled for.
THEOREM LinkedCodeIsRight ==
  ASSUME SeparateBuilds
  PROVE  Spec => []CallsByName
  <1>1. Typed /\ CodeInv => CallsByName
    <2>. SUFFICES ASSUME Typed, CodeInv, Linked PROVE CodeByName(dst)
      BY DEF CallsByName
    <2>1. WaitingChunks = {} /\ Live /\ Fits
      BY DEF Linked, WaitingChunks, PlacedChunks, Busy, Live
    <2>2. \A a \in 1..Len(dst.chunks) : CodeRight(dst.chunks, dst.classes, dst.chunks[a].code)
      BY <2>1 DEF CodeInv, OthersRight
    <2>. QED
      BY <2>2, RightAsRightIn DEF CodeByName, Chunks, CodeRight
  <1>. QED
    BY <1>1, AlwaysTyped, AlwaysCode, PTL

(***************************************************************************)
(* The indices of methods and constructors                                 *)
(***************************************************************************)
NamedAt(fns, r) == r.index \in 1..Len(fns) /\ fns[r.index].name = r.name

MembersIn(fns, class) ==
    /\ \A n \in 1..Len(class.methods) :
         NamedAt(fns, class.methods[n]) \/ (class.iface /\ class.methods[n].index = 0)
    /\ class.ctor.index # 0 => NamedAt(fns, class.ctor)

\* class is from as it was compiled, or has what from leaves to another module
Awaits(fns, class, from) ==
    \/ class = from
    \/ MembersIn(fns, class) /\ Hollow(from) /\ class.ctor.name = from.ctor.name

\* classes of src that the fourth loop has not reached yet
WaitingClasses == {k \in PlacedClasses : phase = "methods" => k >= i}

ClassesAwait ==
    \A k \in WaitingClasses : Awaits(dst.chunks, dst.classes[ClassRemap(k)], src.classes[k])

OthersMembers ==
    \A a \in 1..Len(dst.classes) :
      (\A k \in WaitingClasses : ClassRemap(k) # a) => MembersIn(dst.chunks, dst.classes[a])

MemberInv == Live /\ Fits => ClassesAwait /\ OthersMembers

LEMMA MembersAsMembersIn ==
  ASSUME NEW m, NEW class \in ClassType
  PROVE  MembersByName(m, class) <=> MembersIn(m.chunks, class)
  <1>1. /\ \A n \in 1..Len(class.methods) : class.methods[n].kind = "fn"
        /\ class.ctor.kind = "fn"
    <2>1. class.methods \in Seq(Refs({"fn"})) /\ class.ctor \in Refs({"fn"})
      BY DEF ClassType
    <2>2. \A n \in 1..Len(class.methods) : class.methods[n] \in Refs({"fn"})
      BY <2>1
    <2>. QED
      BY <2>1, <2>2 DEF Refs
  <1>2. \A r : r.kind = "fn" => (Right(m, r) <=> NamedAt(m.chunks, r))
    BY DEF Right, NamedAt
  <1>. QED
    BY <1>1, <1>2 DEF MembersByName, MembersIn

LEMMA MembersStay ==
  ASSUME NEW fns, NEW fns2, Grows(fns, fns2), NEW class
  PROVE  /\ MembersIn(fns, class) => MembersIn(fns2, class)
         /\ \A from : Awaits(fns, class, from) => Awaits(fns2, class, from)
  <1>1. \A r : NamedAt(fns, r) => NamedAt(fns2, r)
    BY DEF NamedAt, Grows
  <1>2. MembersIn(fns, class) => MembersIn(fns2, class)
    BY <1>1 DEF MembersIn
  <1>. QED
    BY <1>2 DEF Awaits

\* A class of src has one place, and it is its own.
LEMMA ClassPlaces ==
  ASSUME SeparateBuilds, Typed, Where, ClassNames, Fits, NEW k \in PlacedClasses
  PROVE  /\ k \in 1..Len(src.classes) /\ ClassRemap(k) \in 1..Len(dst.classes)
         /\ dst.classes[ClassRemap(k)].name = src.classes[k].name
         /\ \A l \in 1..Len(src.classes) :
              src.classes[l].name = src.classes[k].name => l = k
  <1>1. Busy /\ Live /\ k \in 1..Len(src.classes) /\ Len(dst.classes) \in Nat
    BY ModuleFacts DEF PlacedClasses, Live, Typed
  <1>2. ClassRemap(k) # 0
    BY <1>1 DEF ClassNames, ClassesFound
  <1>3. PICK name : name = src.classes[k].name
    OBVIOUS
  <1>4. PICK at \in 0..Len(dst.classes) : at = Find(dst.classes, name)
    BY <1>1, FindFacts
  <1>5. at # 0 /\ dst.classes[at].name = name /\ ClassRemap(k) = at
    BY <1>1, <1>2, <1>3, <1>4, FindFacts DEF ClassRemap
  <1>6. at \in 1..Len(dst.classes)
    BY <1>1, <1>5
  <1>7. \A l, m \in 1..Len(src.classes) : src.classes[l].name = src.classes[m].name => l = m
    BY <1>1, PartFacts DEF Sound
  <1>. QED
    BY <1>1, <1>3, <1>5, <1>6, <1>7

\* The fourth loop's lookup by name: what is right in src becomes right in dst.
LEMMA RenamedRight ==
  ASSUME Typed, ChunkNames, phase = "methods",
         NEW new \in Refs({"fn"}), NamedAt(src.chunks, new), new.name # Sinit,
         NEW old \in Refs({"fn"}), old.name = new.name
  PROVE  NamedAt(dst.chunks, Renamed(old, new))
  <1>1. /\ Live /\ PlacedChunks = 1..Len(src.chunks) /\ Len(dst.chunks) \in Nat
    BY ModuleFacts DEF Busy, Live, PlacedChunks, Typed
  <1>2. new.index \in 1..Len(src.chunks) /\ src.chunks[new.index].name = new.name
    BY DEF NamedAt
  <1>3. \E b \in 1..Len(dst.chunks) : dst.chunks[b].name = new.name
    <2>1. Named(new.index, FnRemap(new.index))
      BY <1>1, <1>2 DEF ChunkNames, PlacesKnown
    <2>. QED
      BY <1>2, <2>1 DEF Named, NamedIn
  <1>4. PICK a \in 0..Len(dst.chunks) : a = Find(dst.chunks, new.name)
    BY <1>1, FindFacts
  <1>5. a # 0 /\ dst.chunks[a].name = new.name
    BY <1>1, <1>3, <1>4, FindFacts
  <1>6. a \in 1..Len(dst.chunks)
    BY <1>1, <1>5
  <1>7. Renamed(old, new) = [old EXCEPT !.index = a]
    BY <1>2, <1>4, <1>5 DEF Renamed
  <1>8. Renamed(old, new).index = a /\ Renamed(old, new).name = old.name
    BY <1>7 DEF Refs
  <1>. QED
    BY <1>5, <1>6, <1>8 DEF NamedAt

\* A class that awaits class c of src has the right members once it is fixed.
LEMMA FixedRight ==
  ASSUME SeparateBuilds, Typed, Where, ChunkNames, phase = "methods",
         NEW c \in Classes(src), c \in ClassType, NEW d \in ClassType,
         Awaits(dst.chunks, d, c)
  PROVE  MembersIn(dst.chunks, Fixed(d, c))
  <1>1. Sound(src)
    BY PartFacts DEF Busy
  <1>2. /\ MembersIn(src.chunks, c) /\ Sinit \notin Fns(c.methods) /\ c.ctor.name # Sinit
    BY <1>1, MembersAsMembersIn DEF Sound, Initialiser
  <1>3. /\ Fixed(d, c).iface = d.iface
        /\ Len(Fixed(d, c).methods) = Len(d.methods)
        /\ \A n \in 1..Len(d.methods) :
             Fixed(d, c).methods[n] = IF n <= Len(c.methods) THEN Renamed(d.methods[n], c.methods[n])
                                      ELSE d.methods[n]
        /\ Fixed(d, c).ctor = Renamed(d.ctor, c.ctor)
    BY FixedTyped
  <1>4. /\ c.methods \in Seq(Refs({"fn"})) /\ d.methods \in Seq(Refs({"fn"}))
        /\ c.ctor \in Refs({"fn"}) /\ d.ctor \in Refs({"fn"})
    BY DEF ClassType
  <1>5. \A n \in 1..Len(d.methods) :
          NamedAt(dst.chunks, Fixed(d, c).methods[n]) \/ (d.iface /\ Fixed(d, c).methods[n].index = 0)
    <2>1. CASE d = c
      <3>. SUFFICES ASSUME NEW n \in 1..Len(c.methods)
                    PROVE  \/ NamedAt(dst.chunks, Fixed(d, c).methods[n])
                           \/ d.iface /\ Fixed(d, c).methods[n].index = 0
        BY <2>1
      <3>1. /\ c.methods[n] \in Refs({"fn"})
            /\ NamedAt(src.chunks, c.methods[n]) \/ (c.iface /\ c.methods[n].index = 0)
        BY <1>2, <1>4 DEF MembersIn
      <3>2. c.methods[n].kind = "fn"
        BY <3>1 DEF Refs
      <3>3. c.methods[n].name # Sinit
        BY <1>2, <3>2 DEF Fns
      <3>5. n \in 1..Len(d.methods) /\ n <= Len(c.methods) /\ d.methods[n] = c.methods[n]
        BY <1>4, <2>1
      <3>6. Fixed(d, c).methods[n] = Renamed(c.methods[n], c.methods[n])
        BY <1>3, <3>5
      <3>7. CASE NamedAt(src.chunks, c.methods[n])
        <4>1. NamedAt(dst.chunks, Renamed(c.methods[n], c.methods[n]))
          BY <3>1, <3>3, <3>7, RenamedRight
        <4>. QED
          BY <3>6, <4>1
      <3>8. CASE c.iface /\ c.methods[n].index = 0
        <4>1. Renamed(c.methods[n], c.methods[n]) = c.methods[n]
          BY <3>8 DEF Renamed
        <4>. QED
          BY <2>1, <3>6, <3>8, <4>1
      <3>. QED
        BY <3>1, <3>7, <3>8
    <2>2. CASE MembersIn(dst.chunks, d) /\ Hollow(c)
      <3>1. Len(c.methods) = 0
        BY <2>2 DEF Hollow
      <3>2. \A n \in 1..Len(d.methods) : ~(n <= Len(c.methods))
        BY <1>4, <3>1
      <3>3. \A n \in 1..Len(d.methods) : Fixed(d, c).methods[n] = d.methods[n]
        BY <1>3, <3>2
      <3>. QED
        BY <2>2, <3>3 DEF MembersIn
    <2>. QED
      BY <2>1, <2>2 DEF Awaits
  <1>6. Fixed(d, c).ctor.index # 0 => NamedAt(dst.chunks, Fixed(d, c).ctor)
    <2>0. d.ctor.name = c.ctor.name
      BY DEF Awaits
    <2>1. CASE c.ctor.index # 0
      <3>1. NamedAt(src.chunks, c.ctor)
        BY <1>2, <2>1 DEF MembersIn
      <3>2. NamedAt(dst.chunks, Renamed(d.ctor, c.ctor))
        BY <1>2, <1>4, <2>0, <3>1, RenamedRight
      <3>. QED
        BY <1>3, <3>2
    <2>2. CASE c.ctor.index = 0
      <3>1. Renamed(d.ctor, c.ctor) = d.ctor
        BY <2>2 DEF Renamed
      <3>2. d.ctor.index # 0 => NamedAt(dst.chunks, d.ctor)
        BY <2>2 DEF Awaits, MembersIn
      <3>. QED
        BY <1>3, <3>1, <3>2
    <2>. QED
      BY <2>1, <2>2
  <1>. QED
    BY <1>3, <1>5, <1>6 DEF MembersIn

\* A step that changes no class keeps what is known of the members.
LEMMA MembersKept ==
  ASSUME Live, Live', Fits, Fits', MemberInv, Grows(dst.chunks, dst'.chunks),
         dst'.classes = dst.classes, WaitingClasses' = WaitingClasses,
         \A k \in WaitingClasses :
           ClassRemap(k)' = ClassRemap(k) /\ src'.classes[k] = src.classes[k]
  PROVE  MemberInv'
  <1>1. ClassesAwait /\ OthersMembers
    BY DEF MemberInv
  <1>2. ClassesAwait'
    <2>. SUFFICES ASSUME NEW k \in WaitingClasses
                  PROVE  Awaits(dst'.chunks, dst.classes[ClassRemap(k)], src.classes[k])
      BY DEF ClassesAwait
    <2>. QED
      BY <1>1, MembersStay DEF ClassesAwait
  <1>3. OthersMembers'
    <2>. SUFFICES ASSUME NEW a \in 1..Len(dst.classes),
                         \A k \in WaitingClasses : ClassRemap(k) # a
                  PROVE  MembersIn(dst'.chunks, dst.classes[a])
      BY DEF OthersMembers
    <2>1. MembersIn(dst.chunks, dst.classes[a])
      BY <1>1 DEF OthersMembers
    <2>. QED
      BY <2>1, MembersStay
  <1>. QED
    BY <1>2, <1>3 DEF MemberInv

LEMMA InitMembers == ASSUME SeparateBuilds, Typed, Init PROVE MemberInv
  <1>1. dst = build.start /\ WaitingClasses = {} /\ dst \in Module
    BY DEF Init, WaitingClasses, PlacedClasses, Busy, Typed
  <1>2. Sound(build.start)
    <2>1. build \in Builds /\ Separate(build) /\ Len(build.plan) \in Nat
      BY LinkAssumption DEF Typed, SeparateBuilds
    <2>2. Sound(Part(build, 0))
      BY <2>1 DEF Separate
    <2>. QED
      BY <2>1, <2>2 DEF Part
  <1>3. \A a \in 1..Len(dst.classes) : MembersIn(dst.chunks, dst.classes[a])
    <2>. SUFFICES ASSUME NEW a \in 1..Len(dst.classes) PROVE MembersIn(dst.chunks, dst.classes[a])
      OBVIOUS
    <2>1. dst.classes[a] \in ClassType
      BY <1>1, ModuleFacts
    <2>2. MembersByName(dst, dst.classes[a])
      BY <1>1, <1>2 DEF Sound, Classes
    <2>. QED
      BY <2>1, <2>2, MembersAsMembersIn
  <1>. QED
    BY <1>1, <1>3 DEF MemberInv, ClassesAwait, OthersMembers

\* The second loop: a class arrives as it was compiled, or its namesake has the methods.
LEMMA AddClassMembers ==
  ASSUME SeparateBuilds, Typed, Typed', Where, ChunkNames, ClassNames, MemberInv, AddClass,
         Fits, Fits'
  PROVE  MemberInv'
  <1>1. PICK j \in Nat : j = i
    BY DEF Typed
  <1>2. /\ phase = "classes" /\ phase' = "classes" /\ Busy /\ Live /\ Busy' /\ Live'
    BY DEF AddClass, Busy, Live
  <1>. DEFINE c == src.classes[j]
  <1>3. /\ ClassNames' /\ \A k \in PlacedClasses : ClassRemap(k)' = ClassRemap(k)
        /\ j \in 1..Len(src.classes) /\ j \notin PlacedClasses
        /\ PlacedClasses' = PlacedClasses \cup {j} /\ dst'.chunks = dst.chunks
        /\ UNCHANGED <<build, src>>
    BY <1>1, AddClassNames
  <1>4. PICK p \in 1..Len(dst'.classes) : p = ClassRemap(j)' /\ p # 0
    <2>1. ClassRemap(j)' # 0
      BY <1>2, <1>3 DEF ClassNames, ClassesFound
    <2>2. Len(dst'.classes) \in Nat
      BY ModuleFacts DEF Typed
    <2>3. ClassRemap(j)' = Find(dst'.classes, c.name)
      BY <1>3 DEF ClassRemap
    <2>4. PICK q \in 0..Len(dst'.classes) : q = Find(dst'.classes, c.name)
      BY <2>2, FindFacts
    <2>. QED
      BY <2>1, <2>2, <2>3, <2>4
  <1>5. /\ Len(dst.classes) <= Len(dst'.classes)
        /\ \A a \in 1..Len(dst.classes) :
              \/ dst'.classes[a] = dst.classes[a]
              \/ dst'.classes[a] = c /\ dst.classes[a].name = c.name
        /\ \A a \in 1..Len(dst'.classes) : a \in 1..Len(dst.classes) \/ dst'.classes[a] = c
        /\ \/ dst'.classes[p] = c
           \/ /\ p \in 1..Len(dst.classes) /\ dst'.classes[p] = dst.classes[p] /\ ~Fills(c, p)
    BY <1>1, <1>4, AddClassNames
  <1>6. dst'.classes[p].name = c.name
    <2>1. Len(dst'.classes) \in Nat
      BY ModuleFacts DEF Typed
    <2>2. p = Find(dst'.classes, c.name)
      BY <1>3, <1>4 DEF ClassRemap
    <2>. QED
      BY <1>4, <2>1, <2>2, FindFacts
  <1>7. /\ WaitingClasses = PlacedClasses /\ WaitingClasses' = PlacedClasses \cup {j}
    BY <1>2, <1>3 DEF WaitingClasses
  <1>8. ClassesAwait /\ OthersMembers
    BY <1>2 DEF MemberInv
  <1>9. ASSUME NEW k \in PlacedClasses
        PROVE  /\ ClassRemap(k) \in 1..Len(dst.classes)
               /\ dst.classes[ClassRemap(k)].name # c.name
    BY <1>3, ClassPlaces
  <1>10. Awaits(dst.chunks, dst'.classes[p], c)
    <2>1. CASE dst'.classes[p] = c
      BY <2>1 DEF Awaits
    <2>2. CASE p \in 1..Len(dst.classes) /\ dst'.classes[p] = dst.classes[p] /\ ~Fills(c, p)
      <3>1. \A k \in PlacedClasses : ClassRemap(k) # p /\ ~Kin(dst.classes[p], src.classes[k])
        <4>1. ASSUME NEW k \in PlacedClasses PROVE ClassRemap(k) # p
          BY <1>6, <1>9, <2>2
        <4>2. ASSUME NEW k \in PlacedClasses PROVE ~Kin(dst.classes[p], src.classes[k])
          <5>1. dst.classes[p].name = c.name
            BY <1>6, <2>2
          <5>2. src.classes[k].name # c.name
            BY <1>3, ClassPlaces
          <5>. QED
            BY <5>1, <5>2 DEF Kin
        <4>. QED
          BY <4>1, <4>2
      <3>2. MembersIn(dst.chunks, dst.classes[p])
        BY <1>7, <1>8, <2>2, <3>1 DEF OthersMembers
      <3>3. OldClass(dst.classes[p])
        BY <1>2, <2>2, <3>1 DEF ClassNames, ClassesKnown
      <3>4. PICK n \in 0..Done : \E e \in Classes(Part(build, n)) : Kin(dst.classes[p], e)
        BY <3>3 DEF OldClass
      <3>5. PICK e \in Classes(Part(build, n)) : Kin(dst.classes[p], e)
        BY <3>4
      <3>6. Apart(Part(build, n), src) /\ c \in Classes(src)
        BY <1>2, <1>3, PartFacts DEF Classes
      <3>7. e.name = c.name
        BY <1>6, <2>2, <3>5 DEF Kin
      <3>8. e.ctor.name = c.ctor.name /\ (Hollow(e) \/ Hollow(c))
        BY <3>6, <3>7 DEF Apart
      <3>9. Hollow(c) /\ dst.classes[p].ctor.name = c.ctor.name
        BY <2>2, <3>5, <3>8 DEF Kin, Fills
      <3>. QED
        BY <2>2, <3>2, <3>9 DEF Awaits
    <2>. QED
      BY <1>5, <2>1, <2>2
  <1>11. ClassesAwait'
    <2>. SUFFICES ASSUME NEW k \in PlacedClasses \cup {j}
                  PROVE  Awaits(dst.chunks, dst'.classes[ClassRemap(k)'], src.classes[k])
      BY <1>3, <1>7 DEF ClassesAwait
    <2>1. CASE k = j
      BY <1>4, <1>10, <2>1
    <2>2. CASE k \in PlacedClasses
      <3>1. dst'.classes[ClassRemap(k)] = dst.classes[ClassRemap(k)]
        BY <1>5, <1>9, <2>2
      <3>2. ClassRemap(k)' = ClassRemap(k)
        BY <1>3, <2>2
      <3>3. Awaits(dst.chunks, dst.classes[ClassRemap(k)], src.classes[k])
        BY <1>7, <1>8, <2>2 DEF ClassesAwait
      <3>. QED
        BY <3>1, <3>2, <3>3
    <2>. QED
      BY <2>1, <2>2
  <1>12. OthersMembers'
    <2>. SUFFICES ASSUME NEW a \in 1..Len(dst'.classes),
                         \A k \in PlacedClasses \cup {j} : ClassRemap(k)' # a
                  PROVE  MembersIn(dst.chunks, dst'.classes[a])
      BY <1>3, <1>7 DEF OthersMembers
    <2>1. a # p
      BY <1>4
    <2>2. dst'.classes[a] # c
      <3>1. ClassesOnce(dst'.classes)
        BY <1>2, <1>3 DEF ClassNames
      <3>. QED
        BY <1>4, <1>6, <2>1, <3>1 DEF ClassesOnce
    <2>3. a \in 1..Len(dst.classes) /\ dst'.classes[a] = dst.classes[a]
      BY <1>5, <2>2
    <2>4. \A k \in PlacedClasses : ClassRemap(k) # a
      BY <1>3
    <2>. QED
      BY <1>7, <1>8, <2>3, <2>4 DEF OthersMembers
  <1>. QED
    BY <1>11, <1>12 DEF MemberInv

\* The fourth loop: the members of class i of src get the indices of dst.
LEMMA FixClassMembers ==
  ASSUME SeparateBuilds, Typed, Typed', Where, ChunkNames, ClassNames, MemberInv, FixClass,
         Fits, Fits'
  PROVE  MemberInv'
  <1>1. PICK j \in Nat : j = i
    BY DEF Typed
  <1>2. /\ phase = "methods" /\ phase' = "methods" /\ Busy /\ Live /\ Busy' /\ Live'
        /\ i' = j + 1 /\ src' = src
    BY <1>1 DEF FixClass, Busy, Live
  <1>3. PICK f \in 0..Len(dst.classes) : f = Find(dst.classes, src.classes[i].name)
    BY FindFacts, ModuleFacts DEF Typed
  <1>4. /\ j \in 1..Len(src.classes) /\ dst'.chunks = dst.chunks
        /\ Len(dst'.classes) = Len(dst.classes)
        /\ \A a \in 1..Len(dst.classes) : a # f => dst'.classes[a] = dst.classes[a]
        /\ f # 0 => dst'.classes[f] = Fixed(dst.classes[f], src.classes[j])
    BY <1>1, <1>3, FixStep
  <1>5. /\ ClassNames' /\ PlacedClasses' = PlacedClasses
        /\ \A k \in PlacedClasses : ClassRemap(k)' = ClassRemap(k)
        /\ PlacedClasses = 1..Len(src.classes)
    BY <1>2, LaterClasses DEF PlacedClasses
  <1>6. f = ClassRemap(j) /\ f \in 1..Len(dst.classes) /\ f # 0
    BY <1>1, <1>3, <1>4, <1>5, ClassPlaces DEF ClassRemap
  <1>7. WaitingClasses' = WaitingClasses \ {j} /\ j \in WaitingClasses
    <2>1. WaitingClasses = {k \in 1..Len(src.classes) : k >= j}
      BY <1>1, <1>2, <1>5 DEF WaitingClasses
    <2>2. WaitingClasses' = {k \in 1..Len(src.classes) : k >= j + 1}
      BY <1>2, <1>5 DEF WaitingClasses
    <2>. QED
      BY <1>4, <2>1, <2>2
  <1>8. ClassesAwait /\ OthersMembers
    BY <1>2 DEF MemberInv
  <1>9. ASSUME NEW k \in WaitingClasses, k # j
        PROVE  ClassRemap(k) \in 1..Len(dst.classes) /\ ClassRemap(k) # f
    <2>1. k \in PlacedClasses
      BY DEF WaitingClasses
    <2>. QED
      BY <1>4, <1>5, <1>6, <1>9, <2>1, ClassPlaces
  <1>10. ClassesAwait'
    <2>. SUFFICES ASSUME NEW k \in WaitingClasses, k # j
                  PROVE  Awaits(dst.chunks, dst'.classes[ClassRemap(k)'], src.classes[k])
      BY <1>2, <1>4, <1>7 DEF ClassesAwait
    <2>1. dst'.classes[ClassRemap(k)] = dst.classes[ClassRemap(k)]
      BY <1>4, <1>9
    <2>2. ClassRemap(k)' = ClassRemap(k)
      BY <1>5 DEF WaitingClasses
    <2>. QED
      BY <1>8, <2>1, <2>2 DEF ClassesAwait
  <1>11. MembersIn(dst.chunks, dst'.classes[f])
    <2>1. Awaits(dst.chunks, dst.classes[f], src.classes[j])
      BY <1>6, <1>7, <1>8 DEF ClassesAwait
    <2>2. dst.classes[f] \in ClassType /\ src.classes[j] \in ClassType
      BY <1>4, <1>6, ModuleFacts DEF Typed
    <2>3. src.classes[j] \in Classes(src)
      BY <1>4 DEF Classes
    <2>4. MembersIn(dst.chunks, Fixed(dst.classes[f], src.classes[j]))
      BY <1>2, <2>1, <2>2, <2>3, FixedRight
    <2>. QED
      BY <1>4, <1>6, <2>4
  <1>12. OthersMembers'
    <2>. SUFFICES ASSUME NEW a \in 1..Len(dst.classes),
                         \A k \in WaitingClasses' : ClassRemap(k)' # a
                  PROVE  MembersIn(dst.chunks, dst'.classes[a])
      BY <1>4 DEF OthersMembers
    <2>1. CASE a = f
      BY <1>11, <2>1
    <2>2. CASE a # f
      <3>1. \A k \in WaitingClasses : ClassRemap(k) # a
        BY <1>5, <1>6, <1>7, <2>2 DEF WaitingClasses
      <3>2. MembersIn(dst.chunks, dst.classes[a])
        BY <1>8, <3>1 DEF OthersMembers
      <3>. QED
        BY <1>4, <2>2, <3>2
    <2>. QED
      BY <2>1, <2>2
  <1>. QED
    BY <1>10, <1>12 DEF MemberInv

\* The steps that neither add a class nor fix one.
LEMMA OtherMembers ==
  ASSUME SeparateBuilds, Typed, Typed', Where, ChunkNames, ClassNames, MemberInv, Fits, Fits',
         Live', Live,
         Begin \/ AddChunk \/ ChunksDone \/ ClassesDone \/ RemapChunk \/ RemapDone \/ Merged
           \/ Seal \/ UNCHANGED vars
  PROVE  MemberInv'
  <1>1. Len(dst.chunks) \in Nat /\ Len(dst'.chunks) \in Nat /\ Len(src.classes) \in Nat
    BY ModuleFacts DEF Typed
  <1>2. CASE Begin \/ Merged
    <2>1. UNCHANGED <<build, dst>> /\ WaitingClasses = {} /\ WaitingClasses' = {}
      <3>1. CASE Begin
        <4>1. Busy'
          BY <3>1 DEF Begin, Pass, Live
        <4>2. PlacedClasses' = {} /\ UNCHANGED <<build, dst>>
          BY <3>1, <4>1, BeginNames, BeginClasses
        <4>3. PlacedClasses = {}
          BY <3>1 DEF Begin, PlacedClasses, Busy
        <4>. QED
          BY <4>2, <4>3 DEF WaitingClasses
      <3>2. CASE Merged
        <4>1. PlacedClasses' = {} /\ UNCHANGED <<build, dst>>
          BY <3>2, MergedNames, MergedClasses
        <4>2. phase = "methods" /\ i > Len(src.classes) /\ i \in Nat
          BY <3>2 DEF Merged, Typed
        <4>3. WaitingClasses = {}
          BY <1>1, <4>2 DEF WaitingClasses, PlacedClasses
        <4>. QED
          BY <4>1, <4>3 DEF WaitingClasses
      <3>. QED
        BY <1>2, <3>1, <3>2
    <2>2. Grows(dst.chunks, dst'.chunks) /\ dst'.classes = dst.classes
      BY <1>1, <2>1, GrowsFromItself
    <2>. QED
      BY <2>1, <2>2, MembersKept
  <1>3. CASE AddChunk \/ ChunksDone \/ ClassesDone \/ RemapChunk \/ RemapDone
    <2>1. /\ PlacedClasses' = PlacedClasses /\ UNCHANGED <<build, src>>
          /\ \A k \in PlacedClasses : ClassRemap(k)' = ClassRemap(k)
      BY <1>3, LaterClasses
    <2>2. dst'.classes = dst.classes
      <3>1. ~FixClass
        BY <1>3 DEF AddChunk, ChunksDone, ClassesDone, RemapChunk, RemapDone, FixClass
      <3>. QED
        BY <1>3, <3>1, LaterClasses
    <2>3. Grows(dst.chunks, dst'.chunks)
      <3>1. CASE AddChunk
        <4>1. PICK j \in Nat : j = i
          BY DEF Typed
        <4>2. \/ dst'.chunks = dst.chunks
              \/ /\ Len(dst'.chunks) = Len(dst.chunks) + 1
                 /\ \A a \in 1..Len(dst.chunks) : dst'.chunks[a] = dst.chunks[a]
          BY <3>1, <4>1, AddChunkNames
        <4>3. CASE dst'.chunks = dst.chunks
          BY <1>1, <4>3, GrowsFromItself
        <4>4. CASE /\ Len(dst'.chunks) = Len(dst.chunks) + 1
                   /\ \A a \in 1..Len(dst.chunks) : dst'.chunks[a] = dst.chunks[a]
          BY <1>1, <4>4 DEF Grows
        <4>. QED
          BY <4>2, <4>3, <4>4
      <3>2. CASE ChunksDone \/ ClassesDone \/ RemapDone
        <4>1. dst' = dst
          BY <3>2 DEF ChunksDone, ClassesDone, RemapDone, Ends
        <4>. QED
          BY <1>1, <4>1, GrowsFromItself
      <3>3. CASE RemapChunk
        <4>1. phase = "remap" /\ i <= Len(src.chunks) /\ Busy
          BY <3>3 DEF RemapChunk, Busy
        <4>2. i \in 1..(Len(src.chunks) + 1) /\ Len(src.chunks) \in Nat
          BY <4>1, ModuleFacts DEF Typed
        <4>3. Len(placed) = Len(src.chunks)
          BY <4>1 DEF Typed
        <4>4. i \in 1..Len(src.chunks)
          BY <4>1, <4>2
        <4>5. PICK at \in 0..Len(dst.chunks) : at = FnRemap(i)
          BY <4>3, <4>4, PlaceTyped
        <4>6. /\ Len(dst'.chunks) = Len(dst.chunks)
              /\ \A a \in 1..Len(dst.chunks) :
                   \/ dst'.chunks[a] = dst.chunks[a]
                   \/ dst'.chunks[a] = RemapCode(dst.chunks[a])
          <5>1. /\ Len(dst'.chunks) = Len(dst.chunks)
                /\ \A a \in 1..Len(dst.chunks) :
                     (a # at \/ src.chunks[i].body = "") => dst'.chunks[a] = dst.chunks[a]
                /\ (at # 0 /\ src.chunks[i].body # "") =>
                     dst'.chunks[at] = RemapCode(dst.chunks[at])
            BY <3>3, <4>5, RemapStep
          <5>2. \A a \in 1..Len(dst.chunks) : a # 0
            OBVIOUS
          <5>. QED
            BY <5>1, <5>2
        <4>7. \A a \in 1..Len(dst.chunks) : RemapCode(dst.chunks[a]).name = dst.chunks[a].name
          BY <4>3, ModuleFacts, RemapCodeTyped DEF Typed
        <4>. QED
          BY <1>1, <4>6, <4>7 DEF Grows
      <3>. QED
        BY <1>3, <3>1, <3>2, <3>3
    <2>4. WaitingClasses' = WaitingClasses
      <3>1. /\ phase # "methods"
            /\ phase' = "methods" => i' = 1
        BY <1>3 DEF AddChunk, ChunksDone, ClassesDone, RemapChunk, RemapDone, Ends, Pass
      <3>2. \A k \in PlacedClasses : k >= 1
        BY <1>1 DEF PlacedClasses
      <3>. QED
        BY <2>1, <3>1, <3>2 DEF WaitingClasses
    <2>. QED
      BY <2>1, <2>2, <2>3, <2>4, MembersKept DEF WaitingClasses
  <1>4. CASE Seal \/ UNCHANGED vars
    <2>1. /\ dst'.chunks = dst.chunks /\ dst'.classes = dst.classes
          /\ UNCHANGED <<build, src, placed, todo, phase, i>>
      BY <1>4, IdleNames
    <2>2. /\ PlacedClasses' = PlacedClasses
          /\ \A k \in PlacedClasses : ClassRemap(k)' = ClassRemap(k)
      BY <1>4, IdleClasses
    <2>3. WaitingClasses' = WaitingClasses
      BY <2>1, <2>2 DEF WaitingClasses
    <2>4. Grows(dst.chunks, dst'.chunks)
      BY <1>1, <2>1, GrowsFromItself
    <2>. QED
      BY <2>1, <2>2, <2>3, <2>4, MembersKept DEF WaitingClasses
  <1>. QED
    BY <1>2, <1>3, <1>4

LEMMA AlwaysMembers ==
  ASSUME SeparateBuilds
  PROVE  Spec => []MemberInv
  <1>1. Typed /\ Init => MemberInv
    BY InitMembers
  <1>2. Typed /\ Typed' /\ Where /\ ChunkNames /\ ClassNames /\ MemberInv /\ [Next]_vars => MemberInv'
    <2>. SUFFICES ASSUME Typed, Typed', Where, ChunkNames, ClassNames, MemberInv, [Next]_vars,
                         Live', Fits'
                  PROVE  MemberInv'
      BY DEF MemberInv
    <2>1. build' = build /\ (Live \/ MergeFails)
      BY DEF Next, Merge, Begin, AddChunk, ChunksDone, AddClass, ClassesDone, RemapChunk,
             RemapDone, FixClass, Merged, MergeFails, Seal, Ends, Pass, vars, Live, Busy
    <2>2. Fits
      BY <2>1 DEF Fits, AllClasses
    <2>3. CASE AddClass
      BY <2>2, <2>3, AddClassMembers
    <2>4. CASE FixClass
      BY <2>2, <2>4, FixClassMembers
    <2>5. CASE MergeFails
      BY <2>5 DEF MergeFails, Live, Busy
    <2>6. CASE ~(AddClass \/ FixClass \/ MergeFails)
      BY <2>1, <2>2, <2>6, OtherMembers DEF Next, Merge
    <2>. QED
      BY <2>3, <2>4, <2>5, <2>6
  <1>. QED
    BY <1>1, <1>2, AlwaysTyped, AlwaysWhere, AlwaysNames, AlwaysClasses, PTL DEF Spec

\* So does every method and every constructor of a class, the hollow classes that the
\* merge filled included.
THEOREM LinkedMembersAreRight ==
  ASSUME SeparateBuilds
  PROVE  Spec => []MethodsByName
  <1>1. Typed /\ MemberInv => MethodsByName
    <2>. SUFFICES ASSUME Typed, MemberInv, Linked, NEW a \in 1..Len(dst.classes)
                  PROVE  MembersByName(dst, dst.classes[a])
      BY DEF MethodsByName, Classes
    <2>1. WaitingClasses = {} /\ Live /\ Fits
      BY DEF Linked, WaitingClasses, PlacedClasses, Busy, Live
    <2>2. MembersIn(dst.chunks, dst.classes[a])
      BY <2>1 DEF MemberInv, OthersMembers
    <2>3. dst.classes[a] \in ClassType
      BY ModuleFacts DEF Typed
    <2>. QED
      BY <2>2, <2>3, MembersAsMembersIn
  <1>. QED
    BY <1>1, AlwaysTyped, AlwaysMembers, PTL
=============================================================================
