----------------------------- MODULE ModuleLink -----------------------------
(***************************************************************************)
(* Linking modules by name (source/compiler/compiler.c: module_merge,      *)
(* module_strip, module_seal; source/compiler/xbc.c: xbc_verify_module):   *)
(* a module is filled from others, one module_merge each, verified and     *)
(* sealed, as xeno_vm_run, xeno_vm_load_xar and xenovm do before they run  *)
(* it.                                                                     *)
(*                                                                         *)
(* A reference is an index that bytecode or a class holds, and the name of *)
(* the entity the compiler meant by it: the code has the index only.       *)
(* Indices count from 1; 0 is the code's -1.                               *)
(***************************************************************************)
EXTENDS Integers, Sequences, FiniteSets

CONSTANTS
    Builds,          \* what is linked: [start : Module, plan : Seq(Module)]
    MaxFunctions,    \* MODULE_MAX_FUNCTIONS
    MaxClasses       \* MODULE_MAX_CLASSES

(***************************************************************************)
(* Modules                                                                 *)
(***************************************************************************)
\* fn: OP_CALL, methods, constructors; class: CALL_SUPER, LOAD/STORE_STATIC, parents.
\* An operand also says what it needs: CALL its argc, LOAD/STORE_STATIC how many
\* fields the class must have to have theirs.
Operand(kind, index, name, needs) == [kind |-> kind, index |-> index, name |-> name, needs |-> needs]
Ref(kind, index, name) == Operand(kind, index, name, 0)

\* __sinit__, and the names module_merge gives it
Sinit == <<"__sinit__">>
Numbered(n) == <<"__sinit__", n>>
IsNumbered(name) == Len(name) = 2 /\ name[1] = "__sinit__"

NewModule == [chunks |-> <<>>, classes |-> <<>>, sealed |-> FALSE]

\* module_find and module_find_class: the first of that name, or 0
Find(table, name) ==
    IF \E k \in 1..Len(table) : table[k].name = name
      THEN CHOOSE k \in 1..Len(table) :
             /\ table[k].name = name
             /\ \A j \in 1..(k - 1) : table[j].name # name
      ELSE 0

\* A chunk's body says which function's code it holds, "" if none; code has the
\* references in it, and named the classes NEW and CALL_STATIC look up by name, with
\* the methods CALL_STATIC's slot asks for.  fit: what else ver_chunk asks of a chunk
\* (stack depths, jumps, constants), of which no merge changes anything.
Words     == {"", "__sinit__"} \cup STRING
Names     == (Words \X Nat) \cup Seq(Words)
Refs(kinds) == [kind : kinds, index : Nat, name : Names, needs : Nat]
ChunkType == [name : Names, body : Words, code : Seq(Refs({"fn", "class"})), params : Nat,
              named : SUBSET [name : Names, slots : Nat], fit : BOOLEAN]
ClassType == [name : Names, parent : Refs({"class"}), methods : Seq(Refs({"fn"})),
              ctor : Refs({"fn"}), fields : Nat, iface : BOOLEAN]
Module    == [chunks : Seq(ChunkType), classes : Seq(ClassType), sealed : BOOLEAN]

ASSUME LinkAssumption ==
    /\ MaxFunctions \in Nat /\ MaxClasses \in Nat
    /\ \A b \in Builds :
         /\ b.start \in Module /\ b.plan \in Seq(Module)
         /\ Len(b.start.chunks) <= MaxFunctions /\ Len(b.start.classes) <= MaxClasses

\* a stripped class: its methods come from the module that defines it
Hollow(class) == class.methods = <<>>

\* does r designate the entity it was compiled for?
Right(m, r) ==
    LET table == IF r.kind = "fn" THEN m.chunks ELSE m.classes
    IN r.index \in 1..Len(table) /\ table[r.index].name = r.name

(***************************************************************************)
(* module_strip: chunks of the named functions go, unless a surviving      *)
(* class uses them, and the named classes become hollow.                   *)
(***************************************************************************)
Stripped(m, fns, classes) ==
    LET named == {k \in 1..Len(m.chunks) : m.chunks[k].name \in fns /\ m.chunks[k].name # Sinit}
        survives(class) == class.name \notin classes
        used == UNION {{class.methods[j].index : j \in 1..Len(class.methods)} \cup {class.ctor.index} :
                         class \in {m.classes[k] : k \in {l \in 1..Len(m.classes) : survives(m.classes[l])}}}
        gone == named \ used
        place(k) == Cardinality((1..k) \ gone)
        move(r) == IF r.kind = "fn" /\ r.index \in (1..Len(m.chunks)) \ gone
                     THEN [r EXCEPT !.index = place(r.index)] ELSE r
        drop(r) == IF r.index \in gone THEN [r EXCEPT !.index = 0] ELSE move(r)
        kept(k) == CHOOSE l \in (1..Len(m.chunks)) \ gone : place(l) = k
        code(c) == [j \in 1..Len(c.code) |-> move(c.code[j])]
    IN [m EXCEPT
          !.chunks = [k \in 1..place(Len(m.chunks)) |->
                        [m.chunks[kept(k)] EXCEPT !.code = code(m.chunks[kept(k)])]],
          !.classes = [k \in 1..Len(m.classes) |->
                         IF survives(m.classes[k])
                           THEN [m.classes[k] EXCEPT
                                   !.methods = [j \in 1..Len(m.classes[k].methods) |->
                                                  move(m.classes[k].methods[j])],
                                   !.ctor = drop(m.classes[k].ctor)]
                           ELSE [m.classes[k] EXCEPT !.methods = <<>>,
                                                     !.ctor = [m.classes[k].ctor EXCEPT !.index = 0]]]]

(***************************************************************************)
(* State                                                                   *)
(***************************************************************************)
VARIABLES
    build,    \* what is being linked
    dst,      \* the module that is filled
    src,      \* the module being merged into it
    todo,     \* modules still to be merged
    phase,    \* where module_merge is
    i,        \* its loop's index
    placed    \* sinit_dst: where the __sinit__ chunks of src went

vars == <<build, dst, src, todo, phase, i, placed>>

Init ==
    /\ build \in Builds
    /\ dst = build.start
    /\ src = NewModule
    /\ todo = build.plan
    /\ phase = "idle"
    /\ i = 0
    /\ placed = <<>>

\* one pass over a table of src is over
Pass(to) == phase' = to /\ i' = 1

Ends(table, to) ==
    /\ i > Len(table)
    /\ Pass(to)
    /\ UNCHANGED <<build, dst, src, todo, placed>>

(***************************************************************************)
(* module_merge: the test for room, then the chunks                        *)
(***************************************************************************)
Present(c) == c.name # Sinit /\ Find(dst.chunks, c.name) # 0

Begin ==
    /\ phase = "idle" /\ todo # <<>>
    /\ src' = Head(todo)
    /\ todo' = Tail(todo)
    /\ placed' = [k \in 1..Len(src'.chunks) |-> 0]
    /\ LET add == {k \in 1..Len(src'.chunks) : ~Present(src'.chunks[k])}
       IN IF dst.sealed \/ Len(dst.chunks) + Cardinality(add) > MaxFunctions
            THEN phase' = "stopped" /\ i' = 0
            ELSE Pass("chunks")
    /\ UNCHANGED <<build, dst>>

NewName(c) == IF c.name = Sinit THEN Numbered(Len(dst.chunks)) ELSE c.name

AddChunk ==
    /\ phase = "chunks" /\ i <= Len(src.chunks)
    /\ i' = i + 1
    /\ LET c == src.chunks[i]
       IN IF Present(c)
            THEN UNCHANGED <<dst, placed>>
            ELSE /\ Len(dst.chunks) < MaxFunctions
                 /\ dst' = [dst EXCEPT !.chunks = Append(@, [c EXCEPT !.name = NewName(c)])]
                 /\ placed' = IF c.name = Sinit THEN [placed EXCEPT ![i] = Len(dst.chunks) + 1] ELSE placed
    /\ UNCHANGED <<build, src, todo, phase>>

ChunksDone == phase = "chunks" /\ Ends(src.chunks, "classes")

(***************************************************************************)
(* Classes: new ones are appended while there is room, hollow ones filled  *)
(***************************************************************************)
Fills_Never(class, at) == FALSE
Fills(class, at) == Hollow(dst.classes[at]) /\ ~Hollow(class)

ClassRoom_OffByOne == Len(dst.classes) <= MaxClasses
ClassRoom == Len(dst.classes) < MaxClasses

WithClass(class) ==
    LET at == Find(dst.classes, class.name)
    IN IF at # 0
         THEN IF Fills(class, at) THEN [dst EXCEPT !.classes[at] = class] ELSE dst
       ELSE IF ClassRoom THEN [dst EXCEPT !.classes = Append(@, class)] ELSE dst

AddClass ==
    /\ phase = "classes" /\ i <= Len(src.classes)
    /\ i' = i + 1
    /\ dst' = WithClass(src.classes[i])
    /\ UNCHANGED <<build, src, todo, phase, placed>>

ClassesDone == phase = "classes" /\ Ends(src.classes, "remap")

(***************************************************************************)
(* Indices: fn_remap and class_remap, and the code of every chunk of src,  *)
(* or of its namesake in dst                                               *)
(***************************************************************************)
FnRemap(k) == IF placed[k] # 0 THEN placed[k] ELSE Find(dst.chunks, src.chunks[k].name)
ClassRemap(k) == Find(dst.classes, src.classes[k].name)

\* chunk_remap_indices, on one operand
Remapped_CallsOnly(r) ==
    IF r.kind = "fn" /\ r.index \in 1..Len(src.chunks) /\ FnRemap(r.index) # 0
      THEN [r EXCEPT !.index = FnRemap(r.index)] ELSE r

Remapped(r) ==
    IF r.kind = "fn"
      THEN IF r.index \in 1..Len(src.chunks) /\ FnRemap(r.index) # 0
             THEN [r EXCEPT !.index = FnRemap(r.index)] ELSE r
      ELSE IF r.index \in 1..Len(src.classes) /\ ClassRemap(r.index) # 0
             THEN [r EXCEPT !.index = ClassRemap(r.index)] ELSE r

RemapCode(c) == [c EXCEPT !.code = [j \in 1..Len(c.code) |-> Remapped(c.code[j])]]

RemapChunk ==
    /\ phase = "remap" /\ i <= Len(src.chunks)
    /\ i' = i + 1
    /\ dst' = IF src.chunks[i].body # "" /\ FnRemap(i) # 0
                THEN [dst EXCEPT !.chunks[FnRemap(i)] = RemapCode(@)]
                ELSE dst
    /\ UNCHANGED <<build, src, todo, phase, placed>>

RemapDone == phase = "remap" /\ Ends(src.chunks, "methods")

(***************************************************************************)
(* Methods and constructors, by the names of src's chunks                  *)
(***************************************************************************)
Renamed_Unchanged(old, new) == old
\* the index old of dst's class, where src's class has the index new
Renamed(old, new) ==
    IF new.index \in 1..Len(src.chunks) /\ Find(dst.chunks, src.chunks[new.index].name) # 0
      THEN [old EXCEPT !.index = Find(dst.chunks, src.chunks[new.index].name)]
      ELSE old

\* class with the indices of from, the class of src with its name
Fixed(class, from) ==
    [class EXCEPT
       !.methods = [j \in 1..Len(class.methods) |->
                      IF j <= Len(from.methods) THEN Renamed(class.methods[j], from.methods[j])
                      ELSE class.methods[j]],
       !.ctor = Renamed(@, from.ctor)]

FixClass ==
    /\ phase = "methods" /\ i <= Len(src.classes)
    /\ i' = i + 1
    /\ LET from == src.classes[i]
           at == Find(dst.classes, from.name)
       IN dst' = IF at = 0 THEN dst ELSE [dst EXCEPT !.classes[at] = Fixed(@, from)]
    /\ UNCHANGED <<build, src, todo, phase, placed>>

Merged ==
    /\ phase = "methods" /\ i > Len(src.classes)
    /\ phase' = "idle" /\ i' = 0
    /\ UNCHANGED <<build, dst, src, todo, placed>>

\* module_merge returns false where an allocation fails or the chunk table is
\* full; what it has added stays, a chunk perhaps without its name and code
Unnamed(c) == [c EXCEPT !.name = <<"">>, !.body = "", !.code = <<>>]

MergeFails ==
    /\ \/ /\ phase = "chunks" /\ i <= Len(src.chunks) /\ ~Present(src.chunks[i])
          /\ \/ dst' = dst
             \/ /\ Len(dst.chunks) < MaxFunctions
                /\ dst' = [dst EXCEPT !.chunks = Append(@, Unnamed(src.chunks[i]))]
       \/ /\ phase = "classes" /\ i <= Len(src.classes)
          /\ dst' = WithClass(src.classes[i]) /\ dst' # dst
       \/ phase \in {"chunks", "remap"} /\ i = 1 /\ dst' = dst
    /\ phase' = "stopped" /\ i' = 0
    /\ UNCHANGED <<build, src, todo, placed>>

(***************************************************************************)
(* The host: verify and seal what is linked, or give up                    *)
(***************************************************************************)
\* xbc_verify_module after a merge: parents and their ancestors, members, chunks
Ancestors(m, k) ==
    LET up[n \in 0..Len(m.classes)] ==
          IF n = 0 THEN {m.classes[k].parent.index}
          ELSE up[n - 1] \cup {m.classes[l].parent.index : l \in up[n - 1] \ {0}}
    IN up[Len(m.classes)] \ {0}

Descends(m, k) == m.classes[k].parent.index \in 0..Len(m.classes) /\ k \notin Ancestors(m, k)

\* the function at the index has code
HasCode(m, index) == index \in 1..Len(m.chunks) /\ m.chunks[index].body # ""

\* an interface's methods may have no function; other methods, and a class's
\* constructor if it has one, have code
Resolved(m, class) ==
    IF class.iface
      THEN /\ class.ctor.index \in 0..Len(m.chunks)
           /\ \A j \in 1..Len(class.methods) : class.methods[j].index \in 0..Len(m.chunks)
      ELSE /\ class.ctor.index = 0 \/ HasCode(m, class.ctor.index)
           /\ \A j \in 1..Len(class.methods) : HasCode(m, class.methods[j].index)

\* the strict checks of ver_decode_one: OP_CALL's callee has code and as many
\* parameters as there are arguments; a class has the static field
Fitting(m, r) ==
    IF r.kind = "fn" THEN HasCode(m, r.index) /\ m.chunks[r.index].params = r.needs
    ELSE r.index \in 1..Len(m.classes) /\ r.needs <= m.classes[r.index].fields

\* ... and OP_NEW's and OP_CALL_STATIC's is found by its name, with the method
FoundByName(m, use) ==
    LET at == Find(m.classes, use.name)
    IN at # 0 /\ use.slots <= Len(m.classes[at].methods)

\* ver_chunk: an empty chunk passes
Decodes(m, c) ==
    c.body # "" => /\ c.fit
                   /\ \A j \in 1..Len(c.code) : Fitting(m, c.code[j])
                   /\ \A use \in c.named : FoundByName(m, use)

Verified(m) ==
    /\ \A k \in 1..Len(m.classes) : Descends(m, k) /\ Resolved(m, m.classes[k])
    /\ \A k \in 1..Len(m.chunks) : Decodes(m, m.chunks[k])

Seal ==
    /\ phase = "idle" /\ todo = <<>> /\ ~dst.sealed
    /\ IF Verified(dst)
         THEN phase' = phase /\ dst' = [dst EXCEPT !.sealed = TRUE]
         ELSE phase' = "refused" /\ dst' = dst
    /\ UNCHANGED <<build, src, todo, i, placed>>

Merge == \/ Begin \/ AddChunk \/ ChunksDone \/ AddClass \/ ClassesDone
         \/ RemapChunk \/ RemapDone \/ FixClass \/ Merged \/ MergeFails

Next == Merge \/ Seal

Spec == Init /\ [][Next]_vars

(***************************************************************************)
(* Properties                                                              *)
(***************************************************************************)
Chunks(m)  == {m.chunks[k] : k \in 1..Len(m.chunks)}
Classes(m) == {m.classes[k] : k \in 1..Len(m.classes)}

CodeByName(m) == \A c \in Chunks(m) : \A j \in 1..Len(c.code) : Right(m, c.code[j])

\* the methods of an interface have no functions
MembersByName(m, class) ==
    /\ \A j \in 1..Len(class.methods) :
         Right(m, class.methods[j]) \/ (class.iface /\ class.methods[j].index = 0)
    /\ class.ctor.index # 0 => Right(m, class.ctor)

Phases == {"idle", "chunks", "classes", "remap", "methods", "stopped", "refused"}

\* The tables module_merge fills stay within MODULE_MAX_FUNCTIONS and
\* MODULE_MAX_CLASSES, and its loops and sinit_dst within the tables.
TypeOK ==
    /\ phase \in Phases
    /\ Len(dst.chunks) <= MaxFunctions /\ Len(dst.classes) <= MaxClasses
    /\ dst.sealed \in BOOLEAN
    /\ phase \in {"chunks", "remap"} => i \in 1..(Len(src.chunks) + 1)
    /\ phase \in {"classes", "methods"} => i \in 1..(Len(src.classes) + 1)
    /\ \A k \in DOMAIN placed : placed[k] \in 0..Len(dst.chunks)

\* Is there room for every class that the build links?
AllClasses == Classes(build.start) \cup UNION {Classes(build.plan[n]) : n \in 1..Len(build.plan)}
Fits == Cardinality({class.name : class \in AllClasses}) <= MaxClasses

Linked == phase = "idle" /\ todo = <<>> /\ Fits

\* After the last merge every CALL, CALL_SUPER, LOAD_STATIC and STORE_STATIC of every
\* chunk designates the function or class it was compiled for, whatever the order
\* in which the modules came (chunk_remap_indices; includes/compiler.h: "module_merge
\* re-adds stdlib content and remaps operands to the final layout").
CallsByName == Linked => CodeByName(dst)

\* So does every method and constructor of a class.
MethodsByName == Linked => \A class \in Classes(dst) : MembersByName(dst, class)

\* The linked module holds every chunk of every module of the plan once, the static
\* initialisers too, and every class, with its methods and its constructor if one
\* module had them.
NothingLost ==
    Linked => \A n \in 1..Len(build.plan) :
        /\ \A c \in Chunks(build.plan[n]) : Cardinality({k \in 1..Len(dst.chunks) : dst.chunks[k].body = c.body}) = 1
        /\ \A class \in Classes(build.plan[n]) : \E d \in Classes(dst) :
              /\ d.name = class.name
              /\ Hollow(d) => Hollow(class)
              /\ class.ctor.index # 0 => d.ctor.index # 0

\* What every module of a build says of the functions and classes of every other is
\* true of them: functions have code and the parameters their callers give them,
\* classes the fields and methods that are used.
Part(b, n) == IF n = 0 THEN b.start ELSE b.plan[n]

Agrees(c, m) ==
    /\ \A j \in 1..Len(c.code) :
         IF c.code[j].kind = "fn"
           THEN \A d \in Chunks(m) : d.name = c.code[j].name => d.body # "" /\ d.params = c.code[j].needs
           ELSE \A d \in Classes(m) : d.name = c.code[j].name => c.code[j].needs <= d.fields
    /\ \A use \in c.named : \A d \in Classes(m) :
         d.name = use.name /\ ~Hollow(d) => use.slots <= Len(d.methods)

Members(class) == {class.methods[j].name : j \in 1..Len(class.methods)} \cup {class.ctor.name}

Compatible(b) ==
    /\ \A n, p \in 0..Len(b.plan) :
         /\ \A c \in Chunks(Part(b, n)) : c.fit /\ Agrees(c, Part(b, p))
         /\ \A class \in Classes(Part(b, n)) : ~class.iface =>
              \A d \in Chunks(Part(b, p)) : d.name \in Members(class) => d.body # ""
    /\ \A n \in 0..Len(b.plan) : \A c \in Chunks(Part(b, n)) : \A use \in c.named :
         \E p \in 0..Len(b.plan) : \E d \in Classes(Part(b, p)) :
           d.name = use.name /\ (use.slots = 0 \/ ~Hollow(d))

\* What was compiled against the modules it is linked with is never refused by the
\* verification after the merge: CALLs find code of the right arity, static accesses
\* their fields, NEW and CALL_STATIC their class and its method, whatever the order
\* and the hollow classes (xbc.c, xbc_verify_module with XBC_VERIFY_POST_MERGE).
LinkIsAccepted == phase = "refused" => ~Fits \/ ~Compatible(build)

\* In a linked module parent_index designates the class the source names after the
\* colon (includes/bytecode.h: "ClassDef index of parent, or -1").
ParentsByName ==
    Linked => \A class \in Classes(dst) : class.parent.index # 0 => Right(dst, class.parent)

(***************************************************************************)
(* What the proofs ask of a build.  Not assumed: a script that inherits a  *)
(* method from a library keeps a copy of it, and module_merge remaps it    *)
(* again (the runs of MCModuleLink have both kinds).                       *)
(***************************************************************************)
Fns(refs) == {refs[j].name : j \in {l \in 1..Len(refs) : refs[l].kind = "fn"}}

Initialiser(name) == name = Sinit \/ IsNumbered(name)

\* A module as compiled: names are unique, indices are those of the names, and
\* nothing calls a static initialiser.  A chunk without a body is one of no bytes.
Sound(m) ==
    /\ CodeByName(m)
    /\ \A c \in Chunks(m) : /\ \A name \in Fns(c.code) : ~Initialiser(name)
                            /\ c.body = "" => c.code = <<>>
    /\ \A class \in Classes(m) :
         /\ MembersByName(m, class)
         /\ \A name \in Fns(class.methods) \cup {class.ctor.name} : ~Initialiser(name)
    /\ \A k, l \in 1..Len(m.chunks) :
         m.chunks[k].name = m.chunks[l].name /\ m.chunks[k].name # Sinit => k = l
    /\ \A k, l \in 1..Len(m.classes) : m.classes[k].name = m.classes[l].name => k = l

\* A function that two modules hold refers to nothing; a class that two modules hold
\* has its methods in one of them.
Apart(m, other) ==
    /\ \A c \in Chunks(m), d \in Chunks(other) : c.name = d.name /\ c.name # Sinit => c.code = <<>>
    /\ \A class \in Classes(m), same \in Classes(other) : class.name = same.name =>
         class.ctor.name = same.ctor.name /\ (Hollow(class) \/ Hollow(same))

\* The initialisers of the plan have their names from this merge or from an earlier
\* one, not some from each: numbers given twice are the same name.
OneNumbering(b) ==
    (\E n \in 1..Len(b.plan) : \E c \in Chunks(b.plan[n]) : c.name = Sinit) =>
      \A n \in 0..Len(b.plan) : \A c \in Chunks(Part(b, n)) : ~IsNumbered(c.name)

Separate(b) ==
    /\ \A n \in 0..Len(b.plan) : Sound(Part(b, n))
    /\ \A n, p \in 0..Len(b.plan) : n # p => Apart(Part(b, n), Part(b, p))
    /\ OneNumbering(b)

\* module_merge keeps the first function of a name.  Here a name is that of one
\* function, of which each module that holds it has the code, and functions of
\* different names are different.
OneFunctionPerName(b) ==
    \A n, p \in 0..Len(b.plan) :
      \A k \in 1..Len(Part(b, n).chunks), l \in 1..Len(Part(b, p).chunks) :
        LET c == Part(b, n).chunks[k]
            d == Part(b, p).chunks[l]
        IN c.body = d.body <=> (n = p /\ k = l) \/ (c.name = d.name /\ c.name # Sinit)

\* A class that has its methods has its constructor too.
WholeClasses(b) ==
    \A n, p \in 0..Len(b.plan) : \A class \in Classes(Part(b, n)), same \in Classes(Part(b, p)) :
      class.name = same.name /\ ~Hollow(class) /\ same.ctor.index # 0 => class.ctor.index # 0

Whole(b) == OneFunctionPerName(b) /\ WholeClasses(b)

\* A parent's index, which no merge rewrites, is below the place the class has in its
\* own module and in any that is merged before it.
ParentsFirst(b) ==
    \A n \in 0..Len(b.plan) : \A p \in n..Len(b.plan) :
      \A k \in 1..Len(Part(b, n).classes), l \in 1..Len(Part(b, p).classes) :
        Part(b, n).classes[k].name = Part(b, p).classes[l].name =>
          Part(b, p).classes[l].parent.index < k
=============================================================================
