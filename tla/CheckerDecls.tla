---------------------------- MODULE CheckerDecls ----------------------------
(***************************************************************************)
(* The passes of checker_check (source/core/checker.c) over the            *)
(* declarations of a program, and the pass of compile_staged that builds   *)
(* the class table of the programs they accept.                            *)
(*                                                                         *)
(* A program is the sequence of its declarations, with the names that the  *)
(* libraries have seeded, the interfaces among the libraries' classes (of  *)
(* each the names of its methods), and whether functions may stand at top  *)
(* level.  A library's function hides its interface of the same name from  *)
(* the checker, not from the code generator.  A declaration has a kind, a  *)
(* name, bases (names with type arguments), and what classes and           *)
(* interfaces have in Declarations; a method says also whether it is       *)
(* virtual, and override.  A library's classes have no members and no      *)
(* parents here.                                                           *)
(***************************************************************************)
EXTENDS NamedLists, SequencesExt

CONSTANTS Programs,             \* the programs that may be given
          MaxFields, MaxMethods,
          SameType(_, _),       \* type_equals
          Substitute(_, _)      \* substitute_type

ASSUME LimitsAssumption == MaxFields \in Nat /\ MaxMethods \in Nat
\* "" stands for a class where there is none; the parser gives no field the type TYPE_PARAM
ASSUME ProgramsAssumption ==
    \A p \in Programs :
      /\ IsList(p.decls)
      /\ "" \notin DOMAIN p.seeded
      /\ \A i \in DOMAIN p.ifaces : IsList(p.ifaces[i])
      /\ \A k \in DOMAIN p.decls :
           LET d == p.decls[k] IN
           /\ d.name # ""
           /\ IsList(d.bases) /\ IsList(d.fields) /\ IsList(d.methods)
           /\ \A i \in DOMAIN d.fields : d.fields[i].static \in BOOLEAN /\ d.fields[i].type.k # "param"
           /\ \A i \in DOMAIN d.methods : d.methods[i].static \in BOOLEAN

VARIABLES program,      \* the program given
          phase,        \* the pass that is next, or what of a class is compiled next
          at,           \* the declaration a pass is at
          member,       \* the member of the class that is compiled next
          symbols,      \* global scope: of every name its kind, its declaration (0: seeded)
          parents,      \* of every class declaration the base that became its parent, if any
          owed,         \* pass 1b2: what is left to be found, first the one looked for
          search,       \* the class it is looked for in
          complaints,
          defs          \* the compiled module's classes
vars == <<program, phase, at, member, symbols, parents, owed, search, complaints, defs>>

Decls == program.decls
IsKind(name, kind) == name \in DOMAIN symbols /\ symbols[name].kind = kind
Known(name, kind) == IsKind(name, kind) /\ symbols[name].decl # 0
DeclOf(name) == Decls[symbols[name].decl]

Indices(kind) == {k \in DOMAIN Decls : Decls[k].kind = kind}

(***************************************************************************)
(* Declarations as the rest of the checker knows them                      *)
(***************************************************************************)
ParentName(k) == IF parents[k] = <<>> THEN "" ELSE parents[k][1].name
ClassOf(k) ==
    LET d == Decls[k] IN
    [parent |-> ParentName(k), pargs |-> IF parents[k] = <<>> THEN <<>> ELSE parents[k][1].args,
     tparams |-> d.tparams, fields |-> d.fields, methods |-> d.methods, lib |-> FALSE]
Table == [n \in {c \in DOMAIN symbols : Known(c, "class")} |-> ClassOf(symbols[n].decl)]

M == INSTANCE Members WITH Classes <- Table
L == INSTANCE ClassLayout WITH Defs <- defs

Fail(errs) == complaints' = complaints \cup errs
Pass(from, to) == phase = from /\ phase' = to

(***************************************************************************)
(* Pass 1: every declaration's name is registered                          *)
(***************************************************************************)
\* functions without a test for a first body
Refused_ManyBodies(old, d) ==
    CASE d.kind = "class"     -> old.kind = "interface" \/ (old.kind = "class" /\ old.decl # 0)
      [] d.kind = "interface" -> ~(old.kind = "class" \/ (old.kind = "interface" /\ old.decl = 0))
      [] d.kind = "fn"        -> old.kind # "fn"
      [] OTHER                -> TRUE

\* a class over an enum, an event or a function is not complained of, nor an interface over a class
Refused(old, d) ==
    IF d.kind = "class" THEN old.kind = "interface" \/ (old.kind = "class" /\ old.decl # 0)
    ELSE IF d.kind = "interface" THEN ~(old.kind = "class" \/ (old.kind = "interface" /\ old.decl = 0))
    ELSE IF d.kind = "fn" THEN ~(old.kind = "fn" /\ old.decl = 0)
    ELSE TRUE

\* the name's second declaration takes it over where the first was seeded, and every interface does
Takes(old, d) == d.kind = "interface" \/ (d.kind \in {"class", "fn"} /\ old.kind = d.kind)

AtTopLevel(d) == d.kind \in {"fn", "event"} /\ ~program.topLevel

Declared(name, here) == [n \in DOMAIN symbols \cup {name} |-> IF n = name THEN here ELSE symbols[n]]

Register ==
    LET d == Decls[at]
        taken == d.name \in DOMAIN symbols
        refused == taken /\ Refused(symbols[d.name], d)
        stays == refused \/ (taken /\ ~Takes(symbols[d.name], d))
    IN /\ phase = "register" /\ at \in DOMAIN Decls
       /\ at' = at + 1
       /\ \/ /\ AtTopLevel(d) /\ d.kind = "fn"
             /\ Fail({"top level"}) /\ UNCHANGED symbols
          \/ /\ ~(AtTopLevel(d) /\ d.kind = "fn")
             /\ symbols' = IF stays THEN symbols ELSE Declared(d.name, [kind |-> d.kind, decl |-> at])
             /\ Fail((IF AtTopLevel(d) THEN {"top level"} ELSE {})
                       \cup (IF refused THEN {"declared twice"} ELSE {}))
       /\ UNCHANGED <<program, phase, member, parents, owed, search, defs>>

(***************************************************************************)
(* Passes 1b: which base is the parent, and what an interface extends      *)
(***************************************************************************)
ParentAmong_All(bases) == SelectSeq(bases, LAMBDA b : IsKind(b.name, "class"))
\* the first base that is a class
ParentAmong(bases) ==
    LET classes == {i \in DOMAIN bases : IsKind(bases[i].name, "class")}
    IN IF classes = {} THEN <<>> ELSE <<bases[Min(classes)]>>

BaseComplaints(bases) ==
    LET undeclared == \E i \in DOMAIN bases : bases[i].name \notin DOMAIN symbols
        other == \E i \in DOMAIN bases : bases[i].name \in DOMAIN symbols
                                           /\ symbols[bases[i].name].kind \notin {"class", "interface"}
        several == \E i, j \in DOMAIN bases :
                     i < j /\ IsKind(bases[i].name, "class") /\ IsKind(bases[j].name, "class")
    IN (IF undeclared /\ "Attribute" \in DOMAIN symbols THEN {"base not declared"} ELSE {})
         \cup (IF other THEN {"base"} ELSE {}) \cup (IF several THEN {"two parents"} ELSE {})

IfaceComplaints(d) == IF d.parent = "" \/ IsKind(d.parent, "interface") THEN {} ELSE {"interface parent"}

ResolveParents ==
    /\ Pass("register", "interfaces") /\ at > Len(Decls)
    /\ parents' = [k \in Indices("class") |-> ParentAmong(Decls[k].bases)]
    /\ Fail(UNION {BaseComplaints(Decls[k].bases) : k \in Indices("class")}
              \cup UNION {IfaceComplaints(Decls[k]) : k \in Indices("interface")})
    /\ UNCHANGED <<program, at, member, symbols, owed, search, defs>>

(***************************************************************************)
(* Pass 1b2: every method of every interface a class lists, and of those   *)
(* it extends, is found in the class or above it.  Nothing ends a search   *)
(* through classes that are their own ancestors.                           *)
(***************************************************************************)
\* an interface and those above it, no more than 32
IfacesFrom(name) ==
    LET next == [i \in DOMAIN symbols \cup {""} |->
                   IF Known(i, "interface") /\ DeclOf(i).parent \in DOMAIN symbols THEN DeclOf(i).parent ELSE ""]
        up == Iterate(next, name)
    IN IF name \notin DOMAIN symbols THEN <<>>
       ELSE [i \in 1..Cardinality({n \in 0..31 : Known(up[n], "interface")}) |-> up[i - 1]]

\* the arguments given to the listed interface stand for the parameters of those above it too
Required(cls, base, iface) ==
    LET d == DeclOf(iface)
        binding == Bind(d.tparams, base.args)
        of(m) == [cls |-> cls, name |-> m.name, lib |-> FALSE, ret |-> Substitute(m.ret, binding),
                  params |-> [i \in DOMAIN m.params |-> Substitute(m.params[i].type, binding)]]
    IN [i \in DOMAIN d.methods |-> of(d.methods[i])]

\* the walk ends at an interface known by its ClassDef alone, which asks for names only
LibraryRequired(cls, base) ==
    LET ifaces == IfacesFrom(base.name)
        last == IF ifaces = <<>> THEN base.name ELSE DeclOf(ifaces[Len(ifaces)]).parent
    IN IF Len(ifaces) = 32 \/ ~IsKind(last, "interface") \/ last \notin DOMAIN program.ifaces THEN <<>>
       ELSE [i \in DOMAIN program.ifaces[last] |-> [cls |-> cls, name |-> program.ifaces[last][i], lib |-> TRUE]]

\* one interface after the other
Asked(cls, base) ==
    LET ifaces == IfacesFrom(base.name)
    IN Append([i \in DOMAIN ifaces |-> Required(cls, base, ifaces[i])], LibraryRequired(cls, base))

RequiredBy(cls, base) == FlattenSeq(Asked(cls, base))

OwedBy(d) ==
    IF d.kind # "class" THEN <<>>
    ELSE FlattenSeq([i \in DOMAIN d.bases |-> RequiredBy(d.name, d.bases[i])])

Owed == FlattenSeq([k \in DOMAIN Decls |-> OwedBy(Decls[k])])

StartCompliance ==
    /\ Pass("interfaces", "compliance")
    /\ owed' = Owed
    /\ search' = IF owed' = <<>> THEN "" ELSE Head(owed').cls
    /\ UNCHANGED <<program, at, member, symbols, parents, complaints, defs>>

\* the first method of that name that is not static
Instances(methods, name) == {i \in DOMAIN methods : methods[i].name = name /\ ~methods[i].static}
Instance_(methods, name) == methods[Min(Instances(methods, name))]

SameIface(a, b) == {a.k, b.k} = {"object"} /\ a.n = b.n /\ IsKind(a.n, "interface")

Mismatch_CountOnly(m, req) == IF ~req.lib /\ Len(m.params) # Len(req.params) THEN {"parameter count"} ELSE {}
Mismatch(m, req) ==
    IF req.lib THEN {}
    ELSE
    (IF SameType(m.ret, req.ret) \/ SameIface(m.ret, req.ret) THEN {} ELSE {"return type"})
      \cup (IF Len(m.params) # Len(req.params) THEN {"parameter count"}
            ELSE IF \A i \in DOMAIN m.params : SameType(m.params[i].type, req.params[i]) THEN {}
            ELSE {"parameter type"})

Climb_Stays(cls) == cls
Climb(cls) == ParentName(symbols[cls].decl)

\* one class of the search
Search ==
    LET req == Head(owed)
        methods == DeclOf(search).methods
        next == /\ owed' = Tail(owed)
                /\ search' = IF Len(owed) = 1 THEN "" ELSE owed[2].cls
    IN /\ phase = "compliance" /\ owed # <<>>
       /\ \/ ~Known(search, "class") /\ Fail({"missing method"}) /\ next
          \/ /\ Known(search, "class") /\ Instances(methods, req.name) # {}
             /\ Fail(Mismatch(Instance_(methods, req.name), req)) /\ next
          \/ /\ Known(search, "class") /\ Instances(methods, req.name) = {}
             /\ search' = Climb(search) /\ UNCHANGED <<owed, complaints>>
       /\ UNCHANGED <<program, phase, at, member, symbols, parents, defs>>

(***************************************************************************)
(* Duplicate members; override and virtual                                 *)
(***************************************************************************)
Duplicates(d) ==
    IF \E i, j \in DOMAIN d.methods : i < j /\ d.methods[i].name = d.methods[j].name THEN {"duplicate method"} ELSE {}

\* the classes from a class upwards
Upwards(cls) ==
    LET next == [c \in DOMAIN Table |-> IF Table[c].parent \in DOMAIN Table THEN Table[c].parent ELSE c]
    IN Iterate(next, cls)

\* those above a declaration, no more than 32
Ancestors(k) ==
    IF ParentName(k) \notin DOMAIN Table THEN {} ELSE {Upwards(ParentName(k))[n] : n \in 0..31}

Overridden(k, m) ==
    LET found == {c \in Ancestors(k) : Instances(Table[c].methods, m.name) # {}}
    IN [any |-> found # {}, virtual |-> \E c \in found : Instance_(Table[c].methods, m.name).virtual]

OverrideComplaints(k, m) ==
    LET above == Overridden(k, m) IN
    CASE m.static -> {}
      [] m.override -> IF ~above.any THEN {"overrides nothing"}
                       ELSE IF ~above.virtual THEN {"parent not virtual"} ELSE {}
      [] OTHER -> IF above.virtual THEN {"shadows virtual"} ELSE {}

MemberComplaints(k) ==
    Duplicates(Decls[k])
      \cup (IF parents[k] = <<>> THEN {}
            ELSE UNION {OverrideComplaints(k, Decls[k].methods[i]) : i \in DOMAIN Decls[k].methods})

CheckMembers ==
    /\ owed = <<>> /\ Pass("compliance", "checked")
    /\ Fail(UNION {MemberComplaints(k) : k \in Indices("class")})
    /\ UNCHANGED <<program, at, member, symbols, parents, owed, search, defs>>

(***************************************************************************)
(* Pass 1 of the code generator: the classes in the order of the source,   *)
(* their fields and then their methods.  An interface takes the place of   *)
(* the class whose name it took over; no class takes that of an interface  *)
(* the module has.                                                         *)
(***************************************************************************)
StartCompile ==
    /\ complaints = {} /\ Pass("checked", "classes")
    /\ at' = 1 /\ member' = 1
    /\ UNCHANGED <<program, symbols, parents, owed, search, complaints, defs>>

Compiles(d) == d.kind = "class"

\* the class of that name the module has by now is an interface
IsIfaceInModule(name) ==
    \/ name \in DOMAIN program.ifaces
    \/ \E j \in 1..(at - 1) : Decls[j].kind = "interface" /\ Decls[j].name = name

SkipDecl ==
    /\ phase = "classes" /\ at \in DOMAIN Decls /\ Decls[at].kind \notin {"class", "interface"}
    /\ at' = at + 1
    /\ UNCHANGED <<program, phase, member, symbols, parents, owed, search, complaints, defs>>

PlaceInterface ==
    /\ phase = "classes" /\ at \in DOMAIN Decls /\ Decls[at].kind = "interface"
    /\ at' = at + 1 /\ defs' = [c \in DOMAIN defs \ {Decls[at].name} |-> defs[c]]
    /\ UNCHANGED <<program, phase, member, symbols, parents, owed, search, complaints>>

\* ends the loop over the declarations
RefuseClass ==
    /\ phase = "classes" /\ at \in DOMAIN Decls /\ Compiles(Decls[at]) /\ IsIfaceInModule(Decls[at].name)
    /\ Fail({"conflicts with an interface"}) /\ at' = Len(Decls) + 1
    /\ UNCHANGED <<program, phase, member, symbols, parents, owed, search, defs>>

Becomes(cls, def) == defs' = [c \in DOMAIN defs \cup {cls} |-> IF c = cls THEN def ELSE defs[c]]

OpenClass ==
    /\ Pass("classes", "fields") /\ at \in DOMAIN Decls /\ Compiles(Decls[at]) /\ ~IsIfaceInModule(Decls[at].name)
    /\ Becomes(Decls[at].name, L!Inherit(defs, ClassOf(at)))
    /\ UNCHANGED <<program, at, member, symbols, parents, owed, search, complaints>>

\* a full class ends the loop over the fields
PlaceField ==
    LET cls == Decls[at].name  fields == Decls[at].fields IN
    /\ phase = "fields" /\ member \in DOMAIN fields
    /\ \/ /\ ~L!FullOfFields(defs[cls])
          /\ Becomes(cls, L!AddField(defs[cls], fields[member]))
          /\ member' = member + 1 /\ UNCHANGED complaints
       \/ /\ L!FullOfFields(defs[cls])
          /\ Fail({"too many fields"}) /\ member' = Len(fields) + 1 /\ UNCHANGED defs
    /\ UNCHANGED <<program, phase, at, symbols, parents, owed, search>>

FieldsPlaced ==
    /\ Pass("fields", "methods") /\ member \notin DOMAIN Decls[at].fields
    /\ member' = 1
    /\ UNCHANGED <<program, at, symbols, parents, owed, search, complaints, defs>>

PlaceMethod ==
    LET cls == Decls[at].name  methods == Decls[at].methods IN
    /\ phase = "methods" /\ member \in DOMAIN methods
    /\ \/ /\ ~L!FullOfMethods(defs[cls], methods[member])
          /\ Becomes(cls, L!AddMethod(cls, defs[cls], methods[member]))
          /\ member' = member + 1 /\ UNCHANGED complaints
       \/ /\ L!FullOfMethods(defs[cls], methods[member])
          /\ Fail({"too many methods"}) /\ member' = Len(methods) + 1 /\ UNCHANGED defs
    /\ UNCHANGED <<program, phase, at, symbols, parents, owed, search>>

CloseClass ==
    /\ Pass("methods", "classes") /\ member \notin DOMAIN Decls[at].methods
    /\ at' = at + 1 /\ member' = 1
    /\ UNCHANGED <<program, symbols, parents, owed, search, complaints, defs>>

EndCompile ==
    /\ Pass("classes", "compiled") /\ at > Len(Decls)
    /\ UNCHANGED <<program, at, member, symbols, parents, owed, search, complaints, defs>>

Init ==
    /\ program \in Programs
    /\ phase = "register" /\ at = 1 /\ member = 1
    /\ symbols = [n \in DOMAIN program.seeded |-> [kind |-> program.seeded[n], decl |-> 0]]
    /\ parents = <<>> /\ owed = <<>> /\ search = "" /\ complaints = {}
    /\ defs = [c \in {} |-> L!NoClass]

Next ==
    \/ Register \/ ResolveParents \/ StartCompliance \/ Search \/ CheckMembers
    \/ StartCompile \/ SkipDecl \/ PlaceInterface \/ RefuseClass \/ OpenClass \/ PlaceField \/ FieldsPlaced \/ PlaceMethod
    \/ CloseClass \/ EndCompile

Spec == Init /\ [][Next]_vars /\ WF_vars(Search)

(***************************************************************************)
(* Properties                                                              *)
(***************************************************************************)
TypeOK ==
    /\ phase \in {"register", "interfaces", "compliance", "checked", "classes", "fields", "methods", "compiled"}
    /\ at \in 1..(Len(Decls) + 1)
    /\ \A n \in DOMAIN symbols : symbols[n].decl \in 0..Len(Decls)
    /\ \A k \in DOMAIN parents : Len(parents[k]) <= 1
    /\ owed # <<>> => phase = "compliance"
    /\ \A c \in DOMAIN defs : Len(defs[c].fields) <= MaxFields /\ Len(defs[c].methods) <= MaxMethods

AcceptedDecls == phase \notin {"register", "interfaces", "compliance"} /\ complaints = {}
Compiled == phase = "compiled" /\ complaints = {}

\* An accepted program declares every name once, but for what the checker lets pass: a
\* class under the name of what is neither class nor interface, be it seeded or declared,
\* an interface under that of a class, and the body of a seeded function (checker_check,
\* pass 1).
DeclaredOnce ==
    AcceptedDecls => \A j, k \in DOMAIN Decls :
      j < k /\ Decls[j].name = Decls[k].name =>
        \/ Decls[k].kind = "class" /\ symbols[Decls[k].name].kind \notin {"class", "interface"}
        \/ Decls[j].kind = "class" /\ Decls[k].kind = "interface"
        \/ Decls[j].kind = "class" /\ Decls[k].kind = "fn" /\ Decls[k].name \in DOMAIN program.seeded

\* a class and its ancestors
Lineage(cls) == {Upwards(cls)[n] : n \in 0..Len(Decls)}

\* The check ends, unless it looks for a method that no class of a circle of parents has,
\* in the circle (pass 1b2: nothing bounds the walk up the classes).
InCircle(cls) == Table[Upwards(cls)[Len(Decls)]].parent \in DOMAIN Table
LacksOne ==
    /\ owed # <<>> /\ search \in DOMAIN Table /\ InCircle(search)
    /\ \A c \in Lineage(search) : Instances(Table[c].methods, Head(owed).name) = {}
CheckEnds == phase = "compliance" ~> (owed = <<>> \/ LacksOne)

\* A class declared before its parent, or as its own, is compiled without one.
Orphaned(cls) ==
    \E c \in Lineage(cls) :
      Table[c].parent \in DOMAIN Table /\ symbols[Table[c].parent].decl >= symbols[c].decl

NamesAbove(list, cls) ==
    UNION {{Table[c][list][i].name : i \in DOMAIN Table[c][list]} : c \in Lineage(cls)}

\* the nearest declaration
Nearest(list, cls, name) ==
    Upwards(cls)[Min({n \in 0..Len(Decls) : Has(Table[Upwards(cls)[n]][list], name)})]

OfClass(cls) == [n |-> cls, args |-> <<>>]

\* A call through any class above an object's, by the slot the method has there, reaches
\* the declaration nearest to the object's class, but for classes that lost their parent
\* (AddMethod's slots, check_expr's walk).
MethodsMeanTheMethod ==
    Compiled =>
      \A obj \in DOMAIN Table : ~Orphaned(obj) =>
        \A static \in Lineage(obj) : \A name \in NamesAbove("methods", static) :
          LET slot == L!MethodSlot(static, name) + 1
              entry == defs[obj].methods[slot]
          IN M!MethodOf(OfClass(static), name).how = "here" =>
               /\ slot \in DOMAIN defs[obj].methods
               /\ entry.name = name /\ entry.owner = Nearest("methods", obj, name)

\* What CALL_IFACE finds: the class's first method of that name that is not static, or
\* that of the nearest of its ancestors which has one.
AtRunTime(cls) ==
    LET next == [c \in DOMAIN defs |-> IF defs[c].parent \in DOMAIN defs THEN defs[c].parent ELSE c]
    IN Iterate(next, cls)
Answering(cls, name) ==
    {n \in 0..Cardinality(DOMAIN defs) : Instances(defs[AtRunTime(cls)[n]].methods, name) # {}}
Answer(cls, name) == Instance_(defs[AtRunTime(cls)[Min(Answering(cls, name))]].methods, name)

Answers(m, req) ==
    /\ SameType(m.ret, req.ret) \/ (m.ret.n = req.ret.n /\ IsKind(m.ret.n, "interface"))
    /\ Len(m.params) = Len(req.params)
    /\ \A i \in DOMAIN m.params : SameType(m.params[i].type, req.params[i])

\* An object of an accepted class answers every method of every interface the class lists
\* and of those above it, with the signature the interface gives it (the arguments of the
\* listed interface in place of its parameters) unless it is a library's interface, but
\* for a static method of that name and a class that lost its parent.
InterfaceKept ==
    Compiled =>
      \A cls \in DOMAIN Table : ~Orphaned(cls) =>
        \A b \in DOMAIN DeclOf(cls).bases :
          LET asked == Asked(cls, DeclOf(cls).bases[b]) IN
          \A i \in DOMAIN asked : \A r \in DOMAIN asked[i] :
            LET req == asked[i][r]  answer == Answer(cls, req.name) IN
            \/ \E c \in Lineage(cls) : \E m \in DOMAIN Table[c].methods :
                 Table[c].methods[m].name = req.name /\ Table[c].methods[m].static
            \/ /\ Answering(cls, req.name) # {}
               /\ req.lib \/ Answers(Get(Table[answer.owner].methods, req.name), req)

\* A field keeps its slot and its type in every class below the one that declares it, and
\* no two fields of an object share a slot, unless one of that name is declared again.
InstanceFields(cls) == {i \in DOMAIN defs[cls].fields : ~defs[cls].fields[i].static}
FieldsMeanTheField ==
    Compiled =>
      \A obj \in DOMAIN Table : ~Orphaned(obj) =>
        /\ \A i, j \in InstanceFields(obj) : i # j => defs[obj].fields[i].slot # defs[obj].fields[j].slot
        /\ \A static \in Lineage(obj) : \A name \in NamesAbove("fields", static) :
             LET found == M!FieldOf(OfClass(static), name)
                 again == {c \in Lineage(obj) : Has(Table[c].fields, name)}
             IN found.how = "here" /\ ~found.member.static /\ again = {found.owner} =>
                  \E i \in InstanceFields(obj) :
                    LET field == defs[obj].fields[i] IN
                    /\ field.slot = L!InstanceSlot(static, name) /\ field.name = name
                    /\ field.type = found.member.type
=============================================================================
