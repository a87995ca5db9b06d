---------------------------- MODULE MCModuleLink ----------------------------
(***************************************************************************)
(* Libraries and a script that extends and uses them, as the compiler and  *)
(* module_strip_stdlib leave them, linked in every order in the ways hosts *)
(* do.  Uses is what the chunks of the libraries and of the script may     *)
(* refer to.                                                               *)
(***************************************************************************)
EXTENDS ModuleLink

None == <<"">>
Name(n) == <<n>>
\* how many parameters a function has, and how many fields a class
Params(n) == CASE n = Name("core") -> 1 [] n = Name("tools") -> 2 [] OTHER -> 0
Fields(n) == CASE n = Name("Base") -> 1 [] n = Name("Right") -> 2 [] n = Name("Main") -> 3 [] OTHER -> 0
\* a call, an access to the last static field (CALL_SUPER of a class that has none)
Call(n) == <<<<"fn", Name(n), Params(Name(n))>>>>
Static(n) == <<<<"class", Name(n), Fields(Name(n))>>>>
\* NEW, and CALL_STATIC of the k-th method
New(n) == {[name |-> Name(n), slots |-> 0]}
CallStatic(n, k) == {[name |-> Name(n), slots |-> k]}

\* source: chunks by the <<kind, name, needs>> they use and the classes they look up,
\* classes by names
LooksUp(named, chunk) == [chunk EXCEPT !.named = named]
Code(name, body, uses) == [name |-> name, body |-> body, uses |-> uses, params |-> Params(name),
                           named |-> {}, fit |-> TRUE]
Class(name, parent, methods, ctor) == [name |-> name, parent |-> parent, methods |-> methods,
                                       ctor |-> ctor, fields |-> Fields(name), iface |-> FALSE]
Interface(name, methods) == [Class(name, None, methods, None) EXCEPT !.iface = TRUE]

\* indices for names, as the compiler resolves them in its own module
Compiled(source) ==
    LET table(kind) == IF kind = "fn" THEN source.chunks ELSE source.classes
        ref(kind, n) == Ref(kind, Find(table(kind), n), n)
        operand(use) == [ref(use[1], use[2]) EXCEPT !.needs = use[3]]
        chunk(c) == [name |-> c.name, body |-> c.body, params |-> c.params, named |-> c.named, fit |-> c.fit,
                     code |-> [j \in 1..Len(c.uses) |-> operand(c.uses[j])]]
        class(c) == [name |-> c.name, parent |-> ref("class", c.parent), ctor |-> ref("fn", c.ctor),
                     fields |-> c.fields, iface |-> c.iface,
                     methods |-> [j \in 1..Len(c.methods) |-> ref("fn", c.methods[j])]]
    IN [chunks  |-> [k \in 1..Len(source.chunks) |-> chunk(source.chunks[k])],
        classes |-> [k \in 1..Len(source.classes) |-> class(source.classes[k])],
        sealed  |-> FALSE]

(***************************************************************************)
(* Libraries.  core: Base, a function and a static initialiser.  tools:    *)
(* an interface, Left, and Right that extends it.  extra: a class that has *)
(* a constructor and no methods, and some functions.                       *)
(***************************************************************************)
Core(get, uses) ==
    [chunks |-> <<Code(Name("Base.Base"), "Base.Base", <<>>),
                  Code(Name("Base.get"), "Base.get", get),
                  Code(Name("Base.set"), "Base.set", Call("core")),
                  LooksUp(CallStatic("Base", 2), Code(Name("core"), "core", uses)),
                  Code(Sinit, "core.init", Static("Base"))>>,
     classes |-> <<Class(Name("Base"), None, <<Name("Base.get"), Name("Base.set")>>, Name("Base.Base"))>>]

Tools(uses) ==
    [chunks |-> <<LooksUp(New("Right"), Code(Name("Left.run"), "Left.run", uses)),
                  Code(Sinit, "tools.init", Static("Right") \o Static("Left")),
                  Code(Name("Right.go"), "Right.go", Call("tools")),
                  Code(Name("Right.Right"), "Right.Right", <<>>),
                  Code(Name("tools"), "tools", Call("tools"))>>,
     classes |-> <<Interface(Name("Runs"), <<Name("Runs.run")>>),
                   Class(Name("Left"), None, <<Name("Left.run")>>, None),
                   Class(Name("Right"), Name("Left"), <<Name("Left.run"), Name("Right.go")>>, Name("Right.Right"))>>]

Extra(more) ==
    [chunks |-> <<Code(Name("Extra.Extra"), "Extra.Extra", Static("Extra"))>> \o more,
     classes |-> <<Class(Name("Extra"), None, <<>>, Name("Extra.Extra"))>>]

(***************************************************************************)
(* The script: Main extends the b-th class of libs.  It is compiled in a   *)
(* module that holds copies of libs, which are then stripped; the method   *)
(* that Main inherits stays.                                               *)
(***************************************************************************)
NoSinit(chunks) == SelectSeq(chunks, LAMBDA c : c.name # Sinit)

Libs(libs) ==
    LET join[n \in 0..Len(libs)] ==
          IF n = 0 THEN [chunks |-> <<>>, classes |-> <<>>]
          ELSE [chunks  |-> join[n - 1].chunks \o NoSinit(libs[n].chunks),
                classes |-> join[n - 1].classes \o libs[n].classes]
    IN join[Len(libs)]

Script(libs, b, uses) ==
    LET all  == Libs(libs)
        base == all.classes[b]
        main == [chunks |-> <<LooksUp([name : {base.name}, slots : {Len(base.methods)}] \cup New("Main"),
                                      Code(Name("Main.set"), "Main.set", uses \o Static("Main"))),
                              Code(Name("Main.Main"), "Main.Main", <<<<"class", base.name, 0>>>>),
                              Code(Sinit, "script.init", Static("Main") \o uses)>>,
                 classes |-> <<Class(Name("Main"), base.name, <<base.methods[1], Name("Main.set")>>, Name("Main.Main"))>>]
    IN Stripped(Compiled([chunks |-> all.chunks \o main.chunks, classes |-> all.classes \o main.classes]),
                {all.chunks[k].name : k \in 1..Len(all.chunks)}, {all.classes[k].name : k \in 1..Len(all.classes)})

(***************************************************************************)
(* Builds                                                                  *)
(***************************************************************************)
\* an archive that xeno_vm_load_xar has loaded: its __sinit__ is renamed
Pool(lib) == LET m == Compiled(lib)
             IN [m EXCEPT !.chunks = [k \in 1..Len(@) |->
                       IF @[k].name = Sinit THEN [@[k] EXCEPT !.name = Numbered(k - 1)] ELSE @[k]]]

Each(Op(_), s) == [k \in 1..Len(s) |-> Op(s[k])]
Orders(a, b) == {<<a, b>>, <<b, a>>}

\* xeno_vm_load_xar puts the modules of an archive into one.
Loaded(libs) == [start |-> NewModule, plan |-> Each(Compiled, libs)]
\* xeno_vm_run fills the script from the pool.
Filled(script, pool) == [start |-> script, plan |-> Each(Pool, pool)]
\* xenovm puts the script after the pool, and xeno_vm_run merges the pool again.
Ran(script, pool) == [start |-> NewModule, plan |-> Each(Pool, pool) \o <<script>> \o Each(Pool, pool)]

CoreUses == {<<>>, Call("core"), Static("Base")}
ToolUses == {Call("tools"), Static("Left"), Static("Right")}
MainUses == {Static(n) : n \in {"Main", "Base", "Left", "Right"}}
Spare(n) == Code(<<"spare", n>>, IF n = 1 THEN "spare.1" ELSE "spare.2", <<>>)

Loads == UNION {{Loaded(Append(o, Extra(<<>>))) : o \in Orders(Core(g, c), Tools(t))} :
                  g \in CoreUses, c \in CoreUses, t \in ToolUses}

\* Where a script inherits a method, it keeps a copy that the merge remaps again:
\* harmless for what leaves the copy's indices as they are.
InheritedUses == {<<>>, Static("Base")}
FromPool == UNION {{Filled(Script(<<Core(g, c), Tools(t)>>, 1, u), o) : o \in Orders(Core(g, c), Tools(t))} :
                  g \in InheritedUses, c \in CoreUses, t \in ToolUses, u \in MainUses}
Runs == {Ran(Script(<<Core(g, c)>>, 1, u), <<Core(g, c)>>) :
           g \in InheritedUses, c \in CoreUses, u \in {Static("Main"), Static("Base")}}

\* more classes, or more functions, than a module has room for
Full == {Filled(Script(<<Core(<<>>, c), Tools(t)>>, 1, Static("Base")),
                <<Core(<<>>, c), Extra([k \in 1..n |-> Spare(k)]), Tools(t)>>) :
           c \in CoreUses, t \in ToolUses, n \in 0..2}

\* Versions that differ: a Base of other fields, or of a method less, than the script
\* was compiled against, a method or a callee without code, a chunk that no
\* verification passes; and another module's core, of other parameters.
Empty(lib, k) == [lib EXCEPT !.chunks[k].body = "", !.chunks[k].uses = <<>>]
Other == {[Core(<<>>, <<>>) EXCEPT !.classes[1].fields = 0],
          [Core(<<>>, <<>>) EXCEPT !.classes[1].methods = <<Name("Base.get")>>],
          [Core(<<>>, <<>>) EXCEPT !.chunks[1].fit = FALSE],
          Empty(Core(<<>>, <<>>), 3), Empty(Core(<<>>, <<>>), 4)}
OtherCore == [Code(Name("core"), "core", <<>>) EXCEPT !.params = 2]
Mixed == {Loaded(<<Extra(<<OtherCore>>), Core(<<>>, <<>>)>>)}
    \cup {Filled(Script(<<Core(<<>>, <<>>)>>, 1, Static("Base")), <<c>>) : c \in Other}

AllBuilds == Loads \cup FromPool \cup Runs \cup Full \cup Mixed

\* a script that extends a class of its second library
Inherits == {Filled(Script(<<Core(<<>>, <<>>), Tools(t)>>, 3, Static("Main")), <<Core(<<>>, <<>>), Tools(t)>>) :
               t \in ToolUses}

\* What ModuleLinkProofs assumes of a build holds of the archives, and of the scripts
\* that keep a copy of a method which refers to nothing; the others keep one that does.
ASSUME AsTheProofsAsk ==
    /\ \A b \in Loads \cup Full : Separate(b)
    /\ \A b \in AllBuilds \ Mixed : Whole(b) /\ ParentsFirst(b)
    /\ \A b \in AllBuilds : Compatible(b) <=> b \notin Mixed
    /\ \A b \in FromPool : Separate(b) <=> \A c \in Chunks(b.start) : c.name = Name("Base.get") => c.code = <<>>
=============================================================================
