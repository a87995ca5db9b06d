# Formal models of XenoScript

XenoScript is a statically typed scripting language for game mods, written in C.
A compiler turns scripts into modules of bytecode chunks; a virtual machine that
lives inside a host program (a game) verifies the bytecode, links modules into
one, and runs them under limits. The models here say what that machine does,
what must be true of it whatever scripts run on it, and where it falls short.

    source ─ lexer ─ parser ─ checker ─ code generator ─┐
                                                        ├─ module ─ strip ─ .xbc / .xar ─┐
    standard library scripts ───────────────────────────┘                               │
                                                                                         ▼
    host ── xeno_vm_init / run_source / load_xar / run ──► VM: read ─ verify ─ merge ─ verify
                                                            ─ seal ─ __sinit__ chunks ─ @Mod

## Inventory

Line numbers are of this repository's `source/`.

### Virtual machine (`vm/vm.c`, `includes/vm.h`)

*State.* `frames`/`frame_count` (at most 64), the value stack `stack`/`sp` (256),
`handlers`/`handler_count` (64), `event_table` (64 events of 32 subscriptions),
one set of `pending_fire_*` fields, `instr_count` against `instr_budget`,
`object_count` against `max_objects`, the linked module, debugger fields.

*Operations.* `xeno_vm_init`, `xeno_vm_free`, `xeno_vm_run`, `xeno_vm_run_source`,
`xeno_vm_load_xar`, and the loop of `xeno_execute`: 107 opcodes that move values, call, construct, throw, catch, subscribe and fire.

*Interaction.* Everything runs on the host's thread. Opcodes call host functions
(which return a value and cannot re-enter the loop), constructors, and event
handlers; event handlers are *not* called recursively: EVENT_FIRE takes a
snapshot of the handlers, enters the first, and every RETURN_VOID into the
firing frame enters the next.

*Hard.* Frames, value stack, handler stack and pending fire are four stacks that
have to agree at every instruction although separate opcodes move each of them;
most opcodes test neither their operands nor the room for their results, relying
on what the verifier computed chunk by chunk; a runtime error abandons all four
where they are, and the next host call resets only some of them.

*Correct when* ip stays at verified instructions; every frame finds its operands
above its base and its results in the stack; what a call, constructor, fire or
catch leaves is what the verifier assumed; a throw finds a live frame; every
subscriber present when a fire starts is called once; host calls come back.

### Bytecode verifier (`compiler/xbc.c`)

*State.* Per chunk: an instruction-start map, `dmin`/`dmax` per byte offset, the
changed flag of the fixpoint rounds, `max_stack`. *Operations.* `ver_decode_one`
(operand ranges per opcode), `ver_chunk` (decode, targets, depth intervals),
`xbc_verify_module_ex` (all chunks, class and enum tables). *Hard.* intervals that
must be closed under every edge, rounds that are cut off, effects that must be
those of the VM. *Correct when* an accepted chunk cannot underflow, overflow or
leave its code, and what the compiler emits is accepted.

### Bytecode files (`compiler/xbc.c`, `compiler/xdbg.c`)

`xbc_write`/`xbc_read` serialise a module, with sized sections and limits per
table; `xdbg` adds line and local tables. *Correct when* reading what was written
gives the module back, and a short or oversized input is refused.

### Code generator (`compiler/compiler.c` 1250–4240, 4515–5415)

*State.* The current chunk, scope stack with local slots, loop stack with break
and continue patch lists, class table under construction, string constants.
*Operations.* one per statement and expression kind; `compile_staged` runs the
declaration passes (enums, classes, functions, static initialisers, `@Mod`).
*Interaction.* It resolves every name and member again, by walks and tables of its
own, and picks opcodes by the types the checker has left on the nodes. *Hard.*
leaving nested statements through break, continue, return and throw; patching
forward jumps; temporaries kept in slots of the surrounding scope; the implicit
return; members inherited by copying the parent's entries in source order.
*Correct when* what the checker accepts compiles, the verifier accepts the chunk,
it does what the statements mean, and every operand is what the opcode reads.

### Module linker (`compiler/compiler.c` 59–1246, `module_strip_stdlib.c`)

*State.* A destination module: chunks, classes, enums, string pools, `sealed`.
*Operations.* `module_add_chunk`, `module_find*`, `module_merge` (copy, rename
`__sinit__`, remap indices inside copied chunks), `module_strip` (drop what came
from the standard library), `module_seal`. *Hard.* every index embedded in
bytecode must be rewritten exactly once and to the entity of the same name;
a failure midway leaves the destination half merged. *Correct when* an operand
that named an entity before a merge names the same entity after it.

### Host lifecycle and hot reload (`vm/vm_source.c`, `vm/xenovm_main.c`)

Compile, free the previous module, merge, verify, seal, run; `run_mod` and the
watch loop of the command line. *Hard.* what survives a reload or a failed run.

### Debugger (`vm/vm.c` 1428–1550)

Breakpoints and step modes tested at each fetch, commands on the console.

### Lexer, parser, AST (`core/lexer.c`, `core/parser.c`, `core/ast.c`)

Functions of the text; string interpolation nests a lexer inside a token, and
the parser backtracks to tell generics from comparisons.

### Type checker (`core/checker.c`)

*State.* A stack of scopes (32), the global one with all declarations and what the
libraries seeded; the class, method and loop a body is in; the types and resolved
parameters written on the nodes. *Operations.* `checker_check` walks all
declarations several times (names, parents, interfaces, annotations, duplicates,
override) and then each body with `check_stmt` and `check_expr`. *Hard.* generic
parameters replaced on the way up a class chain; nullable types; walks up chains
that need not end; second declarations of a name. There is no test for a return on
every path: a body that ends without one returns int 0. *Correct when* it comes to
an end, and what it accepts cannot fail in the VM for a reason of types.

### Compile pipeline (`compiler/compile_pipeline.h`, `compiler/xenoc_main.c`)

Resolves imports, orders the standard library and the sources, stages modules.

### XAR archives and `xeno.toml` (`xar/`)

Archive layout (manifest, chunks, assets), dependency declarations.

### Standard library (`stdlib/*.xeno`, `source/stdlib/`)

List, dictionary, queue, stack, math in XenoScript on top of host arrays;
registration tables for host functions.

### Language server (`lsp/`)

JSON-RPC framing, the document store (open, change, close, diagnostics), stubs.

### Documentation generator, build, test runners

`xdoc.c` prints; `Makefile`, `tools/*.py`, `xeno_test_runner.c` build and test.

## Modules

| module | models | how |
|---|---|---|
| `Bytecode` | `includes/bytecode.h`, the effect table of `ver_chunk` | an instruction is a record of its class, operands, results and target; the depth analysis as `Edges` and `Accepted` |
| `DepthAnalysis` | `ver_chunk` pass 3 | what the rounds find, as the limit of a sequence of tables: the reference for `Verifier`, and the `Lo`, `Hi`, `Peak` of the chunks `XenoVM` runs |
| `DepthRounds` | `ver_chunk` pass 3 | its test on a chunk computed as the code does, in place, for the many longer chunks of `MCStatements` |
| `Verifier` | `ver_chunk` passes 2 and 3 | the rounds as a state machine over one chunk: targets, joins, refusals, the guard, `max_stack` |
| `MCVerifier` | – | every chunk of up to four instructions, and the depths the machine really reaches |
| `VerifierProofs` | – | accepted chunks are safe, their intervals the least, and what is refused; operands and `max_stack` of an accepted chunk on the machine, proved |
| `Opcodes` | the cases of `xeno_execute`, the switches of `ver_chunk` | what every opcode takes off the stack and leaves there, once for each side |
| `MachineDepths` | the stack of `xeno_execute` along a chunk | the depths the machine reaches by its own table in a chunk `Verifier` has verified by the other |
| `MCOpcodes` | – | chunks around every opcode for `MachineDepths` |
| `ModuleLink` | `module_merge`, `module_strip`, `module_seal`, the module part of `xbc_verify_module` | a merge as its loops, one action per turn; a reference is an index and the name the compiler meant |
| `MCModuleLink` | – | three libraries and a script, compiled, stripped and linked as hosts do |
| `ModuleLinkProofs` | – | tables, code and members of what is linked, proved |
| `ModuleLinkWholeProofs` | – | nothing is lost in a link, and what is linked is accepted, proved |
| `XenoVM` | `vm/vm.c` | the virtual machine and the host calls on it; one action per opcode or class of opcodes, one per step of a host call |
| `EventDispatch` | what `event` promises a script | abstract: subscribers as sets, a fire owes a call to each |
| `NamedLists` | `lookup_symbol` and every other search of a list by name | first entry of a name, bindings of type parameters, steps along a chain |
| `Types`, `Members`, `Declarations` | `core/ast.c`, the symbol lookups and class walks of `core/checker.c` | types and expression nodes as records; member lookup along the parents, with type arguments bound on the way (`Members`, without recursive operators, so that it can be reasoned about); subtyping, interfaces, assignment |
| `Checker`, `CheckerMembers` | `check_expr` | one operator per expression kind, which resolves a node, refuses it or complains |
| `CheckerStmts` | `check_stmt`, `check_fn_body`, scopes | the same for statements, in an environment of scopes |
| `CheckerDecls` | the passes of `checker_check` over declarations, pass 1 of `compile_staged` | a state machine: an action per declaration of pass 1, one per later pass, one per class of the search for interface methods; then the class table, a member at a time |
| `CheckerDeclsProofs` | – | what names of members mean in a compiled program, proved |
| `ClassLayout` | the class definitions of `compile_staged`, `find_field_index_by_class`, `find_method_slot`… | an entry of the class table: slots and method entries, inherited by copying |
| `ClassRegistry` | pass 1 of `compile_staged` | the class table of a whole program at once, those of libraries included, for `MCExpressions` and `MCStatements` |
| `Emitter` | emit, patch, scope, slot and loop helpers of `compiler.c` | the record the cases of the code generator pass on |
| `CodeGenExpr`, `CodeGen` | `compile_expr`, `compile_stmt` | one operator per kind, from a checked node to instructions |
| `Meaning` | – | what statements mean, without slots, jumps or handlers: the reference |
| `Values`, `Execution` | `xeno_execute` on one frame | slots, operands, handlers, calls of the host with their answers |
| `TypedExecution` | `xeno_execute` on one expression | values that know their type, so that a step can tell when it misreads one |
| `MCStatements` | – | bodies of nested statements through checker, code generator, verifier and machine |
| `MCExpressions` | – | expressions of every kind over variables of every type, the same way |
| `MCDeclarations` | – | programs of classes and interfaces for `CheckerDecls` |
| `MCXenoVM` | – | the chunks TLC runs, shaped like the language tests 22, 24 and 26 |
| `XenoVMProofs` | – | types and control flow, proved |
| `XenoVMStackProofs` | – | the value stack, proved |
| `XenoVMEventProofs` | – | the event table, and the refinement of `EventDispatch`, proved |
| `XenoVMTryProofs` | – | the exception handlers of nested try blocks, proved |

### How `XenoVM` corresponds to the code

| model | code |
|---|---|
| `frames`, `fc` | `vm->frames[].{chunk, ip, base_sp}`, `frame_count`. `pc` counts instructions from 1; `ip` of a frame that waits points after its call. Entries above `fc` keep their last contents |
| `sp` | `vm->sp - vm->stack`; values themselves are abstracted |
| `handlers`, `hc` | `vm->handlers[].{catch_ip, frame_count, sp}`, `handler_count` |
| `known`, `table` | `event_table`: the names that have an entry, and their subscriptions in order |
| `pending` | `pending_fire_active`, the snapshot (`pending_fire_resolved`), `pending_handler`, `pending_fire_base_frame` |
| `count`, `objects` | `instr_count`, `object_count` |
| `host`, `todo`, `entry`, `exec` | where the C program is inside `xeno_vm_run` or `xeno_vm_load_xar`: chunks still to run, whether `xeno_execute` is on the C stack |
| `Fetch(op)` | the top of the loop: budget, then the opcode |
| `Plain` | every opcode that pops operands and pushes results and nothing else; it may fail if the opcode can |
| `Enter`, `CanPush` | `push_call_frame` |
| `Leave`, `EntryDepth`, `DropHandlers` | the common part of RETURN and RETURN_VOID |
| `EndsHandler`, `NextHandler`, `FireDone` | the part of RETURN_VOID that walks the pending fire |
| `Halt`, `Fail`, `Abort` | RUNTIME_ERROR, and what the host call does with the error |
| `BeginRun` … `Finish`, `Recreate` | the statements of `xeno_vm_run` and `xeno_vm_load_xar` around `xeno_execute`; `xeno_vm_free` + `xeno_vm_init` |

A branch on a value goes both ways, a call through a class or an interface
reaches any of the chunks `Instr.fns`, an opcode that may fail fails or does
not. `RetryAfterError` says whether the host uses a VM again after an error.

### How `ModuleLink` corresponds to the code

`dst`, `src`, `i` are `module_merge`'s; `phase` says in which of its loops it is;
`placed` is `sinit_dst`. `fn_remap` and `class_remap` are computed where they are used
(`FnRemap`, `ClassRemap`): the tables they are built from no longer change. A chunk
is its name, its `body` (which source function it is) and the operands of its code
that `chunk_remap_indices` rewrites; a class its name, `parent_index`, methods and
`constructor_index`, the number of its fields, and whether it is an interface
(`ChunkType`, `ClassType`, `Module`; `LinkAssumption` says that builds are made of such
modules and start within the limits). Beside each index stands the name the compiler
meant, which the code does not have and which no guard reads. NEW and CALL_STATIC have
their class by name (`named`).

`Verified` is `xbc_verify_module` in its strict mode, which runs before a module is
sealed: parents are in range and end (`Descends`); the methods and the constructor of
a class have code, those of an interface need none (`Resolved`); every chunk decodes
(`Decodes`): OP_CALL's callee has code and as many parameters as there are arguments,
a static access a field of that index (`Fitting`), NEW and CALL_STATIC a class of that
name with that method (`FoundByName`). What the rest of `ver_chunk` asks of a chunk
(depths, jumps, constants, host functions), which a merge does not change, is one
flag, `fit`. A name table, `sinit_index` and the counts within their arrays, which the
verification also looks at, are what `TypeOK` says of the model. `MergeFails` is a failed allocation, or
a chunk table found full, at any of the places where `module_merge` returns false.
`Stripped` is `module_strip` as an operator, since nothing interleaves with it.
Attributes, enums, events and debug tables go with their class or chunk and are not
told apart. Not modelled: the copy of the script's `__sinit__`
that `run_xbc` makes before it merges, the failed merges that xenovm ignores, and
`compiler_ensure_class`, which copies single classes while compiling.

### How the front end's modules correspond to the code

`check_expr`, `check_stmt`, `compile_expr` and `compile_stmt` are recursive functions
over a tree, each a switch with a case per kind. The models are recursive operators
with an operator per case; nothing runs beside them, so a case is one step. What a
case of the checker writes on a node (type, resolved parameters, a rewritten kind:
`ident` to a field of `this`, `index` to a call of `get`) is in the node it returns,
and `compile_*` reads it from there. A type error ends nothing: `errs` collects the
complaints, and compilation needs that there are none.

A local of the code generator is a name, a slot and a scope depth (`Emitter`'s
`locals`, `nextSlot`, `scope`); `ScopePop` takes names back and not slots, as the code
does. A jump is emitted without a target and patched; `loop` and its lists are
`break_patches`, `continue_patches` and their counts, per `loop_depth`. The arrays
have no test of that depth: `overrun` says that one was written beyond its end, and
what would follow is not modelled. Instructions are records; positions count
instructions, not bytes, and `JumpReach` is how many of them a jump passes over at
most (32767 bytes in the code): a forward jump beyond it is refused (`PatchJump`), a
backward one or a `continue`'s is cut to its 16 bits without a test (`Offset`).
`chance` stands for the other place where a byte matters: `compile_staged` leaves the
implicit return out when the last byte of the chunk equals RETURN_VOID, which the
operand of a store, of a jump back or of a subscription may. A method is compiled as
`compile_staged` does it (`CompileMethod`): `this` in slot 0 unless it is static, its
parameters, in a constructor the initialisers of the class's own fields, the body.

`checker.c:3130` and 3179 look up the class of `x[i]` by a buffer that
`generic_base_name` leaves as it was when the class of `x` has no type arguments:
`Subscript` looks up `env.stale`, any class or none, in its place.

`Execution` has the values a body handles and one frame; `XenoVM` has many frames and
no values. Calls are what the world sees: the host answers each with any of
`Answers`, and a run waits for ever at the call after the last of `AnswersMax`
answers. `TypedExecution` gives every value the type it was made with; the machine
has a number, a pointer and a tag for references only. An opcode that reads the
union's other member has *gone wrong* there, and the run stops. A null reference,
an index, a division or a cast may *trap*: that is the language's own error.

`CheckerDecls` keeps `checker_check`'s walk as steps because it may not end. `symbols` is
the global scope (declaration 0 is a seeded name without an AST), `parents` is
`class_decl.parent_name` with its type arguments, `owed` and `search` are where pass
1b2 stands: the interface methods still to be found and the class it looks in. What
passes is compiled by the loop over the declarations in `compile_staged`: `at` and
`member` are its place, `defs` the module's `ClassDef`s, which a class opens with what
it inherits (`OpenClass`) and fills member by member (`PlaceField`, `PlaceMethod`); a
class full of members ends its loop with a complaint. `parent_index` is the parent's
name. Chains of parents are followed by functions over the number of steps
(`Iterate`): one that goes in a circle never ends in the code, and here is one that
has not ended after as many steps as there are classes. A class whose name an interface
of the module has is given up with a complaint (`RefuseClass`): that is so of a library's
interface that a library's function hides from the checker. `program.ifaces` has the
libraries' interfaces, of which `checker_check` asks for the names of methods alone
(`LibraryRequired`); a library's classes have no members and no parents here. The limits on
classes and chunks of a module (`MODULE_MAX_CLASSES`, `MODULE_MAX_FUNCTIONS`) only ever add
an error, and are left out. Annotations, attribute targets and the editor's symbol index are left out.

## What is checked

The `vm_` runs use the chunks of `MCXenoVM` in small machines: a value stack of 8, 5
frames, 2 exception handlers, 2 events of 3 subscriptions, 2 arguments per
event, 3 objects, a budget of 60 instructions. Each limit is one that the
programs reach: `spinner` and `climb` overflow frames and stack, `deep` the
handlers, `crowded` the events and their arguments, `party` the subscriptions,
`loop` and `retry` the budget, repeated runs and loads the objects. Two
receivers, a static handler and a name that resolves to no chunk are the
smallest set on which identity, order and skipping of subscriptions can be told
apart. Three chunks deep is enough for a handler, a call inside it and a throw
through both.

| run | expects | shows |
|---|---|---|
| `vm_scripts` | pass | on scripts with calls, constructors, try, events, errors, repeated runs and loads the machine keeps `TypeOK`, `ControlFlowIntegrity`, `StackDiscipline`, `OperandsInFrame`, `HandlersLive`, `PendingInProgress`, `OneHandlerPerTry` and `NoDuplicateSubscription`, and the programs are `Disciplined`: the hypothesis of the theorems is one real scripts meet; they refine `EventDispatch` under fairness (each subscriber of a fire is called once and all are called unless the call fails), and every host call returns |
| `vm_nested_fire` | violation | an event fired from an event handler: the one pending record is overwritten, the outer fire ends early and leaves a value too many |
| `vm_continue_in_try` | violation | `continue` leaves a try block without TRY_END, so handlers pile up until the limit |
| `verifier_chunks` | pass | on all 17839 chunks of a small menu `ver_chunk` comes to a verdict (`Verdict`), accepts only closed intervals (`AcceptedIsSafe`), the least ones (`LeastIntervals`), and refuses no chunk that runs at one depth per instruction, unless it has a `??` in a loop (`BalancedIsAccepted`) |
| `opcode_effects` | pass | for 106 opcodes less `Miscounted`, with up to 2 arguments: the machine finds its operands in what `ver_chunk` accepts (`OperandsAreThere`), `max_stack` covers it (`PeakCovers`), and what has its operands is accepted, in loops too (`UsableAnywhere`) |
| `link_modules` | pass | libraries and a script linked in every order by `xeno_vm_load_xar`, `xeno_vm_run` and xenovm keep the names of calls, static fields, methods and constructors (`CallsByName`, `MethodsByName`), all chunks and classes (`NothingLost`), and are refused at the seal only where versions differ or classes found no room (`LinkIsAccepted`) |
| `link_inherited` | violation | a script that inherits a method from its second library: its copy is remapped a second time and uses another class's statics |
| `link_parents` | violation | with two libraries in the pool, `parent_index` of the second one's classes designates a class of the first |
| `statements` | pass | every body of a method or a constructor the checker accepts compiles and verifies but for four named cases (`AcceptsItsOwn`), does what `Meaning` says and leaves the fields with what their initialisers say (`RunsAsWritten`), takes every name for the variable the checker took it for (`NamesMeanTheSame`), leaves nothing on the stack between statements (`StatementStack`), and comes to its end when its loops ask the host (`ComesToItsEnd`) |
| `expressions` | pass | every expression the checker accepts compiles but for four named cases (`AcceptedCompiles`), reads its operands as what they are but for the loose ends below (`Sound`), leaves one value (`OneValue`), of the type on the node (`WellTyped`) |
| `expressions_subscript` | violation | `list[i] = v` on an object leaves two values: `set` is a call, whose result is not dropped |
| `declarations` | pass | names are declared once, but for what pass 1 lets by (`DeclaredOnce`); a call by slot reaches the declaration nearest to the object's class (`MethodsMeanTheMethod`); an object answers its interfaces with their signatures (`InterfaceKept`); fields keep slot and type in every descendant (`FieldsMeanTheField`); the search for interface methods ends, unless a circle of parents lacks the method (`CheckEnds`) |

`Miscounted` is the boundary between `XenoVM` and its program: `XenoVM` gives an
instruction one effect, and that is the effect of both tables for every opcode
but these five. TYPEOF's operand is not counted, so a `typeof` in a loop is refused;
with the other four as `Tested`, `OperandsAreThere` fails for the lookups (`getField` with one operand of
two is accepted) and `PeakCovers` for NEW with arguments but no constructor, which
leaves them on the stack (`CompiledCode` excludes it, the checker does not). For
these the theorems below say nothing. NULL_COALESCE, which has two effects, is in
`Verifier`; inside a loop a `??` may be refused, since its fall-through lowers the
least depth and not the greatest (`BalancedIsAccepted` excepts it, though the comment
at `xbc.c:1870` says "net 0").

The builds of `MCModuleLink` have two libraries in both orders, with a function, a
class, a subclass, static initialisers and every kind of reference between them,
a third whose class has a constructor and no methods, and a script that inherits
a method. `MaxFunctions` 15 and `MaxClasses` 5 hold all builds but the ones named
`Full`, which run out of either. `Mixed` are the builds of versions that differ (a field, a
method, a parameter or a body less than the script was compiled against), which the
verification must be seen to refuse: `Compatible` holds of all others. Scripts of the passing run extend the first
class of their first library (whose indices are the same in the pool and in the
script) or inherit a method without references; `link_inherited` is the other case.
Libraries have distinct class names, and their static initialisers different positions:
two archives with `__sinit__` at one position give them one name, and the second's
are skipped (`NothingLost` fails; xeno_vm_load_xar has run them on the archive's own
module by then).

Four instructions hold a loop with a branch out of it, two joins, a target past
the end and a `??` inside or outside a loop; `DepthMax` 9 is more rounds than four
instructions may take, so that both refusals of a growing interval occur.

The bodies of `statements` are two nested statements of 17 shapes (loops, matches,
try with each kind of clause, blocks that shadow a name) around one of 15 leaves
(break, continue, return, throws, declarations, loops of their own; those that leave
stand in every pair of shapes, the others in a quarter of them), followed by a
use of the variables around them, by a throw or by nothing, triples in a row, some of
them in static methods and in the constructors of a class and of one below it, with
initialised, static and plain fields, and bodies longer than a jump:
nesting of two is what patch lists, handlers and scopes have to keep apart, and the
leaf makes a third level. `MaxLoopDepth` 2 and `MaxScopeDepth` 7 (16 and 32 in the code)
are what the deepest bodies exceed by one, `MaxLocals` and `FrameSlots` 9 likewise, and
`MaxScopeSyms` 3 is what one scope of theirs reaches; `JumpReach` 63 is passed by the two
times 34 instructions of the long bodies, and by no other; with 3 answers of 0 or 1
every loop goes round, every match arm and every branch is taken. The cases
`AcceptsItsOwn` names: the implicit return left out, slots used up although no more
names were in scope, a local of a class without a value, for which nothing is pushed,
and a loop without a condition that is longer than a jump (`Wraps`: nothing but its
own jump back spans it, and that one is cut). `RunsAsWritten` excepts the points where compiled code is
known to part from its meaning, named in `Meaning`: `continue` out of a match, an
exception after break or continue left a try, the last arm of a match that does not
leave, an exception no clause names (the last clause takes it), and a finally block
passed on the way out; and, as `Misplaced`, the constructors of a class with a parent:
`compile_staged` counts the class's own fields from 0 in `ClassDef.fields`
(`compiler.c:5365`), where the inherited ones come first, so that `class B : A` with one
field each and an initialiser in both stores B's value to A's field.

The expressions of `expressions` are single operations over 24 variables (numbers of
three widths, text, enum, nullable, any, objects of a class, a subclass, an
interface and three generic types, arrays), 300, null, `this` and names of types, in
an instance method, a static one, a constructor and a method of a generic class,
each run on every value those variables may have. One operation is enough: an
operand is used as a value of the type on its node, which `WellTyped` says it has.
`LeadsTo` lists the loose ends `Sound` excepts, each by name with what it can lead to:
an `int?` taken for an int, `any` and type parameters, a reference put to text,
negation of narrow kinds, arguments that are matched with no parameters (static
calls, `new`, `super`, null-safe calls, subscripts), elements of array literals left
wide, type arguments ignored by assignment, a redeclared field that shares its
slot, null compared from the left, and static fields reached through an instance.
The README's "strongly-typed" holds for the rest.

The programs of `declarations` are chains of three classes in three orders under an
interface, with a method that is absent, plain, virtual, override, static, of
another signature or in second place; circles of two classes; fields redeclared,
static, in second place, of the type of a parameter; a generic interface extended by
another; one name declared by two of the five kinds of declaration, seeded or not;
a class that is compiled twice; and one with more methods than `MaxMethods` 2 allows
(`MaxFields` is 5, which the chains reach). `MethodsMeanTheMethod` says which declaration
is reached; that it has the signature the checker found is not so: a method may be
declared again with another, be it `override` or not (the comment at `checker.c:7193`
promises a "compatible signature"), or as a static one. `Orphaned` classes are excepted
throughout: a class that stands before its parent is compiled without one.
`CheckEnds` excepts the search for a method that no class in a circle of parents has:
that check does not end. Circles whose classes have it, or one of them, are among the
programs, and there the search must end. `L` in `Library` is a library's interface,
listed by a class or extended by one of the program's.

`HostCallsReturn` holds because `instr_count` bounds a call; `Fetch` stops the
model's counter at the budget, where the code returns.

**Fairness.** `FairSpec` assumes weak fairness of `HostCallStep` only: once the
host has called, `xeno_execute` is a loop on the host's own thread and the
statements around it are straight-line code; nothing else can hold it up.
Whether the host calls at all, or recreates a VM, is left free. `ver_chunk` is a
function that loops: `Verifier` assumes weak fairness of its next step, `MCStatements`
of the machine's, and `CheckerDecls` of the search, for the same reason.

## What is proved

The theorems hold for every value of the constants: any chunks, programs, builds,
limits. What they assume is named, and is one of two kinds. An `ASSUME` of the model
is checked by TLC on every run. A hypothesis in a theorem is something the code
does *not* guarantee; it is a definition of the model, beside the reason why it may
fail, and TLC checks that the programs and builds of the runs meet it (`AsTheProofsAsk`
of `MCXenoVM`, `MCModuleLink` and `MCOpcodes`) or shows one that does not.

| hypothesis | says | fails when |
|---|---|---|
| `CleanStart` | no call starts with handlers of a failed one | the host goes on with a VM that returned an error inside a try |
| `Disciplined` | `CleanStart`, and no call starts after one that failed inside an event handler; no fire inside a fire, no exception out of an event handler, handlers return nothing | run `vm_nested_fire` |
| `NestedTries` | TRY and TRY_END nest along every edge of a chunk | a `continue` in a try block: run `vm_continue_in_try` |
| `DelegatesHaveReceivers` | delegates are subscribed with a receiver | EVENT_SUBSCRIBE_BOUND finds no entry for a null receiver (`vm.c:3248`): a delegate of null subscribed twice is there twice |
| `SeparateBuilds` | modules are as compiled, a function two of them hold refers to nothing, a class two of them hold has its methods in one, initialisers were all named by this merge or all by earlier ones | a script that inherits a method with references: run `link_inherited`; an archive named already beside a module that is not |
| `WholeBuilds` | a name is one function's, and a class that has its methods has its constructor | two archives define a function of one name: `module_merge` keeps the first and says nothing |
| `Compatible(build)` (in `LinkIsAccepted`) | what each module was compiled against is what it is linked with: functions with code and that many parameters, classes with those fields and methods | a script that was compiled against another version of a library: the builds `Mixed` of `link_modules`, which the seal refuses |
| `ParentsAreFirst` | `parent_index` is below the place of the class in its own module, and in any merged before it | two modules list the classes they share in other orders: a merge leaves `parent_index` alone, and a class may become its own ancestor |
| `AgreedChunks` | a chunk is made of opcodes outside `Miscounted` | TYPEOF, a NEW without constructor, the lookups: see `opcode_effects` |

### The machine

`LimitsAssumption` (limits are positive) and `CodeAssumption`: every chunk is typed
(`TypedCode`), its `Lo`, `Hi`, `Peak` are closed under the edges of the depth
analysis (`VerifiedCode`), and the compiler keeps what the verifier does not test
(`CompiledCode`: constructors return no value and are reached by NEW and
CALL_SUPER, a fire has at most `XENO_MAX_EVENT_ARGS` operands).

`XenoVMProofs`:

* `TypeCorrect`, `ControlFlowIsSafe`: `Spec /\ []CleanStart` implies `[]TypeOK` and
  `[]ControlFlowIntegrity`. The inductive invariant `Inv` adds to `TypeOK` that the
  handler stack is sorted by frame depth and that each handler's chunk is that
  of its frame: without the order, dropping handlers from the top would not drop
  all those of a dead frame, and THROW would write another chunk's ip into a
  frame. No hypothesis about fires or throws is needed: nested fires and
  exceptions out of handlers corrupt depths, never ip.
* `FreshVMIsSafe`: for a host that loads no archives and gives up a VM that
  returned an error, `CleanStart` itself is an invariant.

`XenoVMStackProofs`:

* `FramesAreDisciplined`, `OperandsAreInFrame`, `CatchesAreLive`,
  `PendingFireIsLive`: `Spec /\ []Disciplined` implies `StackDiscipline`,
  `OperandsInFrame`, `HandlersLive` and `PendingInProgress`. The invariant is
  `Layout`: for each frame, its base plus its chunk's `Peak` is within the stack
  (`BaseFits`), and the depth it has, or will have when the frame above returns
  (`EndOf`), is in the verifier's interval at its ip (`DepthFits`); likewise for
  each handler (`CatchFits`). `EndOf` depends on whether the return will push a
  value, and that depends on the pending fire: this is where a nested fire, an
  exception out of a handler and a handler that returns a value break the
  induction, and where `vm_nested_fire` finds the first of them broken. The runs and
  the hypothesis `Disciplined` are the two sides of one boundary.

`XenoVMEventProofs`:

* `SubscribedOnce`: no event holds a subscription twice. A subscription is appended
  when the search found none, and the search compares what `DelegatesHaveReceivers`
  makes equality (`MatchIsEquality`); an unsubscription moves the last entry into
  the gap (`SwapRemoveDistinct`).
* `EventsImplementDispatch`: under `Disciplined` every step of `XenoVM` is a step of
  `EventDispatch` or leaves its variables alone. The mapping takes lists to sets,
  `Running` from the frame above the firing one, and `Owed` from the rest of the
  snapshot. A handler is struck off the owed set when the walk enters it: that this
  removes one and only one needs the snapshot to be without repetitions, hence the
  invariant `EventInv`, and that the frame above the firing one is the handler's
  needs `Layout`. This is the safety half of `FiresEachHandlerOnce`.

`XenoVMTryProofs`:

* `TriesAreRegisteredOnce`: where try blocks nest, no frame holds two handlers of
  one try. The invariant `TrySegments` is stronger: the handler stack is cut into one
  segment per frame, and the segment of a frame is exactly the list of try blocks
  around its instruction (`Open`). TRY and TRY_END change the last segment by one, a
  return cuts it off, and a throw lands in the block of the last handler, since
  the frames it leaves have none. One segment cannot name a catch clause twice
  (`CatchesDiffer`), because a catch clause lies outside its own block.

### The verifier

Nothing is assumed of the chunk but its type (`VerifierAssumption`). `VerifierProofs`:

* `TablesInRange`, `AcceptanceIsSound`: whatever the chunk, what `ver_chunk` accepts
  is `Accepted`, which is what `CodeAssumption` asks of a chunk under
  `VerifiedCode`. The invariant says that while a round has changed nothing,
  every instruction it has passed is `Closed`; the only lemma with content is that
  a join widens (`JoinWidens`) and so a Propagate without effect was closed before.
* `IntervalsAreLeast`: the intervals and `max_stack` lie within every solution
  (`LeastSoFar`, kept by `PropagateBelow`): with the former, they are the least one, and
  independent of the order in which the rounds visit the instructions.
* `SolvableIsRefusedLate`: a chunk that has a solution is refused by the guard on
  the rounds and by no other test.
* `LevelCodeIsAccepted`: a chunk that runs at one depth per instruction is not
  refused by the guard either. Each round that changes the table reaches an
  instruction it had not reached (`Progress`, by `LevelGrows`), so there are fewer of
  them than instructions. This is `BalancedIsAccepted` for chunks of every length,
  without `??`, whose two depths are what that property excepts by name.
* `LeastIntervalsFound`: `LeastIntervals`, which compares the table `ver_chunk` leaves with
  what the edges alone determine (`DepthAnalysis`): all instructions at once, in one
  round more than the chunk has instructions. In one direction those rounds stay
  within the accepted table, since it is closed (`RoundWithin`). In the other, the
  table never leaves any bounds that hold the entry and whatever an edge carries out of
  them (`Bounding`, `AroundSoFar`). So a round that finds no new least depth has found all
  of them: were some still higher than the table's, they could be raised by one and
  be such bounds (`LowGrows`, `HighGrows` for the greatest). Each round finds the
  depth of one more instruction at least, and there are no more rounds to make than
  instructions (`ChainFills`); `max_stack` is a depth some instruction reaches
  (`PeakIsReached`).

### The verifier and the machine

`VerifierProofs` also, for `AgreedChunks`, and every argument count an opcode may carry:

* `MachineFindsOperands`, `PeakIsEnough`: in an accepted chunk the machine, which goes
  by its own effects, finds the operands of every opcode it comes to, and never has
  more than `max_stack` values. Row by row the machine's table is the verifier's
  (`TablesAgree`); so a move of the machine follows an edge of the analysis and stays
  within the intervals (`MovesWithin`), which `AcceptanceIsSound` has made `Accepted`; and
  so do the depths of any number of moves (`DepthsWithin`).

### The linker

`LinkAssumption` (the shape of builds). `ModuleLinkProofs`:

* `TablesWithinLimits`: `TypeOK` for every build, failed merges included (`Typed`).
* `LinkedCodeIsRight`, `LinkedMembersAreRight`: for `SeparateBuilds`, when the last
  merge is over and there was room for all classes (`Fits`), every operand, method
  and constructor index designates what it was compiled for. An index is wrong for
  most of a merge, so the invariant follows each reference through it: names in the
  tables stand once and where they came from (`ChunkNames`, `ClassNames`); until the
  remap loop comes to it, a copied chunk has the references it was compiled with
  (`WaitingAsCompiled`), and every other chunk is right (`OthersRight`); likewise for
  the classes and the loop over methods (`ClassesAwait`, `OthersMembers`). The remap of
  a chunk is right because every name it can look up is there by then (`AllKnown`,
  `ClassesFound`), the static initialisers by `placed`; and what is right stays right
  because tables only grow (`RightStays`). That the remap loop touches no chunk of
  an earlier module is where `SeparateBuilds` is used, and what `link_inherited` violates.
  `ClassesFound` needs that no class was left out for want of room, which is a count
  of names against `MaxClasses` (`RoomForClass`).

`ModuleLinkWholeProofs`:

* `NothingIsLost`: for `WholeBuilds` the linked module has each function of each module
  once, and each class with all that any module had of it. A merge finds functions by
  name and the property asks for bodies: `BodyInv` says that bodies stand once
  (`BodiesOnce`), each at the place `fn_remap` gives (`BodiesPlaced`) and each from some
  module (`BodiesKnown`), so that a name found present is the body looked for
  (`PresentBody`). A class filled later keeps the constructor it had (`WholeInv`).
* `LinkedIsAccepted`: with `ParentsAreFirst` the strict verification at the seal refuses
  what was linked only for want of room for its classes or for versions that differ. That
  methods, constructors and callees have code and calls their arity follows from
  `LinkedCodeIsRight` and `LinkedMembersAreRight`, which lead each index to the function of
  its name, and from `OriginInv`: each function, field and method of the linked module is
  one some module brought, about which `Compatible` speaks. That NEW and CALL_STATIC find
  their class, and there the method, is `NothingIsLost`'s invariant `WholeInv`. Its
  test that no class is its own ancestor needs
  `ParentInv`: the parent of each class stands before it. A class is appended
  behind at least as many classes as stand before it in its own module (`RoomBelow`, a
  pigeonhole argument over `class_remap`), or it fills an empty class of its name that
  an earlier module left there: the second case is why the hypothesis speaks of
  earlier modules. That indices which go
  down never come round is an induction over the recursive function `Ancestors`, by the
  least step at which it fails (`AncestorsBelow`).

### The declarations

`CheckerDeclsProofs` assumes of a program what the parser gives (`ProgramsAssumption`:
lists are lists, every declaration has a name, no field is of TYPE_PARAM, which only
the checker makes) and of the limits that they are numbers (`LimitsAssumption`). Programs of
any number of declarations, seeded names, members and levels of inheritance; types
and their comparison are constants (`SameType`, `Substitute`), about which nothing is
assumed.

* `DeclarationTypes`: `TypeOK`; a class never has more members than a `ClassDef` has room for.
* `NamesDeclaredOnce`: `DeclaredOnce`. The invariant `Named` says for every name that has
  passed which of its declarations the symbol stands for and, while nothing is
  complained of, which pairs of kinds may share it (`MayShare`).
* `FieldsKeepTheirSlots`: `FieldsMeanTheField`. While a class is compiled, its entry is
  the entry of its parent followed by as many of its own members as have been
  placed (`Laid`: `FieldsLaid`, `MethodsLaid`). This has to hold of classes compiled
  earlier although a parent's entry might be opened again or change later: that
  a name is one class's (`Named`), and that only the classes behind their parents are
  asked about (`Straight`), is what keeps it. From `Laid`, by the place of the declaration, what
  each class means (`Meant`): it keeps the slots of every class above it (`SlotsKept`),
  lacks no member of any (`NoneMissing`), has fields from nowhere else (`FieldsFrom`), and
  each method is the nearest one's (`OwnersNearest`). The checker arrives at the class
  it takes the field from by another walk, over declarations: `WalkFinds` says that it
  stands above the class, and `FieldKept` brings both together.
* `MethodsAreTheNearest`: `MethodsMeanTheMethod`, from `Meant` in the same way (`MethodKept`). A
  redefinition keeps the slot of the method it hides, and so it does however many
  classes lie between the two.
* `InterfacesAreKept`: `InterfaceKept`. What pass 1b2 owes at its start is every method
  of every interface a class lists, and of those above it (`AllOwed`). The invariant
  `Searched` says that each is still owed, or is looked for in a class above which the
  walk came through none that has it (`SoughtIn`), or was found first in such a class
  with the required signature (`Satisfied`), or has been complained of. The machine
  looks in `ClassDef`s instead, where inherited methods are copies: the first one that
  answers is the class's own or the nearest one's (`Answered`), and that is where
  the search of the checker ended.

### What stays with TLC, and why

* Liveness and refinements under fairness: `HostCallsReturn`, `Verdict`, the fair half
  of `FiresEachHandlerOnce`, `ComesToItsEnd`, `CheckEnds`. The prover has no rule for
  ENABLED.
* `BalancedIsAccepted` is a property of small chunks: each `??` outside a loop raises the
  greatest depth by one, so a chunk with VER_STACK_MAX of them in a row is balanced and
  refused. What holds for every length is `LevelCodeIsAccepted`.
* That the chunks of the runs are what `CodeAssumption` asks: TLC evaluates it with the
  `Lo`, `Hi` and `Peak` that `DepthAnalysis` gives them.
* `UsableAnywhere` says of the programs of its run that they are refused for no other
  reason than a missing operand; a chunk that returns with values left in a loop may
  be refused for another.
* The properties of `statements` and `expressions`. There checker and code generator are
  recursive functions over trees, in RECURSIVE operators. An induction over numbers is within reach (by the
  least counterexample, as in `AncestorsBelow`); one over trees is not.
* `Disciplined` is a property of programs, and a hypothesis of theorems.

## What is abstracted, and what is not modelled

In `XenoVM` and `ModuleLink`: values, strings, objects and their fields; the archive
part of a load; reflection opcodes (all are `Plain`); console input and output. In
the front end: wording and places of messages, constant pools and encodings,
attributes, delegates and enum values beyond their types, static initialisers,
`@Mod`, `compiler_ensure_class`, host declarations of the standard library. In
`CheckerDecls` a class known by its `ClassDef` alone (one of a library) has neither
members nor a parent. `Substituted` makes a type of its own each time, where
`checker.c:675` has one static `Type` for the elements of all substituted arrays: of two
such types that are alive at once the second overwrites the first's element, but an
expression here makes one at a time.

Not modelled: lexer and parser, which are functions of the text; file formats and
archives; import staging; the debugger; the standard library's scripts; the language
server; the documentation generator and the build. `PROJECT.json` lists them with
reasons.

## Plan

In order of what matters most to a mod's author and to the host:

1. `XenoVM`, its runs and its proofs (done).
2. `Verifier` and `Opcodes` (done); then `Operands`: the bytes after every opcode
   as the machine, the verifier, the linker and the disassembler each read them.
3. The code generator and the checker: expressions, statements and declarations
   (done, the declarations with their proofs); next static initialisers and attributes.
4. `ModuleLink` and its proofs (done but for `compiler_ensure_class` and the hosts' own
   copies).
5. `HostLifecycle`: run_source, load_xar, run, free with the linker and
   `XenoVM`'s host calls; hot reload with objects and receivers that outlive a
   module.
6. `Debugger`: breakpoints and stepping against "stops at every breakpoint".
7. Standard library collections against sequences and functions; the LSP
   document store and message framing; archive layout and dependency
   resolution; import staging.

Theorems worth proving, beyond those above: that the walks of `check_expr` and of
`find_method_slot` agree for the classes of libraries, known by their `ClassDef`s alone,
and the collections' representation invariants.
