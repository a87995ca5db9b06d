------------------------------ MODULE MCXenoVM ------------------------------
(***************************************************************************)
(* XenoVM with small chunks, shaped like the language tests 22_exceptions, *)
(* 24_events and 26_bound_delegates: what the compiler emits for them,     *)
(* with the values abstracted.                                             *)
(***************************************************************************)
EXTENDS XenoVM, DepthAnalysis, TLC

null == "null"
sub(name, recv) == [name |-> name, recv |-> recv]

MCSubs == {sub("onStatic", null), sub("receive", "alice"), sub("receive", "bob"),
           sub("gone", null), sub("logs", null), sub("fires", null),
           sub("throws", null), sub("once", null), sub("late", null)}

MCResolve == [s \in MCSubs |-> IF s.name = "gone" THEN "none" ELSE s.name]

Chunks == [
  \* try { f(x); OnHit(x) } catch (e) {} with two delegates subscribed
  main |-> <<
    Push, On(Bound("Hit", {sub("receive", "alice"), sub("receive", "bob")})),
    On(Static("Hit", sub("gone", null))),
    On(Static("Hit", sub("onStatic", null))),
    TryAt(13), Load, CallFn("risky", 1), Pop,
    Load, FireEvent("Hit", 1), TryEnd, JumpTo(15),
    Push, Pop,
    Push, Off(Bound("Hit", {sub("receive", "alice")})),
    Load, FireEvent("Hit", 1), ReturnNone >>,
  \* throw on null, then try { return x / y; } catch (e) {}
  risky |-> <<
    NewOf({"Base"}, 0), CoalesceTo(4), Load, BranchTo(7),
    Load, ThrowIt,
    TryAt(12), Load, Load, MayFail(2), ReturnValue,
    Push, ReturnValue >>,
  \* while (cond) { try { if (cond) throw e; } catch (e) {} }
  retry |-> <<
    Load, BranchTo(13), TryAt(10), Load, BranchTo(8), Load, ThrowIt, TryEnd, JumpTo(1),
    Push, Pop, JumpTo(1), ReturnNone >>,
  Base |-> << Push, CallSuper("Object", 0), NewOf({}, 0), Pop, Pop, ReturnNone >>,
  Object |-> << ReturnNone >>,
  onStatic |-> << Load, Load, Apply(2), Pop, ReturnNone >>,
  receive |-> << Push, Load, CallMethod({"note"}, 1), Pop, ReturnNone >>,
  note |-> << Load, MayFail(1), Pop, ReturnNone >>,
  \* while (cond) { self() } match-fail
  spin |-> << Load, BranchTo(6), CallFn("spin", 0), Pop, JumpTo(1), MatchFail >>,
  climb |-> << Load, Load, Load, CallFn("climb", 0), Pop, Pop, Pop, Pop, ReturnNone >>,
  spinner |-> << Load, BranchTo(5), CallFn("spin", 0), Pop, CallFn("climb", 0), Pop, ReturnNone >>,
  \* try { try { try {} catch (e) {} } catch (e) {} } catch (e) {}
  deep |-> << TryAt(14), TryAt(10), TryAt(6),
              TryEnd, JumpTo(8), Push, Pop,
              TryEnd, JumpTo(12), Push, Pop,
              TryEnd, JumpTo(16), Push, Pop, ReturnNone >>,
  sinit |-> << Load, MayFail(1), Pop, ReturnNone >>,
  \* while (cond) {}
  loop |-> << Load, BranchTo(4), JumpTo(1), ReturnNone >>,
  \* more handlers than an event has room for; they come and go while it fires
  party |-> << On(Static("Hit", sub("once", null))), On(Static("Hit", sub("late", null))),
               On(Static("Hit", sub("onStatic", null))), On(Static("Hit", sub("logs", null))),
               Load, FireEvent("Hit", 1), Load, FireEvent("Hit", 1), ReturnNone >>,
  once |-> << Off(Static("Hit", sub("once", null))), On(Static("Hit", sub("logs", null))),
              ReturnNone >>,
  late |-> << TryAt(6), CallFn("throws", 0), Pop, TryEnd, JumpTo(8), Push, Pop, ReturnNone >>,
  \* an event nobody resolvable listens to, then one event too many
  crowded |-> << Load, Load, FireEvent("Hit", 2), On(Static("Log", sub("gone", null))),
                 FireEvent("Log", 0), On(Static("Hit", sub("logs", null))),
                 FireEvent("Hit", 0), On(Static("Over", sub("logs", null))), ReturnNone >>,
  throws |-> << Load, ThrowIt >>,
  logs   |-> << ReturnNone >>,
  \* Hit's first handler fires Log
  nests |-> << On(Static("Hit", sub("fires", null))), On(Static("Hit", sub("logs", null))),
               On(Static("Log", sub("onStatic", null))),
               FireEvent("Hit", 0), Push, Pop, ReturnNone >>,
  fires |-> << FireEvent("Log", 0), ReturnNone >>,
  \* while (cond) { try { continue; } catch (e) {} }
  skips |-> << Load, BranchTo(8), TryAt(6), JumpTo(1), TryEnd, Push, Pop, ReturnNone >> ]

MCCtors == {"main", "Base", "Object", "spinner", "deep", "loop", "retry", "party", "crowded",
            "nests", "skips"}

MCIsCtor == [f \in DOMAIN Chunks |-> f \in MCCtors]

\* TLC keeps the value of a definition but not of one a configuration assigns to
\* a constant, so the tables have a definition of their own.
LoTable   == [f \in DOMAIN Chunks |-> LoOf(Chunks[f])]
HiTable   == [f \in DOMAIN Chunks |-> HiOf(Chunks[f])]
PeakTable == [f \in DOMAIN Chunks |-> PeakOf(Chunks[f])]
MCFns     == DOMAIN Chunks
MCCode    == Chunks
MCLo      == LoTable
MCHi      == HiTable
MCPeak    == PeakTable
MCEvents == {"Hit", "Log", "Over"}

\* the catch targets around each instruction, as the edges from the first carry them
Around(code) ==
    LET next(r) == LET i == code[r.pc] IN
            {[pc |-> e.to, open |-> IF i.op = "endtry" THEN Front(r.open)
                                    ELSE IF i.op = "try" /\ e.to # i.to THEN Append(r.open, i.to)
                                    ELSE r.open] : e \in Edges(i, r.pc)}
        after[n \in 0..Len(code)] ==
            IF n = 0 THEN {[pc |-> 1, open |-> <<>>]}
            ELSE LET reached == after[n - 1] IN reached \cup UNION {next(r) : r \in reached}
        all == after[Len(code)]
    IN [pc \in 1..Len(code) |->
          LET at == {r \in all : r.pc = pc} IN IF at = {} THEN <<>> ELSE (CHOOSE r \in at : TRUE).open]

\* What the proofs ask of chunks holds of these: try blocks nest, but for the
\* one that is left by a continue, and delegates have receivers.
ASSUME AsTheProofsAsk ==
    /\ DelegatesHaveReceivers
    /\ \A f \in MCFns : TriesNest(MCCode[f], MCLo[f], Around(MCCode[f])) <=> f # "skips"

prog(sinits, f) == [sinits |-> sinits, entry |-> f]

DisciplinedPrograms ==
    {prog(<<"sinit">>, "main"), prog(<<>>, "retry"), prog(<<>>, "party"), prog(<<>>, "crowded"),
     prog(<<>>, "spinner"), prog(<<>>, "deep"), prog(<<"sinit", "sinit">>, "loop"),
     prog(<<"sinit">>, "none")}
LibrarySinits == {<<"sinit", "sinit">>}
NestingProgram   == {prog(<<>>, "nests")}
SkippingProgram  == {prog(<<>>, "skips")}
NoLibraries      == {}
=============================================================================
