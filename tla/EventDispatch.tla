--------------------------- MODULE EventDispatch ---------------------------
(***************************************************************************)
(* What the events of source/vm/vm.c promise to a script: the subscribers  *)
(* of an event are a set, and a fire calls each one subscribed when it     *)
(* starts exactly once, one after the other, unless an error stops the     *)
(* bytecode first.  Subscribing and unsubscribing during a fire changes   *)
(* later fires only.  Table slots, the snapshot and the call frames are    *)
(* XenoVM's business.                                                      *)
(***************************************************************************)
EXTENDS Integers, FiniteSets

CONSTANTS
    Events, Subs,   \* event names and subscriptions
    Handler,        \* [Subs -> chunk], the chunk a subscription runs
    Nothing,        \* no chunk
    Capacity        \* XENO_MAX_EVENT_HANDLERS

VARIABLES
    live,           \* is bytecode running?
    subscribed,     \* [Events -> SUBSET Subs]
    running,        \* the handler chunk of the fire in progress, or Nothing
    owed            \* subscriptions the fire has not called yet

vars == <<live, subscribed, running, owed>>

Init ==
    /\ live = FALSE
    /\ subscribed = [e \in Events |-> {}]
    /\ running = Nothing /\ owed = {}

Start ==
    /\ ~live /\ live' = TRUE
    /\ UNCHANGED <<subscribed, running, owed>>

\* The bytecode ends; a runtime error may end it in the middle of a fire.
Stop ==
    /\ live /\ live' = FALSE
    /\ running' = Nothing /\ owed' = {}
    /\ UNCHANGED subscribed

Subscribe(e, s) ==
    /\ live
    /\ Cardinality(subscribed[e]) < Capacity
    /\ subscribed' = [subscribed EXCEPT ![e] = @ \cup {s}]
    /\ UNCHANGED <<live, running, owed>>

Unsubscribe(e, s) ==
    /\ live
    /\ subscribed' = [subscribed EXCEPT ![e] = @ \ {s}]
    /\ UNCHANGED <<live, running, owed>>

Callable(e) == {s \in subscribed[e] : Handler[s] # Nothing}

Fire(e) ==
    /\ live /\ running = Nothing
    /\ \E s \in Callable(e) : running' = Handler[s] /\ owed' = Callable(e) \ {s}
    /\ UNCHANGED <<live, subscribed>>

CallNext ==
    /\ running # Nothing
    /\ \E s \in owed : running' = Handler[s] /\ owed' = owed \ {s}
    /\ UNCHANGED <<live, subscribed>>

Finish ==
    /\ running # Nothing /\ owed = {}
    /\ running' = Nothing
    /\ UNCHANGED <<live, subscribed, owed>>

\* a new VM in place of the old one
Restart ==
    /\ ~live
    /\ subscribed' = [e \in Events |-> {}]
    /\ UNCHANGED <<live, running, owed>>

Next ==
    \/ Start \/ Stop \/ Restart
    \/ \E e \in Events :
         Fire(e) \/ \E s \in Subs : Subscribe(e, s) \/ Unsubscribe(e, s)
    \/ CallNext \/ Finish

Spec == Init /\ [][Next]_vars

FairSpec == Spec /\ WF_vars(running # Nothing /\ (CallNext \/ Finish \/ Stop))
=============================================================================
