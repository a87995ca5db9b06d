SPECIFICATION FairSpec
CONSTANTS
    Fns <- MCFns
    NoFn = "none"
    NoRecv = "null"
    Code <- MCCode
    IsCtor <- MCIsCtor
    Lo <- MCLo
    Hi <- MCHi
    Peak <- MCPeak
    Events <- MCEvents
    Subs <- MCSubs
    Resolve <- MCResolve
    Programs <- DisciplinedPrograms
    Libraries <- LibrarySinits
    StackMax = 8
    FrameMax = 5
    HandlerMax = 2
    EventMax = 2
    EventHandlersMax = 3
    EventArgsMax = 2
    Budget = 60
    MaxObjects = 3
    RetryAfterError = FALSE
INVARIANTS
    TypeOK
    ControlFlowIntegrity
    StackDiscipline
    OperandsInFrame
    HandlersLive
    PendingInProgress
    OneHandlerPerTry
    NoDuplicateSubscription
    Disciplined
PROPERTIES
    FiresEachHandlerOnce
    HostCallsReturn
