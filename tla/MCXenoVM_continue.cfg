SPECIFICATION Spec
CONSTANTS
    Fns <- MCFns
    NoFn = "none"
    NoRecv = "null"
    Code <- MCCode
    IsCtor <- MCIsCtor
    Lo <- MCLo
    Hi <- MCHi
    Peak <- MCPeak
    Events <- MCEvents
    Subs <- MCSubs
    Resolve <- MCResolve
    Programs <- SkippingProgram
    Libraries <- NoLibraries
    StackMax = 8
    FrameMax = 5
    HandlerMax = 2
    EventMax = 2
    EventHandlersMax = 3
    EventArgsMax = 2
    Budget = 60
    MaxObjects = 3
    RetryAfterError = FALSE
INVARIANT OneHandlerPerTry
