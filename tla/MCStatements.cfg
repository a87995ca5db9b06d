SPECIFICATION Spec
CONSTANTS
    MaxLocals = 9
    MaxLoopDepth = 2
    MaxLoopPatches = 3
    JumpReach = 63
    FrameSlots = 9
    StackMax = 8
    Pipeline <- MCPipeline
    Answers = {0, 1}
    AnswersMax = 3
    Makes <- MCMakes
    Slots <- MCSlots
    MaxScopeDepth = 7
    MaxScopeSyms = 3
    ParentOf <- MCParentOf
    UnsetFlag = FALSE
    Classes <- MCClasses
    Ifaces <- Nothing
    Enums <- Nothing
    Functions <- MCFunctions
    Events <- Nothing
    Order <- MCOrder
    Defs <- Registered
    Hosts = {"h", "mark", "ask", "show", "showS", "showF", "showE", "showA", "showB"}
    MaxFields = 6
    MaxMethods = 2
INVARIANTS
    TypeOK
    AcceptsItsOwn
    RunsAsWritten
    StatementStack
    NamesMeanTheSame
PROPERTIES
    ComesToItsEnd
CHECK_DEADLOCK FALSE
