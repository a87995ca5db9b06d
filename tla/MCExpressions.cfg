SPECIFICATION Spec
CONSTANTS
    MaxLocals = 40
    MaxLoopDepth = 1
    MaxLoopPatches = 1
    JumpReach = 63
    UnsetFlag = FALSE
    Classes <- MCClasses
    Ifaces <- MCIfaces
    Enums <- MCEnums
    Functions <- MCFunctions
    Events <- MCEvents
    Order <- MCOrder
    Defs <- Registered
    Hosts = {"h", "show"}
    MaxFields = 8
    MaxMethods = 8
    Pipeline <- MCPipeline
INVARIANTS
    AcceptedCompiles
    Sound
    OneValue
    WellTyped
CHECK_DEADLOCK FALSE
