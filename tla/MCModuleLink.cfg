SPECIFICATION Spec
CONSTANTS
    Builds <- AllBuilds
    MaxFunctions = 15
    MaxClasses = 5
INVARIANTS
    TypeOK
    CallsByName
    MethodsByName
    NothingLost
    LinkIsAccepted
CHECK_DEADLOCK FALSE
