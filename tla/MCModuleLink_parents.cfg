SPECIFICATION Spec
CONSTANTS
    Builds <- AllBuilds
    MaxFunctions = 15
    MaxClasses = 5
INVARIANTS
    ParentsByName
CHECK_DEADLOCK FALSE
