SPECIFICATION Spec
CONSTANTS
    Builds <- Inherits
    MaxFunctions = 15
    MaxClasses = 5
INVARIANTS
    CallsByName
CHECK_DEADLOCK FALSE
