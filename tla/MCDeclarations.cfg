SPECIFICATION Spec
CONSTANTS
    Programs <- MCPrograms
    MaxFields = 5
    MaxMethods = 2
    UnsetFlag = FALSE
    SameType <- TypeEquals
    Substitute <- Substituted
INVARIANTS
    TypeOK
    DeclaredOnce
    MethodsMeanTheMethod
    InterfaceKept
    FieldsMeanTheField
PROPERTIES
    CheckEnds
CHECK_DEADLOCK FALSE
