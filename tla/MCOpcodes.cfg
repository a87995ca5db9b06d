SPECIFICATION Spec
CONSTANTS
    Chunks <- AllPrograms
    Tested <- Consistent
    ArgcMax = 2
    DepthMax = 8
INVARIANTS
    OperandsAreThere
    PeakCovers
    UsableAnywhere
CHECK_DEADLOCK FALSE
