SPECIFICATION FairSpec
CONSTANTS
    Chunks <- AllChunks
    DepthMax = 9
    Size = 4
    MCOps = {"plain", "retvoid", "jump", "branch", "coalesce"}
INVARIANTS
    TypeOK
    AcceptedIsSafe
    BalancedIsAccepted
    LeastIntervals
PROPERTIES
    Verdict
CHECK_DEADLOCK FALSE
