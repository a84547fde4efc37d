CONSTANTS
    p1 = p1
    p2 = p2
    p3 = p3
    CfgSize = 3
    Pushers <- MCPushers
    Limits <- MCLimits
    MaxPush = 7
SPECIFICATION Spec
SYMMETRY Symmetry
INVARIANTS
    TypeOK
    NoDuplicates
    RecentComplete
    UndisturbedReadExact
