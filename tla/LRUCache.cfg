CONSTANTS
    k1 = k1
    k2 = k2
    k3 = k3
    p1 = p1
    p2 = p2
    Keys <- MCKeys
    Procs <- MCProcs
    Responses <- MCResponses
    Configs <- MCConfigs
    Second = 2
    MaxTime = 3
SPECIFICATION Spec
SYMMETRY Symmetry
INVARIANTS
    TypeOK
    ListMapAgree
    ServedWithinTTL
    OnlyCleanServed
PROPERTY ImplementsCacheSpec
