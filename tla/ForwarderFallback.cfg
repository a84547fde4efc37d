CONSTANTS
    q1 = q1
    q2 = q2
    Queries <- OneQuery
    Strategies <- RoundRobinOnly
    Profiles <- MCProfiles
    N = 3
    CfgTimeout = 2
    Second = 1
    MaxParallel = 1
SPECIFICATION Spec
CHECK_DEADLOCK FALSE
INVARIANT FallsBackToHealthy
