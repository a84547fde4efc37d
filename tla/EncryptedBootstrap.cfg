CONSTANTS
    q1 = q1
    q2 = q2
    Queries <- MCQueries
    Own <- MCOwn
    Setups <- DefaultDoH
    Nets <- MCNets
    Timeout = 2
    MaxStreak = 6
SPECIFICATION Spec
INVARIANT BootstrapReachesProvider
