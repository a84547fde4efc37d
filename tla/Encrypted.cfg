CONSTANTS
    q1 = q1
    q2 = q2
    Queries <- MCQueries
    Own <- MCOwn
    Setups <- MCSetups
    Nets <- MCNets
    Timeout = 2
    MaxStreak = 6
SPECIFICATION Spec
INVARIANTS
    NoColdStartDeadlock
    DoTFallsBack
    OutageBounded
PROPERTIES
    EveryExchangeReturns
