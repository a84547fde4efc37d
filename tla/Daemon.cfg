CONSTANTS
    q1 = q1
    Starts <- MCStarts
    Queries <- MCQueries
    Contended <- MCContended
    Grace = 2
SPECIFICATION Spec
CHECK_DEADLOCK FALSE
INVARIANTS
    UsableConfig
    GraceCoversQueries
PROPERTIES
    ListsLostOnlyForCause
    AllListenersOrNone
    TerminationHonoured
    ColdStartRecovers
