CONSTANTS
    c1 = c1
    c2 = c2
    Clients <- MCClients
    Names <- MCNames
    Casings <- MCCasings
    Types <- MCTypes
    Answers <- MCAnswers
    Whitelist <- MCWhitelist
    Blacklists <- MCBlacklists
    LocalNames <- MCLocalNames
    Configs <- MCConfigs
SPECIFICATION Spec
INVARIANTS
    OnlyClearedAnswers
    NoPrivateAnswers
    ReplyMatchesRequest
PROPERTIES
    EveryQueryAnswered
    UncloakingTakesHold
