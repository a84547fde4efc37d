CONSTANTS
    Lines <- MCLines
    Queries <- MCQueries
    LowerCase <- MCLowerCase
    Bad <- MCBad
    IgnoredHosts <- MCIgnoredHosts
    MaxLen = 7
    MaxLines = 3
SPECIFICATION ListSpec
CHECK_DEADLOCK FALSE
INVARIANTS
    TreeOK
    ListedIsBlocked
    NothingElseBlocked
