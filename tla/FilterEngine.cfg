CONSTANTS
    URLs <- MCURLs
    Files <- MCFiles
    Whitelist <- MCWhitelist
    Blacklist <- MCBlacklist
    RegexHits <- MCRegexHits
    FileRules <- MCFileRules
    URLRules <- MCURLRules
    Domains <- MCDomains
    MaxLoads = 3
SPECIFICATION Spec
CHECK_DEADLOCK FALSE
INVARIANTS
    TypeOK
    VerdictAsConfigured
PROPERTIES
    PublishedFrozen
    ListsNeverGoBack
    EveryLoadReturns
