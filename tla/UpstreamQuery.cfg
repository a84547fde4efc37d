CONSTANTS
    Messages <- MCMessages
    Codes = {"subnet", "cookie", "padding"}
    Settings <- MCSettings
    Bytes <- MCBytes
SPECIFICATION PrepareSpec
CHECK_DEADLOCK FALSE
INVARIANTS
    OnlySubnetLost
    PaddedToBlock
