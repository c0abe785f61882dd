CONSTANTS
    None = None
    Invalid = Invalid
    Unset = Unset
    Empty = Empty
    Garbage = Garbage
    MaxSafe = 6
    MaxTimer = 4
    MaxPort = 5
    MaxCalls = 2
    Raws <- MCRaws
    Text <- MCText
SPECIFICATION BootSpec
INVARIANTS
    BootsAsWritten
    ConfiguredCredentialUsed
CHECK_DEADLOCK FALSE
