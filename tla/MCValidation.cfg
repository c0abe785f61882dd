CONSTANTS
    t1 = t1
    t2 = t2
    None = None
    MaxRequests = 3
    Token <- MCToken
    TokenExp <- MCTokenExp
    Configs <- MCConfigs
    MaxEntries = 1
    Timeout = 2
    MaxTime = 2
SPECIFICATION Spec
INVARIANTS
    OneCallPerToken
PROPERTIES
    CacheHoldsStatements
    BoundedStaleness
    NeverPastExp
    BlamesTokenOnlyOnStatement
    EveryRequestAnswered
CHECK_DEADLOCK FALSE
