CONSTANTS
    k1 = k1
    k2 = k2
    c1 = c1
    c2 = c2
    c3 = c3
    c4 = c4
    NoKey = NoKey
    NoCall = NoCall
    Key <- MCKey
    Call <- MCCall
SPECIFICATION Spec
INVARIANTS
    OneFetchPerKey
    ResumesIntoFreeSlot
PROPERTIES
    EveryCallAnswered
    ImplementsCoalescing
CHECK_DEADLOCK FALSE
