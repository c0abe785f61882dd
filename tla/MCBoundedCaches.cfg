CONSTANTS
    Key = {k1, k2, k3}
    MaxEntries = 2
    MaxTime = 3
    MaxWrites = 4
SPECIFICATION Spec
INVARIANTS
    WithinBound
    ServesLastWrite
PROPERTIES
    EvictsOldestOnlyWhenFull
CHECK_DEADLOCK FALSE
