CONSTANTS
    c1 = c1
    c2 = c2
    None = None
    Conn = {c1, c2}
    MaxRequests <- MCMaxRequests
    Cleanups = {"settles", "throws", "hangs_referenced", "hangs"}
SPECIFICATION Spec
INVARIANTS
    DrainCutsNoAnswer
    NoneForgotten
    ExitZeroIsClean
PROPERTIES
    CleanupOnceAfterDrain
    Ends
CHECK_DEADLOCK FALSE
