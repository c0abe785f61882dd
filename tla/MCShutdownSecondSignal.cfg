CONSTANTS
    c1 = c1
    c2 = c2
    None = None
    Conn = {c1}
    MaxRequests <- MCMaxRequests
    Cleanups = {"settles", "throws", "hangs_referenced", "hangs"}
SPECIFICATION Spec
INVARIANTS
    SecondSignalIgnored
CHECK_DEADLOCK FALSE
