CONSTANTS
    browser = browser
    stranger = stranger
    edge = edge
    inner = inner
    None = None
    Address <- MCAddress
    Trusted <- MCTrusted
    PublicOrigins = {"https_site", "http_site", None}
    Starts <- MCStarts
SPECIFICATION ReadingSpec
INVARIANTS
    SourceIsVouched
    GateIsStricter
    CookieReadAndRemoved
CHECK_DEADLOCK FALSE
