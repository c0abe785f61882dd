CONSTANTS
    ErrorBound = 1
    TokenBound = 2
    MaxSize = 3
SPECIFICATION Spec
INVARIANTS
    BodyReleased
    BlameIsProviders
    NoCredentialRelayed
PROPERTIES
    CallEnds
CHECK_DEADLOCK FALSE
