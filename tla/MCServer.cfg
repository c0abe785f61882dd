CONSTANTS
    None = None
    Inputs <- MCInputs
    Requests <- MCRequests
SPECIFICATION Spec
INVARIANTS
    RefusalHeadIsOwn
    ProxiedHeadIsScreened
    OutboundIsProxys
    OversizedCostsNothing
PROPERTIES
    LeavingIsNoFailure
    ImplementsExchange
    OnlyUpstreamIsAwaited
CHECK_DEADLOCK FALSE
