CONSTANTS
    r1 = r1
    r2 = r2
    r3 = r3
    r4 = r4
    a = a
    b = b
    x = x
    sid = sid
    jwt = jwt
    endless = endless
    refused = refused
    None = None
    Request <- MCRequest
    Router <- MCRouter
    Exchange = {x}
    Strip = {a}
    Cookie = {sid}
    Assertion = {jwt, endless, refused}
    AllowedIssuer = {jwt, endless}
    AssertionExp <- MCAssertionExp
    Inputs <- SessionInputs
    Lifetime = {None, 0, 3}
    Ttl = 3
    Margin = 1
    MaxEntries = 1
    MaxTime = 3
SPECIFICATION Spec
INVARIANTS
    OneCallPerCredential
    GateIsolation
    OwnCredentialOnly
CHECK_DEADLOCK FALSE
SYMMETRY Symmetry
