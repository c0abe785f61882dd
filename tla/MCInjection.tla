---------------------------- MODULE MCInjection -----------------------------
(* Injection on small instances.                                            *)
EXTENDS Injection, TLC

CONSTANTS r1, r2, r3, r4, a, b, x, sid, jwt, endless, refused

MCRequest == {r1, r2, r3, r4}
FewRequest == {r1, r2, r3}
Symmetry == Permutations(MCRequest)
MCRouter == {a, b, x}
MCAssertionExp == [j \in {jwt, endless, refused} |-> IF j = endless THEN None ELSE 3]

In(router, session, authorization, sameOrigin) ==
    [router |-> router, session |-> session,
     authorization |-> authorization, sameOrigin |-> sameOrigin]

\* Two routers sharing cache and flights; every way to be kept out of both.
SessionInputs ==
    {In(a, sid, NoHeader, TRUE), In(b, sid, NoHeader, TRUE), In(a, sid, NoHeader, FALSE)}

\* An exchanging router, with every refusal, and routers that only forward.
ExchangeInputs ==
    {In(x, "absent", jwt, FALSE), In(x, "absent", endless, FALSE),
     In(x, "absent", refused, TRUE), In(x, "absent", "unsupported", TRUE),
     In(x, sid, jwt, TRUE), In(x, "rejected", jwt, TRUE),
     In(x, sid, NoHeader, TRUE),
     In(a, "absent", jwt, TRUE), In(a, "rejected", jwt, TRUE), In(b, "absent", jwt, TRUE)}
=============================================================================
