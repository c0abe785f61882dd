------------------------------ MODULE MCServer ------------------------------
(* One request, with every upstream head over the five kinds of field.  The  *)
(* requests that reach the upstream carry every field and name few or all of *)
(* them; every way to arrive is combined with the declared lengths.          *)
EXTENDS Server

In(listed, declared, length, coding) ==
    [fields |-> RequestField \ {"x-request-id"}, named |-> listed, declared |-> declared,
     body |-> length, host |-> listed = {}, coding |-> coding]

MCInputs ==
    {In(RequestField, "none", "within", "known"), In({}, "within", "within", "known"),
     In({}, "over", "over", "known"), In({}, "none", "over", "known"),
     In({}, "none", "within", "unknown")}

\* An id is read, and a reason to wait matters, only where one is given.
MCRequests ==
    {r \in Request :
        /\ r.path = "health" => r.method = "other"
        /\ r.path # "prefix" => r.origin = "none" /\ ~ r.asks /\ r.id = "none"
        /\ r.method = "other" => ~ r.asks
        /\ r.id # "none" => r.origin = "none" /\ ~ r.asks
        /\ r.waits => r.expects}
=============================================================================
