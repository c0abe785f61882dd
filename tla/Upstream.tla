------------------------------ MODULE Upstream ------------------------------
(***************************************************************************)
(* What happens to one request from the body limit on: src/router/         *)
(* {body-limit,upstream,error-handler,refusal}.mts, with the proxy library *)
(* and Node's response object as src/ uses them.  Server puts the stages   *)
(* before it, and the caller, around these actions.                        *)
(*                                                                         *)
(* The caller may leave, and the upstream may fail, between any two steps; *)
(* a step is what runs without an await to the event loop.                 *)
(***************************************************************************)
EXTENDS Naturals, Sequences

CONSTANTS
    None      \* absent

\* Request fields, by what the stage does with them: "hop" stands for
\* THIS_HOP_ONLY, "framing" for Transfer-Encoding, Trailer and Expect, "other"
\* for a field the stage knows nothing of.
RequestField == {"authorization", "x-request-id", "via", "x-forwarded-for", "x-real-ip",
                 "x-forwarded-host", "forwarded", "hop", "framing", "other"}

\* Response fields: "grant" the CORS grant, "hop" UPSTREAM_HOP_ONLY.
ResponseField == {"x-request-id", "vary", "grant", "hop", "other"}

Input == [fields : SUBSET RequestField,   \* req.headers as the stage meets them
          named : SUBSET RequestField,    \* what the inbound Connection names
          declared : {"none", "within", "over"},      \* Content-Length
          body : {"within", "over"},                  \* what really arrives
          host : BOOLEAN,                             \* Host is present
          coding : {"known", "unknown"}]              \* Transfer-Encoding

\* cors: the proxy answers CORS; fields: what the stages before this one set on
\* res; id: whose request id they settled on.
Setup == [cors : BOOLEAN, fields : SUBSET ResponseField, id : {"none", "caller", "fresh"}]

VARIABLES
    in, setup,
    stage,        \* "arrival", "limit", "mode", "body", "waiting", "piping", "over"
    gone,         \* res.destroyed: the caller's connection is closed
    sent,         \* the upstream request: "none", "open" or "closed"
    outbound,     \* the fields it was sent with
    head,         \* head[f]: who contributed to the value of f set on res
    named,        \* what the upstream's Connection names
    written,      \* the answers started towards the caller
    log           \* the refusals logged

stageVars == <<in, setup, stage, gone, sent, outbound, head, named, written, log>>

headersSent == written # <<>>

----------------------------------------------------------------------------
(* The proxy's own answers.                                                *)

\* What the proxy had set on res when the stage began (screenUpstreamHead).
ProxySet == setup.fields

ProxyHead == [f \in ResponseField |-> IF f \in ProxySet THEN {"proxy"} ELSE {}]

\* screenUpstreamHead's writeHead, as an answer's first byte goes out: the names
\* in the upstream's Connection take the upstream's fields off, not the proxy's.
HeadWritten(onto, names) ==
    [f \in ResponseField |->
        CASE f \in names /\ f \in ProxySet -> {"proxy"}
          [] f \in names /\ f \notin ProxySet -> {}
          [] OTHER -> onto[f]]

\* refuse: log, and answer unless no one is left to read it.
Refuse(reason, status, onto) ==
    /\ log' = Append(log, reason)
    /\ written' = IF gone THEN written
                  ELSE Append(written, [by |-> "proxy", status |-> status,
                                        head |-> HeadWritten(onto, named')])
    /\ stage' = "over"

\* createErrorHandler: once the answer has started, log and cut the connection.
HandleError(reason, status, onto) ==
    IF headersSent
    THEN /\ log' = Append(log, reason)
         /\ gone' = TRUE
         /\ stage' = "over"
         /\ UNCHANGED written
    ELSE /\ Refuse(reason, status, onto)
         /\ gone' = gone

----------------------------------------------------------------------------
(* Up to the upstream request.                                             *)

declaredOverLimit == in.declared = "over"

\* createBodyLimitGuard on the declared length.
Guard ==
    /\ stage = "limit"
    /\ UNCHANGED <<in, setup, gone, sent, outbound, head, named>>
    /\ IF declaredOverLimit
       THEN Refuse("body_too_large", 413, head)
       ELSE stage' = "mode" /\ UNCHANGED <<written, log>>

\* The mode forwards, possibly after a provider call (Injection, Validation).
ModeForwards ==
    /\ stage = "mode"
    /\ stage' = "body"
    /\ UNCHANGED <<in, setup, gone, sent, outbound, head, named, written, log>>

\* The mode answers in place of forwarding, and logs in its own words.
ModeRefuses ==
    /\ stage = "mode"
    /\ stage' = "over"
    /\ written' = IF gone THEN written
                  ELSE Append(written, [by |-> "proxy", status |-> 401, head |-> head])
    /\ UNCHANGED <<in, setup, gone, sent, outbound, head, named, log>>

\* Plausible bug: the caller's Connection is obeyed for every field.
KeptAsNamed == in.fields \ ({"hop", "framing"} \cup in.named)

\* The inbound fields that survive: PROXY_DECIDED ones whatever is named.
Kept ==
    in.fields \ ({"hop", "framing"} \cup (in.named \ {"authorization", "x-request-id"}))

\* proxyReqOptDecorator, after the library's copy of req.headers: who the value
\* of each outbound field comes from, in order.
Decorated ==
    [f \in RequestField |->
        CASE f \in {"via", "x-forwarded-for"} ->
                (IF f \in Kept THEN <<"received">> ELSE <<>>) \o <<"proxy">>
          [] f = "x-real-ip" -> <<"proxy">>
          [] f = "x-forwarded-host" -> IF in.host THEN <<"proxy">> ELSE <<>>
          [] f = "forwarded" -> <<>>
          [] f = "x-request-id" -> IF f \in Kept THEN <<setup.id>> ELSE <<>>
          [] OTHER -> IF f \in Kept THEN <<"received">> ELSE <<>>]

\* The library reads the body against the limit: a caller that left, a body over
\* the limit, a coding it cannot take off.  All three say their own status, so
\* they are handed on whether or not the caller is still there.
BodyFails ==
    /\ stage = "body"
    /\ UNCHANGED <<in, setup, sent, outbound, head, named>>
    /\ \/ gone /\ HandleError("request_failed", 400, head)
       \/ ~ gone /\ in.body = "over" /\ HandleError("body_too_large", 413, head)
       \/ ~ gone /\ in.body = "within" /\ in.coding = "unknown"
             /\ HandleError("request_failed", 501, head)

\* sendAsReceived: the body is read, the fields decorated, the request sent.
Sends ==
    /\ stage = "body"
    /\ ~ gone /\ in.body = "within" /\ in.coding = "known"
    /\ stage' = "waiting"
    /\ sent' = "open"
    /\ outbound' = Decorated
    /\ UNCHANGED <<in, setup, gone, head, named, written, log>>

----------------------------------------------------------------------------
(* The upstream.                                                           *)

Failure == {"connection", "timeout", "unknown"}

\* toUpstreamFailure and refusalFor, for an error with no status of its own.
StatusOf(failure) ==
    CASE failure = "connection" -> 502 [] failure = "timeout" -> 504 [] failure = "unknown" -> 500
ReasonOf(failure) ==
    IF failure = "unknown" THEN "request_failed" ELSE "upstream_unavailable"

\* Plausible bug: proxyErrorHandler hands every failure on.
UpstreamFailsAlwaysReported(failure) ==
    /\ stage = "waiting"
    /\ sent' = "closed"
    /\ UNCHANGED <<in, setup, outbound, head, named>>
    /\ HandleError(ReasonOf(failure), StatusOf(failure), head)

\* The upstream request fails before an answer: proxyErrorHandler.  A caller
\* that left has nothing handed on: its leaving is what ended the request.
UpstreamFails(failure) ==
    /\ stage = "waiting"
    /\ sent' = "closed"
    /\ UNCHANGED <<in, setup, outbound, head, named>>
    /\ IF gone
       THEN stage' = "over" /\ UNCHANGED <<gone, written, log>>
       ELSE HandleError(ReasonOf(failure), StatusOf(failure), head)

\* Plausible bug: a field the proxy set is overwritten by the upstream's.
ScreenedOverwrites(fields) ==
    [f \in ResponseField |->
        IF f \notin fields \/ f = "hop" THEN head[f] ELSE {"upstream"}]

\* screenUpstreamHead's setHeader, over the fields the upstream sent.
Screened(fields) ==
    [f \in ResponseField |->
        CASE f \notin fields \/ f = "hop" \/ (setup.cors /\ f = "grant") -> head[f]
          [] f \in fields /\ f \in ProxySet -> IF f = "vary" THEN head[f] \cup {"upstream"} ELSE head[f]
          [] OTHER -> {"upstream"}]

UpstreamAnswers(fields, connection) ==
    /\ stage = "waiting" /\ sent = "open" /\ ~ gone
    /\ stage' = "piping"
    /\ head' = Screened(fields)
    /\ named' = connection
    /\ UNCHANGED <<in, setup, gone, sent, outbound, written, log>>

WritesHead ==
    /\ stage = "piping" /\ ~ headersSent /\ ~ gone
    /\ written' = Append(written, [by |-> "upstream", status |-> 200, head |-> HeadWritten(head, named)])
    /\ head' = HeadWritten(head, named)
    /\ UNCHANGED <<in, setup, stage, gone, sent, outbound, named, log>>

\* The answer ends complete; res closes, which ends the upstream request.
AnswerCompletes ==
    /\ stage = "piping" /\ headersSent /\ ~ gone
    /\ stage' = "over"
    /\ sent' = "closed"
    /\ UNCHANGED <<in, setup, gone, outbound, head, named, written, log>>

\* Plausible bug: what the upstream's head set stays for the proxy's answer.
RestoredNothing == head

\* restoreHead: the head the proxy had set before the stage.
RestoredHead == ProxyHead

\* watchAnswer: the upstream drops the answer before it is complete.
AnswerCut ==
    /\ stage = "piping"
    /\ sent' = "closed"
    /\ IF gone \/ headersSent
       THEN UNCHANGED <<head, named>>
       ELSE head' = RestoredHead /\ named' = {}
    /\ IF gone
       THEN stage' = "over" /\ UNCHANGED <<gone, written, log>>
       ELSE HandleError("upstream_unavailable", 502, head')
    /\ UNCHANGED <<in, setup, outbound>>

\* Plausible bug: a caller that leaves does not end the upstream request.
CallerLeavesAlone ==
    /\ ~ gone /\ stage \notin {"arrival", "over"}
    /\ gone' = TRUE
    /\ UNCHANGED <<in, setup, stage, sent, outbound, head, named, written, log>>

\* The caller disconnects: res closes, and sendAsReceived ends the upstream
\* request; the error that causes surfaces later (UpstreamFails, AnswerCut).
CallerLeaves ==
    /\ ~ gone /\ stage \notin {"arrival", "over"}
    /\ gone' = TRUE
    /\ sent' = IF sent = "open" THEN "closed" ELSE sent
    /\ UNCHANGED <<in, setup, stage, outbound, head, named, written, log>>

----------------------------------------------------------------------------
(* Properties.                                                             *)

\* An answer of the proxy's own, one in place of an upstream answer cut off
\* after its head included, carries the proxy's fields and nothing of the
\* upstream's.
RefusalHeadIsOwn ==
    \A i \in 1..Len(written) : written[i].by = "proxy" => written[i].head = ProxyHead

\* A proxied answer keeps what the proxy decided: its own fields with its
\* values, though the upstream sends or names them in Connection; Vary may have
\* gained members; no hop-by-hop field, none the upstream's Connection names,
\* and no CORS grant the proxy did not make while it answers CORS.
ProxiedHeadIsScreened ==
    \A i \in 1..Len(written) : written[i].by = "upstream" =>
        LET h == written[i].head
        IN  /\ \A f \in ProxySet : "proxy" \in h[f] /\ (f # "vary" => h[f] = {"proxy"})
            /\ \A f \in named : "upstream" \notin h[f]
            /\ h["hop"] = {}
            /\ setup.cors => "upstream" \notin h["grant"]

\* A caller that leaves is not logged as an upstream failure: the hang-up its
\* leaving causes is the proxy's own.
LeavingIsNoFailure ==
    [][log' # log /\ log'[Len(log')] = "upstream_unavailable" => ~ gone]_stageVars

\* What the upstream is told does not depend on what the caller names in
\* Connection: the token, and the one request id the caller is answered with,
\* always go on, the proxy's own entries come last, and the caller's claims for
\* its hop do not go on.
OutboundIsProxys ==
    outbound # None =>
        /\ "authorization" \in in.fields => outbound["authorization"] = <<"received">>
        /\ "x-request-id" \in ProxySet /\ outbound["x-request-id"] = <<setup.id>>
        /\ \A f \in {"via", "x-forwarded-for"} : outbound[f][Len(outbound[f])] = "proxy"
        /\ \A f \in {"x-real-ip", "x-forwarded-host"} : outbound[f] \in {<<>>, <<"proxy">>}
        /\ \A f \in {"forwarded", "hop", "framing"} : outbound[f] = <<>>
=============================================================================
