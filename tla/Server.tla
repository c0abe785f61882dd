------------------------------- MODULE Server -------------------------------
(***************************************************************************)
(* One request through the whole process: the checkContinue listener, the  *)
(* healthcheck, CORS and the mode router under the path prefix and the 404 *)
(* after them (src/app.mts, src/router/{Healthcheck,cors,body-limit}.mts,  *)
(* src/express/requestId.mts), then the stages of Upstream.  The caller    *)
(* sends its head, and its body when it has no reason to wait.             *)
(***************************************************************************)
EXTENDS Upstream

CONSTANTS
    Inputs,     \* the requests considered, as the upstream stage reads them
    Requests    \* the same, as the stages before it do

Request == [path : {"health", "prefix", "outside"},   \* "health": GET of /_healthcheck
            method : {"OPTIONS", "other"},
            origin : {"none", "admitted", "refused"}, \* by http.cors.origin.pattern
            asks : BOOLEAN,       \* Access-Control-Request-Method is present
            id : {"none", "accepted", "refused"},     \* its X-Request-Id, by ACCEPTED_ID
            expects : BOOLEAN,    \* Expect: 100-continue
            waits : BOOLEAN]      \* the caller waits to be told before it sends

ASSUME ServerAssumption ==
    /\ Inputs \subseteq Input
    /\ Requests \subseteq {r \in Request : r.path = "health" => r.method = "other"}

VARIABLES
    req,
    told,     \* 100 Continue was said
    body      \* of the caller: "unsent" or "sent"

callerVars == <<req, told, body>>
vars == <<stageVars, callerVars>>

Init ==
    /\ in \in Inputs
    /\ req \in Requests
    /\ setup \in [cors : BOOLEAN, fields : {{}}, id : {"none"}]
    /\ stage = "arrival"
    /\ gone = FALSE
    /\ sent = "none"
    /\ outbound = None
    /\ head = ProxyHead
    /\ named = {}
    /\ written = <<>>
    /\ log = <<>>
    /\ told = FALSE
    /\ body = "unsent"

----------------------------------------------------------------------------
(* From the head's arrival to the body limit: one synchronous step.        *)

\* Plausible bug: Node's own answer, which invites every body.
InvitesEveryBody == told' = req.expects

\* Plausible bug: a listener that hands the request on and says nothing.
InvitesNoBody == told' = FALSE

\* The checkContinue listener; without Expect Node does not call it.
continueWithinLimit == told' = (req.expects /\ ~ declaredOverLimit)

isPreflight == req.method = "OPTIONS" /\ req.origin # "none" /\ req.asks

\* What cors sets on res: Vary, and the grant for an origin the pattern admits.
CorsFields ==
    {f \in {"vary", "grant"} :
        /\ setup.cors
        /\ req.method = "OPTIONS" => isPreflight
        /\ f = "grant" => req.origin = "admitted"}

\* The proxy answers with the fields set, and reads no body.
AnswersAtOnce(status, fields) ==
    /\ setup' = [setup EXCEPT !.fields = fields]
    /\ head' = ProxyHead'
    /\ written' = <<[by |-> "proxy", status |-> status, head |-> head']>>
    /\ stage' = "over"
    /\ UNCHANGED <<in, gone, sent, outbound, named, log, req, body>>

HealthcheckAnswers ==
    /\ stage = "arrival"
    /\ req.path = "health"
    /\ continueWithinLimit
    /\ AnswersAtOnce(200, {})

\* The 404 of app.mts, which does not wait for the body as express's own would.
NotFound ==
    /\ stage = "arrival"
    /\ req.path = "outside"
    /\ continueWithinLimit
    /\ AnswersAtOnce(404, {})

PreflightAnswers ==
    /\ stage = "arrival"
    /\ req.path = "prefix" /\ setup.cors /\ isPreflight
    /\ continueWithinLimit
    /\ AnswersAtOnce(204, CorsFields)

\* createRequestIdMiddleware: an acceptable id is kept, another replaced, in
\* req.headers and on res.
SettledId ==
    /\ setup' = [setup EXCEPT !.fields = CorsFields \cup {"x-request-id"},
                              !.id = IF req.id = "accepted" THEN "caller" ELSE "fresh"]
    /\ in' = [in EXCEPT !.fields = @ \cup {"x-request-id"}]

EntersRouter ==
    /\ stage = "arrival"
    /\ req.path = "prefix" /\ ~ (setup.cors /\ isPreflight)
    /\ continueWithinLimit
    /\ SettledId
    /\ head' = ProxyHead'
    /\ stage' = "limit"
    /\ UNCHANGED <<gone, sent, outbound, named, written, log, req, body>>

\* The caller sends its body: it did not announce one with Expect, does not
\* wait, or was told to.
CallerSends ==
    /\ stage \notin {"arrival", "over"} /\ ~ gone
    /\ body = "unsent"
    /\ req.expects /\ req.waits => told
    /\ body' = "sent"
    /\ UNCHANGED <<stageVars, req, told>>

\* The body stage goes on with a body that arrived, or a caller that left.
BodyArrived == gone \/ body = "sent"

----------------------------------------------------------------------------
Next ==
    \/ HealthcheckAnswers
    \/ NotFound
    \/ PreflightAnswers
    \/ EntersRouter
    \/ CallerSends
    \/ Guard /\ UNCHANGED callerVars
    \/ ModeForwards /\ UNCHANGED callerVars
    \/ ModeRefuses /\ UNCHANGED callerVars
    \/ BodyArrived /\ BodyFails /\ UNCHANGED callerVars
    \/ BodyArrived /\ Sends /\ UNCHANGED callerVars
    \/ (\E failure \in Failure : UpstreamFails(failure)) /\ UNCHANGED callerVars
    \/ \E fields, connection \in SUBSET ResponseField :
            UpstreamAnswers(fields, connection) /\ UNCHANGED callerVars
    \/ WritesHead /\ UNCHANGED callerVars
    \/ AnswerCompletes /\ UNCHANGED callerVars
    \/ AnswerCut /\ UNCHANGED callerVars
    \/ CallerLeaves /\ UNCHANGED callerVars

\* What takes place by itself: the proxy's own steps, a body the caller has no
\* reason to hold back, the decision of a mode (bounded by the timeouts of the
\* provider calls), and the error a closed upstream connection raises.  Nothing
\* bounds the upstream: the stage sets no timeout.
Owed ==
    \/ HealthcheckAnswers \/ NotFound \/ PreflightAnswers \/ EntersRouter \/ CallerSends
    \/ /\ UNCHANGED callerVars
       /\ \/ Guard \/ ModeForwards \/ ModeRefuses
          \/ BodyArrived /\ (BodyFails \/ Sends)
          \/ gone /\ ((\E failure \in Failure : UpstreamFails(failure)) \/ AnswerCut)

Spec == Init /\ [][Next]_vars /\ WF_vars(Owed)

----------------------------------------------------------------------------
(* Properties; those of the stage itself are Upstream's.                   *)

\* The exchange as a caller and an upstream see it.  Whatever stage the request
\* ends in, the server answers it at most once, leaves no upstream connection
\* behind, never ends with a caller that is connected and unanswered, and ends
\* once the caller has left.
Promise == INSTANCE Exchange
    WITH answers <- Len(written), left <- gone, conn <- sent, over <- stage = "over"
ImplementsExchange == Promise!Spec

\* A request that declares too long a body costs nothing: its body is not asked
\* for, wherever it is answered, a caller that waits to be asked keeps it, and
\* neither the mode nor the upstream is reached.
OversizedCostsNothing ==
    in.declared = "over" =>
        /\ ~ told
        /\ req.expects /\ req.waits => body = "unsent"
        /\ stage \in {"arrival", "limit", "over"} /\ sent = "none"

\* The server and its caller never wait for each other: an exchange always comes
\* to its end or to wait for the upstream, on behalf of a caller that is still
\* there.  A caller that holds its body back until it is told is told, or is
\* answered without it.
OnlyUpstreamIsAwaited ==
    []<>(stage = "over" \/ (~ gone /\ stage \in {"waiting", "piping"}))
=============================================================================
