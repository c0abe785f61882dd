---------------------------- MODULE ProviderCall ----------------------------
(***************************************************************************)
(* One call to the provider, by each of the three clients:                 *)
(* src/modes/injection/{session-grant-client,jwt-bearer-client}.mts and    *)
(* src/modes/validation/introspection-client.mts, with the reading of      *)
(* bodies (src/response-body.mts) and of the provider's error text         *)
(* (provider-error.mts), up to what the mode's decision tells the caller.  *)
(*                                                                         *)
(* The provider may answer anything, and may stop at any point: before the *)
(* head, and after any part of the body.  Body sizes are counted in chunks.*)
(***************************************************************************)
EXTENDS Naturals

CONSTANTS
    ErrorBound,   \* MAX_ERROR_BODY_BYTES, in chunks
    TokenBound,   \* MAX_TOKEN_BODY_BYTES and MAX_INTROSPECTION_BODY_BYTES
    MaxSize       \* the largest body considered (bounds the model)

ASSUME BoundAssumption ==
    /\ ErrorBound \in Nat
    /\ TokenBound \in Nat
    /\ ErrorBound <= TokenBound
    /\ MaxSize \in Nat

VARIABLES
    client,    \* [kind, auth]: which client, and how the proxy authenticates with it
    answer,    \* what the provider would send, whole
    stage,     \* "building", "calling", "reading" or "over"
    got,       \* chunks of the body read
    body,      \* "none", "open", or how it ended
    outcome    \* what the decision tells the caller, NoOutcome before

vars == <<client, answer, stage, got, body, outcome>>

\* By nothing, a secret or a key: an exchange always authenticates, a session
\* grant never by a secret.
Client == {c \in [kind : {"session", "exchange", "introspection"}, auth : {"none", "secret", "key"}] :
             /\ c.kind = "exchange" => c.auth # "none"
             /\ c.kind = "session" => c.auth # "secret"}

\* What a request may carry: the caller's session cookie, bearer assertion or
\* access token; the proxy's client secret, or the client assertion it signs.
Credential == {"cookie", "assertion", "token", "secret", "signed"}

\* Three dot-separated runs (JWT_SHAPE_RE) in any text that holds one whole: the
\* caller's assertion was read as a JWS compact JWT, the proxy's is signed as one.
JwtShaped == {"assertion", "signed"}

\* What a body says once parsed: "nothing" is no JSON object; "bearer" and
\* "token" are token responses with and without a Bearer token_type,
\* "statement" has a boolean `active`; the rest are error codes.
Says == {"nothing", "bearer", "token", "statement",
         "invalid_grant", "invalid_client", "not_permitted", "other"}

\* The provider's text (the session grant's `error_description`, the exchange's
\* `error`): whether it is there, in its charset and within its length, and which
\* credentials it holds somewhere inside.
Text == [fits : BOOLEAN, echoes : SUBSET Credential]

Answer == {a \in [status : {200, 204, 302, 400, 401, 429, 500},
                  size : 0..MaxSize, says : Says, text : Text] :
             a.size = 0 => a.says = "nothing"}

\* `relayed`: the provider's texts told to the caller or logged, none when all the
\* words are the proxy's own.
NoOutcome == [kind |-> "none", status |-> 0, relayed |-> {}]

----------------------------------------------------------------------------
(* What each client sends, and looks for in the text that comes back.      *)

\* authenticateClient: the credential of the proxy's client, sent in the
\* `Authorization` if it is a secret, in the form if it is a signed assertion.
InAuthorization == IF client.auth = "secret" THEN {"secret"} ELSE {}
InForm == IF client.auth = "key" THEN {"signed"} ELSE {}

\* The header and the form of a session grant, of an exchange, and of an
\* introspection, whose token is in the `Authorization` too when the proxy has no
\* credential of its own.
SessionCarries == {"cookie"} \cup InForm
ExchangeCarries == InAuthorization \cup {"assertion"} \cup InForm
IntrospectionCarries == InAuthorization \cup {"token"} \cup InForm

Carried ==
    CASE client.kind = "session" -> SessionCarries
      [] client.kind = "exchange" -> ExchangeCarries
      [] client.kind = "introspection" -> IntrospectionCarries

\* Plausible bug: the list has what the caller sent, and not the proxy's own.
CheckedForCallers ==
    CASE client.kind = "session" -> {"cookie"}
      [] client.kind = "exchange" -> {"assertion"}
      [] client.kind = "introspection" -> {}

\* `sent`, which a session grant draws up before it calls.
Sent == IF client.auth = "none" THEN {"cookie"} ELSE {"cookie", "signed"}

\* The list the text is checked against: an exchange's is [assertion,
\* client.credential], and an introspection relays no text.
Checked ==
    CASE client.kind = "session" -> Sent
      [] client.kind = "exchange" -> {"assertion"} \cup InAuthorization \cup InForm
      [] client.kind = "introspection" -> {}

\* sanitizeErrorDescription and sanitizeErrorCode: the provider's text, or none of
\* it, the proxy's own wording in its place.
Sanitized(text) ==
    {t \in {text} : t.fits /\ t.echoes \cap JwtShaped = {} /\ t.echoes \cap Checked = {}}

----------------------------------------------------------------------------
(* What each client makes of an answer.                                    *)

Ok(kind) == [kind |-> kind, status |-> 0, relayed |-> {}]
Failed(status) == [kind |-> "error", status |-> status, relayed |-> {}]

\* A failure that relays or logs text read from the body.
FailedSaying(status, reading) ==
    [Failed(status) EXCEPT !.relayed =
        IF reading = "nothing" THEN {} ELSE Sanitized(answer.text)]

\* createSessionGrantClient's mapping, then decideInjection's.
SessionVerdict(status, reading) ==
    CASE status = 200 -> IF reading \in {"bearer", "token"} THEN Ok("token") ELSE Failed(502)
      [] status = 401 -> IF reading = "invalid_client" THEN FailedSaying(502, reading) ELSE Failed(401)
      [] status = 400 -> IF reading = "invalid_grant" THEN Failed(401) ELSE FailedSaying(502, reading)
      [] OTHER -> Failed(502)

\* Plausible bug: a 401 is read as it is on the session path, as the caller's.
ExchangeVerdictBlames401(status, reading) ==
    CASE status = 200 -> IF reading = "bearer" THEN Ok("token") ELSE Failed(502)
      [] status = 302 -> Failed(502)
      [] status \in {400, 401} /\ reading # "not_permitted" -> FailedSaying(401, reading)
      [] status = 400 /\ reading = "not_permitted" -> FailedSaying(403, reading)
      [] OTHER -> FailedSaying(502, reading)

\* createJwtBearerClient's mapping, then decideExchange's, which logs the code of
\* every refusal, the known ones too.
ExchangeVerdict(status, reading) ==
    CASE status = 200 -> IF reading = "bearer" THEN Ok("token") ELSE Failed(502)
      [] status = 302 -> Failed(502)
      [] status = 400 /\ reading = "invalid_grant" -> FailedSaying(401, reading)
      [] status = 400 /\ reading = "not_permitted" -> FailedSaying(403, reading)
      [] OTHER -> FailedSaying(502, reading)

\* createIntrospectionClient's mapping, then decideValidation's.
IntrospectionVerdict(status, reading) ==
    CASE status = 200 -> IF reading = "statement" THEN Ok("statement") ELSE Failed(502)
      [] status = 401 /\ client.auth = "none" -> Failed(401)
      [] OTHER -> Failed(502)

Verdict(reading) ==
    CASE client.kind = "session" -> SessionVerdict(answer.status, reading)
      [] client.kind = "exchange" -> ExchangeVerdict(answer.status, reading)
      [] client.kind = "introspection" -> IntrospectionVerdict(answer.status, reading)

\* The statuses whose body is read.
ReadsBody ==
    CASE client.kind = "session" -> answer.status \in {200, 400, 401}
      [] client.kind = "exchange" -> answer.status # 302
      [] client.kind = "introspection" -> answer.status = 200

Redirected == answer.status \in 300..399
Unavailable == answer.status >= 500
Unexpected == ~ Redirected /\ ~ Unavailable /\ answer.status \notin {200, 400, 401}

\* Plausible bug: one of the branches of the session grant forgets to discard.
DiscardsButRedirects ==
    CASE client.kind = "session" -> Unavailable \/ Unexpected
      [] client.kind = "exchange" -> Redirected
      [] client.kind = "introspection" -> answer.status # 200

\* The branches that answer from the status alone and call discardBody, each of
\* its own: three of the session grant, one of the exchange and of introspection.
Discards ==
    CASE client.kind = "session" -> Redirected \/ Unavailable \/ Unexpected
      [] client.kind = "exchange" -> Redirected
      [] client.kind = "introspection" -> answer.status # 200

Bound == IF answer.status = 200 THEN TokenBound ELSE ErrorBound

----------------------------------------------------------------------------
Ends(out, how) ==
    /\ stage' = "over"
    /\ outcome' = out
    /\ body' = how

\* authenticateClient and the building of the request, a new assertion per call
\* if the client has a key; what it throws is not the provider's failure.
Builds ==
    /\ stage = "building"
    /\ \/ stage' = "calling" /\ UNCHANGED <<body, outcome>>
       \/ /\ client.auth # "none" \/ client.kind = "introspection"
          /\ Ends(Failed(IF client.kind = "introspection" THEN 500 ELSE 502), "none")
    /\ UNCHANGED <<client, answer, got>>

\* fetch resolves: the body is read, or discarded and the call decided.
HeadArrives ==
    /\ stage = "calling"
    /\ IF ReadsBody
       THEN stage' = "reading" /\ body' = "open" /\ UNCHANGED outcome
       ELSE Ends(Verdict("nothing"), IF Discards THEN "cancelled" ELSE "open")
    /\ UNCHANGED <<client, answer, got>>

\* readBoundedJsonObject: one more chunk; past the bound the body is abandoned.
ChunkArrives ==
    /\ stage = "reading"
    /\ got < answer.size
    /\ got' = got + 1
    /\ IF got' > Bound
       THEN Ends(Verdict("nothing"), "cancelled")
       ELSE UNCHANGED <<stage, body, outcome>>
    /\ UNCHANGED <<client, answer>>

BodyEnds ==
    /\ stage = "reading"
    /\ got = answer.size
    /\ Ends(Verdict(answer.says), "drained")
    /\ UNCHANGED <<client, answer, got>>

\* Plausible bug: the timer is cleared once the head has arrived.
CutOffBeforeHead ==
    /\ stage = "calling"
    /\ Ends(Failed(502), "none")
    /\ UNCHANGED <<client, answer, got>>

\* A network error, or AbortSignal.timeout, which covers the body as well: a
\* body cut short is one that says nothing.
CutOff ==
    /\ \/ stage = "calling" /\ Ends(Failed(502), "none")
       \/ stage = "reading" /\ Ends(Verdict("nothing"), "failed")
    /\ UNCHANGED <<client, answer, got>>

\* The answers to this request: what a text echoes is what the request carried,
\* and an exchange's known code is the text itself.
Answers ==
    {a \in Answer :
        /\ a.text.echoes \subseteq Carried
        /\ client.kind = "exchange" /\ a.says \in {"invalid_grant", "invalid_client", "not_permitted"} =>
              a.text.fits /\ a.text.echoes \cap JwtShaped = {}}

Init ==
    /\ client \in Client
    /\ answer \in Answers
    /\ stage = "building"
    /\ got = 0
    /\ body = "none"
    /\ outcome = NoOutcome

Next ==
    \/ Builds
    \/ HeadArrives
    \/ ChunkArrives
    \/ BodyEnds
    \/ CutOff

\* Building is local and the timer always fires; the provider owes nothing.
Spec == Init /\ [][Next]_vars /\ WF_vars(Builds) /\ WF_vars(CutOff)

----------------------------------------------------------------------------
(* Properties.                                                             *)

\* No call leaves its response's body open behind it, whichever branch answered
\* (discardBody, the reader's cancel): an unread one would hold its connection.
BodyReleased == stage = "over" => body # "open"

\* The caller is told that its own credential is at fault (401, 403) only when
\* the provider said so: never for an unreachable, redirecting or failing
\* provider, never for a refusal of the proxy's own client that arrived whole,
\* and, but for a bare 401, only for an error code in a body that arrived whole
\* and within its bound.
BlameIsProviders ==
    outcome.status \in {401, 403} =>
        /\ answer.status \in {400, 401} /\ body # "none"
        /\ body = "drained" => answer.says # "invalid_client"
        /\ answer.status = 401 => client.kind # "exchange"
        /\ answer.status = 401 /\ client.kind = "introspection" => client.auth = "none"
        /\ answer.status = 400 =>
              /\ client.kind # "introspection"
              /\ body = "drained" /\ answer.size <= ErrorBound
              /\ answer.says \in {"invalid_grant", "not_permitted"}

\* No text that holds something this request carried, in a header or in the form,
\* or that is outside its grammar, is relayed to the caller or logged as the
\* provider's words, whichever client asked and however the proxy authenticated:
\* each client's list (`sent`, `[assertion, client.credential]`), with the shape the
\* sanitizers refuse, covers all that was sent.
NoCredentialRelayed ==
    \A text \in outcome.relayed : text.fits /\ text.echoes \cap Carried = {}

\* The inductive invariant behind the theorems of ReadingProofs: how far the
\* call has come, what is known of the body then, and that what was read so far
\* is within the bound of its status.
IndInv ==
    /\ client \in Client
    /\ answer \in Answer
    /\ stage \in {"building", "calling", "reading", "over"}
    /\ got \in Nat
    /\ stage # "over" => outcome = NoOutcome
    /\ stage \in {"building", "calling"} => got = 0
    /\ stage = "reading" => body = "open" /\ got <= Bound /\ ReadsBody
    /\ BodyReleased
    /\ BlameIsProviders
    /\ NoCredentialRelayed

\* Every call ends, wherever the provider stops: what Injection and Validation
\* assume of a call in progress.
CallEnds == (stage = "building") ~> (stage = "over")
=============================================================================
