-------------------------------- MODULE Boot --------------------------------
(***************************************************************************)
(* From the settings as written to the credential on a provider call:      *)
(* src/app.mts reads the configuration, builds CORS and the router of the  *)
(* mode and listens; the router's provider clients then authenticate their *)
(* calls (src/oauth/client-authentication.mts).  A constructor that throws *)
(* ends the process with a stack trace instead of the schema's message.    *)
(***************************************************************************)
EXTENDS Settings

CONSTANTS
    Raws,       \* the settings considered
    MaxCalls    \* provider calls (bounds the model)

ASSUME RawsAssumption == Raws \subseteq RawSettings

VARIABLES
    raw,        \* the settings as written
    phase,      \* "load", "cors", "router", "listen", "listening", "refused", "crashed"
    config,     \* AppConfig
    clients,    \* clients[c]: how provider client c authenticates, None for not at all
    warned,     \* the warnings logged
    calls       \* the provider calls made, in order

bootVars == <<raw, phase, config, clients, warned, calls>>

BootInit ==
    /\ raw \in Raws
    /\ phase = "load"
    /\ config = None
    /\ clients = [c \in {} |-> None]
    /\ warned = {}
    /\ calls = <<>>

----------------------------------------------------------------------------
(* Start-up.                                                               *)

\* validate(parseFile(...), AppConfigSchema)
LoadConfig ==
    /\ phase = "load"
    /\ LET parsed == AppConfigSchema(raw)
       IN  IF parsed = Invalid
           THEN phase' = "refused" /\ UNCHANGED config
           ELSE phase' = "cors" /\ config' = parsed
    /\ UNCHANGED <<raw, clients, warned, calls>>

\* createCors, with warnIfBroad
CreateCors ==
    /\ phase = "cors"
    /\ phase' = IF config.pattern \in {None, "narrow", "broad"} THEN "router" ELSE "crashed"
    /\ warned' = {w \in {"cors_pattern_broad"} : config.pattern = "broad"}
    /\ UNCHANGED <<raw, config, clients, calls>>

BySecret(id, secret) == [by |-> "secret", id |-> id, secret |-> secret]
ByKey(id, key, issuer) == [by |-> "key", id |-> id, key |-> key, audience |-> issuer]

introspectionCredentials(v) ==
    CASE v.clientId = None -> None
      [] v.clientId # None /\ v.clientSecret # None -> BySecret(v.clientId, v.clientSecret)
      [] OTHER -> IF v.clientKey # None /\ v.providerIssuer # None
                  THEN ByKey(v.clientId, v.clientKey, v.providerIssuer) ELSE Invalid

exchangeCredentials(i) ==
    LET x == i.exchange
    IN  IF x.clientSecret # None THEN BySecret(x.clientId, x.clientSecret)
        ELSE IF x.clientKey # None /\ i.providerIssuer # None
             THEN ByKey(x.clientId, x.clientKey, i.providerIssuer) ELSE Invalid

\* A public client without a key.
createSessionGrantClient(i) ==
    CASE i.clientKey = None -> None
      [] OTHER -> IF i.providerIssuer = None THEN Invalid
                  ELSE ByKey(i.clientId, i.clientKey, i.providerIssuer)

Credential == [by : {"secret"}, id : Text, secret : Text]
                \cup [by : {"key"}, id : Text, key : Key, audience : Text]

ASSUME CredentialAssumption == None \notin Credential /\ Invalid \notin Credential

\* What a router's constructor leaves: its clients, unless one part threw.
Built(parts, made) ==
    IF parts /\ \A c \in DOMAIN made : made[c] # Invalid
    THEN clients' = made /\ phase' = "listen"
    ELSE phase' = "crashed" /\ UNCHANGED clients

\* The validation mode's createRouter.
CreateValidationRouter ==
    /\ phase = "router" /\ config.mode = "validation"
    /\ Built(config.bodyLimitSize \in parseByteSize,
             [introspection |-> introspectionCredentials(config.auth)])
    /\ UNCHANGED <<raw, config, warned, calls>>

\* The injection mode's createRouter: the body limit, the trust list, the same-origin
\* gate and the clients, the exchange's only when it is enabled.
CreateInjectionRouter ==
    /\ phase = "router" /\ config.mode = "injection"
    /\ LET i == config.auth
       IN  /\ Built(/\ config.bodyLimitSize \in parseByteSize
                    /\ i.trustedProxies \subseteq parseAddressRange
                    /\ i.publicOrigin # "no_url" /\ i.providerOrigin # "no_url",
                    [c \in {"session"} \cup (IF i.exchange.enabled THEN {"exchange"} ELSE {}) |->
                        IF c = "session" THEN createSessionGrantClient(i) ELSE exchangeCredentials(i)])
           /\ warned' = warned \cup {w \in {"trusts_all", "public_origin_unset"} :
                 \/ w = "trusts_all" /\ "all" \in i.trustedProxies
                 \/ w = "public_origin_unset" /\ i.publicOrigin = None}
    /\ UNCHANGED <<raw, config, calls>>

Listen ==
    /\ phase = "listen"
    /\ phase' = "listening"
    /\ UNCHANGED <<raw, config, clients, warned, calls>>

----------------------------------------------------------------------------
(* A provider call.                                                        *)

\* Plausible bug: a client signs one assertion and keeps it.
SignatureNumberPerClient(c) == c

\* A new assertion per call.
SignatureNumber(c) == Len(calls) + 1

\* authenticateClient: an assertion in the body, or a Basic header, never both.
\* Without credentials the session grant sends its client_id alone, and
\* introspection the inbound token.
authenticateClient(c) ==
    LET auth == clients[c]
    IN  [client |-> c,
         authorization |-> CASE auth = None -> IF c = "introspection" THEN "Bearer" ELSE None
                             [] OTHER -> IF auth.by = "secret" THEN "Basic" ELSE None,
         assertion |-> CASE auth = None -> None
                         [] OTHER -> IF auth.by = "secret" THEN None
                                     ELSE signClientAssertion(auth.id, auth.audience, auth.key, SignatureNumber(c))]

Call(c) ==
    /\ phase = "listening"
    /\ Len(calls) < MaxCalls
    /\ calls' = Append(calls, authenticateClient(c))
    /\ UNCHANGED <<raw, phase, config, clients, warned>>

BootNext ==
    \/ LoadConfig
    \/ CreateCors
    \/ CreateValidationRouter
    \/ CreateInjectionRouter
    \/ Listen
    \/ \E c \in DOMAIN clients : Call(c)

BootSpec == BootInit /\ [][BootNext]_bootVars

----------------------------------------------------------------------------
(* Properties.                                                             *)

\* The settings of the mode in use, and those a client authenticates by.
Section == raw[raw.mode]
Client(c) == IF c = "exchange" THEN Section.exchange ELSE Section
Given(setting) == setting \notin {Unset, Empty}
SecretGiven(c) == c # "session" /\ Given(Client(c).clientSecret)

\* The number a setting writes, whatever wrote it; Invalid where it writes none.
Number(setting, fallback) ==
    CASE setting = Unset -> fallback [] setting = Empty -> Invalid
      [] OTHER -> IF setting.kind = "other" THEN Invalid ELSE setting.n
On(setting) == setting \in {"literal true", "true"}

\* A configuration the schema accepts never fails a constructor after it, and the
\* process runs by what was written: no number or switch is read as another one,
\* the origins are held in the form a browser sends, every delay is one a timer
\* holds, and a warning is logged for what is accepted but likely unmeant.
BootsAsWritten ==
    /\ phase # "crashed"
    /\ phase = "listening" =>
        /\ config.port = Number(raw.port, 3)
        /\ raw.mode = "validation" =>
            /\ config.auth.cacheTtlSec = Number(Section.cacheTtlSec, 3)
            /\ config.auth.timeoutMs = Number(Section.timeoutMs, 3)
        /\ raw.mode = "injection" =>
            /\ config.auth.ttlSeconds = Number(Section.ttlSeconds, 3)
            /\ config.auth.safetyMarginSeconds = Number(Section.safetyMarginSeconds, 1)
            /\ config.auth.safetyMarginSeconds < config.auth.ttlSeconds
            /\ config.auth.stripInboundAuthorization = On(Section.stripInboundAuthorization)
            /\ config.auth.exchange.enabled = On(Section.exchange.enabled)
            /\ config.auth.publicOrigin = IF Given(Section.publicOrigin) THEN "origin" ELSE None
            /\ config.auth.publicOrigin = None => "public_origin_unset" \in warned
            /\ "all" \in config.auth.trustedProxies => "trusts_all" \in warned
        /\ config.auth.timeoutMs \in 1..MaxTimer

\* A credential an operator writes for a client that is in use is what its calls
\* carry, that one alone, and the provider it is registered at takes every one of
\* them; an issuer that is written is some client's audience, so neither a key
\* nor an issuer is left out without a word.
ConfiguredCredentialUsed ==
    phase = "listening" =>
        /\ Given(Section.providerIssuer) =>
            \E c \in DOMAIN clients : /\ clients[c] # None
                                      /\ clients[c].by = "key"
                                      /\ clients[c].audience = Section.providerIssuer
        /\ \A i \in 1..Len(calls) :
            LET call == calls[i]
                given == Client(call.client)
                seen == {calls[j].assertion.jti : j \in {k \in 1..(i - 1) : calls[k].assertion # None}}
            IN  /\ (call.authorization = "Basic") = SecretGiven(call.client)
                /\ (call.assertion # None) = Given(given.clientKey)
                /\ call.authorization = None \/ call.assertion = None
                /\ call.assertion # None =>
                      ProviderVerifies(call.assertion, given.clientKey, given.clientId,
                                       Section.providerIssuer, seen)

----------------------------------------------------------------------------
(* The inductive invariant.                                                *)

\* From the load on, the configuration is what the schema makes of the settings.
ConfigIsParsed ==
    phase \in {"cors", "router", "listen", "listening"} =>
        config = AppConfigSchema(raw) /\ config # Invalid

\* How the settings say client c authenticates.
Registered(c) ==
    IF SecretGiven(c) THEN BySecret(Client(c).clientId, Client(c).clientSecret)
    ELSE IF Given(Client(c).clientKey)
         THEN ByKey(Client(c).clientId, parseClientKey(Client(c).clientKey), Section.providerIssuer)
         ELSE None

InUse ==
    IF raw.mode = "validation" THEN {"introspection"}
    ELSE {"session"} \cup (IF On(Section.exchange.enabled) THEN {"exchange"} ELSE {})

\* The constructors left every client in use, as the settings say, and what they
\* warn of was warned of.
ClientsAsWritten ==
    phase \in {"listen", "listening"} =>
        /\ DOMAIN clients = InUse
        /\ \A c \in InUse : clients[c] = Registered(c) /\ clients[c] \in Credential \cup {None}
        /\ raw.mode = "injection" =>
              /\ config.auth.publicOrigin = None => "public_origin_unset" \in warned
              /\ "all" \in config.auth.trustedProxies => "trusts_all" \in warned

\* The n-th call of a client, by its credential alone.
MadeAs(call, auth, n) ==
    /\ call.authorization = IF auth = None
                            THEN IF call.client = "introspection" THEN "Bearer" ELSE None
                            ELSE IF auth.by = "secret" THEN "Basic" ELSE None
    /\ call.assertion = IF auth = None \/ auth.by = "secret" THEN None
                        ELSE signClientAssertion(auth.id, auth.audience, auth.key, n)

CallMade == [client : {"introspection", "session", "exchange"},
             authorization : {"Basic", "Bearer", None},
             assertion : Assertion \cup {None}]

CallsAsMade ==
    /\ calls \in Seq(CallMade)
    /\ calls # <<>> => phase = "listening"
    /\ \A i \in 1..Len(calls) :
          calls[i].client \in InUse /\ MadeAs(calls[i], Registered(calls[i].client), i)

BootInv ==
    /\ raw \in RawSettings
    /\ phase \in {"load", "cors", "router", "listen", "listening", "refused"}
    /\ ConfigIsParsed /\ ClientsAsWritten /\ CallsAsMade
=============================================================================
