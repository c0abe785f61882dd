----------------------------- MODULE Validation -----------------------------
(***************************************************************************)
(* Validation mode: src/modes/validation/{decision,introspect,             *)
(* introspection-client}.mts on top of the introspection cache and the     *)
(* flight table.                                                           *)
(*                                                                         *)
(* As in Injection, an arrival (header, cache lookup, joining or starting  *)
(* a flight) and a settlement (reading the answer, cache write, clean-up,  *)
(* resumption of every waiter) are one step each.  The provider takes its  *)
(* decision at some moment of the call and the answer arrives later, so a  *)
(* token may be revoked, or may expire, while "active" is on the wire.     *)
(***************************************************************************)
EXTENDS IntrospectionCache, FiniteSetsExt, Integers

CONSTANTS
    MaxRequests, \* how many requests arrive (bounds the model)
    Token,       \* well-formed bearer tokens
    TokenExp,    \* TokenExp[t]: the exp an active answer carries, or None
    Configs,     \* the configurations to consider: [ttl, client]
    MaxEntries,  \* cacheMaxEntries
    Timeout,     \* timeoutMs, on the model's clock
    MaxTime,     \* the clock stops here (bounds the model)
    None         \* absent

\* Requests are numbered in the order of their arrival.
Request == 1..MaxRequests

\* What extractBearerToken and namesBearerScheme make of Authorization: "none"
\* (absent or empty), "malformed" (several lines, or not exactly a Bearer), or
\* the token.
Header == Token \cup {"none", "malformed"}

\* How a request is answered: passed on, or refused with a status.
Status == {"forward", "400", "401", "500", "502"}

\* What can come back for a call: a token statement; a response the path does
\* not read (possession-bound, exp not a number); a refusal, any other failure
\* of the call (a redirect too); a throw of the proxy's own.
Answer == {"active", "inactive", "bound", "bad_exp", "401", "failure", "threw"}

ASSUME ConfigAssumption ==
    /\ MaxRequests \in Nat
    /\ Configs \subseteq [ttl : Nat, client : BOOLEAN]
    /\ MaxEntries \in Nat \ {0}
    /\ Timeout \in Nat \ {0}
    /\ MaxTime \in Nat
    /\ TokenExp \in [Token -> Nat \cup {None}]
ASSUME SentinelAssumption ==
    /\ None \notin Nat \cup Header \cup Answer \cup Status
    /\ Token \cap {"none", "malformed"} = {}

VARIABLES
    config,     \* ttl: cacheTtlSec, 0 turns the cache off; client: there are credentials
    now,        \* Date.now()
    cache,      \* the introspection cache
    pending,    \* the flight table: token -> the request that leads its flight
    input,      \* input[r]: r's Authorization
    awaits,     \* awaits[r]: the request whose introspection call r waits for
    askedAt,    \* askedAt[r]: when r's own call was made
    answer,     \* answer[r]: what the provider decided on r's call
    revokedAt,  \* revokedAt[t]: when the provider revoked t
    outcome     \* outcome[r]: "forward", or the status of the refusal

vars == <<config, now, cache, pending, input, awaits, askedAt, answer, revokedAt, outcome>>
flight == <<pending, awaits, askedAt>>

Calling(f) == awaits[f] = f
Waiters(f) == {r \in Request : awaits[r] = f}

----------------------------------------------------------------------------
(* A request arrives.                                                      *)

Arrives(r, in) ==
    /\ input[r] = None /\ in \in Header
    /\ \A q \in 1..(r - 1) : input[q] # None
    /\ input' = [input EXCEPT ![r] = in]

Unauthenticated(r) ==
    /\ Arrives(r, "none")
    /\ outcome' = [outcome EXCEPT ![r] = "forward"]
    /\ UNCHANGED <<config, now, cache, flight, answer, revokedAt>>

Malformed(r) ==
    /\ Arrives(r, "malformed")
    /\ outcome' = [outcome EXCEPT ![r] = "400"]
    /\ UNCHANGED <<config, now, cache, flight, answer, revokedAt>>

\* `caching`: at ttl 0 nothing is read and nothing is written.
Caching == config.ttl > 0

Cached(t) == Caching /\ LiveResult(cache, t, now)

\* Plausible bug: every 401 of the provider is read as a bad token.
StatusForAny401(reading) ==
    CASE reading = "active" -> "forward"
      [] reading \in {"inactive", "401"} -> "401"
      [] reading = "failure" -> "502"
      [] reading = "threw" -> "500"

\* decideValidation on what the introspector returned or threw.
StatusFor(reading) ==
    CASE reading = "active" -> "forward"
      [] reading = "inactive" -> "401"
      [] reading = "401" -> IF config.client THEN "502" ELSE "401"
      [] reading = "failure" -> "502"
      [] reading = "threw" -> "500"

CacheHit(r, t) ==
    /\ Arrives(r, t)
    /\ Cached(t)
    /\ outcome' = [outcome EXCEPT ![r] = StatusFor(cache.at[t].value)]
    /\ UNCHANGED <<config, now, cache, flight, answer, revokedAt>>

Joins(r, t) ==
    /\ Arrives(r, t)
    /\ ~ Cached(t)
    /\ t \in DOMAIN pending
    /\ awaits' = [awaits EXCEPT ![r] = pending[t]]
    /\ UNCHANGED <<config, now, cache, pending, askedAt, answer, revokedAt, outcome>>

Listed(t, r) == [x \in DOMAIN pending \cup {t} |-> IF x = t THEN r ELSE pending[x]]

\* Plausible bug: with the cache off the flight table is skipped as well.
StartsAloneWithoutCache(r, t) ==
    /\ Arrives(r, t)
    /\ ~ Cached(t)
    /\ Caching => t \notin DOMAIN pending
    /\ pending' = Listed(t, r)
    /\ awaits' = [awaits EXCEPT ![r] = r]
    /\ askedAt' = [askedAt EXCEPT ![r] = now]
    /\ UNCHANGED <<config, now, cache, answer, revokedAt, outcome>>

Starts(r, t) ==
    /\ Arrives(r, t)
    /\ ~ Cached(t)
    /\ t \notin DOMAIN pending
    /\ pending' = Listed(t, r)
    /\ awaits' = [awaits EXCEPT ![r] = r]
    /\ askedAt' = [askedAt EXCEPT ![r] = now]
    /\ UNCHANGED <<config, now, cache, answer, revokedAt, outcome>>

----------------------------------------------------------------------------
(* The provider.                                                           *)

\* The provider takes its decision: "active" only for a token not revoked.
ProviderDecides(f) ==
    /\ Calling(f)
    /\ answer[f] = None
    /\ \E a \in Answer \ {"failure", "threw"} :
          /\ a = "active" => revokedAt[input[f]] = None
          /\ answer' = [answer EXCEPT ![f] = a]
    /\ UNCHANGED <<config, now, cache, flight, input, revokedAt, outcome>>

Revoke(t) ==
    /\ revokedAt[t] = None
    /\ revokedAt' = [revokedAt EXCEPT ![t] = now]
    /\ UNCHANGED <<config, now, cache, flight, input, answer, outcome>>

----------------------------------------------------------------------------
(* A call ends.                                                            *)

\* The exp of an answer: an active one carries the token's.  (An inactive one
\* that carried an exp would be read the same way: refused either way.)
ExpOf(f) == IF answer[f] = "active" THEN TokenExp[input[f]] ELSE None

ExpiredInFlight(f) == ExpOf(f) # None /\ ExpOf(f) <= now

\* Plausible bug: only a cached answer is held to exp.
ReadingWithoutExpiry(f) ==
    CASE answer[f] = "bound" -> "inactive"
      [] answer[f] = "bad_exp" -> "failure"
      [] OTHER -> answer[f]

\* The introspector's reading of an answer: what it returns or throws.
Reading(f) ==
    CASE answer[f] = "bound" \/ ExpiredInFlight(f) -> "inactive"
      [] answer[f] = "bad_exp" -> "failure"
      [] OTHER -> answer[f]

\* Plausible bug: the lifetime counts from the answer.
ExpiresAtFromAnswer(f) ==
    Min({now + config.ttl} \cup (IF ExpOf(f) = None THEN {} ELSE {ExpOf(f)}))

\* min(now + ttl, exp), `now` captured before the call went out.
ExpiresAt(f) ==
    Min({askedAt[f] + config.ttl} \cup (IF ExpOf(f) = None THEN {} ELSE {ExpOf(f)}))

\* Plausible bug: the path's own refusals are cached like the provider's.
MayCacheReadings(f) ==
    /\ Caching
    /\ Reading(f) \in {"active", "inactive"}
    /\ ExpiresAt(f) > now

\* Only a statement about the token is cached, and only while it is alive.
MayCache(f) ==
    /\ Caching
    /\ answer[f] \in {"active", "inactive"}
    /\ ~ ExpiredInFlight(f)
    /\ ExpiresAt(f) > now

\* One outcome for the requests rs that waited on f's call; f's locals are gone.
Conclude(f, rs, status) ==
    /\ outcome' = [r \in Request |-> IF r \in rs THEN status ELSE outcome[r]]
    /\ awaits' = [r \in Request |-> IF r \in rs THEN None ELSE awaits[r]]
    /\ askedAt' = [askedAt EXCEPT ![f] = None]
    /\ answer' = [answer EXCEPT ![f] = None]

\* The clean-up of the flight table, and everyone in the flight resumes.
SettleFlight(f, reading) ==
    /\ pending' = [t \in DOMAIN pending \ {input[f]} |-> pending[t]]
    /\ Conclude(f, Waiters(f), StatusFor(reading))

CallAnswered(f) ==
    /\ Calling(f)
    /\ answer[f] # None
    /\ cache' = IF MayCache(f)
                THEN ResultSet(cache, input[f],
                               [value |-> Reading(f), expiresAt |-> ExpiresAt(f)],
                               now, MaxEntries)
                ELSE cache
    /\ SettleFlight(f, Reading(f))
    /\ UNCHANGED <<config, now, input, revokedAt>>

\* Plausible bug: the failure reaches the request that made the call alone.
CallFailsLeaderOnly(f) ==
    /\ Calling(f)
    /\ pending' = [t \in DOMAIN pending \ {input[f]} |-> pending[t]]
    /\ Conclude(f, {f}, "502")
    /\ UNCHANGED <<config, now, cache, input, revokedAt>>

\* No answer came (a timeout, a network error), or building the call threw.
CallFails(f) ==
    /\ Calling(f)
    /\ \E reading \in {"failure", "threw"} : SettleFlight(f, reading)
    /\ UNCHANGED <<config, now, cache, input, revokedAt>>

\* Time passes; AbortSignal.timeout ends a call before it is older than Timeout.
Tick ==
    /\ now < MaxTime
    /\ \A f \in Request : Calling(f) => now < askedAt[f] + Timeout
    /\ now' = now + 1
    /\ UNCHANGED <<config, cache, flight, input, answer, revokedAt, outcome>>

----------------------------------------------------------------------------
Init ==
    /\ config \in Configs
    /\ now = 0
    /\ cache = EmptyMap
    /\ pending = [t \in {} |-> None]
    /\ input = [r \in Request |-> None]
    /\ awaits = [r \in Request |-> None]
    /\ askedAt = [r \in Request |-> None]
    /\ answer = [r \in Request |-> None]
    /\ revokedAt = [t \in Token |-> None]
    /\ outcome = [r \in Request |-> None]

Settles(f) == CallAnswered(f) \/ CallFails(f)

Next ==
    \/ \E r \in Request : Unauthenticated(r)
    \/ \E r \in Request : Malformed(r)
    \/ \E r \in Request, t \in Token : CacheHit(r, t)
    \/ \E r \in Request, t \in Token : Joins(r, t)
    \/ \E r \in Request, t \in Token : Starts(r, t)
    \/ \E f \in Request : ProviderDecides(f)
    \/ \E f \in Request : Settles(f)
    \/ \E t \in Token : Revoke(t)
    \/ Tick

\* Every call ends: AbortSignal.timeout covers connecting and reading the body.
Spec == Init /\ [][Next]_vars /\ \A f \in Request : WF_vars(Settles(f))

----------------------------------------------------------------------------
(* Properties.                                                             *)

\* The requests a step lets through with a bearer token.
LetThrough == {r \in Request : outcome[r] = None /\ outcome'[r] = "forward" /\ input'[r] \in Token}

\* Two introspections of one token are never in progress at once, the cache
\* being off included; and a table entry is a call still in progress.
OneCallPerToken ==
    /\ \A f, g \in Request : Calling(f) /\ Calling(g) /\ input[f] = input[g] => f = g
    /\ \A t \in DOMAIN pending : Calling(pending[t]) /\ input[pending[t]] = t

\* A revoked token passes only inside the window the configuration grants: the
\* cache lifetime counted from before the provider was asked, or the duration
\* of one call for a request that joined a call already decided.
BoundedStaleness ==
    [][\A r \in LetThrough :
          LET t == input'[r]
          IN  revokedAt[t] # None =>
                \/ now < revokedAt[t] + config.ttl
                \/ awaits[r] # None /\ now <= revokedAt[t] + Timeout
      ]_vars

\* A token with an exp never passes at or after it, not from the cache and not
\* from an "active" that was on the wire when it expired.
NeverPastExp ==
    [][\A r \in LetThrough : TokenExp[input'[r]] # None => now < TokenExp[input'[r]]]_vars

\* What enters the cache under a token is what the provider's answer about that
\* very token says, and never a refusal of the path's own (possession-bound,
\* expired in flight, unreadable, an error), which the next request must ask
\* about again.
CacheHoldsStatements ==
    [][\A t \in Keys(cache') :
          cache' # cache /\ (t \in Keys(cache) => cache'.at[t] # cache.at[t]) =>
             \E f \in Request :
                /\ Calling(f) /\ input[f] = t
                /\ answer[f] = cache'.at[t].value
                /\ answer[f] \in {"active", "inactive"}
      ]_vars

\* The caller is told its token is bad (401) only on a statement about the
\* token: never because the provider was down, redirected, answered unreadably
\* or refused the proxy's own client credentials.
BlamesTokenOnlyOnStatement ==
    [][\A r \in Request : outcome[r] = None /\ outcome'[r] = "401" =>
          LET f == awaits[r]
          IN  \/ f = None /\ cache.at[input'[r]].value = "inactive"
              \/ f # None /\ answer[f] \in {"inactive", "bound"}
              \/ f # None /\ answer[f] = "active" /\ TokenExp[input[f]] <= now
              \/ f # None /\ answer[f] = "401" /\ ~ config.client
      ]_vars

\* Every request that arrives is answered, waiters of a failed call included.
EveryRequestAnswered ==
    []<>(\A r \in Request : input[r] # None => outcome[r] # None)
=============================================================================
