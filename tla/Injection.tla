----------------------------- MODULE Injection ------------------------------
(***************************************************************************)
(* Injection mode: src/modes/injection/{decision,exchange,router}.mts on   *)
(* top of the token cache, the flight table and the two token clients.     *)
(*                                                                         *)
(* The proxy runs on one event loop.  From reading a request's headers to  *)
(* joining or starting a flight nothing awaits, so an arrival is one step. *)
(* When a provider call ends, the cache write, the clean-up of the flight  *)
(* table and the resumption of every waiter are microtasks of one drain,   *)
(* which no arrival interrupts, so a settlement is one step (SingleFlight  *)
(* shows that the table behaves so even if calls do come in between).      *)
(* Between the two the clock moves and anything else may happen.           *)
(*                                                                         *)
(* Several routers may share one cache and one flight table per path, as   *)
(* createRouter({ deps }) allows.  The session and the exchange keys carry *)
(* the grant type, so one `pending` stands for both tables.  A caller that *)
(* disconnects changes nothing here: no client takes a signal but its own  *)
(* timeout.                                                                *)
(***************************************************************************)
EXTENDS TokenCache, FiniteSetsExt, Integers

CONSTANTS
    Request,        \* requests; each arrives once
    Router,         \* routers, each its own grant context
    Exchange,       \* the routers with auth.injection.exchange.enabled
    Strip,          \* the routers with stripInboundAuthorization
    Cookie,         \* usable session cookie values
    Assertion,      \* inbound Bearer JWTs
    AllowedIssuer,  \* the assertions whose `iss` the prefilter lets through
    AssertionExp,   \* AssertionExp[a]: the unverified `exp`, or None
    Inputs,         \* the requests that may arrive
    Lifetime,       \* what `expires_in` may say, or None
    Ttl, Margin, MaxEntries,   \* auth.injection.tokenCache
    MaxTime,        \* the clock stops here (bounds the model)
    None            \* absent: a header, a claim, a leader, an outcome

NoHeader == None

\* extractCookie's answers: no session cookie, none that is well-formed, a value.
SessionCookie == {"absent", "rejected"} \cup Cookie

\* No header, or parseBearerAssertion's answers.
Authorization == {NoHeader, "unsupported"} \cup Assertion

\* A request as the decisions see it, with what createSameOriginGate says of it.
Input == [router : Router, session : SessionCookie, authorization : Authorization,
          sameOrigin : BOOLEAN]

ASSUME InputsAssumption == Inputs \subseteq Input
ASSUME PolicyAssumption ==   \* the schema's bounds on tokenCache
    /\ MaxEntries \in Nat \ {0}
    /\ Ttl \in Nat \ {0}
    /\ Margin \in Nat
    /\ Margin < Ttl
    /\ MaxTime \in Nat
ASSUME CredentialAssumption ==
    /\ Cookie \cap {"absent", "rejected"} = {}
    /\ Assertion \cap {NoHeader, "unsupported"} = {}
    /\ AllowedIssuer \subseteq Assertion
    /\ AssertionExp \in [Assertion -> Nat \cup {None}]
    /\ Lifetime \subseteq Int \cup {None}
    /\ None \notin Int \cup Request \cup Inputs
    /\ Exchange \subseteq Router
    /\ Strip \subseteq Router

VARIABLES
    now,          \* Date.now()
    cache,        \* cache[p]: the token cache of path p
    pending,      \* the flight tables: key -> the request that leads its flight
    input,        \* input[r]: the request, None before it arrives
    awaits,       \* awaits[r]: the request whose provider call r waits for
    requestedAt,  \* requestedAt[r]: when r's own provider call was made
    outcome       \* outcome[r]: what the middleware applies, None before

vars == <<now, cache, pending, input, awaits, requestedAt, outcome>>

Path == {"session", "exchange"}

----------------------------------------------------------------------------
(* What the decisions read of a request.                                   *)

\* An inbound Authorization, of any scheme, is handed to decideExchange.
HandsOff(in) == in.router \in Exchange /\ in.authorization # NoHeader

PathOf(in) == IF HandsOff(in) THEN "exchange" ELSE "session"

\* Plausible bug: the grant context is left out of the key.
KeyWithoutContext(in) ==
    IF HandsOff(in) THEN <<"exchange", in.router, in.authorization>>
                    ELSE <<"session", "any", in.session>>

\* sessionCacheKey and exchangeCacheKey: grant type, grant context, credential.
CacheKey(in) ==
    IF HandsOff(in) THEN <<"exchange", in.router, in.authorization>>
                    ELSE <<"session", in.router, in.session>>

\* Plausible bug: a request the gate did not admit shares like any other.
SharesAlways(in) == TRUE

\* Whether the request may be answered from the cache or another's flight, and
\* may fill them: the exchange has no gate, the session path has one.
Shares(in) == HandsOff(in) \/ in.sameOrigin

\* Whether the request gets as far as the cache and the provider.
AsksProvider(in) ==
    IF HandsOff(in)
    THEN in.session = "absent" /\ in.authorization \in AllowedIssuer
    ELSE in.session \in Cookie

Respond(error) == [kind |-> "respond", error |-> error]

\* The refusals of decideExchange before any provider call.
Refusal(in) ==
    CASE in.session # "absent" -> Respond("credential_ambiguous")
      [] in.session = "absent" /\ in.authorization = "unsupported" ->
            Respond("credential_unsupported")
      [] OTHER -> Respond("credential_rejected")

\* Plausible bug: only a request with no cookie at all is stripped.
ForwardStripsAbsentOnly(in) ==
    [kind |-> IF in.router \in Strip /\ in.authorization # NoHeader /\ in.session = "absent"
              THEN "forward_stripped" ELSE "forward"]

\* forwardWithoutInjection: no usable session cookie, nothing to mint from.
ForwardWithoutInjection(in) ==
    [kind |-> IF in.router \in Strip /\ in.authorization # NoHeader
              THEN "forward_stripped" ELSE "forward"]

Inject(token) == [kind |-> "inject", token |-> token]

----------------------------------------------------------------------------
(* A request arrives: injectionMiddleware up to its first real await.      *)

Arrives(r, in) ==
    /\ input[r] = None
    /\ input' = [input EXCEPT ![r] = in]

Cached(in) == LiveToken(cache[PathOf(in)], CacheKey(in), now)

\* `get` on the request's key; a request the gate did not admit never reads.
AfterLookup(in) ==
    IF Shares(in)
    THEN [cache EXCEPT ![PathOf(in)] = AfterTokenGet(@, CacheKey(in), now)]
    ELSE cache

Decided(r, in) ==
    /\ Arrives(r, in)
    /\ ~ AsksProvider(in)
    /\ outcome' = [outcome EXCEPT ![r] =
                      IF HandsOff(in) THEN Refusal(in) ELSE ForwardWithoutInjection(in)]
    /\ UNCHANGED <<now, cache, pending, awaits, requestedAt>>

CacheHit(r, in) ==
    /\ Arrives(r, in)
    /\ AsksProvider(in)
    /\ Shares(in)
    /\ Cached(in)
    /\ outcome' = [outcome EXCEPT ![r] =
                      Inject(cache[PathOf(in)].at[CacheKey(in)].value)]
    /\ UNCHANGED <<now, cache, pending, awaits, requestedAt>>

Joins(r, in) ==
    /\ Arrives(r, in)
    /\ AsksProvider(in)
    /\ Shares(in)
    /\ ~ Cached(in)
    /\ CacheKey(in) \in DOMAIN pending
    /\ cache' = AfterLookup(in)
    /\ awaits' = [awaits EXCEPT ![r] = pending[CacheKey(in)]]
    /\ UNCHANGED <<now, pending, requestedAt, outcome>>

Listed(k, r) == [x \in DOMAIN pending \cup {k} |-> IF x = k THEN r ELSE pending[x]]

\* Plausible bug: the lookup awaits before it joins, so a miss always starts.
StartsUnjoined(r, in) ==
    /\ Arrives(r, in)
    /\ AsksProvider(in)
    /\ Shares(in) => ~ Cached(in)
    /\ cache' = AfterLookup(in)
    /\ pending' = IF Shares(in) THEN Listed(CacheKey(in), r) ELSE pending
    /\ awaits' = [awaits EXCEPT ![r] = r]
    /\ requestedAt' = [requestedAt EXCEPT ![r] = now]
    /\ UNCHANGED <<now, outcome>>

\* The request makes its own provider call: as the leader of a flight, or
\* outside cache and flight table when the gate did not admit it.
Starts(r, in) ==
    /\ Arrives(r, in)
    /\ AsksProvider(in)
    /\ Shares(in) => ~ Cached(in) /\ CacheKey(in) \notin DOMAIN pending
    /\ cache' = AfterLookup(in)
    /\ pending' = IF Shares(in) THEN Listed(CacheKey(in), r) ELSE pending
    /\ awaits' = [awaits EXCEPT ![r] = r]
    /\ requestedAt' = [requestedAt EXCEPT ![r] = now]
    /\ UNCHANGED <<now, outcome>>

----------------------------------------------------------------------------
(* A provider call ends.                                                   *)

Calling(f) == awaits[f] = f
Waiters(f) == {r \in Request : awaits[r] = f}

\* One outcome for the requests rs that waited on a call.
Conclude(rs, out) ==
    /\ outcome' = [r \in Request |-> IF r \in rs THEN out ELSE outcome[r]]
    /\ awaits' = [r \in Request |-> IF r \in rs THEN None ELSE awaits[r]]

\* The finally callback of f's flight.
Cleared(f) ==
    IF Shares(input[f])
    THEN [k \in DOMAIN pending \ {CacheKey(input[f])} |-> pending[k]]
    ELSE pending

\* The absolute bound the path adds: the assertion's own exp.
NotAfter(in) == IF HandsOff(in) THEN AssertionExp[in.authorization] ELSE None

\* Plausible bug: the relative lifetimes count from the response.
ExpiresAtFromResponse(f, expiresIn) ==
    Min(  {now + Ttl}
     \cup (IF expiresIn = None THEN {} ELSE {now + expiresIn})
     \cup (IF NotAfter(input[f]) = None THEN {} ELSE {NotAfter(input[f])})) - Margin

\* computeCacheExpiresAt, anchored where the call was made.
ExpiresAt(f, expiresIn) ==
    Min(  {requestedAt[f] + Ttl}
     \cup (IF expiresIn = None THEN {} ELSE {requestedAt[f] + expiresIn})
     \cup (IF NotAfter(input[f]) = None THEN {} ELSE {NotAfter(input[f])})) - Margin

\* Whether the grant is written: the request shares, an exchanged assertion
\* has an exp to bound it by, and the entry would not already be dead.
MayCache(f, expiresIn) ==
    /\ Shares(input[f])
    /\ HandsOff(input[f]) => NotAfter(input[f]) # None
    /\ ExpiresAt(f, expiresIn) > now

AfterGrant(f, token, expiresIn) ==
    IF MayCache(f, expiresIn)
    THEN [cache EXCEPT ![PathOf(input[f])] =
             TokenSet(@, CacheKey(input[f]),
                      [value |-> token, expiresAt |-> ExpiresAt(f, expiresIn)],
                      now, MaxEntries)]
    ELSE cache

\* A 200 with a token, named by the call it answers.
GrantReturns(f, expiresIn) ==
    LET token == [by |-> f, expiresIn |-> expiresIn]
    IN  /\ Calling(f)
        /\ cache' = AfterGrant(f, token, expiresIn)
        /\ pending' = Cleared(f)
        /\ Conclude(Waiters(f), Inject(token))
        /\ UNCHANGED <<now, input, requestedAt>>

\* Plausible bug: the waiters of a failed flight are not told.
GrantFailsLeaderOnly(f) ==
    /\ Calling(f)
    /\ pending' = Cleared(f)
    /\ Conclude({f}, Respond("provider"))
    /\ UNCHANGED <<now, cache, input, requestedAt>>

\* The client threw: every request of the flight gets its refusal.
GrantFails(f) ==
    /\ Calling(f)
    /\ pending' = Cleared(f)
    /\ Conclude(Waiters(f), Respond("provider"))
    /\ UNCHANGED <<now, cache, input, requestedAt>>

Tick ==
    /\ now < MaxTime
    /\ now' = now + 1
    /\ UNCHANGED <<cache, pending, input, awaits, requestedAt, outcome>>

----------------------------------------------------------------------------
Init ==
    /\ now = 0
    /\ cache = [p \in Path |-> EmptyMap]
    /\ pending = [k \in {} |-> None]
    /\ input = [r \in Request |-> None]
    /\ awaits = [r \in Request |-> None]
    /\ requestedAt = [r \in Request |-> None]
    /\ outcome = [r \in Request |-> None]

Settles(f) ==
    \/ \E e \in Lifetime : GrantReturns(f, e)
    \/ GrantFails(f)

Next ==
    \/ \E r \in Request, in \in Inputs : Decided(r, in)
    \/ \E r \in Request, in \in Inputs : CacheHit(r, in)
    \/ \E r \in Request, in \in Inputs : Joins(r, in)
    \/ \E r \in Request, in \in Inputs : Starts(r, in)
    \/ \E f \in Request : Settles(f)
    \/ Tick

\* Requests need not come.  Every provider call ends: both clients abort it
\* with AbortSignal.timeout, while connecting and while reading the body.
Spec == Init /\ [][Next]_vars /\ \A f \in Request : WF_vars(Settles(f))

----------------------------------------------------------------------------
(* Applying the outcome.                                                   *)

Forwarded(r) == outcome[r] # None /\ outcome[r].kind # "respond"

\* The Authorization the upstream receives (injectionMiddleware's switch).
UpstreamAuthorization(r) ==
    CASE outcome[r].kind = "inject" -> outcome[r].token
      [] outcome[r].kind = "forward_stripped" -> NoHeader
      [] outcome[r].kind = "forward" -> input[r].authorization

----------------------------------------------------------------------------
(* Properties.                                                             *)

Injected(r) == outcome[r] # None /\ outcome[r].kind = "inject"

\* However arrivals and settlements interleave, the provider is never asked
\* twice at once for one credential by requests that may share: in particular
\* an assertion is never submitted twice concurrently.
OneCallPerCredential ==
    \A f, g \in Request :
        /\ Calling(f) /\ Shares(input[f])
        /\ Calling(g) /\ Shares(input[g])
        /\ CacheKey(input[f]) = CacheKey(input[g])
        => f = g

\* A flight table entry is a call still in progress for that key: a success, a
\* failure and a request the gate kept out all leave the slot free behind them.
NoPinnedFlight ==
    \A k \in DOMAIN pending :
        Calling(pending[k]) /\ CacheKey(input[pending[k]]) = k /\ Shares(input[pending[k]])

\* A call that may be shared is the one the table holds for its key.
CallIsListed ==
    \A f \in Request :
        Calling(f) /\ Shares(input[f]) =>
            CacheKey(input[f]) \in DOMAIN pending /\ pending[CacheKey(input[f])] = f

\* Whether r may be answered with what by's call brought.
Entitled(r, by) ==
    /\ by \in Request
    /\ input[r] # None
    /\ input[by] # None
    /\ r # by => /\ Shares(input[r])
                 /\ Shares(input[by])
                 /\ CacheKey(input[r]) = CacheKey(input[by])

\* Every way a token travels from one request to another keeps to Entitled:
\* waiting on a call, an entry of the cache, an outcome.
WaitsEntitled == \A r \in Request : awaits[r] # None => Entitled(r, awaits[r])

EntryIsOf(k, by) ==
    by \in Request /\ input[by] # None /\ Shares(input[by]) /\ CacheKey(input[by]) = k

EntriesEntitled ==
    \A p \in Path : \A k \in Keys(cache[p]) : EntryIsOf(k, cache[p].at[k].value.by)

AnswersEntitled == \A r \in Request : Injected(r) => Entitled(r, outcome[r].token.by)

\* The inductive invariant behind the theorems of InjectionProofs: the types,
\* the flight table and the calls naming each other, and where tokens may go.
IndInv ==
    /\ input \in [Request -> Inputs \cup {None}]
    /\ awaits \in [Request -> Request \cup {None}]
    /\ outcome = [r \in Request |-> outcome[r]]
    /\ cache = [p \in Path |-> cache[p]]
    /\ \A k \in DOMAIN pending : pending[k] \in Request
    /\ NoPinnedFlight
    /\ CallIsListed
    /\ WaitsEntitled
    /\ EntriesEntitled
    /\ AnswersEntitled

\* Invariant 12 of the injection mode: a request that did not show it is
\* same-origin is answered by its own grant only, and its grant answers nobody
\* else, through no path of cache, flight table or eviction.
GateIsolation ==
    \A r \in Request : Injected(r) =>
        LET by == outcome[r].token.by
        IN  r # by /\ ~ HandsOff(input[r]) =>
                input[r].sameOrigin /\ input[by].sameOrigin

\* A minted token reaches only a request with the very credential, grant
\* context and grant type it was minted for, routers sharing a cache included.
OwnCredentialOnly ==
    \A r \in Request : Injected(r) =>
        LET by == outcome[r].token.by
        IN  /\ input[by].router = input[r].router
            /\ HandsOff(input[by]) = HandsOff(input[r])
            /\ IF HandsOff(input[r])
               THEN input[by].authorization = input[r].authorization
               ELSE input[by].session = input[r].session

\* A router that exchanges or strips never lets a credential through that the
\* proxy did not mint, and one request with two credentials is never served by
\* either: no provider call is made for it.
NoForeignCredential ==
    \A r \in Request : input[r] # None /\ input[r].router \in Exchange \cup Strip =>
        /\ Forwarded(r) => UpstreamAuthorization(r) = NoHeader \/ Injected(r)
        /\ HandsOff(input[r]) /\ input[r].session # "absent" =>
              ~ Forwarded(r) /\ requestedAt[r] = None /\ awaits[r] = None

\* A token served from the cache is inside every bound that applies to it, by
\* the safety margin: the earliest the token can end (it was not issued before
\* it was asked for), the ttl since it was asked for, the assertion's exp.
CachedTokenIsGood ==
    [][\A r \in Request :
          input[r] = None /\ outcome'[r] # outcome[r] /\ outcome'[r].kind = "inject" =>
            LET token == outcome'[r].token
                exp == NotAfter(input[token.by])
                asked == requestedAt[token.by]
            IN  /\ token.expiresIn # None => now < asked + token.expiresIn - Margin
                /\ now < asked + Ttl - Margin
                /\ HandsOff(input[token.by]) => exp # None /\ now < exp - Margin
      ]_vars

\* Every request that reached the provider, or waits on one that did, is
\* answered, whether the call succeeds or fails.
EveryRequestAnswered ==
    \A r \in Request : (awaits[r] # None) ~> (outcome[r] # None)
=============================================================================
