# A TLA+ model of auth.proxy

auth.proxy is a reverse proxy between clients and a protected service. One
process runs one of two modes: *validation* introspects an inbound Bearer token
at the provider and forwards or refuses; *injection* exchanges a session cookie
(or, opt-in, an external JWT) at the provider's token endpoint and injects the
access token. This directory models the parts of it that keep state, wait for
others, or may fail halfway. The modules are checked by TLC on small instances,
and eight more carry theorems that TLAPS proves for every instance.

`PROJECT.json` lists the components, the runs, the mutants that show each
property can fail, the map from definitions to source lines, the hazards and the
theorems. Paths below are relative to the repository's `src/` directory.

## Inventory

| Component | State | Operations | Who calls it | What is hard |
|---|---|---|---|---|
| `single-flight.mts` | a map from key to the promise under way | `run` | both modes | microtask order, a fetch that throws before it is listed |
| `modes/injection/token-cache.mts`, `cache-expiry.mts` | insertion-ordered map with expiries | `get`, `set`, `clear` | injection | sweep before eviction, equality at the expiry, clock read before the call |
| `modes/validation/introspection-cache.mts` | the same | `get`, `set`, `clear` | validation | `get` keeps expired entries |
| `modes/injection/{decision,exchange,router}.mts` | cache and flights of each path, shareable between routers | one middleware | express | sharing between requests with different rights, atomic miss-then-join |
| `modes/validation/{decision,introspect,router}.mts` | cache and flights, of one router | one middleware | express | staleness against revocation, expiry during the call, whom to blame |
| `session-grant-client`, `jwt-bearer-client`, `introspection-client`, `response-body`, `provider-error` | one call | `exchange`, `introspect` | the modes | provider stops anywhere, oversized bodies, a status nobody discards, text that echoes a credential the list leaves out |
| `router/{body-limit,upstream,error-handler,refusal}.mts` | the request, the response's head, the upstream request | one pipeline, and the `checkContinue` listener | Node, express, express-http-proxy | caller leaves, upstream fails, answer cut after its head, a caller that waits to be told |
| `shutdown.mts` | open connections and their last request, flags, two timers | signal handler, request tracking, `finish` | Node | pipelining, deadline against close, cleanup that hangs |
| `app`, `app-internal`, `Healthcheck`, `cors`, `requestId` | none | start-up; the stages before the body limit | process, express | which stage answers, and with which fields |
| `config/application.schema.mts`, `byte-size`, `address-range` | the configuration | one parse at start-up | `app` | settings that are right one by one and wrong together |
| `oauth/*` | a key | reading the key, authenticating a call | the clients | a key that signs what the provider will not verify, an assertion used twice |
| `cookie-extractor`, `origin-gate`, `request-source` | none | pure functions of the request | injection | claims of parties nobody trusts, several headers that disagree |
| `bearer-assertion`, `express/bearer` | none | pure functions of one header | the modes | grammar |
| `logger` | none | output | everyone | nothing that moves |

The components interact by calls on one event loop. A request runs without
interruption until it awaits the provider, the body or the upstream; everything
else may run in between. State shared between requests is the two caches, the
flight tables and the shutdown's connection map; nothing is persisted, so there
is no recovery, and a crash loses only caches.

What makes each component correct:

* single flight: one fetch per key, no key pinned by a failure, every caller
  answered by the fetch it joined;
* caches: within the bound, never serve past expiry or an overwritten value,
  never drop a live entry while there is room;
* injection: a token reaches only a request with the same credential in the same
  grant context, and through the same-origin gate; no credential the proxy is to
  replace or refuse goes upstream;
* validation: an answer is never older than the ttl, never past the token's
  `exp`, and a refusal blames the token only on a statement about the token;
* provider calls: every call ends, holds nothing, and blames the caller only on
  the provider's word;
* server and upstream stage: one answer with the right side's fields, no
  connection left behind, an oversized body that costs nothing, and no wait but
  for the upstream;
* start-up: what the schema accepts starts, and runs as it was written; each
  provider call carries the one credential configured for it;
* reading a request: what the provider is told of its source is vouched for, the
  gate admits nothing the provider would refuse, and the session cookie does not
  go on to the upstream;
* shutdown: no answer cut by the drain, cleanup once, exit 0 only if clean, and
  it ends.

## Modules

| Module | Models | State and actions |
|---|---|---|
| `Coalescing` | what a single-flight table promises | `Attach`, `Close`, `Answer` |
| `SingleFlight` | `single-flight.mts` at the grain of microtasks | `RunJoin`, `RunStart`, `RunThrows` are the synchronous part of `run`; `FetchSettles`, `Finally`, `Resume` the three steps after a settlement |
| `SingleFlightProofs` | | theorems, refinement included |
| `InsertionMap` | JavaScript's `Map` | a function, and the order of insertion as a relation on its keys |
| `TokenCache`, `IntrospectionCache` | the two caches, as operators | `get` and `set` each with all of their deletes |
| `BoundedCaches` | both caches under one history | `Get`, `Set`, `Clear`, `Tick` |
| `CacheLemmas`, `BoundedCachesProofs` | | what `get` and `set` keep, write and delete; theorems |
| `Injection` | injection mode on one or more routers | `Decided`, `CacheHit`, `Joins`, `Starts`: an arrival up to its first await; `GrantReturns`, `GrantFails`: a settlement with its cache write, the clearing of the key and all resumptions; `Tick` |
| `InjectionProofs` | | theorems |
| `Validation` | validation mode, with revocation at the provider | as `Injection`, and `ProviderDecides`, `Revoke` for the provider |
| `ValidationProofs` | | theorems |
| `ProviderCall` | one call of each of the three clients | `Builds`, `HeadArrives`, `ChunkArrives`, `BodyEnds`, `CutOff` |
| `Upstream` | the stages from the body limit on | `Guard`, the mode's verdict, `BodyFails` or `Sends`, the upstream's failure, head, body and cut, `CallerLeaves` |
| `Exchange` | what the server promises for one request | `Connect`, `Relay`, `Answer`, `End`, `Leave`, `Finish` |
| `Server` | one request through the whole process: `Upstream`'s actions after the stages of `app.mts`, and the caller with its body | `HealthcheckAnswers`, `NotFound`, `PreflightAnswers`, `EntersRouter` (each with what the `checkContinue` listener says), `CallerSends` |
| `ServerProofs` | | theorems, refinement included |
| `ClientKey` | `oauth/private-key-jwt.mts` as operators, and the provider's verification | |
| `Settings` | the configuration schema as operators, section by section | |
| `Boot` | start-up, and the credentials of provider calls | `LoadConfig`, `CreateCors`, `CreateValidationRouter`, `CreateInjectionRouter`, `Listen`, `Call` |
| `RequestSource`, `CookieExtractor`, `OriginGate` | three readers of a request, as operators over `Optional`'s absent value; their loops are recursive functions over positions, so that they can be proved about | |
| `RequestReading` | a request on its way through trusted proxies, and the injection router reading it | `TrustedHop`, `Reads` |
| `Shutdown` | graceful shutdown over keep-alive connections | traffic per connection; `Handler`, `CloseCallback`, `Deadline`, `CleanupSettles`, `CleanupTimesOut`, `Exit`; `SignalDefault` and `LoopEmpties` for what Node does by itself |
| `ReadingProofs` | | theorems of `RequestReading` and of `ProviderCall` |
| `ProcessProofs` | | theorems of `Boot` and of `Shutdown` |
| `MC*` | | instances for TLC |

**Atomicity.** `Injection` and `Validation` take an arrival, and a settlement,
as one step each. For arrivals that is the code's own claim (no await between the
lookup and the flight, `decision.mts` 414-416, `introspect.mts` 89-92). For
settlements it rests on microtasks running to exhaustion before the next
callback. `SingleFlight` does not assume it: there every microtask interleaves
with new calls, and the table still implements `Coalescing`, in which closing a
flight and freeing its key is one step. So the two mode models use the table at
the grain of the abstract specification that the detailed one was shown to
implement. The two routers' session and exchange tables are one `pending`, since
the keys carry the grant type.

**Classes of text.** `Settings`, `ClientKey`, `CookieExtractor` and the gate work
on text. A setting, a JWK member, a cookie value or an origin is a member of the
classes that the code's predicates tell apart, and a predicate is the set of the
classes it accepts; a number keeps its value, and whether it was written as a
number, as digits or otherwise. So the models say what follows from the
predicates and from how they are combined, not that a regular expression accepts
what its name says. A cookie value is a short sequence of character classes,
because the rule about quotes depends on their place.

**Composition.** `Server` puts the caller and the stages of `app.mts` around the
actions of `Upstream`. The mode's verdict there is a free choice at the end of a
step that may take any time, which `Injection` and `Validation` fill in, and those
take the answer of a provider call as `ProviderCall` shows it. `RequestReading`
is what `Injection`'s inputs (cookie, gate) stand for, and `Boot` ends where the
clients of `ProviderCall` begin.

**What is taken from Node and libraries.** Marked external in the map, or said
in the module: `Map` keeps insertion order and moves a key that is deleted and
set again to the end; the clock does not go backwards; `AbortSignal.timeout`
fires and covers the body; `server.close` closes the connections it holds idle,
among them those whose answer has ended but is not written out; `destroySoon`
closes once what was written is flushed; a signal without a listener ends the
process; a process with nothing referenced ends with 0; the library's body
reader fails with a status when the caller has left. Of the provider: it verifies
an assertion with the public members registered for the client and takes a `jti`
once, and it holds a session grant to the check `OriginGate` gives. Of a browser:
it sets `Origin`, `Referer` and `Sec-Fetch-Site` by the page that asks and where
it asks. Of a trusted proxy: it appends the peer it saw and says the scheme
itself.

Plausible mistakes are kept in the modules as operators named for the mistake,
each next to the definition it would replace. They take no part in the
specifications; the mutants use them.

## Runs

| Run | Instance | Shows |
|---|---|---|
| `single_flight` | 4 calls, 2 keys | One fetch per key; a caller resumes only into a free slot, after a rejection or a synchronous throw too; every call answered; refinement of `Coalescing` |
| `bounded_caches` | 3 keys, 2 entries, 4 writes, times 0..3 | Bound, last write served and never past expiry, eviction only when full of live entries |
| `injection_session` | 4 requests, 2 routers on shared state, one cookie, gate open and closed, 1 entry | One call per credential; gate isolation; context isolation |
| `injection_exchange` | 3 requests over 10 kinds of input | No foreign credential goes upstream, the response's and the assertion's expiry bound the cache, every request is answered |
| `validation` | 3 requests, 2 tokens, no cache with client credentials and a ttl of 2 without | Staleness, expiry, what is cached, whom a refusal blames, one call per token, every request answered |
| `provider_call` | 3 clients by every way of authenticating, bodies of 0..3 chunks, bounds 1 and 2, 7 statuses, 8 readings, texts that fit or not and echo any of what was sent | Bodies released, blame, nothing sent is relayed, the call ends |
| `server` | 5 requests as the stage reads them, each arriving in every way (path, method, origin, id, `Expect`), every upstream head over 5 kinds of field and every `Connection` | Refinement of `Exchange`; heads, outbound fields, a leaving caller is no upstream failure, an oversized upload is not asked for, only the upstream is waited for |
| `shutdown` | a connection of 2 pipelined requests and one of 1, 4 kinds of cleanup, close failing or not | No answer cut by the drain, no connection forgotten, exit 0 is clean, cleanup once, the process ends |
| `boot` | all shapes of the client settings of each mode, every JWK, every other setting off its default | What the schema accepts starts and runs as written; credentials used as configured and taken by the provider |
| `reading` | claims of up to two entries behind up to three trusted proxies; all signals; Cookie headers of up to three segments | Source vouched for, gate stricter than the provider, cookie read and removed |
| `second_signal` | 1 connection | Finding: violated, see below |
| `hanging_cleanup` | 1 connection | Finding: violated, see below |

Deadlock is not checked: every instance has finitely many requests, calls or
writes and may come to rest when they are used up; what must still happen is
stated as liveness. In `boot` and `reading` a behaviour ends with the last call and
with the reading.

**Bounds.** `MaxTime`, `MaxWrites`, `MaxSize`, `MaxRequests` and the finite sets
of requests, calls and connections bound the state space. Four calls give a
flight with a waiter, a later flight of the same key, and one of another key.
Four requests give a leader, a waiter, a request outside the gate and a later
hit. One cache entry makes every second key evict. Times up to 3 with a ttl of 2
or 3 and a margin of 1 put an expiry before, at and after every read. Body sizes
go past both bounds. A connection of two requests gives pipelining, and another
keeps the drain open meanwhile. In `boot` numbers go from 0 past the largest safe
one, and two calls are enough for an assertion to be used again. In `reading`,
three trusted proxies let the walk start, go on and end, with an entry it cannot
read at any of them; a node nobody trusts needs no step, since it may claim
whatever reached it. No symmetry is used where liveness is checked.

**Fairness.** Weak fairness, on what the platform does by itself: microtasks
(`single_flight`), the proxy's own steps and a body the caller has no reason to hold back
(`server`), the end of a provider call in the two modes, which
`AbortSignal.timeout` guarantees and `provider_call` shows of a single call
(`CallEnds`), and the timers and callbacks of the shutdown. Callers otherwise, the
upstream, the provider and signals owe nothing: the upstream stage sets no
timeout, so an exchange may wait for the upstream as long as its caller does, and
`OnlyUpstreamIsAwaited` says that this is the only wait. A mode's verdict is owed
because its provider calls end.

## Findings

* **A second signal is not ignored.** `shutdown.mts` 27-28 promises it is. The
  handler removes its listeners when it starts (235), so the next SIGTERM or
  SIGINT takes the default action and kills the process during the drain. The
  test of that guarantee (`__tests__/shutdown.test.mts` 97) calls the captured
  handler again, which the process cannot do after the removal.
* **A cleanup that hangs may end the process with 0.** Its timer is unreferenced
  (195). If what the cleanup waits for holds no reference either, the loop is
  empty and Node ends the process with 0 before the timeout is logged, against
  lines 55-58 and the exit code the test at 197-218 expects. `app.mts` installs
  no cleanup, so this is about the module's contract.

## What is proved

All proofs are for arbitrary constants under the named assumptions of each
module.

*SingleFlight* (`NoCallAssumption`, `NoKeyAssumption`: the two absent values are
no call and no key). "One fetch per key" is not inductive: nothing in it says
that a fetch still under way is the one the table lists. `IndInv` adds that: a
listed flight is one whose key is not cleared, every such flight is listed under
its key (`FlightIsListed`), and every call's flight, key and stage agree
(`CallIsConsistent`). From it follow `OneFetchPerKey`, `NoPinnedFlight`,
`ResumesIntoFreeSlot`, and, with the mapping in `SingleFlight`, that every step
implements `Coalescing` or stutters (`RefinesCoalescing`, safety part).

*BoundedCaches* (`MaxEntriesAssumption`, `MaxTimeAssumption`, `MaxWritesAssumption`).
The three properties depend on each other: the bound holds because an eviction
really removes a key, and evictions remove the right key because the map's order
is the order of the writes. `CacheInv` says that the keys are finitely many and
within the bound, that every entry is the last write of its key, and that the
order of the map is that of the instants at which keys took their position
(`Ranked`); the oldest key is then the one of least rank, which exists because
the naturals are well founded. Proved: `WithinBound`, `ServesLastWrite`, and the
action property `EvictsOldestOnlyWhenFull`, which needs the cardinality of the
live entries before and after a sweep. `CacheLemmas` states what each operation
of the two caches keeps, writes and deletes; the two modes' proofs rest on it.

*Injection* (`InputsAssumption`, `PolicyAssumption`, `CredentialAssumption`).
That a token stays with its credential is a statement about answers; to be
inductive it has to be said of every place a token passes through. `IndInv` says
that whoever waits for a call, whichever key an entry is stored under and
whoever has been answered is entitled to the call's token (`WaitsEntitled`,
`EntriesEntitled`, `AnswersEntitled`), and that a call by a request that shares
is listed and nothing else is (`CallIsListed`, `NoPinnedFlight`). Eviction and
sweeping only remove. Proved from it: `OneCallPerCredential`, `NoPinnedFlight`,
`GateIsolation`, `OwnCredentialOnly`. `DatedInv` adds what a request was decided
on (`Decisions`: its outcome is one it may have, and only a request that may ask
has a call or waits for one) and how long an entry may be served (`Dates`: every
call has its instant, and every entry ends within the ttl, the token's lifetime
and the assertion's `exp`, less the margin, counted from the call that brought
it). From it follow `NoForeignCredential` and the action property
`CachedTokenIsGood`.

*Validation* (`ConfigAssumption`, `SentinelAssumption`: the absent value is no
header, answer, status or number). `ValidationInv` has four parts: the types; the
table and the calls under way name each other, and a waiter waits for a call
about its own token (`Flights`); a call is no older than the timeout, and an
"active" was decided before the token was revoked (`Calls`); an entry is a
statement about its token that ends by the token's `exp` and within the ttl of a
revocation (`Statements`). The last two are what staleness needs and no step can
see by itself: a revocation may fall between the provider's decision and the
write it leads to. Proved: `OneCallPerToken`, and the action properties
`CacheHoldsStatements`, `BoundedStaleness`, `NeverPastExp`,
`BlamesTokenOnlyOnStatement`.

*Shutdown* (`ShutdownAssumption`; any number of connections and of requests on
each). That the drain cuts no answer is decided when `done` looks at one number,
the tracked request of the connection. `WireInv` says what that number means
(`Orderly`: answers go out in order, only the last body may be arriving, and the
number is that of the last request exactly while something of it is to come) and
what the drain made of it (`DrainConn`); from it follow `DrainCutsNoAnswer` and
`NoneForgotten`. `ProcessInv` says which of handler, close callback, deadline and
cleanup have run, and what a code of 0 implies; from it follow `ExitZeroIsClean`
and the action property `CleanupOnceAfterDrain`.

*RequestReading* (`TrustAssumption`, `OriginsAssumption`, `CookieAssumption`: the
absent value and the words for unreadable entries are no addresses, origins or
cookies; `StartsAssumption`: a request leaves its sender as `Sendable` says, which
for a page in a browser is what `BrowserSends` lets a browser say of it). What the
router reads depends on what every hop before it wrote, so `ReadingInv` is about
the request on its way: every node after the sender is trusted (`RouteIsTrusted`),
the last entries of `X-Forwarded-For` are the nodes' own reports in their order,
with only the sender's claims before them (`ReportsStandLast`), and the last scheme
is a trusted proxy's (`SchemeIsReported`). The walk, the cookie scan and the filter
of `withoutCookie` are loops, and each needs an invariant of its own: where the walk
stands is a node on the trusted part of the route or the place it ended at
(`WalkSteps`), what the scan holds is what the definition by positions gives of the
pairs so far (`ScanSteps`), and filtering commutes with appending a pair
(`KeepingAppend`). The induction over positions is by a least counterexample,
since the library's induction theorems cannot be instantiated (`Upwards`), and
`LoopRuns` shows that such a loop has a run at all. Proved: `SourceIsVouched`,
`GateIsStricter` and `CookieReadAndRemoved`, for any trust list, chain of proxies,
claims, signals and length of the Cookie header.

*Boot* (`BoundsAssumption`, with every default but the margin's within a timer's
range; `TextAssumption` and `SentinelAssumption`: the words the code tells apart are
texts, and a sentinel is neither text, key nor assertion; `CredentialAssumption`;
`RawsAssumption`: the settings are any of `RawSettings`). `BootInv` says that the
configuration in force is what the schema makes of the settings (`ConfigIsParsed`),
that every client in use, and no other, holds the credential `Registered` reads off
the settings as written (`ClientsAsWritten`), and that the n-th call was made from
that credential with the n-th assertion (`CallsAsMade`). The work is in the lemmas on
the schema: one per parser (`NumberRead`, `SwitchRead`, `KeyParsed`), one per section
(`ExchangeRead`, `ValidationRead`, `InjectionRead`, `ConfigRead`), and one per
constructor, which show that what the section's cross-checks leave is enough for the
constructor not to throw (`IntrospectionBuilt`, `SessionBuilt`, `ExchangeBuilt`).
Proved: `BootsAsWritten` and `ConfiguredCredentialUsed`. The second says of every
call that the provider accepts its assertion; no `jti` is seen twice because calls
are numbered, and the key verifies because reading it tried a signature.

*ProviderCall* (`BoundAssumption`). `IndInv` adds to the three properties how far
the call has come and, while a body is read, that it is one this client reads and
within the bound of its status. That is what makes an error code in a body that
ended whole count, and one in a body cut short not. For the texts, the request and
the list it is checked against are modelled apart, as the clients write them: what
goes in which header or form (`SessionCarries`, `ExchangeCarries`,
`IntrospectionCarries`), and what the client lists (`Sent`, `Checked`).
`ListsCoverRequest` shows that list and refused shape together leave out nothing
sent; `SanitizedIsClean` carries that to a text. The two rules overlap: an
assertion is caught by its shape as well, so it is the cookie and the client secret
that depend on the list alone. The property speaks of the credentials themselves,
not of encodings of them such as the Basic header's, which the text is not
compared with. `UnreadIsDiscarded` shows that every status a client does not read
has a branch that discards. Proved: `BlameIsProviders`, `BodyReleased`,
`NoCredentialRelayed`.

*Server* (`ServerAssumption`; the requests may be any the types allow). That the
proxy's own answers carry the proxy's head says nothing of a head before it is
written, and that an exchange is answered once says nothing of how the next step
finds it. `IndInv` adds both: until the upstream's head arrives nothing is
written and the head is the proxy's (`HeadIsProxys`), at most one answer exists
(`AnswerIsOwn`), and the upstream connection is open exactly while a caller that
is there waits (`ConnectionHeld`). From it follow `OversizedCostsNothing`,
`RefusalHeadIsOwn` and, action by action, that every step is one of `Exchange` or
a stutter (`RefinesExchange`, safety part). Three more inductions rest on it:
`ScreenInv` (a head that arrived was screened, and the stages before set only
`Vary`, the grant and the id) gives `ProxiedHeadIsScreened`; `OutInv` (from the
router on the settled id is in the request) gives `OutboundIsProxys`; and that
the log is a sequence of reasons gives the action property `LeavingIsNoFailure`.

## Only model-checked

* Liveness and anything with fairness (`EveryCallAnswered`, `EveryRequestAnswered`,
  `CallEnds`, `Ends`, `OnlyUpstreamIsAwaited`, and the fairness part of the two
  refinements) is outside what the prover handles.

Every invariant and every action property that a passing run checks has a theorem.
The runs remain what shows that the assumptions are met and the cases happen.

## Not modelled

Logging, wording of bodies and challenges, `Retry-After`; the character grammars
(cookie names, Bearer, assertion, request id, error text, URLs, prefixes, byte
sizes, address ranges) and the scan that calls a CORS pattern broad, which appear
as classes; signing, hashing and the Basic encoding (a signature verifies or does
not; cache keys are the tuples that are hashed, so a collision is not
considered). The clock going backwards is not considered, nor are Express's own
answer to `OPTIONS /_healthcheck`, an `Expect` other than `100-continue`, which
Node refuses before the application sees it, and a peer with a zone ID.
`PROJECT.json` gives the reason for each part.

## Plan

Built: the modules above, in the order SingleFlight, caches, Injection,
Validation, Shutdown, Upstream, ProviderCall, Server with Exchange, Boot with
Settings and ClientKey, RequestReading.

Left, in this order:

1. Abstract specifications: a cache as a partial map that may forget, implemented
   by both bounded caches; a mode as an oracle with bounded staleness,
   implemented by `Validation`.
2. A draining `Shutdown` over requests that wait for a provider call, as one
   composition with `Server`.
