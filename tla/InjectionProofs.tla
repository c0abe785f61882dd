-------------------------- MODULE InjectionProofs ---------------------------
(***************************************************************************)
(* Whose token a request may get, and how often the provider is asked: for *)
(* any number of requests, routers, cookies and assertions.                *)
(***************************************************************************)
EXTENDS Injection, CacheLemmas

----------------------------------------------------------------------------
(* The inductive invariant.                                                *)

\* What the proofs need of the sentinel.
LEMMA NoneIsNot == None \notin Request /\ None \notin Inputs
BY CredentialAssumption

\* Before the first request nothing is held.
LEMMA InitInv == Init => IndInv
<1> SUFFICES ASSUME Init PROVE IndInv
  OBVIOUS
<1>1. \A p \in Path : Keys(cache[p]) = {}
  BY DEF Init, EmptyMap, Keys
<1> QED
  BY <1>1, NoneIsNot
     DEF Init, IndInv, NoPinnedFlight, CallIsListed, WaitsEntitled, EntriesEntitled,
         AnswersEntitled, Calling, Injected

\* What a request's arrival leaves alone: nobody was told to wait for it, and
\* nobody holds its token.
LEMMA Newcomer ==
    ASSUME IndInv, NEW r \in Request, NEW in \in Inputs, Arrives(r, in)
    PROVE  /\ awaits[r] = None
           /\ \A x \in Request : awaits[x] # r
           /\ input' \in [Request -> Inputs \cup {None}]
           /\ input'[r] = in /\ in # None
           /\ \A x \in Request : input[x] # None => x # r /\ input'[x] = input[x]
BY NoneIsNot DEF IndInv, Arrives, WaitsEntitled, Entitled

\* Arriving does not undo anyone's entitlement, nor that of an entry.
LEMMA EntitledStays ==
    ASSUME IndInv, NEW r \in Request, NEW in \in Inputs, Arrives(r, in), NEW by
    PROVE  /\ \A x \in Request : Entitled(x, by) => Entitled(x, by)'
           /\ \A k : EntryIsOf(k, by) => EntryIsOf(k, by)'
BY Newcomer DEF Entitled, EntryIsOf

\* A lookup adds no entry.
LEMMA LookupKeeps ==
    ASSUME IndInv, NEW in, cache' = AfterLookup(in)
    PROVE  /\ cache' = [p \in Path |-> cache'[p]]
           /\ \A p \in Path : \A k \in Keys(cache'[p]) :
                 k \in Keys(cache[p]) /\ cache'[p].at[k] = cache[p].at[k]
<1>1. CASE Shares(in)
  <2>1. PathOf(in) \in Path
    BY DEF PathOf, Path
  <2>2. cache' = [cache EXCEPT ![PathOf(in)] =
                     AfterTokenGet(cache[PathOf(in)], CacheKey(in), now)]
    BY <1>1 DEF AfterLookup
  <2>3. cache = [p \in Path |-> cache[p]]
    BY DEF IndInv
  <2>4. \A p \in Path :
           cache'[p] = IF p = PathOf(in) THEN AfterTokenGet(cache[p], CacheKey(in), now)
                                         ELSE cache[p]
    BY <2>1, <2>2, <2>3
  <2> QED BY <2>2, <2>3, <2>4, TokenGetKeeps
<1>2. CASE ~ Shares(in)
  BY <1>2 DEF AfterLookup, IndInv
<1> QED BY <1>1, <1>2

\* A request decided on its own touches neither the cache nor the table.
LEMMA DecidedInv ==
    ASSUME IndInv, NEW r \in Request, NEW in \in Inputs, Decided(r, in)
    PROVE  IndInv'
<1> USE DEF Decided
<1>1. ~ Injected(r)'
  BY DEF IndInv, Injected, Refusal, Respond, ForwardWithoutInjection
<1>2. NoPinnedFlight' /\ CallIsListed'
  BY Newcomer, NoneIsNot DEF IndInv, NoPinnedFlight, CallIsListed, Calling, WaitsEntitled, Entitled
<1>3. WaitsEntitled'
  BY EntitledStays DEF IndInv, WaitsEntitled
<1>4. EntriesEntitled'
  BY EntitledStays DEF IndInv, EntriesEntitled
<1>5. AnswersEntitled'
  BY <1>1, EntitledStays DEF IndInv, AnswersEntitled, Injected
<1> QED BY <1>2, <1>3, <1>4, <1>5, Newcomer DEF IndInv

\* A cache hit hands out the token of a request with the same key.
LEMMA CacheHitInv ==
    ASSUME IndInv, NEW r \in Request, NEW in \in Inputs, CacheHit(r, in)
    PROVE  IndInv'
<1> USE DEF CacheHit
<1> DEFINE e == cache[PathOf(in)].at[CacheKey(in)]
<1>1. EntryIsOf(CacheKey(in), e.value.by)
  BY DEF IndInv, EntriesEntitled, Cached, LiveToken, PathOf, Path
<1>2. Entitled(r, e.value.by)'
  BY <1>1, Newcomer DEF Entitled, EntryIsOf
<1>3. NoPinnedFlight' /\ CallIsListed'
  BY Newcomer, NoneIsNot DEF IndInv, NoPinnedFlight, CallIsListed, Calling, WaitsEntitled, Entitled
<1>4. WaitsEntitled'
  BY EntitledStays DEF IndInv, WaitsEntitled
<1>5. EntriesEntitled'
  BY EntitledStays DEF IndInv, EntriesEntitled
<1>6. outcome'[r].token.by = e.value.by
  BY DEF IndInv, Inject
<1>7. AnswersEntitled'
  BY <1>2, <1>6, EntitledStays DEF IndInv, AnswersEntitled, Injected
<1> QED BY <1>3, <1>4, <1>5, <1>7, Newcomer DEF IndInv

\* A request that joins waits on a call for its own key.
LEMMA JoinsInv ==
    ASSUME IndInv, NEW r \in Request, NEW in \in Inputs, Joins(r, in)
    PROVE  IndInv'
<1> USE DEF Joins
<1> DEFINE f == pending[CacheKey(in)]
<1>1. f \in Request /\ Calling(f) /\ CacheKey(input[f]) = CacheKey(in) /\ Shares(input[f])
  BY DEF IndInv, NoPinnedFlight
<1>2. input[f] # None /\ f # r
  BY <1>1, Newcomer, NoneIsNot DEF IndInv, WaitsEntitled, Entitled, Calling
<1>3. Entitled(r, f)'
  BY <1>1, <1>2, Newcomer DEF Entitled
<1>4. awaits' \in [Request -> Request \cup {None}]
  BY <1>1 DEF IndInv
<1>5. \A x \in Request : Calling(x)' <=> Calling(x)
  BY <1>2, Newcomer, NoneIsNot DEF IndInv, Calling
<1>6. NoPinnedFlight' /\ CallIsListed'
  BY <1>5, Newcomer, NoneIsNot DEF IndInv, NoPinnedFlight, CallIsListed, Calling, WaitsEntitled, Entitled
<1>7. WaitsEntitled'
  BY <1>3, EntitledStays DEF IndInv, WaitsEntitled
<1>8. EntriesEntitled'
  BY LookupKeeps, EntitledStays DEF IndInv, EntriesEntitled
<1>9. AnswersEntitled'
  BY EntitledStays DEF IndInv, AnswersEntitled, Injected
<1> QED BY <1>4, <1>6, <1>7, <1>8, <1>9, LookupKeeps, Newcomer DEF IndInv

\* A request that starts a call is listed under its key, if it shares.
LEMMA StartsInv ==
    ASSUME IndInv, NEW r \in Request, NEW in \in Inputs, Starts(r, in)
    PROVE  IndInv'
<1> USE DEF Starts
<1>1. awaits' \in [Request -> Request \cup {None}]
  BY DEF IndInv
<1>2. Entitled(r, r)'
  BY Newcomer DEF Entitled
<1>3. \A x \in Request : Calling(x)' <=> Calling(x) \/ x = r
  BY Newcomer, NoneIsNot DEF IndInv, Calling
<1>4. \A x \in Request : Calling(x) => x # r /\ input'[x] = input[x]
  BY Newcomer, NoneIsNot DEF IndInv, WaitsEntitled, Entitled, Calling
<1>5. /\ \A k \in DOMAIN pending' : pending'[k] \in Request
      /\ NoPinnedFlight'
      /\ CallIsListed'
  <2>1. CASE Shares(in)
    <3>1. pending' = Listed(CacheKey(in), r) /\ CacheKey(in) \notin DOMAIN pending
      BY <2>1
    <3>2. /\ DOMAIN pending' = DOMAIN pending \cup {CacheKey(in)}
          /\ pending'[CacheKey(in)] = r
          /\ \A k \in DOMAIN pending : pending'[k] = pending[k]
      BY <3>1 DEF Listed
    <3>3. NoPinnedFlight'
      BY <2>1, <3>2, <1>3, <1>4, Newcomer DEF IndInv, NoPinnedFlight
    <3>4. CallIsListed'
      BY <2>1, <3>1, <3>2, <1>3, <1>4, Newcomer DEF IndInv, CallIsListed
    <3> QED BY <3>2, <3>3, <3>4 DEF IndInv
  <2>2. CASE ~ Shares(in)
    <3>1. pending' = pending
      BY <2>2
    <3> QED BY <2>2, <3>1, <1>3, <1>4, Newcomer DEF IndInv, NoPinnedFlight, CallIsListed
  <2> QED BY <2>1, <2>2
<1>6. WaitsEntitled'
  BY <1>2, EntitledStays DEF IndInv, WaitsEntitled
<1>7. EntriesEntitled'
  BY LookupKeeps, EntitledStays DEF IndInv, EntriesEntitled
<1>8. AnswersEntitled'
  BY EntitledStays DEF IndInv, AnswersEntitled, Injected
<1> QED BY <1>1, <1>5, <1>6, <1>7, <1>8, LookupKeeps, Newcomer DEF IndInv

\* When a call ends its flight leaves the table, and the others stay.
LEMMA SettledTable ==
    ASSUME IndInv, NEW f \in Request, Calling(f), NEW out,
           Conclude(Waiters(f), out), pending' = Cleared(f), UNCHANGED input
    PROVE  /\ awaits' \in [Request -> Request \cup {None}]
           /\ \A k \in DOMAIN pending' : pending'[k] \in Request
           /\ NoPinnedFlight'
           /\ CallIsListed'
           /\ WaitsEntitled'
<1>1. \A x \in Request : awaits'[x] = IF awaits[x] = f THEN None ELSE awaits[x]
  BY DEF Conclude, Waiters
<1>2. awaits' \in [Request -> Request \cup {None}]
  BY DEF Conclude, IndInv
<1>3. \A x \in Request : Calling(x)' <=> Calling(x) /\ x # f
  BY <1>1, NoneIsNot DEF Calling
<1>4. /\ \A k \in DOMAIN pending' : k \in DOMAIN pending /\ pending'[k] = pending[k]
      /\ \A k \in DOMAIN pending : pending[k] # f => k \in DOMAIN pending'
      /\ \A k \in DOMAIN pending' : pending[k] # f
  <2>1. CASE Shares(input[f])
    <3>1. pending' = [k \in DOMAIN pending \ {CacheKey(input[f])} |-> pending[k]]
      BY <2>1 DEF Cleared
    <3>2. pending[CacheKey(input[f])] = f
      BY <2>1 DEF IndInv, CallIsListed
    <3>3. \A k \in DOMAIN pending : pending[k] = f => k = CacheKey(input[f])
      BY DEF IndInv, NoPinnedFlight
    <3> QED BY <3>1, <3>2, <3>3
  <2>2. CASE ~ Shares(input[f])
    BY <2>2 DEF Cleared, IndInv, NoPinnedFlight
  <2> QED BY <2>1, <2>2
<1>5. NoPinnedFlight' /\ CallIsListed'
  BY <1>3, <1>4 DEF IndInv, NoPinnedFlight, CallIsListed
<1>6. WaitsEntitled'
  BY <1>1 DEF IndInv, WaitsEntitled, Entitled
<1> QED BY <1>2, <1>4, <1>5, <1>6 DEF IndInv

\* A grant reaches the requests that waited for it, and the cache entry it
\* leaves is for its own key.
LEMMA GrantReturnsInv ==
    ASSUME IndInv, NEW f \in Request, NEW e \in Lifetime, GrantReturns(f, e)
    PROVE  IndInv'
<1> DEFINE token == [by |-> f, expiresIn |-> e]
           entry == [value |-> token, expiresAt |-> ExpiresAt(f, e)]
           p == PathOf(input[f])
<1> USE DEF GrantReturns
<1>1. /\ awaits' \in [Request -> Request \cup {None}]
      /\ \A k \in DOMAIN pending' : pending'[k] \in Request
      /\ NoPinnedFlight' /\ CallIsListed' /\ WaitsEntitled'
  BY SettledTable
<1>2. input[f] # None
  BY NoneIsNot DEF IndInv, WaitsEntitled, Entitled, Calling
<1>3. EntriesEntitled' /\ cache' = [q \in Path |-> cache'[q]]
  <2>1. CASE MayCache(f, e)
    <3>1. cache' = [cache EXCEPT ![p] =
                       TokenSet(cache[p], CacheKey(input[f]), entry, now, MaxEntries)]
      BY <2>1 DEF AfterGrant
    <3>2. cache = [q \in Path |-> cache[q]] /\ p \in Path
      BY DEF IndInv, PathOf, Path
    <3>3. \A q \in Path :
             cache'[q] = IF q = p THEN TokenSet(cache[q], CacheKey(input[f]), entry, now, MaxEntries)
                                  ELSE cache[q]
      BY <3>1, <3>2
    <3>4. entry.value.by = f /\ EntryIsOf(CacheKey(input[f]), f)
      BY <1>2, <2>1 DEF EntryIsOf, MayCache
    <3> HIDE DEF entry, p
    <3>5. \A q \in Path : \A k \in Keys(cache'[q]) :
             EntryIsOf(k, cache'[q].at[k].value.by)
      <4> SUFFICES ASSUME NEW q \in Path, NEW k \in Keys(cache'[q])
                   PROVE  EntryIsOf(k, cache'[q].at[k].value.by)
        OBVIOUS
      <4>1. \/ k = CacheKey(input[f]) /\ cache'[q].at[k] = entry
            \/ k \in Keys(cache[q]) /\ cache'[q].at[k] = cache[q].at[k]
        BY <3>3, TokenSetWrites
      <4> QED BY <4>1, <3>4 DEF IndInv, EntriesEntitled
    <3> QED BY <3>1, <3>2, <3>5 DEF EntriesEntitled, EntryIsOf
  <2>2. CASE ~ MayCache(f, e)
    BY <2>2 DEF AfterGrant, IndInv, EntriesEntitled, EntryIsOf
  <2> QED BY <2>1, <2>2
<1>4. AnswersEntitled'
  <2> SUFFICES ASSUME NEW r \in Request, Injected(r)'
               PROVE  Entitled(r, outcome[r].token.by)'
    BY DEF AnswersEntitled
  <2>1. CASE awaits[r] = f
    <3>1. outcome'[r] = Inject(token)
      BY <2>1 DEF Conclude, Waiters
    <3>2. outcome'[r].token.by = f
      BY <3>1 DEF Inject
    <3>3. Entitled(r, f)
      BY <2>1, NoneIsNot DEF IndInv, WaitsEntitled
    <3> QED BY <3>2, <3>3 DEF Entitled
  <2>2. CASE awaits[r] # f
    <3>1. outcome'[r] = outcome[r]
      BY <2>2 DEF Conclude, Waiters
    <3> QED BY <3>1 DEF IndInv, AnswersEntitled, Injected, Entitled
  <2> QED BY <2>1, <2>2
<1>5. outcome' = [r \in Request |-> outcome'[r]]
  BY DEF Conclude
<1> QED BY <1>1, <1>3, <1>4, <1>5 DEF IndInv

\* A failed call leaves the slot of its key free and no token behind.
LEMMA GrantFailsInv ==
    ASSUME IndInv, NEW f \in Request, GrantFails(f)
    PROVE  IndInv'
<1> USE DEF GrantFails
<1>1. /\ awaits' \in [Request -> Request \cup {None}]
      /\ \A k \in DOMAIN pending' : pending'[k] \in Request
      /\ NoPinnedFlight' /\ CallIsListed' /\ WaitsEntitled'
  BY SettledTable
<1>2. EntriesEntitled'
  BY DEF IndInv, EntriesEntitled, EntryIsOf
<1>3. AnswersEntitled'
  BY DEF IndInv, AnswersEntitled, Injected, Entitled, Conclude, Respond
<1>4. outcome' = [r \in Request |-> outcome'[r]]
  BY DEF Conclude
<1> QED BY <1>1, <1>2, <1>3, <1>4 DEF IndInv

\* Nothing in the invariant looks at the clock.
LEMMA UnmovedInv ==
    ASSUME IndInv, UNCHANGED <<cache, pending, input, awaits, outcome>>
    PROVE  IndInv'
BY DEF IndInv, NoPinnedFlight, CallIsListed, WaitsEntitled, EntriesEntitled, EntryIsOf,
       AnswersEntitled, Calling, Entitled, Injected

----------------------------------------------------------------------------
(* Theorems.                                                               *)

\* In every reachable state of the injection mode the table lists exactly the
\* calls that may be shared, and tokens travel only to requests entitled to them.
THEOREM Invariance == Spec => []IndInv
<1>1. IndInv /\ [Next]_vars => IndInv'
  <2> SUFFICES ASSUME IndInv, [Next]_vars PROVE IndInv'
    OBVIOUS
  <2>1. ASSUME NEW r \in Request, NEW in \in Inputs,
               Decided(r, in) \/ CacheHit(r, in) \/ Joins(r, in) \/ Starts(r, in)
        PROVE  IndInv'
    BY <2>1, DecidedInv, CacheHitInv, JoinsInv, StartsInv
  <2>2. ASSUME NEW f \in Request, Settles(f) PROVE IndInv'
    BY <2>2, GrantReturnsInv, GrantFailsInv DEF Settles
  <2>3. CASE Tick
    BY <2>3, UnmovedInv DEF Tick
  <2>4. CASE UNCHANGED vars
    BY <2>4, UnmovedInv DEF vars
  <2> QED BY <2>1, <2>2, <2>3, <2>4 DEF Next
<1> QED BY InitInv, <1>1, PTL DEF Spec

\* The provider is never asked twice at once for one credential by requests
\* that may share, for any number of requests and routers.
THEOREM OneCallPerCredentialHolds == Spec => []OneCallPerCredential
<1>1. IndInv => OneCallPerCredential
  BY DEF IndInv, CallIsListed, OneCallPerCredential
<1> QED BY Invariance, <1>1, PTL

\* Whatever way calls end, the table never keeps an entry without a call.
THEOREM NoPinnedFlightHolds == Spec => []NoPinnedFlight
<1>1. IndInv => NoPinnedFlight
  BY DEF IndInv
<1> QED BY Invariance, <1>1, PTL

\* A request that did not show it is same-origin neither receives another
\* request's token nor has its own token given away.
THEOREM GateIsolationHolds == Spec => []GateIsolation
<1>1. IndInv => GateIsolation
  <2> SUFFICES ASSUME IndInv, NEW r \in Request, Injected(r),
                      r # outcome[r].token.by, ~ HandsOff(input[r])
               PROVE  input[r].sameOrigin /\ input[outcome[r].token.by].sameOrigin
    BY DEF GateIsolation
  <2> DEFINE by == outcome[r].token.by
  <2>1. Shares(input[r]) /\ Shares(input[by]) /\ CacheKey(input[r]) = CacheKey(input[by])
    BY DEF IndInv, AnswersEntitled, Entitled
  <2>2. ~ HandsOff(input[by])
    BY <2>1 DEF CacheKey
  <2> QED BY <2>1, <2>2 DEF Shares
<1> QED BY Invariance, <1>1, PTL

\* A minted token reaches only a request with the credential, the grant context
\* and the grant type it was minted for.
THEOREM OwnCredentialOnlyHolds == Spec => []OwnCredentialOnly
<1>1. IndInv => OwnCredentialOnly
  <2> SUFFICES ASSUME IndInv, NEW r \in Request, Injected(r),
                      r # outcome[r].token.by
               PROVE  LET by == outcome[r].token.by
                      IN  /\ input[by].router = input[r].router
                          /\ HandsOff(input[by]) = HandsOff(input[r])
                          /\ IF HandsOff(input[r])
                             THEN input[by].authorization = input[r].authorization
                             ELSE input[by].session = input[r].session
    BY DEF OwnCredentialOnly
  <2> DEFINE by == outcome[r].token.by
  <2>1. CacheKey(input[r]) = CacheKey(input[by])
    BY DEF IndInv, AnswersEntitled, Entitled
  <2>2. HandsOff(input[by]) <=> HandsOff(input[r])
    BY <2>1 DEF CacheKey
  <2> QED BY <2>1, <2>2 DEF CacheKey, HandsOff
<1> QED BY Invariance, <1>1, PTL

----------------------------------------------------------------------------
(* What a request was decided on, and how long a token is good for.        *)

\* What may be decided of a request that has arrived: a refusal, a token if it
\* is one that asks the provider, or to go on as it is.
OutcomeFits(in, out) ==
    \/ out.kind = "respond"
    \/ AsksProvider(in) /\ out.kind = "inject"
    \/ ~ HandsOff(in) /\ out = ForwardWithoutInjection(in)

\* Every outcome fits its request, and whoever calls or waits may ask.
Decisions ==
    \A r \in Request :
        /\ outcome[r] # None => input[r] # None /\ OutcomeFits(input[r], outcome[r])
        /\ awaits[r] # None \/ requestedAt[r] # None =>
              input[r] # None /\ AsksProvider(input[r])

\* The instants an entry may be served until: every bound on its token that
\* counts from the call that brought it, and the assertion's own exp.
EntryInBounds(e) ==
    LET by == e.value.by
        exp == NotAfter(input[by])
    IN  /\ by \in Request
        /\ requestedAt[by] \in Nat
        /\ e.expiresAt \in Int
        /\ e.value.expiresIn \in Int \cup {None}
        /\ e.value.expiresIn # None =>
              e.expiresAt <= requestedAt[by] + e.value.expiresIn - Margin
        /\ e.expiresAt <= requestedAt[by] + Ttl - Margin
        /\ HandsOff(input[by]) => exp \in Nat /\ e.expiresAt <= exp - Margin

\* Calls and entries are dated.
Dates ==
    /\ now \in Nat
    /\ requestedAt \in [Request -> Nat \cup {None}]
    /\ \A f \in Request : Calling(f) => requestedAt[f] \in Nat
    /\ \A p \in Path : \A k \in Keys(cache[p]) : EntryInBounds(cache[p].at[k])

\* Stronger than IndInv, with what NoForeignCredential and CachedTokenIsGood need.
DatedInv == IndInv /\ Decisions /\ Dates

\* The type facts about the sentinel and the bounds, each under a name.
LEMMA SentinelAndBounds ==
    /\ None \notin Nat
    /\ None \notin Int
    /\ Ttl \in Nat /\ Margin \in Nat
    /\ Lifetime \subseteq Int \cup {None}
    /\ AssertionExp \in [Assertion -> Nat \cup {None}]
    /\ AllowedIssuer \subseteq Assertion
BY CredentialAssumption, PolicyAssumption

\* A bound that may be missing.
OptionalBound(X) == X = {} \/ \E i \in Int : X = {i}

\* The least of three bounds, two of them optional, is under each.
LEMMA MinOfBounds ==
    ASSUME NEW a \in Int, NEW X, NEW Y, OptionalBound(X), OptionalBound(Y)
    PROVE  LET m == Min({a} \cup X \cup Y)
           IN  m \in Int /\ \A b \in {a} \cup X \cup Y : m <= b
<1> DEFINE S == {a} \cup X \cup Y
<1>1. \E m \in S : \A b \in S : m <= b
  <2>1. PICK i \in Int : X \subseteq {i}
    BY DEF OptionalBound
  <2>2. PICK j \in Int : Y \subseteq {j}
    BY DEF OptionalBound
  <2>3. S \subseteq {a, i, j} /\ S \subseteq Int
    BY <2>1, <2>2
  <2>4. a \in S
    OBVIOUS
  <2> HIDE DEF S
  <2>5. CASE i \in S /\ i <= a /\ (j \in S => i <= j)
    BY <2>3, <2>5
  <2>6. CASE j \in S /\ j <= a /\ (i \in S => j <= i)
    BY <2>3, <2>6
  <2>7. CASE (i \in S => a <= i) /\ (j \in S => a <= j)
    BY <2>3, <2>4, <2>7
  <2> QED BY <2>3, <2>4, <2>5, <2>6, <2>7
<1>2. S \subseteq Int
  BY DEF OptionalBound
<1> HIDE DEF S
<1>3. Min(S) \in S /\ \A b \in S : Min(S) <= b
  BY <1>1 DEF Min
<1> QED BY <1>2, <1>3 DEF S

\* Before the first request nothing is decided and nothing held.
LEMMA InitDated == Init => DatedInv
<1> SUFFICES ASSUME Init PROVE DatedInv
  OBVIOUS
<1>1. \A p \in Path : Keys(cache[p]) = {}
  BY DEF Init, EmptyMap, Keys
<1>2. Decisions
  BY DEF Init, Decisions
<1>3. Dates
  BY <1>1, NoneIsNot DEF Init, Dates, Calling
<1> QED BY <1>2, <1>3, InitInv DEF DatedInv

\* Nothing was decided, asked or dated for a request that has not arrived.
LEMMA NewcomerUndated ==
    ASSUME DatedInv, NEW r \in Request, NEW in \in Inputs, Arrives(r, in)
    PROVE  /\ outcome[r] = None /\ awaits[r] = None /\ requestedAt[r] = None
           /\ input'[r] = in /\ in # None
           /\ \A x \in Request : x # r => input'[x] = input[x]
BY NoneIsNot DEF DatedInv, Decisions, Arrives, IndInv

\* Arriving, with or without a call of its own, moves no entry's bounds.
LEMMA EntriesStay ==
    ASSUME DatedInv, NEW r \in Request, NEW in \in Inputs, Arrives(r, in),
           \A x \in Request : x # r => requestedAt'[x] = requestedAt[x],
           \A p \in Path : \A k \in Keys(cache'[p]) :
              k \in Keys(cache[p]) /\ cache'[p].at[k] = cache[p].at[k]
    PROVE  \A p \in Path : \A k \in Keys(cache'[p]) : EntryInBounds(cache[p].at[k])'
<1> SUFFICES ASSUME NEW p \in Path, NEW k \in Keys(cache'[p])
             PROVE  EntryInBounds(cache[p].at[k])'
  OBVIOUS
<1>1. EntryInBounds(cache[p].at[k])
  BY DEF DatedInv, Dates
<1> DEFINE by == cache[p].at[k].value.by
<1>2. by \in Request /\ by # r
  BY <1>1, NewcomerUndated, SentinelAndBounds DEF EntryInBounds
<1>3. /\ cache'[p].at[k] = cache[p].at[k]
      /\ input'[by] = input[by] /\ requestedAt'[by] = requestedAt[by]
  BY <1>2, NewcomerUndated
<1> QED BY <1>1, <1>3 DEF EntryInBounds

\* A request decided on its own gets an outcome that fits it.
LEMMA DecidedDated ==
    ASSUME DatedInv, NEW r \in Request, NEW in \in Inputs, Decided(r, in)
    PROVE  DatedInv'
<1> USE DEF Decided
<1>1. IndInv'
  BY DecidedInv DEF DatedInv
<1>2. OutcomeFits(in, outcome'[r])
  BY DEF DatedInv, IndInv, OutcomeFits, Refusal, Respond
<1>3. \A x \in Request : x # r => outcome'[x] = outcome[x]
  BY DEF DatedInv, IndInv
<1>4. Decisions'
  BY <1>2, <1>3, NewcomerUndated DEF DatedInv, Decisions
<1>5. Dates'
  BY EntriesStay DEF DatedInv, Dates, Calling
<1> QED BY <1>1, <1>4, <1>5 DEF DatedInv

\* A cache hit decides an injection for a request that asks.
LEMMA CacheHitDated ==
    ASSUME DatedInv, NEW r \in Request, NEW in \in Inputs, CacheHit(r, in)
    PROVE  DatedInv'
<1> USE DEF CacheHit
<1>1. IndInv'
  BY CacheHitInv DEF DatedInv
<1>2. OutcomeFits(in, outcome'[r])
  BY DEF DatedInv, IndInv, OutcomeFits, Inject
<1>3. \A x \in Request : x # r => outcome'[x] = outcome[x]
  BY DEF DatedInv, IndInv
<1>4. Decisions'
  BY <1>2, <1>3, NewcomerUndated DEF DatedInv, Decisions
<1>5. Dates'
  BY EntriesStay DEF DatedInv, Dates, Calling
<1> QED BY <1>1, <1>4, <1>5 DEF DatedInv

\* A request that joins makes no call of its own.
LEMMA JoinsDated ==
    ASSUME DatedInv, NEW r \in Request, NEW in \in Inputs, Joins(r, in)
    PROVE  DatedInv'
<1> USE DEF Joins
<1>1. IndInv'
  BY JoinsInv DEF DatedInv
<1>2. pending[CacheKey(in)] \in Request /\ pending[CacheKey(in)] # r
  BY NewcomerUndated, NoneIsNot DEF DatedInv, IndInv, NoPinnedFlight, Calling
<1>3. \A x \in Request : x # r => awaits'[x] = awaits[x]
  BY DEF DatedInv, IndInv
<1>4. Decisions'
  BY <1>3, NewcomerUndated DEF DatedInv, Decisions
<1>5. \A f \in Request : Calling(f)' => Calling(f)
  BY <1>2, <1>3 DEF DatedInv, IndInv, Calling
<1>6. Dates'
  BY <1>5, EntriesStay, LookupKeeps DEF DatedInv, Dates
<1> QED BY <1>1, <1>4, <1>6 DEF DatedInv

\* A call that starts is dated with the clock.
LEMMA StartsDated ==
    ASSUME DatedInv, NEW r \in Request, NEW in \in Inputs, Starts(r, in)
    PROVE  DatedInv'
<1> USE DEF Starts
<1>1. IndInv'
  BY StartsInv DEF DatedInv
<1>2. \A x \in Request : x # r => awaits'[x] = awaits[x] /\ requestedAt'[x] = requestedAt[x]
  BY DEF DatedInv, IndInv, Dates
<1>3. requestedAt' \in [Request -> Nat \cup {None}] /\ requestedAt'[r] \in Nat
  BY DEF DatedInv, Dates
<1>4. Decisions'
  BY <1>2, NewcomerUndated DEF DatedInv, Decisions
<1>5. \A f \in Request : Calling(f)' => requestedAt'[f] \in Nat
  BY <1>2, <1>3 DEF DatedInv, Dates, Calling
<1>6. Dates'
  BY <1>2, <1>3, <1>5, EntriesStay, LookupKeeps DEF DatedInv, Dates
<1> QED BY <1>1, <1>4, <1>6 DEF DatedInv

\* What a settled call leaves: the waiters are answered and nobody newly waits.
LEMMA SettledDecisions ==
    ASSUME DatedInv, NEW f \in Request, Calling(f), NEW out,
           out.kind = "respond" \/ out.kind = "inject",
           Conclude(Waiters(f), out), UNCHANGED <<input, requestedAt>>
    PROVE  /\ Decisions'
           /\ \A x \in Request : Calling(x)' => Calling(x)
<1>1. \A x \in Request :
         /\ awaits'[x] = IF awaits[x] = f THEN None ELSE awaits[x]
         /\ outcome'[x] = IF awaits[x] = f THEN out ELSE outcome[x]
  BY DEF Conclude, Waiters
<1>2. \A x \in Request : awaits[x] = f => input[x] # None /\ AsksProvider(input[x])
  BY NoneIsNot DEF DatedInv, Decisions
<1>3. Decisions'
  BY <1>1, <1>2 DEF DatedInv, Decisions, OutcomeFits
<1>4. \A x \in Request : Calling(x)' => Calling(x)
  BY <1>1, NoneIsNot DEF Calling
<1> QED BY <1>3, <1>4

\* The entry a grant may leave is within every bound of its token.
LEMMA GrantInBounds ==
    ASSUME DatedInv, NEW f \in Request, Calling(f), NEW e \in Lifetime, MayCache(f, e)
    PROVE  EntryInBounds([value |-> [by |-> f, expiresIn |-> e],
                          expiresAt |-> ExpiresAt(f, e)])
<1> DEFINE exp == NotAfter(input[f])
           asked == requestedAt[f]
           X == IF e = None THEN {} ELSE {asked + e}
           Y == IF exp = None THEN {} ELSE {exp}
<1>1. asked \in Nat /\ input[f] # None /\ AsksProvider(input[f])
  BY NoneIsNot DEF DatedInv, Dates, Decisions, Calling
<1>2. e \in Int \cup {None}
  BY SentinelAndBounds
<1>3. exp \in Nat \cup {None}
  BY <1>1, SentinelAndBounds DEF NotAfter, AsksProvider
<1>4. HandsOff(input[f]) => exp # None
  BY DEF MayCache
<1>5. ExpiresAt(f, e) = Min({asked + Ttl} \cup X \cup Y) - Margin
  BY DEF ExpiresAt
<1> DEFINE least == Min({asked + Ttl} \cup X \cup Y)
<1>6. least \in Int /\ \A b \in {asked + Ttl} \cup X \cup Y : least <= b
  <2>1. asked + Ttl \in Int
    BY <1>1, SentinelAndBounds
  <2>2. OptionalBound(X)
    <3>1. CASE e = None
      BY <3>1 DEF OptionalBound
    <3>2. CASE e # None
      <4>1. X = {asked + e} /\ asked + e \in Int
        BY <1>1, <1>2, <3>2
      <4> HIDE DEF X
      <4> QED BY <4>1 DEF OptionalBound
    <3> QED BY <3>1, <3>2
  <2>3. OptionalBound(Y)
    BY <1>3 DEF OptionalBound
  <2> DEFINE first == asked + Ttl
  <2> HIDE DEF X, Y, first
  <2>4. first \in Int
    BY <2>1 DEF first
  <2>5. Min({first} \cup X \cup Y) \in Int
        /\ \A b \in {first} \cup X \cup Y : Min({first} \cup X \cup Y) <= b
    BY <2>2, <2>3, <2>4, MinOfBounds
  <2> QED BY <2>5 DEF first
<1>7. /\ least <= asked + Ttl
      /\ e # None => least <= asked + e
      /\ HandsOff(input[f]) => exp \in Nat /\ least <= exp
  <2> HIDE DEF least
  <2> QED BY <1>3, <1>4, <1>6
<1> HIDE DEF least, asked, exp, X, Y
<1>8. /\ ExpiresAt(f, e) \in Int
      /\ ExpiresAt(f, e) <= asked + Ttl - Margin
      /\ e # None => ExpiresAt(f, e) <= asked + e - Margin
      /\ HandsOff(input[f]) => exp \in Nat /\ ExpiresAt(f, e) <= exp - Margin
  BY <1>1, <1>2, <1>5, <1>6, <1>7, SentinelAndBounds DEF least
<1> QED BY <1>1, <1>2, <1>8 DEF EntryInBounds, asked, exp

\* A grant answers requests that asked, and leaves an entry within its bounds.
LEMMA GrantReturnsDated ==
    ASSUME DatedInv, NEW f \in Request, NEW e \in Lifetime, GrantReturns(f, e)
    PROVE  DatedInv'
<1> DEFINE token == [by |-> f, expiresIn |-> e]
           entry == [value |-> token, expiresAt |-> ExpiresAt(f, e)]
           path == PathOf(input[f])
<1> USE DEF GrantReturns
<1>1. IndInv'
  BY GrantReturnsInv DEF DatedInv
<1>2. Inject(token).kind = "inject"
  BY DEF Inject
<1>3. Decisions' /\ \A x \in Request : Calling(x)' => Calling(x)
  BY <1>2, SettledDecisions
<1>4. \A x : EntryInBounds(x) => EntryInBounds(x)'
  BY DEF EntryInBounds, NotAfter
<1>5. \A p \in Path : \A k \in Keys(cache'[p]) : EntryInBounds(cache'[p].at[k])
  <2>1. CASE MayCache(f, e)
    <3>1. cache' = [cache EXCEPT ![path] =
                       TokenSet(cache[path], CacheKey(input[f]), entry, now, MaxEntries)]
      BY <2>1 DEF AfterGrant
    <3>2. cache = [q \in Path |-> cache[q]]
      BY DEF DatedInv, IndInv
    <3>3. \A q \in Path :
             cache'[q] = IF q = path
                         THEN TokenSet(cache[q], CacheKey(input[f]), entry, now, MaxEntries)
                         ELSE cache[q]
      BY <3>1, <3>2
    <3>4. EntryInBounds(entry)
      BY <2>1, GrantInBounds
    <3> HIDE DEF entry, path
    <3> SUFFICES ASSUME NEW q \in Path, NEW k \in Keys(cache'[q])
                 PROVE  EntryInBounds(cache'[q].at[k])
      OBVIOUS
    <3>5. \/ cache'[q].at[k] = entry
          \/ k \in Keys(cache[q]) /\ cache'[q].at[k] = cache[q].at[k]
      BY <3>3, TokenSetWrites
    <3> QED BY <3>4, <3>5 DEF DatedInv, Dates
  <2>2. CASE ~ MayCache(f, e)
    BY <2>2 DEF AfterGrant, DatedInv, Dates
  <2> QED BY <2>1, <2>2
<1>6. Dates'
  BY <1>3, <1>4, <1>5 DEF DatedInv, Dates
<1> QED BY <1>1, <1>3, <1>6 DEF DatedInv

\* A failed call answers requests that asked, and leaves the cache alone.
LEMMA GrantFailsDated ==
    ASSUME DatedInv, NEW f \in Request, GrantFails(f)
    PROVE  DatedInv'
<1> USE DEF GrantFails
<1>1. IndInv'
  BY GrantFailsInv DEF DatedInv
<1>2. Decisions' /\ \A x \in Request : Calling(x)' => Calling(x)
  BY SettledDecisions DEF Respond
<1>3. \A x : EntryInBounds(x) => EntryInBounds(x)'
  BY DEF EntryInBounds, NotAfter
<1>4. Dates'
  BY <1>2, <1>3 DEF DatedInv, Dates
<1> QED BY <1>1, <1>2, <1>4 DEF DatedInv

\* The clock moves and nothing else, or nothing moves at all.
LEMMA UnmovedDated ==
    ASSUME DatedInv, Tick \/ UNCHANGED vars
    PROVE  DatedInv'
<1>1. UNCHANGED <<cache, pending, input, awaits, requestedAt, outcome>> /\ now' \in Nat
  BY DEF Tick, vars, DatedInv, Dates
<1>2. IndInv'
  BY <1>1, UnmovedInv DEF DatedInv
<1>3. Decisions'
  BY <1>1 DEF DatedInv, Decisions
<1>4. \A x : EntryInBounds(x) => EntryInBounds(x)'
  BY <1>1 DEF EntryInBounds, NotAfter
<1>5. Dates'
  BY <1>1, <1>4 DEF DatedInv, Dates, Calling
<1> QED BY <1>2, <1>3, <1>5 DEF DatedInv

\* In every reachable state each outcome fits its request, only requests that
\* may ask have calls, and each cache entry ends within its token's bounds.
THEOREM DatedInvariance == Spec => []DatedInv
<1>1. DatedInv /\ [Next]_vars => DatedInv'
  <2> SUFFICES ASSUME DatedInv, [Next]_vars PROVE DatedInv'
    OBVIOUS
  <2>1. ASSUME NEW r \in Request, NEW in \in Inputs,
               Decided(r, in) \/ CacheHit(r, in) \/ Joins(r, in) \/ Starts(r, in)
        PROVE  DatedInv'
    BY <2>1, DecidedDated, CacheHitDated, JoinsDated, StartsDated
  <2>2. ASSUME NEW f \in Request, Settles(f) PROVE DatedInv'
    BY <2>2, GrantReturnsDated, GrantFailsDated DEF Settles
  <2> QED BY <2>1, <2>2, UnmovedDated DEF Next
<1> QED BY InitDated, <1>1, PTL DEF Spec

\* Where the router exchanges or strips, what reaches the upstream is a token
\* of the proxy's or no credential; with two credentials nothing is even asked.
THEOREM NoForeignCredentialHolds == Spec => []NoForeignCredential
<1>1. DatedInv => NoForeignCredential
  <2> SUFFICES ASSUME DatedInv, NEW r \in Request, input[r] # None,
                      input[r].router \in Exchange \cup Strip
               PROVE  /\ Forwarded(r) => UpstreamAuthorization(r) = NoHeader \/ Injected(r)
                      /\ HandsOff(input[r]) /\ input[r].session # "absent" =>
                            ~ Forwarded(r) /\ requestedAt[r] = None /\ awaits[r] = None
    BY DEF NoForeignCredential
  <2>1. outcome[r] # None => OutcomeFits(input[r], outcome[r])
    BY DEF DatedInv, Decisions
  <2>2. ASSUME Forwarded(r), ~ Injected(r) PROVE UpstreamAuthorization(r) = NoHeader
    <3>1. ~ HandsOff(input[r]) /\ outcome[r] = ForwardWithoutInjection(input[r])
      BY <2>1, <2>2 DEF Forwarded, Injected, OutcomeFits
    <3>2. CASE input[r].authorization = NoHeader
      <4>1. outcome[r].kind = "forward"
        BY <3>1, <3>2 DEF ForwardWithoutInjection
      <4> QED BY <3>2, <4>1 DEF UpstreamAuthorization
    <3>3. CASE input[r].authorization # NoHeader
      <4>1. outcome[r].kind = "forward_stripped"
        BY <3>1, <3>3 DEF ForwardWithoutInjection, HandsOff
      <4> QED BY <4>1 DEF UpstreamAuthorization
    <3> QED BY <3>2, <3>3
  <2>3. ASSUME HandsOff(input[r]), input[r].session # "absent"
        PROVE  ~ Forwarded(r) /\ requestedAt[r] = None /\ awaits[r] = None
    <3>1. ~ AsksProvider(input[r])
      BY <2>3 DEF AsksProvider
    <3>2. requestedAt[r] = None /\ awaits[r] = None
      BY <3>1 DEF DatedInv, Decisions
    <3> QED BY <2>1, <2>3, <3>1, <3>2 DEF Forwarded, OutcomeFits
  <2> QED BY <2>2, <2>3
<1> QED BY DatedInvariance, <1>1, PTL

\* A token handed out of the cache is inside its lifetime, the ttl and the
\* assertion's exp by the margin, all counted from when it was asked for.
THEOREM CachedTokenIsGoodHolds == Spec => CachedTokenIsGood
<1> DEFINE Good(r) ==
      input[r] = None /\ outcome'[r] # outcome[r] /\ outcome'[r].kind = "inject" =>
        LET token == outcome'[r].token
            exp == NotAfter(input[token.by])
            asked == requestedAt[token.by]
        IN  /\ token.expiresIn # None => now < asked + token.expiresIn - Margin
            /\ now < asked + Ttl - Margin
            /\ HandsOff(input[token.by]) => exp # None /\ now < exp - Margin
    A == \A r \in Request : Good(r)
<1>1. DatedInv /\ [Next]_vars => [A]_vars
  <2> SUFFICES ASSUME DatedInv, Next, NEW r \in Request, input[r] = None,
                      outcome'[r] # outcome[r], outcome'[r].kind = "inject"
               PROVE  Good(r)
    OBVIOUS
  <2>1. ASSUME NEW s \in Request, NEW in \in Inputs, Decided(s, in) PROVE Good(r)
    <3>1. s = r
      BY <2>1 DEF Decided, DatedInv, IndInv
    <3>2. outcome'[r].kind # "inject"
      BY <2>1, <3>1
         DEF Decided, DatedInv, IndInv, Refusal, Respond, ForwardWithoutInjection
    <3> QED BY <3>2
  <2>2. ASSUME NEW s \in Request, NEW in \in Inputs, CacheHit(s, in) PROVE Good(r)
    <3> DEFINE e == cache[PathOf(in)].at[CacheKey(in)]
    <3>1. s = r
      BY <2>2 DEF CacheHit, DatedInv, IndInv
    <3>2. outcome'[r].token = e.value
      BY <2>2, <3>1 DEF CacheHit, DatedInv, IndInv, Inject
    <3>3. EntryInBounds(e) /\ now < e.expiresAt
      BY <2>2 DEF CacheHit, Cached, LiveToken, PathOf, Path, DatedInv, Dates
    <3>4. now \in Nat /\ Margin \in Nat /\ Ttl \in Nat /\ None \notin Nat
      BY SentinelAndBounds DEF DatedInv, Dates
    <3> HIDE DEF e
    <3> QED BY <3>2, <3>3, <3>4 DEF EntryInBounds
  <2>3. ASSUME NEW s \in Request, NEW in \in Inputs, Joins(s, in) \/ Starts(s, in)
        PROVE  Good(r)
    BY <2>3 DEF Joins, Starts
  <2>4. ASSUME NEW f \in Request, Settles(f) PROVE Good(r)
    <3>1. awaits[r] # f
      BY NoneIsNot DEF DatedInv, Decisions
    <3>2. outcome'[r] = outcome[r]
      BY <2>4, <3>1 DEF Settles, GrantReturns, GrantFails, Conclude, Waiters
    <3> QED BY <3>2
  <2>5. CASE Tick
    BY <2>5 DEF Tick
  <2> HIDE DEF Good
  <2> QED BY <2>1, <2>2, <2>3, <2>4, <2>5 DEF Next
<1>2. [][A]_vars <=> CachedTokenIsGood
  BY DEF CachedTokenIsGood
<1> QED BY DatedInvariance, <1>1, <1>2, PTL DEF Spec

=============================================================================
