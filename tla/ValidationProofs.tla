-------------------------- MODULE ValidationProofs --------------------------
(***************************************************************************)
(* How often the provider is asked about a token, what the cache may hold  *)
(* of its answers, and which request may pass on them: for any number of   *)
(* requests and tokens, every lifetime, timeout and expiry.                *)
(***************************************************************************)
EXTENDS Validation, CacheLemmas

----------------------------------------------------------------------------
(* The inductive invariant.                                                *)

Types ==
    /\ config \in [ttl : Nat, client : BOOLEAN] /\ now \in Nat
    /\ input \in [Request -> Header \cup {None}]
    /\ awaits \in [Request -> Request \cup {None}]
    /\ askedAt \in [Request -> Nat \cup {None}]
    /\ answer \in [Request -> Answer \cup {None}]
    /\ revokedAt \in [Token -> Nat \cup {None}]
    /\ outcome \in [Request -> Status \cup {None}]

\* The table and the calls in progress name each other, and who waits waits for a
\* call about its own token.
Flights ==
    /\ \A t \in DOMAIN pending :
          t \in Token /\ pending[t] \in Request /\ Calling(pending[t]) /\ input[pending[t]] = t
    /\ \A f \in Request : Calling(f) => input[f] \in DOMAIN pending /\ pending[input[f]] = f
    /\ \A r \in Request : awaits[r] # None =>
          Calling(awaits[r]) /\ input[awaits[r]] = input[r] /\ outcome[r] = None
    /\ \A r \in Request : input[r] = None => awaits[r] = None /\ outcome[r] = None

\* A call is never older than the timeout, and an "active" was decided before the
\* token was revoked.
Calls ==
    \A f \in Request :
        /\ Calling(f) => askedAt[f] \in Nat /\ askedAt[f] <= now /\ now <= askedAt[f] + Timeout
        /\ answer[f] # None => Calling(f)
        /\ answer[f] = "active" /\ revokedAt[input[f]] # None => askedAt[f] <= revokedAt[input[f]]

\* What an entry e about t may say at instant n, with revocations at rev and lifetime ttl.
SoundEntry(t, e, n, rev, ttl) ==
    /\ e.value \in {"active", "inactive"} /\ e.expiresAt \in Nat /\ e.expiresAt <= n + ttl
    /\ e.value = "active" =>
          /\ TokenExp[t] # None => e.expiresAt <= TokenExp[t]
          /\ rev[t] # None => e.expiresAt <= rev[t] + ttl

\* An entry lives no longer than the token, nor than its lifetime after a revocation.
Statements ==
    \A t \in Keys(cache) : t \in Token /\ SoundEntry(t, cache.at[t], now, revokedAt, config.ttl)

ValidationInv == Types /\ Flights /\ Calls /\ Statements

\* What the proofs need of the sentinel.
LEMMA NoneIsNot ==
    /\ None \notin Request /\ None \notin Token /\ None \notin Header /\ None \notin Answer
    /\ None \notin Status /\ None \notin Nat
    /\ Request \subseteq Nat
    /\ Token \subseteq Header /\ "none" \notin Token /\ "malformed" \notin Token
<1>1. Request \subseteq Nat
  BY ConfigAssumption DEF Request
<1> QED BY <1>1, SentinelAssumption DEF Header

----------------------------------------------------------------------------
(* A request arrives.                                                      *)

\* Before the first request nothing is held.
LEMMA InitInv == Init => ValidationInv
<1> SUFFICES ASSUME Init PROVE ValidationInv
  OBVIOUS
<1>1. Types
  BY ConfigAssumption DEF Init, Types
<1>2. /\ DOMAIN pending = {}
      /\ \A r \in Request : /\ input[r] = None /\ awaits[r] = None /\ outcome[r] = None
                             /\ answer[r] = None /\ None # "active" /\ r # None
  BY NoneIsNot DEF Init, Answer
<1>3. Flights
  BY <1>2 DEF Flights, Calling
<1>4. Calls
  BY <1>2 DEF Calls, Calling
<1>5. Statements
  BY DEF Init, Statements, EmptyMap, Keys
<1> QED BY <1>1, <1>3, <1>4, <1>5 DEF ValidationInv

\* Nobody waits for a request that has not arrived, and it has no call or outcome.
LEMMA Newcomer ==
    ASSUME ValidationInv, NEW r \in Request, NEW in, Arrives(r, in)
    PROVE  /\ in \in Header /\ in # None /\ input[r] = None
           /\ awaits[r] = None /\ outcome[r] = None /\ answer[r] = None
           /\ \A x \in Request : awaits[x] # r
           /\ input' \in [Request -> Header \cup {None}]
           /\ input'[r] = in
           /\ \A x \in Request \ {r} : input'[x] = input[x]
<1>1. in \in Header /\ in # None /\ input[r] = None /\ input' = [input EXCEPT ![r] = in]
  BY NoneIsNot DEF Arrives
<1>2. awaits[r] = None /\ outcome[r] = None
  BY <1>1 DEF ValidationInv, Flights
<1>3. answer[r] = None
  BY <1>2, NoneIsNot DEF ValidationInv, Calls, Calling
<1>4. \A x \in Request : awaits[x] # r
  BY <1>2, NoneIsNot DEF ValidationInv, Flights, Calling
<1> QED BY <1>1, <1>2, <1>3, <1>4 DEF ValidationInv, Types

\* A request answered on arrival touches no call.
LEMMA AnsweredAtOnceInv ==
    ASSUME ValidationInv, NEW r \in Request, NEW in, Arrives(r, in),
           NEW s \in Status, outcome' = [outcome EXCEPT ![r] = s],
           UNCHANGED <<config, now, cache, flight, answer, revokedAt>>
    PROVE  ValidationInv'
<1> USE DEF flight
<1>1. Types'
  BY Newcomer DEF ValidationInv, Types
<1>2. Flights'
  <2>1. \A x \in Request \ {r} : outcome'[x] = outcome[x]
    BY DEF ValidationInv, Types
  <2>2. \A f \in Request : Calling(f)' <=> Calling(f)
    BY DEF Calling
  <2>3. \A f \in Request : Calling(f) => f # r
    BY Newcomer DEF Calling
  <2>4. \A t \in DOMAIN pending' :
           t \in Token /\ pending'[t] \in Request /\ Calling(pending[t])' /\ input'[pending'[t]] = t
    BY <2>2, <2>3, Newcomer DEF ValidationInv, Flights
  <2>5. \A f \in Request : Calling(f)' => input'[f] \in DOMAIN pending' /\ pending'[input'[f]] = f
    BY <2>2, <2>3, Newcomer DEF ValidationInv, Flights
  <2>6. \A x \in Request : awaits'[x] # None =>
           Calling(awaits[x])' /\ input'[awaits'[x]] = input'[x] /\ outcome'[x] = None
    <3> SUFFICES ASSUME NEW x \in Request, awaits[x] # None
                 PROVE  Calling(awaits[x])' /\ input'[awaits[x]] = input'[x] /\ outcome'[x] = None
      OBVIOUS
    <3>1. x # r /\ awaits[x] # r /\ awaits[x] \in Request
      BY Newcomer DEF ValidationInv, Types
    <3> QED BY <2>1, <2>2, <3>1, Newcomer DEF ValidationInv, Flights
  <2>7. \A x \in Request : input'[x] = None => awaits'[x] = None /\ outcome'[x] = None
    BY <2>1, Newcomer DEF ValidationInv, Flights
  <2> QED BY <2>4, <2>5, <2>6, <2>7 DEF Flights
<1>3. Calls'
  <2> SUFFICES ASSUME NEW f \in Request
               PROVE  /\ Calling(f)' => askedAt'[f] \in Nat /\ askedAt'[f] <= now' /\ now' <= askedAt'[f] + Timeout
                      /\ answer'[f] # None => Calling(f)'
                      /\ answer'[f] = "active" /\ revokedAt'[input'[f]] # None => askedAt'[f] <= revokedAt'[input'[f]]
    BY DEF Calls
  <2>1. answer[f] = "active" => f # r
    BY Newcomer, NoneIsNot DEF Answer
  <2> QED BY <2>1, Newcomer DEF ValidationInv, Calls, Calling
<1>4. Statements'
  BY DEF ValidationInv, Statements
<1> QED BY <1>1, <1>2, <1>3, <1>4 DEF ValidationInv

\* What decideValidation makes of a reading.
LEMMA StatusForIs ==
    ASSUME ValidationInv
    PROVE  /\ StatusFor("active") = "forward" /\ StatusFor("inactive") = "401"
           /\ StatusFor("401") = IF config.client THEN "502" ELSE "401"
           /\ StatusFor("failure") = "502" /\ StatusFor("threw") = "500"
           /\ \A x \in {"active", "inactive", "401", "failure", "threw"} : StatusFor(x) \in Status
BY DEF StatusFor, Status, ValidationInv, Types

\* A served entry is a statement about the token, still alive.
LEMMA ServedEntry ==
    ASSUME ValidationInv, NEW t \in Token, Cached(t)
    PROVE  /\ t \in Keys(cache) /\ SoundEntry(t, cache.at[t], now, revokedAt, config.ttl)
           /\ now < cache.at[t].expiresAt
BY DEF ValidationInv, Statements, Cached, LiveResult, Types, SoundEntry

\* The three ways to be answered on arrival.
LEMMA AtOnceInv ==
    ASSUME ValidationInv, NEW r \in Request,
           Unauthenticated(r) \/ Malformed(r) \/ \E t \in Token : CacheHit(r, t)
    PROVE  ValidationInv'
<1>1. CASE Unauthenticated(r)
  <2>1. "forward" \in Status
    BY DEF Status
  <2> QED BY <1>1, <2>1, AnsweredAtOnceInv DEF Unauthenticated
<1>2. CASE Malformed(r)
  <2>1. "400" \in Status
    BY DEF Status
  <2> QED BY <1>2, <2>1, AnsweredAtOnceInv DEF Malformed
<1>3. ASSUME NEW t \in Token, CacheHit(r, t) PROVE ValidationInv'
  <2>1. cache.at[t].value \in {"active", "inactive"}
    BY <1>3, ServedEntry DEF CacheHit, SoundEntry
  <2>2. StatusFor(cache.at[t].value) \in Status
    BY <2>1, StatusForIs
  <2> QED BY <1>3, <2>2, AnsweredAtOnceInv DEF CacheHit
<1> QED BY <1>1, <1>2, <1>3

\* A request that joins the call its token already has.
LEMMA JoinsInv ==
    ASSUME ValidationInv, NEW r \in Request, NEW t \in Token, Joins(r, t)
    PROVE  ValidationInv'
<1> DEFINE f == pending[t]
<1>1. /\ Arrives(r, t) /\ t \in DOMAIN pending /\ awaits' = [awaits EXCEPT ![r] = f]
      /\ UNCHANGED <<config, now, cache, pending, askedAt, answer, revokedAt, outcome>>
  BY DEF Joins
<1>2. f \in Request /\ Calling(f) /\ input[f] = t
  BY <1>1 DEF ValidationInv, Flights
<1> HIDE DEF f
<1>3. f # r /\ t # None
  BY <1>1, <1>2, Newcomer, NoneIsNot
<1>4. Types'
  BY <1>1, <1>2, Newcomer DEF ValidationInv, Types
<1>5. awaits'[r] = f /\ \A x \in Request \ {r} : awaits'[x] = awaits[x]
  BY <1>1 DEF ValidationInv, Types
<1>6. \A g \in Request : Calling(g)' <=> Calling(g) /\ g # r
  BY <1>1, <1>3, <1>5, Newcomer, NoneIsNot DEF Calling
<1>7. \A g \in Request : Calling(g) => g # r /\ input'[g] = input[g]
  BY <1>1, Newcomer DEF Calling
<1>8. Flights'
  <2>1. \A u \in DOMAIN pending' :
           u \in Token /\ pending'[u] \in Request /\ Calling(pending[u])' /\ input'[pending'[u]] = u
    BY <1>1, <1>6, <1>7 DEF ValidationInv, Flights
  <2>2. \A g \in Request : Calling(g)' => input'[g] \in DOMAIN pending' /\ pending'[input'[g]] = g
    BY <1>1, <1>6, <1>7 DEF ValidationInv, Flights
  <2>3. ASSUME NEW x \in Request, awaits'[x] # None
        PROVE  Calling(awaits[x])' /\ input'[awaits'[x]] = input'[x] /\ outcome'[x] = None
    <3>1. CASE x = r
      BY <1>1, <1>2, <1>5, <1>6, <1>7, <3>1, Newcomer
    <3>2. CASE x # r
      <4>1. awaits'[x] = awaits[x] /\ awaits[x] \in Request /\ Calling(awaits[x])
        BY <1>5, <2>3, <3>2 DEF ValidationInv, Types, Flights
      <4>2. input[awaits[x]] = input[x] /\ outcome[x] = None /\ input'[x] = input[x]
        BY <1>1, <3>2, <4>1, <2>3, Newcomer DEF ValidationInv, Flights
      <4> QED BY <1>1, <1>6, <1>7, <4>1, <4>2
    <3> QED BY <3>1, <3>2
  <2>4. \A x \in Request : input'[x] = None => awaits'[x] = None /\ outcome'[x] = None
    BY <1>1, <1>3, <1>5, Newcomer DEF ValidationInv, Flights
  <2> QED BY <2>1, <2>2, <2>3, <2>4 DEF Flights
<1>9. Calls'
  <2>1. \A g \in Request : answer[g] # None => g # r
    BY <1>1, Newcomer
  <2>2. \A g \in Request : answer[g] = "active" => answer[g] # None
    BY NoneIsNot DEF Answer
  <2> QED BY <1>1, <1>6, <1>7, <2>1, <2>2 DEF ValidationInv, Calls
<1>10. Statements'
  BY <1>1 DEF ValidationInv, Statements
<1> QED BY <1>4, <1>8, <1>9, <1>10 DEF ValidationInv

\* A request that makes the call, there being none for its token.
LEMMA StartsInv ==
    ASSUME ValidationInv, NEW r \in Request, NEW t \in Token, Starts(r, t)
    PROVE  ValidationInv'
<1>1. /\ Arrives(r, t) /\ t \notin DOMAIN pending /\ pending' = Listed(t, r)
      /\ awaits' = [awaits EXCEPT ![r] = r] /\ askedAt' = [askedAt EXCEPT ![r] = now]
      /\ UNCHANGED <<config, now, cache, answer, revokedAt, outcome>>
  BY DEF Starts
<1>2. /\ DOMAIN pending' = DOMAIN pending \cup {t} /\ pending'[t] = r
      /\ \A u \in DOMAIN pending : pending'[u] = pending[u] /\ u # t
  BY <1>1 DEF Listed
<1>3. Types'
  BY <1>1, Newcomer DEF ValidationInv, Types
<1>4. /\ awaits'[r] = r /\ \A x \in Request \ {r} : awaits'[x] = awaits[x]
      /\ askedAt'[r] = now /\ \A x \in Request \ {r} : askedAt'[x] = askedAt[x]
  BY <1>1 DEF ValidationInv, Types
<1>5. \A g \in Request : Calling(g)' <=> Calling(g) \/ g = r
  BY <1>4 DEF Calling
<1>6. \A g \in Request : Calling(g) => g # r /\ input'[g] = input[g]
  BY <1>1, Newcomer DEF Calling
<1>7. Flights'
  <2>1. \A u \in DOMAIN pending' :
           u \in Token /\ pending'[u] \in Request /\ Calling(pending[u])' /\ input'[pending'[u]] = u
    <3> SUFFICES ASSUME NEW u \in DOMAIN pending'
                 PROVE  u \in Token /\ pending'[u] \in Request /\ Calling(pending[u])' /\ input'[pending'[u]] = u
      OBVIOUS
    <3>1. CASE u = t
      BY <1>1, <1>2, <1>4, <3>1, Newcomer DEF Calling
    <3>2. CASE u # t
      <4>1. u \in DOMAIN pending /\ pending'[u] = pending[u]
        BY <1>2, <3>2
      <4>2. u \in Token /\ pending[u] \in Request /\ Calling(pending[u]) /\ input[pending[u]] = u
        BY <4>1 DEF ValidationInv, Flights
      <4>3. awaits'[pending[u]] = pending[u] /\ input'[pending[u]] = u
        BY <1>4, <1>6, <4>2 DEF Calling
      <4> QED BY <4>1, <4>2, <4>3 DEF Calling
    <3> QED BY <3>1, <3>2
  <2>2. \A g \in Request : Calling(g)' => input'[g] \in DOMAIN pending' /\ pending'[input'[g]] = g
    BY <1>1, <1>2, <1>5, <1>6, Newcomer DEF ValidationInv, Flights
  <2>3. ASSUME NEW x \in Request, awaits'[x] # None
        PROVE  Calling(awaits[x])' /\ input'[awaits'[x]] = input'[x] /\ outcome'[x] = None
    <3>1. CASE x = r
      BY <1>1, <1>4, <3>1, Newcomer DEF Calling
    <3>2. CASE x # r
      <4>1. awaits'[x] = awaits[x] /\ awaits[x] \in Request /\ Calling(awaits[x])
        BY <1>4, <2>3, <3>2 DEF ValidationInv, Types, Flights
      <4>2. input[awaits[x]] = input[x] /\ outcome[x] = None /\ input'[x] = input[x]
        BY <1>1, <3>2, <4>1, <2>3, Newcomer DEF ValidationInv, Flights
      <4>3. Calling(awaits[x])' /\ input'[awaits[x]] = input[awaits[x]]
        BY <1>4, <1>6, <4>1 DEF Calling
      <4> QED BY <1>1, <4>1, <4>2, <4>3
    <3> QED BY <3>1, <3>2
  <2>4. \A x \in Request : input'[x] = None => awaits'[x] = None /\ outcome'[x] = None
    BY <1>1, <1>4, Newcomer, NoneIsNot DEF ValidationInv, Flights
  <2> QED BY <2>1, <2>2, <2>3, <2>4 DEF Flights
<1>8. Calls'
  <2> SUFFICES ASSUME NEW g \in Request
               PROVE  /\ Calling(g)' => askedAt'[g] \in Nat /\ askedAt'[g] <= now' /\ now' <= askedAt'[g] + Timeout
                      /\ answer'[g] # None => Calling(g)'
                      /\ answer'[g] = "active" /\ revokedAt'[input'[g]] # None => askedAt'[g] <= revokedAt'[input'[g]]
    BY DEF Calls
  <2>1. CASE g = r
    <3>1. answer[g] = None /\ answer[g] # "active"
      BY <1>1, <2>1, Newcomer, NoneIsNot DEF Answer
    <3> QED BY <1>1, <1>4, <2>1, <3>1, ConfigAssumption DEF ValidationInv, Types
  <2>2. CASE g # r
    BY <1>1, <1>4, <1>5, <2>2, Newcomer DEF ValidationInv, Calls
  <2> QED BY <2>1, <2>2
<1>9. Statements'
  BY <1>1 DEF ValidationInv, Statements
<1> QED BY <1>3, <1>7, <1>8, <1>9 DEF ValidationInv

----------------------------------------------------------------------------
(* The provider, and time.                                                 *)

\* The provider decides; an "active" is about a token not revoked.
LEMMA ProviderDecidesInv ==
    ASSUME ValidationInv, NEW f \in Request, ProviderDecides(f)
    PROVE  ValidationInv'
<1>1. PICK a \in Answer \ {"failure", "threw"} :
         (a = "active" => revokedAt[input[f]] = None) /\ answer' = [answer EXCEPT ![f] = a]
  BY DEF ProviderDecides
<1>2. Calling(f) /\ UNCHANGED <<config, now, cache, pending, awaits, askedAt, input, revokedAt, outcome>>
  BY DEF ProviderDecides, flight
<1>3. Types'
  BY <1>1, <1>2 DEF ValidationInv, Types
<1>4. Flights' /\ Statements'
  BY <1>2 DEF ValidationInv, Flights, Statements, Calling
<1>5. answer'[f] = a /\ \A g \in Request \ {f} : answer'[g] = answer[g]
  BY <1>1 DEF ValidationInv, Types
<1>6. Calls'
  BY <1>1, <1>2, <1>5 DEF ValidationInv, Calls, Calling
<1> QED BY <1>3, <1>4, <1>6 DEF ValidationInv

\* A revocation comes after every decision taken and every entry written so far.
LEMMA RevokeInv ==
    ASSUME ValidationInv, NEW t \in Token, Revoke(t)
    PROVE  ValidationInv'
<1>1. /\ revokedAt' = [revokedAt EXCEPT ![t] = now]
      /\ UNCHANGED <<config, now, cache, pending, awaits, askedAt, input, answer, outcome>>
  BY DEF Revoke, flight
<1>2. Types'
  BY <1>1 DEF ValidationInv, Types
<1>3. Flights'
  BY <1>1 DEF ValidationInv, Flights, Calling
<1>4. revokedAt'[t] = now /\ \A u \in Token \ {t} : revokedAt'[u] = revokedAt[u]
  BY <1>1 DEF ValidationInv, Types
<1>5. Calls'
  <2> SUFFICES ASSUME NEW f \in Request, answer[f] = "active", revokedAt'[input[f]] # None
               PROVE  askedAt[f] <= revokedAt'[input[f]]
    BY <1>1 DEF ValidationInv, Calls, Calling
  <2>1. Calling(f) /\ input[f] \in Token /\ askedAt[f] <= now
    BY NoneIsNot DEF ValidationInv, Calls, Flights, Answer
  <2> QED BY <1>4, <2>1 DEF ValidationInv, Calls
<1>6. Statements'
  <2> SUFFICES ASSUME NEW u \in Keys(cache)
               PROVE  u \in Token /\ SoundEntry(u, cache.at[u], now, revokedAt', config.ttl)
    BY <1>1 DEF Statements
  <2>1. u \in Token /\ SoundEntry(u, cache.at[u], now, revokedAt, config.ttl)
    BY DEF ValidationInv, Statements
  <2> QED BY <1>4, <2>1 DEF SoundEntry
<1> QED BY <1>2, <1>3, <1>5, <1>6 DEF ValidationInv

\* Time waits for calls about to time out.
LEMMA TickInv ==
    ASSUME ValidationInv, Tick
    PROVE  ValidationInv'
<1>1. /\ now' = now + 1 /\ now \in Nat /\ \A f \in Request : Calling(f) => now < askedAt[f] + Timeout
      /\ UNCHANGED <<config, cache, pending, awaits, askedAt, input, answer, revokedAt, outcome>>
  BY DEF Tick, flight, ValidationInv, Types
<1>2. Types' /\ Flights'
  BY <1>1 DEF ValidationInv, Types, Flights, Calling
<1>3. Calls'
  BY <1>1, ConfigAssumption DEF ValidationInv, Calls, Calling
<1>4. Statements'
  <2> SUFFICES ASSUME NEW u \in Keys(cache)
               PROVE  u \in Token /\ SoundEntry(u, cache.at[u], now + 1, revokedAt, config.ttl)
    BY <1>1 DEF Statements
  <2>1. u \in Token /\ SoundEntry(u, cache.at[u], now, revokedAt, config.ttl) /\ config.ttl \in Nat
    BY DEF ValidationInv, Statements, Types
  <2> QED BY <1>1, <2>1 DEF SoundEntry
<1> QED BY <1>2, <1>3, <1>4 DEF ValidationInv

----------------------------------------------------------------------------
(* A call ends.                                                            *)

\* Everyone in the flight resumes and the table forgets it; the others stay.
LEMMA SettleFlightInv ==
    ASSUME ValidationInv, NEW f \in Request, Calling(f), NEW reading, SettleFlight(f, reading),
           StatusFor(reading) \in Status, UNCHANGED <<config, now, input, revokedAt>>
    PROVE  Types' /\ Flights' /\ Calls'
<1> DEFINE s == StatusFor(reading)
<1>1. /\ pending' = [t \in DOMAIN pending \ {input[f]} |-> pending[t]]
      /\ outcome' = [r \in Request |-> IF r \in Waiters(f) THEN s ELSE outcome[r]]
      /\ awaits' = [r \in Request |-> IF r \in Waiters(f) THEN None ELSE awaits[r]]
      /\ askedAt' = [askedAt EXCEPT ![f] = None] /\ answer' = [answer EXCEPT ![f] = None]
  BY DEF SettleFlight, Conclude
<1>2. s \in Status
  OBVIOUS
<1> HIDE DEF s
<1>3. Types'
  BY <1>1, <1>2 DEF ValidationInv, Types
<1>4. /\ \A r \in Request : awaits[r] = f => awaits'[r] = None
      /\ \A r \in Request : awaits[r] # f => awaits'[r] = awaits[r] /\ outcome'[r] = outcome[r]
      /\ askedAt'[f] = None /\ \A r \in Request \ {f} : askedAt'[r] = askedAt[r]
      /\ answer'[f] = None /\ \A r \in Request \ {f} : answer'[r] = answer[r]
  BY <1>1 DEF Waiters, ValidationInv, Types
<1>5. \A g \in Request : Calling(g)' <=> Calling(g) /\ g # f
  BY <1>4, NoneIsNot DEF Calling
<1>6. Flights'
  <2>1. ASSUME NEW u \in DOMAIN pending'
        PROVE  u \in Token /\ pending'[u] \in Request /\ Calling(pending[u])' /\ input'[pending'[u]] = u
    <3>1. u \in DOMAIN pending /\ u # input[f] /\ pending'[u] = pending[u]
      BY <1>1
    <3>2. u \in Token /\ pending[u] \in Request /\ Calling(pending[u]) /\ input[pending[u]] = u
      BY <3>1 DEF ValidationInv, Flights
    <3>3. pending[u] # f
      BY <3>1, <3>2
    <3>4. awaits'[pending'[u]] = pending'[u]
      BY <1>4, <3>1, <3>2, <3>3 DEF Calling
    <3> QED BY <3>1, <3>2, <3>4 DEF Calling
  <2>2. ASSUME NEW g \in Request, Calling(g)'
        PROVE  input'[g] \in DOMAIN pending' /\ pending'[input'[g]] = g
    <3>1. Calling(g) /\ g # f
      BY <1>5, <2>2
    <3>2. /\ input[g] \in DOMAIN pending /\ pending[input[g]] = g
          /\ pending[input[f]] = f
      BY <3>1 DEF ValidationInv, Flights
    <3> QED BY <1>1, <3>1, <3>2
  <2>3. ASSUME NEW x \in Request, awaits'[x] # None
        PROVE  Calling(awaits[x])' /\ input'[awaits'[x]] = input'[x] /\ outcome'[x] = None
    <3>1. awaits[x] # f /\ awaits'[x] = awaits[x] /\ outcome'[x] = outcome[x]
      BY <1>4, <2>3
    <3>2. awaits[x] \in Request /\ Calling(awaits[x]) /\ input[awaits[x]] = input[x] /\ outcome[x] = None
      BY <2>3, <3>1 DEF ValidationInv, Types, Flights
    <3>3. awaits'[awaits'[x]] = awaits'[x]
      BY <1>4, <3>1, <3>2 DEF Calling
    <3> QED BY <3>1, <3>2, <3>3 DEF Calling
  <2>4. \A x \in Request : input'[x] = None => awaits'[x] = None /\ outcome'[x] = None
    BY <1>4, NoneIsNot DEF ValidationInv, Flights
  <2> QED BY <2>1, <2>2, <2>3, <2>4 DEF Flights
<1>7. Calls'
  <2> SUFFICES ASSUME NEW g \in Request
               PROVE  /\ Calling(g)' => askedAt'[g] \in Nat /\ askedAt'[g] <= now' /\ now' <= askedAt'[g] + Timeout
                      /\ answer'[g] # None => Calling(g)'
                      /\ answer'[g] = "active" /\ revokedAt'[input'[g]] # None => askedAt'[g] <= revokedAt'[input'[g]]
    BY DEF Calls
  <2>1. CASE g = f
    <3>1. None # "active"
      BY NoneIsNot DEF Answer
    <3> QED BY <1>4, <1>5, <2>1, <3>1
  <2>2. CASE g # f
    BY <1>4, <1>5, <2>2 DEF ValidationInv, Calls
  <2> QED BY <2>1, <2>2
<1> QED BY <1>3, <1>6, <1>7

\* The least of a pair.
LEMMA MinOfTwo ==
    ASSUME NEW a \in Nat, NEW b \in Nat
    PROVE  /\ Min({a} \cup {b}) \in Nat /\ Min({a} \cup {b}) <= a /\ Min({a} \cup {b}) <= b
           /\ Min({a} \cup {}) = a
<1>1. \E x \in {a} \cup {b} : \A y \in {a} \cup {b} : x <= y
  OBVIOUS
<1>2. Min({a} \cup {b}) \in {a} \cup {b} /\ \A y \in {a} \cup {b} : Min({a} \cup {b}) <= y
  BY <1>1 DEF Min
<1>3. \E x \in {a} \cup {} : \A y \in {a} \cup {} : x <= y
  OBVIOUS
<1>4. Min({a} \cup {}) \in {a} \cup {}
  BY <1>3 DEF Min
<1> QED BY <1>2, <1>4

\* What the introspector makes of an answer.
LEMMA ReadingIs ==
    ASSUME ValidationInv, NEW f \in Request, Calling(f), answer[f] # None
    PROVE  /\ input[f] \in Token /\ answer[f] \in Answer
           /\ Reading(f) \in {"active", "inactive", "401", "failure", "threw"}
           /\ Reading(f) = "active" => answer[f] = "active" /\ ~ ExpiredInFlight(f)
           /\ Reading(f) = "401" => answer[f] = "401"
           /\ Reading(f) = "inactive" => answer[f] \in {"bound", "inactive"} \/ ExpiredInFlight(f)
           /\ answer[f] \in {"active", "inactive"} /\ ~ ExpiredInFlight(f) => Reading(f) = answer[f]
           /\ ExpiredInFlight(f) => answer[f] = "active" /\ TokenExp[input[f]] <= now
<1>1. answer[f] \in Answer /\ input[f] \in Token
  BY DEF ValidationInv, Types, Flights
<1>2. ExpiredInFlight(f) => answer[f] = "active" /\ TokenExp[input[f]] <= now
  BY DEF ExpiredInFlight, ExpOf
<1>3. CASE answer[f] = "bound" \/ ExpiredInFlight(f)
  <2>1. Reading(f) = "inactive"
    BY <1>2, <1>3 DEF Reading
  <2> QED BY <1>1, <1>2, <1>3, <2>1
<1>4. CASE answer[f] = "bad_exp"
  <2>1. Reading(f) = "failure" /\ ~ ExpiredInFlight(f)
    BY <1>2, <1>4 DEF Reading
  <2> QED BY <1>1, <1>2, <1>4, <2>1
<1>5. CASE answer[f] \notin {"bound", "bad_exp"} /\ ~ ExpiredInFlight(f)
  <2>1. Reading(f) = answer[f]
    BY <1>5 DEF Reading
  <2> QED BY <1>1, <1>2, <1>5, <2>1 DEF Answer
<1> QED BY <1>3, <1>4, <1>5

\* What may be cached is sound: bounded by the token's exp, and by the lifetime
\* counted from before the call.
LEMMA WrittenIsSound ==
    ASSUME ValidationInv, NEW f \in Request, Calling(f), answer[f] # None, MayCache(f)
    PROVE  SoundEntry(input[f], [value |-> Reading(f), expiresAt |-> ExpiresAt(f)],
                      now, revokedAt, config.ttl)
<1> DEFINE a == askedAt[f] + config.ttl
           t == input[f]
           e == [value |-> Reading(f), expiresAt |-> ExpiresAt(f)]
<1>1. t \in Token /\ Reading(f) = answer[f] /\ answer[f] \in {"active", "inactive"}
  BY ReadingIs DEF MayCache
<1>2. /\ askedAt[f] \in Nat /\ askedAt[f] <= now /\ config.ttl \in Nat /\ now \in Nat
      /\ answer[f] = "active" /\ revokedAt[t] # None => askedAt[f] <= revokedAt[t]
  BY DEF ValidationInv, Calls, Types
<1>3. a \in Nat /\ a <= now + config.ttl
  BY <1>2
<1>4. ExpiresAt(f) \in Nat /\ ExpiresAt(f) <= a /\ (ExpOf(f) # None => ExpiresAt(f) <= ExpOf(f))
  <2>1. ExpOf(f) # None => ExpOf(f) \in Nat
    BY <1>1, ConfigAssumption DEF ExpOf
  <2>2. CASE ExpOf(f) = None
    <3>1. ExpiresAt(f) = Min({a} \cup {})
      BY <2>2 DEF ExpiresAt
    <3> HIDE DEF a
    <3> QED BY <1>3, <2>2, <3>1, MinOfTwo
  <2>3. CASE ExpOf(f) # None
    <3>1. ExpiresAt(f) = Min({a} \cup {ExpOf(f)})
      BY <2>3 DEF ExpiresAt
    <3> HIDE DEF a
    <3> QED BY <1>3, <2>1, <2>3, <3>1, MinOfTwo
  <2> QED BY <2>2, <2>3
<1>5. e.value = answer[f] /\ e.expiresAt = ExpiresAt(f)
  BY <1>1
<1>6. answer[f] = "active" => ExpOf(f) = TokenExp[t]
  BY DEF ExpOf
<1>7. revokedAt[t] \in Nat \cup {None}
  BY <1>1 DEF ValidationInv, Types
<1>8. answer[f] = "active" /\ revokedAt[t] # None => ExpiresAt(f) <= revokedAt[t] + config.ttl
  BY <1>2, <1>3, <1>4, <1>7
<1>9. ExpiresAt(f) <= now + config.ttl
  BY <1>2, <1>3, <1>4
<1> HIDE DEF a, t, e
<1> QED BY <1>1, <1>4, <1>5, <1>6, <1>8, <1>9 DEF SoundEntry, e, t

\* What an answered call writes under other tokens, and under its own.
LEMMA AnsweredCache ==
    ASSUME ValidationInv, NEW f \in Request, CallAnswered(f), cache' # cache
    PROVE  LET e == [value |-> Reading(f), expiresAt |-> ExpiresAt(f)]
           IN  /\ MayCache(f)
               /\ input[f] \in Keys(cache') /\ cache'.at[input[f]] = e
               /\ \A x \in Keys(cache') \ {input[f]} : x \in Keys(cache) /\ cache'.at[x] = cache.at[x]
BY ResultSetWrites DEF CallAnswered

\* A call that is answered, its cache write included.
LEMMA CallAnsweredInv ==
    ASSUME ValidationInv, NEW f \in Request, CallAnswered(f)
    PROVE  ValidationInv'
<1>1. /\ Calling(f) /\ answer[f] # None /\ SettleFlight(f, Reading(f))
      /\ UNCHANGED <<config, now, input, revokedAt>>
  BY DEF CallAnswered
<1>2. StatusFor(Reading(f)) \in Status
  BY <1>1, ReadingIs, StatusForIs
<1>3. Types' /\ Flights' /\ Calls'
  BY <1>1, <1>2, SettleFlightInv
<1>4. Statements'
  <2>1. CASE cache' = cache
    BY <1>1, <2>1 DEF ValidationInv, Statements
  <2>2. CASE cache' # cache
    <3> SUFFICES ASSUME NEW t \in Keys(cache')
                 PROVE  t \in Token /\ SoundEntry(t, cache'.at[t], now, revokedAt, config.ttl)
      BY <1>1 DEF Statements, Keys
    <3>1. CASE t = input[f]
      BY <1>1, <2>2, <3>1, AnsweredCache, WrittenIsSound, ReadingIs
    <3>2. CASE t # input[f]
      BY <2>2, <3>2, AnsweredCache DEF ValidationInv, Statements
    <3> QED BY <3>1, <3>2
  <2> QED BY <2>1, <2>2
<1> QED BY <1>3, <1>4 DEF ValidationInv

\* A call that fails writes nothing.
LEMMA CallFailsInv ==
    ASSUME ValidationInv, NEW f \in Request, CallFails(f)
    PROVE  ValidationInv'
<1>1. PICK reading \in {"failure", "threw"} : SettleFlight(f, reading)
  BY DEF CallFails
<1>2. Calling(f) /\ UNCHANGED <<config, now, cache, input, revokedAt>>
  BY DEF CallFails
<1>3. StatusFor(reading) \in Status
  BY StatusForIs
<1>4. Types' /\ Flights' /\ Calls'
  BY <1>1, <1>2, <1>3, SettleFlightInv
<1>5. Statements'
  BY <1>2 DEF ValidationInv, Statements
<1> QED BY <1>4, <1>5 DEF ValidationInv

----------------------------------------------------------------------------
(* The theorems.                                                           *)

\* The invariant holds in every state.
THEOREM Invariance == Spec => []ValidationInv
<1>1. ValidationInv /\ [Next]_vars => ValidationInv'
  <2> SUFFICES ASSUME ValidationInv, [Next]_vars PROVE ValidationInv'
    OBVIOUS
  <2>1. CASE UNCHANGED vars
    BY <2>1 DEF vars, flight, ValidationInv, Types, Flights, Calls, Statements, Calling
  <2> QED BY <2>1, AtOnceInv, JoinsInv, StartsInv, ProviderDecidesInv, CallAnsweredInv, CallFailsInv,
             RevokeInv, TickInv DEF Next, Settles
<1> QED BY <1>1, InitInv, PTL DEF Spec

\* Two introspections of one token are never in progress at once, the cache being off
\* included (createSingleFlight in createIntrospector).
THEOREM OneCallPerTokenHolds == Spec => []OneCallPerToken
<1>1. ValidationInv => OneCallPerToken
  BY DEF ValidationInv, Flights, OneCallPerToken
<1> QED BY <1>1, Invariance, PTL

\* Who answers a request: the cache, on arrival, or the call it waits for.
LEMMA AnsweredBy ==
    ASSUME ValidationInv, [Next]_vars, NEW r \in Request, outcome[r] = None, outcome'[r] # None
    PROVE  \/ input'[r] = "none" /\ outcome'[r] = "forward"
           \/ outcome'[r] = "400"
           \/ /\ input'[r] \in Token /\ Cached(input'[r]) /\ awaits[r] = None
              /\ outcome'[r] = StatusFor(cache.at[input'[r]].value)
           \/ /\ awaits[r] \in Request /\ Calling(awaits[r]) /\ input'[r] = input[awaits[r]]
              /\ answer[awaits[r]] # None /\ outcome'[r] = StatusFor(Reading(awaits[r]))
           \/ \E reading \in {"failure", "threw"} : outcome'[r] = StatusFor(reading)
<1>2. ASSUME NEW q \in Request, Unauthenticated(q)
      PROVE  input'[r] = "none" /\ outcome'[r] = "forward"
  <2>1. Arrives(q, "none") /\ outcome' = [outcome EXCEPT ![q] = "forward"]
    BY <1>2 DEF Unauthenticated
  <2>2. q = r
    BY <2>1 DEF ValidationInv, Types
  <2> QED BY <2>1, <2>2, Newcomer DEF ValidationInv, Types
<1>3. ASSUME NEW q \in Request, Malformed(q)
      PROVE  outcome'[r] = "400"
  <2>1. outcome' = [outcome EXCEPT ![q] = "400"]
    BY <1>3 DEF Malformed
  <2> QED BY <2>1 DEF ValidationInv, Types
<1>4. ASSUME NEW q \in Request, NEW t \in Token, CacheHit(q, t)
      PROVE  /\ input'[r] \in Token /\ Cached(input'[r]) /\ awaits[r] = None
             /\ outcome'[r] = StatusFor(cache.at[input'[r]].value)
  <2>1. /\ Arrives(q, t) /\ Cached(t)
        /\ outcome' = [outcome EXCEPT ![q] = StatusFor(cache.at[t].value)]
    BY <1>4 DEF CacheHit
  <2>2. q = r /\ outcome'[r] = StatusFor(cache.at[t].value)
    BY <2>1 DEF ValidationInv, Types
  <2>3. input'[r] = t /\ awaits[r] = None
    BY <2>1, <2>2, Newcomer
  <2> QED BY <2>1, <2>2, <2>3
<1>5. ASSUME NEW f \in Request, NEW reading, SettleFlight(f, reading)
      PROVE  awaits[r] = f /\ outcome'[r] = StatusFor(reading)
  <2>1. outcome' = [x \in Request |-> IF x \in Waiters(f) THEN StatusFor(reading) ELSE outcome[x]]
    BY <1>5 DEF SettleFlight, Conclude
  <2> HIDE DEF StatusFor
  <2> QED BY <2>1 DEF Waiters
<1>6. ASSUME NEW f \in Request, CallAnswered(f)
      PROVE  /\ awaits[r] \in Request /\ Calling(awaits[r]) /\ input'[r] = input[awaits[r]]
             /\ answer[awaits[r]] # None /\ outcome'[r] = StatusFor(Reading(awaits[r]))
  <2>1. Calling(f) /\ answer[f] # None /\ SettleFlight(f, Reading(f)) /\ input' = input
    BY <1>6 DEF CallAnswered
  <2>2. awaits[r] = f /\ outcome'[r] = StatusFor(Reading(f))
    BY <1>5, <2>1
  <2>3. input[r] = input[f]
    BY <2>2, NoneIsNot DEF ValidationInv, Flights
  <2> QED BY <2>1, <2>2, <2>3
<1>7. ASSUME NEW f \in Request, CallFails(f)
      PROVE  \E reading \in {"failure", "threw"} : outcome'[r] = StatusFor(reading)
  BY <1>5, <1>7 DEF CallFails
<1>8. ASSUME UNCHANGED outcome PROVE FALSE
  BY <1>8
<1> QED BY <1>2, <1>3, <1>4, <1>6, <1>7, <1>8
        DEF Next, Settles, Joins, Starts, ProviderDecides, Revoke, Tick, vars

\* What a request that passes with a token passes on.
LEMMA PassesOn ==
    ASSUME ValidationInv, [Next]_vars, NEW r \in LetThrough
    PROVE  \/ /\ Cached(input'[r]) /\ awaits[r] = None
              /\ cache.at[input'[r]].value = "active"
           \/ /\ awaits[r] \in Request /\ Calling(awaits[r]) /\ input'[r] = input[awaits[r]]
              /\ answer[awaits[r]] = "active" /\ ~ ExpiredInFlight(awaits[r])
<1>1. r \in Request /\ outcome[r] = None /\ outcome'[r] = "forward" /\ input'[r] \in Token
  BY DEF LetThrough
<1>2. outcome'[r] # None /\ input'[r] # "none"
  BY <1>1, NoneIsNot DEF Status
<1>3. ASSUME Cached(input'[r]), outcome'[r] = StatusFor(cache.at[input'[r]].value)
      PROVE  cache.at[input'[r]].value = "active"
  <2>1. cache.at[input'[r]].value \in {"active", "inactive"}
    BY <1>1, <1>3, ServedEntry DEF SoundEntry
  <2> QED BY <1>1, <1>3, <2>1, StatusForIs
<1>4. ASSUME awaits[r] \in Request, Calling(awaits[r]), answer[awaits[r]] # None,
             outcome'[r] = StatusFor(Reading(awaits[r]))
      PROVE  answer[awaits[r]] = "active" /\ ~ ExpiredInFlight(awaits[r])
  <2>1. Reading(awaits[r]) = "active"
    BY <1>1, <1>4, ReadingIs, StatusForIs
  <2> QED BY <1>4, <2>1, ReadingIs
<1>5. \A reading \in {"failure", "threw"} : outcome'[r] # StatusFor(reading)
  BY <1>1, StatusForIs
<1> QED BY <1>1, <1>2, <1>3, <1>4, <1>5, AnsweredBy

\* A revoked token passes only inside the cache's lifetime counted from before the
\* provider was asked, or within the duration of one call already decided.
THEOREM BoundedStalenessHolds == Spec => BoundedStaleness
<1> DEFINE A == \A r \in LetThrough :
          LET t == input'[r]
          IN  revokedAt[t] # None =>
                \/ now < revokedAt[t] + config.ttl
                \/ awaits[r] # None /\ now <= revokedAt[t] + Timeout
<1>1. ASSUME ValidationInv, [Next]_vars, NEW r \in LetThrough, NEW t, t = input'[r], revokedAt[t] # None
      PROVE  \/ now < revokedAt[t] + config.ttl
             \/ awaits[r] # None /\ now <= revokedAt[t] + Timeout
  <2>1. t \in Token /\ r \in Request
    BY <1>1 DEF LetThrough
  <2>2. revokedAt[t] \in Nat /\ now \in Nat /\ config.ttl \in Nat
    BY <1>1, <2>1 DEF ValidationInv, Types
  <2>3. CASE Cached(t) /\ cache.at[t].value = "active"
    <3>1. now < cache.at[t].expiresAt /\ SoundEntry(t, cache.at[t], now, revokedAt, config.ttl)
      BY <1>1, <2>1, <2>3, ServedEntry
    <3>2. cache.at[t].expiresAt \in Nat /\ cache.at[t].expiresAt <= revokedAt[t] + config.ttl
      BY <1>1, <2>3, <3>1 DEF SoundEntry
    <3> QED BY <2>2, <3>1, <3>2
  <2>4. ASSUME NEW f \in Request, f = awaits[r], Calling(f), t = input[f], answer[f] = "active"
        PROVE  awaits[r] # None /\ now <= revokedAt[t] + Timeout
    <3>1. askedAt[f] \in Nat /\ now <= askedAt[f] + Timeout /\ askedAt[f] <= revokedAt[t]
      BY <1>1, <2>4 DEF ValidationInv, Calls
    <3> QED BY <2>2, <2>4, <3>1, NoneIsNot, ConfigAssumption
  <2> QED BY <1>1, <2>3, <2>4, PassesOn
<1>2. ValidationInv /\ [Next]_vars => [A]_vars
  BY <1>1
<1>3. [][A]_vars <=> BoundedStaleness
  BY DEF BoundedStaleness
<1> QED BY <1>2, <1>3, Invariance, PTL DEF Spec

\* A token never passes at or after its exp, cached or on the wire.
THEOREM NeverPastExpHolds == Spec => NeverPastExp
<1> DEFINE A == \A r \in LetThrough : TokenExp[input'[r]] # None => now < TokenExp[input'[r]]
<1>1. ASSUME ValidationInv, [Next]_vars, NEW r \in LetThrough, NEW t, t = input'[r], TokenExp[t] # None
      PROVE  now < TokenExp[t]
  <2>1. t \in Token /\ TokenExp[t] \in Nat /\ now \in Nat
    BY <1>1, ConfigAssumption DEF LetThrough, ValidationInv, Types
  <2>2. CASE Cached(t) /\ cache.at[t].value = "active"
    <3>1. now < cache.at[t].expiresAt /\ SoundEntry(t, cache.at[t], now, revokedAt, config.ttl)
      BY <1>1, <2>1, <2>2, ServedEntry
    <3>2. cache.at[t].expiresAt \in Nat /\ cache.at[t].expiresAt <= TokenExp[t]
      BY <1>1, <2>2, <3>1 DEF SoundEntry
    <3> QED BY <2>1, <3>1, <3>2
  <2>3. ASSUME NEW f \in Request, t = input[f], answer[f] = "active", ~ ExpiredInFlight(f)
        PROVE  now < TokenExp[t]
    BY <1>1, <2>1, <2>3 DEF ExpiredInFlight, ExpOf
  <2> QED BY <1>1, <2>2, <2>3, PassesOn
<1>2. ValidationInv /\ [Next]_vars => [A]_vars
  BY <1>1
<1>3. [][A]_vars <=> NeverPastExp
  BY DEF NeverPastExp
<1> QED BY <1>2, <1>3, Invariance, PTL DEF Spec

\* What enters the cache is the provider's statement about that very token, never a
\* refusal of the path's own.
THEOREM CacheHoldsStatementsHolds == Spec => CacheHoldsStatements
<1> DEFINE A == \A t \in Keys(cache') :
          cache' # cache /\ (t \in Keys(cache) => cache'.at[t] # cache.at[t]) =>
             \E f \in Request :
                /\ Calling(f) /\ input[f] = t
                /\ answer[f] = cache'.at[t].value
                /\ answer[f] \in {"active", "inactive"}
<1>1. ASSUME ValidationInv, [Next]_vars, NEW t \in Keys(cache'), cache' # cache,
             t \in Keys(cache) => cache'.at[t] # cache.at[t]
      PROVE  \E f \in Request :
                /\ Calling(f) /\ input[f] = t
                /\ answer[f] = cache'.at[t].value
                /\ answer[f] \in {"active", "inactive"}
  <2>1. PICK f \in Request : CallAnswered(f)
    BY <1>1 DEF Next, Settles, Unauthenticated, Malformed, CacheHit, Joins, Starts, ProviderDecides,
                CallFails, Revoke, Tick, vars
  <2>2. Calling(f) /\ answer[f] # None
    BY <2>1 DEF CallAnswered
  <2>3. t = input[f] /\ cache'.at[t] = [value |-> Reading(f), expiresAt |-> ExpiresAt(f)] /\ MayCache(f)
    BY <1>1, <2>1, AnsweredCache
  <2>4. cache'.at[t].value = Reading(f)
    BY <2>3
  <2>5. Reading(f) = answer[f] /\ answer[f] \in {"active", "inactive"}
    BY <1>1, <2>2, <2>3, ReadingIs DEF MayCache
  <2> QED BY <2>2, <2>3, <2>4, <2>5
<1>2. ValidationInv /\ [Next]_vars => [A]_vars
  BY <1>1
<1>3. [][A]_vars <=> CacheHoldsStatements
  BY DEF CacheHoldsStatements
<1> QED BY <1>2, <1>3, Invariance, PTL DEF Spec

\* The caller is told its token is bad only on a statement about the token.
THEOREM BlamesTokenOnlyOnStatementHolds == Spec => BlamesTokenOnlyOnStatement
<1> DEFINE B(r) == LET f == awaits[r]
                   IN  \/ f = None /\ cache.at[input'[r]].value = "inactive"
                       \/ f # None /\ answer[f] \in {"inactive", "bound"}
                       \/ f # None /\ answer[f] = "active" /\ TokenExp[input[f]] <= now
                       \/ f # None /\ answer[f] = "401" /\ ~ config.client
           A == \A r \in Request : outcome[r] = None /\ outcome'[r] = "401" => B(r)
<1>1. ASSUME ValidationInv, [Next]_vars, NEW r \in Request, outcome[r] = None, outcome'[r] = "401"
      PROVE  B(r)
  <2>1. outcome'[r] # None /\ outcome'[r] # "forward" /\ outcome'[r] # "400"
    BY <1>1, NoneIsNot DEF Status
  <2>2. \A reading \in {"failure", "threw"} : outcome'[r] # StatusFor(reading)
    BY <1>1, StatusForIs
  <2>3. CASE /\ input'[r] \in Token /\ Cached(input'[r]) /\ awaits[r] = None
             /\ outcome'[r] = StatusFor(cache.at[input'[r]].value)
    <3>1. cache.at[input'[r]].value \in {"active", "inactive"}
      BY <1>1, <2>3, ServedEntry DEF SoundEntry
    <3>2. cache.at[input'[r]].value = "inactive"
      BY <1>1, <2>3, <3>1, StatusForIs
    <3> QED BY <2>3, <3>2
  <2>4. CASE /\ awaits[r] \in Request /\ Calling(awaits[r]) /\ input'[r] = input[awaits[r]]
             /\ answer[awaits[r]] # None /\ outcome'[r] = StatusFor(Reading(awaits[r]))
    <3>1. awaits[r] # None
      BY <2>4, NoneIsNot
    <3>2. Reading(awaits[r]) = "inactive" \/ (Reading(awaits[r]) = "401" /\ ~ config.client)
      BY <1>1, <2>4, ReadingIs, StatusForIs
    <3> QED BY <1>1, <2>4, <3>1, <3>2, ReadingIs
  <2> QED BY <1>1, <2>1, <2>2, <2>3, <2>4, AnsweredBy
<1>2. ValidationInv /\ [Next]_vars => [A]_vars
  BY <1>1
<1>3. [][A]_vars <=> BlamesTokenOnlyOnStatement
  BY DEF BlamesTokenOnlyOnStatement
<1> QED BY <1>2, <1>3, Invariance, PTL DEF Spec

=============================================================================
