---------------------------- MODULE ReadingProofs ----------------------------
(***************************************************************************)
(* What is read of the outside.  Of a request: the source it came from,    *)
(* whether the same-origin gate lets it through and its session cookie,    *)
(* for any trust list, any chain of proxies and any cookies.  Of a call to *)
(* the provider: what it may end in, for any bounds on the bodies and      *)
(* bodies of any size.                                                     *)
(***************************************************************************)
EXTENDS RequestReading, ProviderCall, NaturalsInduction, SequenceTheorems,
        WellFoundedInduction, TLAPS

----------------------------------------------------------------------------
(* The loops, which the model writes as recursive functions.               *)

\* Induction up to n, in the form that takes a set.
LEMMA Upwards ==
    ASSUME NEW n \in Nat, NEW G, 0 \in G, \A i \in 1..n : i - 1 \in G => i \in G
    PROVE  n \in G /\ 0..n \subseteq G
<1> DEFINE T == (0..n) \ G
           R == OpToRel(<, Nat)
<1> SUFFICES ASSUME T # {} PROVE FALSE
  OBVIOUS
<1>1. IsWellFoundedOn(R, Nat)
  BY NatLessThanWellFounded, Zenon
<1>2. \A x, y \in Nat : y < x => <<y, x>> \in R
  BY DEF OpToRel
<1>0. \A i \in 0..n : i \notin G => i \in T
  OBVIOUS
<1>3. T \subseteq Nat
  OBVIOUS
<1> HIDE DEF R, T
<1>4. PICK k \in T : \A j \in T : ~ (<<j, k>> \in R)
  BY <1>1, <1>3, WFMin
<1> USE DEF T
<1>5. k \in 1..n
  OBVIOUS
<1>6. k - 1 \in Nat /\ k - 1 < k /\ k - 1 \in 0..n
  BY <1>5
<1>7. k - 1 \in G
  <2>1. <<k - 1, k>> \in R
    BY <1>2, <1>5, <1>6
  <2>2. k - 1 \notin T
    BY <1>4, <2>1
  <2> QED BY <1>0, <1>6, <2>2
<1> QED BY <1>5, <1>7

\* n steps, each a function on X, and their run from base.
Steps(X, n, next) == next \in [1..n -> [X -> X]]
RunOf(X, n, next, base, at) ==
    /\ at \in [0..n -> X]
    /\ at[0] = base
    /\ \A i \in 1..n : at[i] = next[i][at[i - 1]]

\* A loop whose steps stay in X runs to its end.
LEMMA LoopRuns ==
    ASSUME NEW X, NEW base, base \in X, NEW n, n \in Nat, NEW next, Steps(X, n, next)
    PROVE  \E at : RunOf(X, n, next, base, at)
<1> USE DEF Steps
<1> DEFINE Runs(k, at) == /\ at[0] = base
                          /\ \A i \in 1..k : at[i] = next[i][at[i - 1]]
           G == {k \in 0..n : \E at \in [0..k -> X] : Runs(k, at)}
<1>1. 0 \in G
  <2>1. [i \in 0..0 |-> base] \in [0..0 -> X] /\ Runs(0, [i \in 0..0 |-> base])
    OBVIOUS
  <2> HIDE DEF Runs
  <2>2. 0 \in 0..n
    OBVIOUS
  <2> QED BY <2>1, <2>2
<1>2. ASSUME NEW k \in 1..n, k - 1 \in G PROVE k \in G
  <2>1. PICK h \in [0..(k - 1) -> X] : Runs(k - 1, h)
    BY <1>2
  <2> DEFINE g == [i \in 0..k |-> IF i = k THEN next[k][h[k - 1]] ELSE h[i]]
  <2>2. g \in [0..k -> X]
    <3>1. next[k] \in [X -> X] /\ h[k - 1] \in X
      OBVIOUS
    <3>2. \A i \in 0..k : i # k => i \in 0..(k - 1)
      OBVIOUS
    <3> QED BY <3>1, <3>2
  <2>3. g[0] = base /\ g[k] = next[k][h[k - 1]] /\ \A i \in 0..(k - 1) : g[i] = h[i]
    BY <2>1
  <2> HIDE DEF g
  <2>4. ASSUME NEW i \in 1..k PROVE g[i] = next[i][g[i - 1]]
    <3>1. i - 1 \in 0..(k - 1) /\ g[i - 1] = h[i - 1]
      BY <2>3
    <3>2. CASE i = k
      BY <2>3, <3>1, <3>2
    <3>3. CASE i # k
      <4>1. i \in 1..(k - 1) /\ i \in 0..(k - 1)
        BY <3>3
      <4> QED BY <2>1, <2>3, <3>1, <4>1
    <3> QED BY <3>2, <3>3
  <2>5. Runs(k, g)
    BY <2>3, <2>4
  <2> HIDE DEF Runs
  <2>6. k \in 0..n
    OBVIOUS
  <2> QED BY <2>2, <2>5, <2>6
<1> HIDE DEF G
<1>3. n \in G
  BY <1>1, <1>2, Upwards
<1> QED BY <1>3 DEF G, RunOf

----------------------------------------------------------------------------
(* The walk over X-Forwarded-For.                                          *)

\* The walk starts at the peer.
Start(peer) == [address |-> peer, ended |-> FALSE]

\* Where the walk stands after each entry.
LEMMA WalkRuns ==
    ASSUME NEW peer \in Address, NEW claims, Len(claims) \in Nat,
           \A i \in 1..Len(claims) : claims[i] \in Entry
    PROVE  \E at :
              /\ Walk(peer, claims) = at[Len(claims)].address
              /\ at[0] = Start(peer)
              /\ \A i \in 1..Len(claims) :
                    at[i] = Step(claims[Len(claims) + 1 - i], at[i - 1])
<1> DEFINE n == Len(claims)
           X == [address : Address, ended : BOOLEAN]
           next == [i \in 1..n |-> [x \in X |-> Step(claims[n + 1 - i], x)]]
           Loop(f) == f = [i \in 0..n |-> IF i = 0 THEN Start(peer)
                                          ELSE Step(claims[n + 1 - i], f[i - 1])]
           at == CHOOSE f : Loop(f)
<1>1. n \in Nat /\ \A i \in 1..n : claims[n + 1 - i] \in Entry
  OBVIOUS
<1>2. Walk(peer, claims) = at[n].address
  BY DEF Walk, Start
<1>3. ASSUME NEW hop \in Entry, NEW x \in X PROVE Step(hop, x) \in X
  BY DEF Step, Entry
<1>4. Steps(X, n, next)
  BY <1>1, <1>3 DEF Steps
<1>5. Start(peer) \in X
  BY DEF Start
<1> HIDE DEF n, X, Loop, at
<1>6. PICK f : RunOf(X, n, next, Start(peer), f)
  <2> HIDE DEF next
  <2>1. n \in Nat
    BY <1>1
  <2> QED BY <2>1, <1>4, <1>5, LoopRuns
<1>7. ASSUME NEW i \in 1..n PROVE f[i] = Step(claims[n + 1 - i], f[i - 1])
  <2>1. i - 1 \in 0..n
    BY <1>1
  <2>2. f[i] = next[i][f[i - 1]] /\ f[i - 1] \in X
    BY <1>6, <2>1 DEF RunOf
  <2>3. next[i] = [x \in X |-> Step(claims[n + 1 - i], x)]
    OBVIOUS
  <2> HIDE DEF next
  <2> QED BY <2>2, <2>3
<1> HIDE DEF next
<1>8. Loop(f)
  BY <1>1, <1>6, <1>7 DEF Loop, RunOf
<1>9. Loop(at)
  BY <1>8 DEF at
<1>10. at[0] = Start(peer) /\ \A i \in 1..n : at[i] = Step(claims[n + 1 - i], at[i - 1])
  BY <1>1, <1>9 DEF Loop
<1> QED BY <1>2, <1>10 DEF n

\* How far the walk is at most after i entries: the node that many before the last.
Place(i) == IF i < Len(route) THEN Len(route) - i ELSE 1

\* Where the walk stands: still on its way, or ended at a node that is vouched
\* for, beyond one that is not.
OnItsWay(place, i) ==
    place = Start(route[Place(i)]) /\ VouchedFor(Place(i))
EndedAt(place, j) ==
    /\ j \in 2..Len(route)
    /\ place.address = route[j] /\ place.ended
    /\ VouchedFor(j) /\ ~ VouchedFor(j - 1)

\* One more entry.
LEMMA WalkSteps ==
    ASSUME RouteIsTrusted, ReportsStandLast, NEW i \in 1..Len(xff), NEW place, OnItsWay(place, i - 1)
    PROVE  LET next == Step(xff[Len(xff) + 1 - i], place)
           IN  OnItsWay(next, i) \/ \E j \in 2..Len(route) : EndedAt(next, j)
<1> DEFINE hop == xff[Len(xff) + 1 - i]
           next == Step(hop, place)
           n == Len(route)
           p == Place(i - 1)
<1>0. n \in Nat /\ n >= 1 /\ Len(xff) \in Nat /\ i \in Nat /\ i >= 1 /\ i <= Len(xff)
  BY DEF RouteIsTrusted, ReportsStandLast
<1>1. place = Start(route[p])
  BY DEF OnItsWay
<1>2. CASE i >= n
  <2>1. p = 1 /\ Place(i) = 1
    BY <1>0, <1>2 DEF Place
  <2>2. route[1] \notin Trusted
    BY <1>0, <1>2 DEF ReportsStandLast
  <2>3. next = place
    BY <1>1, <2>1, <2>2 DEF Step, Start
  <2> QED BY <2>1, <2>3 DEF OnItsWay
<1>3. CASE i < n
  <2>1. p = n + 1 - i /\ Place(i) = n - i /\ p \in 2..n /\ Place(i) = p - 1
    BY <1>0, <1>3 DEF Place
  <2>2. route[p] \in Trusted
    BY <2>1 DEF RouteIsTrusted
  <2>3. Len(xff) + 1 - i = Len(xff) - n + p
    BY <1>0, <2>1
  <2>4. hop = IF readable[p] THEN route[p - 1] ELSE "no_ip"
    BY <2>1, <2>3 DEF ReportsStandLast
  <2>5. VouchedFor(p)
    BY DEF OnItsWay
  <2>6. CASE readable[p]
    <3>1. route[p - 1] \in Address
      BY <1>0, <2>1 DEF RouteIsTrusted
    <3>2. hop # "blank" /\ hop # "no_ip"
      BY <2>4, <2>6, <3>1, TrustAssumption
    <3>3. next = Start(route[p - 1])
      BY <1>1, <2>2, <2>4, <2>6, <3>2 DEF Step, Start
    <3>4. VouchedFor(p - 1)
      BY <1>0, <2>1, <2>2, <2>5, <2>6 DEF VouchedFor
    <3> QED BY <2>1, <3>3, <3>4 DEF OnItsWay
  <2>7. CASE ~ readable[p]
    <3>1. next.address = route[p] /\ next.ended
      BY <1>1, <2>2, <2>4, <2>7 DEF Step, Start
    <3>2. ~ VouchedFor(p - 1)
      BY <1>0, <2>1, <2>7 DEF VouchedFor
    <3> QED BY <2>1, <2>5, <3>1, <3>2 DEF EndedAt
  <2> QED BY <2>6, <2>7
<1> QED BY <1>0, <1>2, <1>3

\* The whole walk: where it stops is vouched for, and nothing beyond it is.
LEMMA WalkIsVouched ==
    ASSUME RouteIsTrusted, ReportsStandLast
    PROVE  \E j \in 1..Len(route) :
              /\ Walk(route[Len(route)], xff) = route[j]
              /\ VouchedFor(j)
              /\ j = 1 \/ ~ VouchedFor(j - 1)
<1> DEFINE n == Len(route)
<1>0. n \in Nat /\ n >= 1 /\ Len(xff) \in Nat /\ Len(xff) >= n - 1 /\ xff \in Seq(Entry)
  BY DEF RouteIsTrusted, ReportsStandLast
<1>1. PICK at : /\ Walk(route[n], xff) = at[Len(xff)].address
                /\ at[0] = Start(route[n])
                /\ \A i \in 1..Len(xff) : at[i] = Step(xff[Len(xff) + 1 - i], at[i - 1])
  <2>1. route[n] \in Address
    BY <1>0 DEF RouteIsTrusted
  <2>2. \A i \in 1..Len(xff) : xff[i] \in Entry
    BY <1>0
  <2> QED BY <1>0, <2>1, <2>2, WalkRuns
<1> DEFINE Good(i) == OnItsWay(at[i], i) \/ \E j \in 2..n : EndedAt(at[i], j)
           G == {i \in 0..Len(xff) : Good(i)}
<1>2. Good(0)
  <2>1. Place(0) = n /\ VouchedFor(n)
    BY <1>0 DEF Place, VouchedFor
  <2> QED BY <1>1, <2>1 DEF OnItsWay
<1>3. ASSUME NEW i \in 1..Len(xff), Good(i - 1) PROVE Good(i)
  <2>1. at[i] = Step(xff[Len(xff) + 1 - i], at[i - 1])
    BY <1>1
  <2>2. CASE OnItsWay(at[i - 1], i - 1)
    BY <2>1, <2>2, WalkSteps
  <2>3. CASE \E j \in 2..n : EndedAt(at[i - 1], j)
    <3>1. at[i] = at[i - 1]
      BY <2>1, <2>3 DEF EndedAt, Step
    <3> QED BY <2>3, <3>1
  <2> QED BY <1>3, <2>2, <2>3
<1> HIDE DEF Good
<1>4. Len(xff) \in G
  <2>1. 0 \in G
    BY <1>0, <1>2
  <2>2. \A i \in 1..Len(xff) : i - 1 \in G => i \in G
    BY <1>0, <1>3
  <2> HIDE DEF G
  <2> QED BY <1>0, <2>1, <2>2, Upwards
<1>5. Good(Len(xff))
  BY <1>0, <1>4
<1>6. CASE OnItsWay(at[Len(xff)], Len(xff))
  <2>1. Place(Len(xff)) = 1
    BY <1>0 DEF Place
  <2> QED BY <1>0, <1>1, <1>6, <2>1 DEF OnItsWay, Start
<1>7. CASE \E j \in 2..n : EndedAt(at[Len(xff)], j)
  BY <1>0, <1>1, <1>7 DEF EndedAt
<1> QED BY <1>5, <1>6, <1>7 DEF Good

\* What the router takes the request's source to be, while it still travels.
LEMMA SourceRead ==
    ASSUME RouteIsTrusted, ReportsStandLast, SchemeIsReported, NEW socket, NEW lost \in BOOLEAN,
           NEW source,
           source = requestSource(IF lost THEN None ELSE Last(route), socket, xff, proto)
    PROVE  /\ IF lost THEN source.address = None
              ELSE \E j \in 1..Len(route) :
                        /\ source.address = route[j]
                        /\ VouchedFor(j)
                        /\ j = 1 \/ ~ VouchedFor(j - 1)
           /\ source.from \in {"socket"} \cup Trusted
<1> DEFINE n == Len(route)
<1>0. n \in Nat /\ n >= 1 /\ Last(route) = route[n]
  BY DEF RouteIsTrusted, Last
<1>1. CASE lost
  BY <1>1 DEF requestSource
<1>2. CASE ~ lost /\ route[n] \notin Trusted
  <2>1. n = 1
    BY <1>0, <1>2 DEF RouteIsTrusted
  <2>2. source.address = route[1] /\ source.from = "socket"
    BY <1>0, <1>2, <2>1 DEF requestSource
  <2>3. VouchedFor(1)
    BY <2>1 DEF VouchedFor
  <2> QED BY <1>2, <2>1, <2>2, <2>3
<1>3. CASE ~ lost /\ route[n] \in Trusted
  <2>1. route[n] # None
    BY <1>3, TrustAssumption
  <2>2. /\ source.address = Walk(route[n], xff)
        /\ source.from = IF OneValue(proto) THEN proto[1].by ELSE "socket"
    BY <1>0, <1>3, <2>1 DEF requestSource
  <2>3. ASSUME OneValue(proto) PROVE proto[1].by \in Trusted
    <3>1. Len(proto) = 1
      BY <2>3 DEF OneValue
    <3>2. n # 1
      <4>1. n = 1 => proto = <<>>
        BY <1>3 DEF SchemeIsReported
      <4> QED BY <3>1, <4>1
    <3>3. n > 1
      <4>1. n \in Nat /\ n >= 1
        BY <1>0
      <4> HIDE DEF n
      <4> QED BY <3>2, <4>1
    <3> QED BY <3>1, <3>3 DEF SchemeIsReported
  <2> QED BY <1>3, <2>2, <2>3, WalkIsVouched
<1> QED BY <1>1, <1>2, <1>3

\* What the gate admits, the provider admits too, and a browser sent it from a
\* page of the proxy's own or none did.
LEMMA GateRead ==
    ASSUME Sendable(req), NEW protocol, sameOriginGate(req.signals, protocol, req.public)
    PROVE  /\ ProviderAdmits(req.signals, protocol,
                             IF req.public = None THEN "https_site" ELSE req.public)
           /\ req.page \in {"no_browser", req.target, req.public}
<1> DEFINE s == req.signals
           public == req.public
<1>1. s \in Signals /\ public \in Site \cup {None}
  BY OriginsAssumption DEF Sendable
<1>2. /\ protocol = IF public = None THEN "https" ELSE SchemeOf(public)
      /\ s.origin # None => s.origin = public
      /\ refererOrigin(s) # None => refererOrigin(s) = public
      /\ s.site \in {None, "same-origin"}
      /\ (s.origin # None /\ s.origin = public) \/ s.site = "same-origin"
  BY DEF sameOriginGate, Shown
<1>3. s.origin # "null"
  BY <1>1, <1>2, OriginsAssumption DEF Site
<1>4. ProviderAdmits(s, protocol, IF public = None THEN "https_site" ELSE public)
  <2>1. CASE public = None
    <3>1. s.origin = None /\ refererOrigin(s) = None
      BY <1>2, <2>1
    <3> QED BY <1>2, <1>3, <2>1, <3>1 DEF ProviderAdmits, SchemeOf
  <2>2. CASE public # None
    BY <1>2, <1>3, <2>2 DEF ProviderAdmits
  <2> QED BY <2>1, <2>2
<1>5. ASSUME req.page # "no_browser" PROVE req.page \in {req.target, public}
  <2>1. BrowserSends(s, req.page, req.target)
    BY <1>5 DEF Sendable
  <2>2. CASE s.origin # None /\ s.origin = public
    BY <1>3, <2>1, <2>2 DEF BrowserSends
  <2>3. CASE s.site = "same-origin"
    BY <2>1, <2>3, OriginsAssumption DEF BrowserSends
  <2> QED BY <1>2, <2>2, <2>3
<1> QED BY <1>4, <1>5

----------------------------------------------------------------------------
(* The Cookie header.                                                      *)

\* A value is taken exactly when it is well formed.
LEMMA TakenIsWellFormed ==
    ASSUME NEW v \in Seq(Character)
    PROVE  Refusal(v) = None <=> WellFormed(v)
<1> DEFINE n == Len(v)
           quotes == <<"dquote", "dquote">>
           wrapped == n >= 2 /\ v[1] = "dquote" /\ Last(v) = "dquote"
           interior == IF wrapped THEN SubSeq(v, 2, n - 1) ELSE v
<1>0. n \in Nat /\ (\A i \in 1..n : v[i] \in Character) /\ Last(v) = v[n]
  BY DEF Last
<1>1. v = <<>> <=> n = 0
  OBVIOUS
<1>2. v = quotes <=> n = 2 /\ v[1] = "dquote" /\ v[2] = "dquote"
  <2>1. quotes \in Seq(Character) /\ Len(quotes) = 2 /\ quotes[1] = "dquote" /\ quotes[2] = "dquote"
    BY DEF Character
  <2>2. ASSUME n = 2, v[1] = "dquote", v[2] = "dquote" PROVE v = quotes
    BY <2>1, <2>2
  <2> QED BY <2>1, <2>2
<1> HIDE DEF quotes
<1>3. Refusal(v) = None <=> /\ v # <<>> /\ v # quotes
                            /\ ~ Contains(interior, "dquote") /\ ~ Contains(interior, "other")
  BY CookieAssumption DEF Refusal, quotes
<1>4. CASE wrapped
  <2>1. interior = SubSeq(v, 2, n - 1)
    BY <1>4
  <2>2. Len(interior) = n - 2 /\ \A i \in 1..(n - 2) : interior[i] = v[i + 1]
    <3>1. 2 \in Int /\ n - 1 \in Int /\ \A i \in 2..(n - 1) : v[i] \in Character
      BY <1>0, <1>4
    <3>2. /\ Len(interior) = IF 2 <= n - 1 THEN (n - 1) - 2 + 1 ELSE 0
          /\ \A i \in 1..((n - 1) - 2 + 1) : interior[i] = v[2 + i - 1]
      BY <2>1, <3>1, SubSeqProperties
    <3>3. \A i \in 1..(n - 2) : i \in 1..((n - 1) - 2 + 1) /\ 2 + i - 1 = i + 1
      BY <1>0
    <3>4. n >= 2
      BY <1>4
    <3> HIDE DEF interior
    <3>5. Len(interior) = n - 2
      <4>1. n \in Nat
        OBVIOUS
      <4> HIDE DEF n
      <4> QED BY <3>2, <3>4, <4>1
    <3> QED BY <3>2, <3>3, <3>5
  <2> HIDE DEF interior
  <2>3. ~ Contains(interior, "dquote") /\ ~ Contains(interior, "other")
           <=> \A i \in 2..(n - 1) : v[i] = "octet"
    <3>1. ~ Contains(interior, "dquote") /\ ~ Contains(interior, "other")
             <=> \A i \in 1..(n - 2) : v[i + 1] \notin {"dquote", "other"}
      BY <2>2 DEF Contains
    <3>2. \A i \in 1..(n - 2) : i + 1 \in 2..(n - 1) /\ i + 1 \in 1..n
      BY <1>0
    <3>3. \A i \in 2..(n - 1) : i - 1 \in 1..(n - 2) /\ (i - 1) + 1 = i
      BY <1>0
    <3>4. \A i \in 1..n : v[i] \notin {"dquote", "other"} <=> v[i] = "octet"
      BY <1>0 DEF Character
    <3> QED BY <3>1, <3>2, <3>3, <3>4
  <2>4. WellFormed(v) <=> n > 2 /\ \A i \in 2..(n - 1) : v[i] = "octet"
    <3>1. ASSUME NEW m \in 1..n, m = n, \A i \in 1..m : v[i] = "octet" PROVE FALSE
      <4>1. 1 \in 1..m
        OBVIOUS
      <4> QED BY <1>4, <3>1, <4>1
    <3>2. ASSUME n > 2, \A i \in 2..(n - 1) : v[i] = "octet" PROVE WellFormed(v)
      <4>1. n - 2 \in 1..n /\ (n - 2) + 1 = n - 1 /\ (n - 2) + 2 = n
        BY <1>0, <3>2
      <4>2. v[1] = "dquote" /\ v[n] = "dquote"
        BY <1>0, <1>4
      <4> QED BY <3>2, <4>1, <4>2 DEF WellFormed
    <3>3. ASSUME WellFormed(v) PROVE n > 2 /\ \A i \in 2..(n - 1) : v[i] = "octet"
      <4>1. PICK m \in 1..n : /\ m = n - 2 /\ v[1] = "dquote" /\ v[m + 2] = "dquote"
                              /\ \A i \in 2..(m + 1) : v[i] = "octet"
        BY <3>1, <3>3 DEF WellFormed
      <4> QED BY <1>0, <4>1
    <3> QED BY <3>2, <3>3
  <2>5. v # <<>> /\ v # quotes <=> n > 2
    <3>1. n >= 2 /\ v[1] = "dquote" /\ v[n] = "dquote"
      BY <1>0, <1>4
    <3>2. v # <<>>
      BY <1>0, <1>1, <3>1
    <3>3. v = quotes <=> n = 2
      BY <1>2, <3>1
    <3>4. n = 2 \/ n > 2
      <4>1. n \in Nat /\ n >= 2
        BY <3>1
      <4> HIDE DEF n
      <4> QED BY <4>1
    <3> HIDE DEF n
    <3>5. n > 2 => n # 2
      OBVIOUS
    <3> QED BY <3>2, <3>3, <3>4, <3>5
  <2> QED BY <1>3, <2>3, <2>4, <2>5
<1>5. CASE ~ wrapped
  <2>1. interior = v
    BY <1>5
  <2>2. ~ Contains(interior, "dquote") /\ ~ Contains(interior, "other")
           <=> \A i \in 1..n : v[i] = "octet"
    BY <1>0, <2>1 DEF Contains, Character
  <2>3. WellFormed(v) <=> n > 0 /\ \A i \in 1..n : v[i] = "octet"
    <3>1. ASSUME NEW m \in 1..n, m = n - 2, v[1] = "dquote", v[m + 2] = "dquote" PROVE FALSE
      BY <1>0, <1>5, <3>1
    <3>2. ASSUME n > 0, \A i \in 1..n : v[i] = "octet" PROVE WellFormed(v)
      BY <1>0, <3>2 DEF WellFormed
    <3>3. ASSUME WellFormed(v) PROVE n > 0 /\ \A i \in 1..n : v[i] = "octet"
      <4>1. PICK m \in 1..n : m = n /\ \A i \in 1..m : v[i] = "octet"
        BY <3>1, <3>3 DEF WellFormed
      <4> QED BY <1>0, <4>1
    <3> QED BY <3>2, <3>3
  <2>4. v = quotes => ~ \A i \in 1..n : v[i] = "octet"
    BY <1>2
  <2>5. v # <<>> <=> n > 0
    BY <1>0, <1>1
  <2> QED BY <1>3, <2>2, <2>3, <2>4, <2>5
<1> QED BY <1>4, <1>5

\* What the scan has found after the first i pairs.
Session(pairs, i) == {j \in 1..i : isSession(pairs[j])}
Good(pairs, i) == {j \in Session(pairs, i) : Refusal(pairs[j].value) = None}
FoundSoFar(pairs, i, found) ==
    /\ found.kind = "absent" => Session(pairs, i) = {} /\ found.skipped = None
    /\ found.kind = "rejected" =>
          Session(pairs, i) # {} /\ Good(pairs, i) = {} /\ found.skipped # None
    /\ found.kind = "found" =>
          /\ Good(pairs, i) # {}
          /\ \A g \in Good(pairs, i) : (\A j \in Good(pairs, i) : g <= j) =>
                /\ found.value = pairs[g].value
                /\ found.skipped = None <=> \A j \in Session(pairs, i) : g <= j

\* What a scan may have found.
Finding == [kind : {"absent", "rejected", "found"}, value : Seq(Character) \cup {None},
            skipped : {None, "empty", "quoting", "grammar"}]

\* One more pair.
LEMMA ScanSteps ==
    ASSUME NEW pairs, NEW i \in Nat, i > 0, NEW pair, pair = pairs[i], pair \in Pair,
           NEW found \in Finding, FoundSoFar(pairs, i - 1, found),
           NEW next, next = Scan(found, pair)
    PROVE  next \in Finding /\ FoundSoFar(pairs, i, next)
<1> DEFINE S == Session(pairs, i - 1)
           G == Good(pairs, i - 1)
<1>0. \A j : j \in 1..i <=> j \in 1..(i - 1) \/ j = i
  OBVIOUS
<1>1. /\ Session(pairs, i) = IF isSession(pair) THEN S \cup {i} ELSE S
      /\ Good(pairs, i) = IF isSession(pair) /\ Refusal(pair.value) = None THEN G \cup {i} ELSE G
  BY <1>0 DEF Session, Good
<1>2. S \subseteq Nat /\ G \subseteq S /\ \A j \in S : j < i
  BY DEF Session, Good
<1>3. pair.value \in Seq(Character) /\ Refusal(pair.value) \in {None, "empty", "quoting", "grammar"}
  BY DEF Pair, Refusal
<1>4. found.kind \in {"absent", "rejected", "found"}
  BY DEF Finding
<1>5. /\ found.kind = "absent" => S = {} /\ G = {} /\ found.skipped = None
      /\ found.kind = "rejected" => S # {} /\ G = {} /\ found.skipped # None
      /\ found.kind = "found" =>
            /\ G # {}
            /\ \A g \in G : (\A j \in G : g <= j) =>
                  /\ found.value = pairs[g].value
                  /\ found.skipped = None <=> \A j \in S : g <= j
  BY <1>2 DEF FoundSoFar
<1> HIDE DEF S, G
<1>6. CASE ~ isSession(pair)
  <2>1. next = found /\ Session(pairs, i) = S /\ Good(pairs, i) = G
    BY <1>1, <1>6 DEF Scan
  <2> QED BY <1>5, <2>1 DEF FoundSoFar
<1>7. CASE isSession(pair) /\ found.kind = "found"
  <2>1. next = found
    BY <1>7 DEF Scan
  <2>2. /\ Session(pairs, i) = S \cup {i}
        /\ G \subseteq Good(pairs, i) /\ Good(pairs, i) \subseteq G \cup {i}
    BY <1>1, <1>7
  <2>3. ASSUME NEW g \in Good(pairs, i), \A j \in Good(pairs, i) : g <= j
        PROVE  /\ found.value = pairs[g].value
               /\ found.skipped = None <=> \A j \in Session(pairs, i) : g <= j
    <3>1. PICK h \in G : TRUE
      BY <1>5, <1>7
    <3>2. h \in Nat /\ h < i /\ g <= h
      BY <1>2, <2>2, <2>3, <3>1
    <3>3. g \in G
      BY <2>2, <3>2
    <3>4. \A j \in G : g <= j
      BY <2>2, <2>3
    <3>5. g \in Nat /\ g <= i
      BY <1>2, <3>3
    <3>6. (\A j \in Session(pairs, i) : g <= j) <=> \A j \in S : g <= j
      BY <2>2, <3>5
    <3> QED BY <1>5, <1>7, <3>3, <3>4, <3>6
  <2>4. Good(pairs, i) # {}
    BY <1>5, <1>7, <2>2
  <2> QED BY <1>7, <2>1, <2>3, <2>4 DEF FoundSoFar
<1>8. CASE isSession(pair) /\ found.kind # "found" /\ Refusal(pair.value) = None
  <2>1. next = [found EXCEPT !.kind = "found", !.value = pair.value]
    BY <1>8 DEF Scan
  <2>2. next \in Finding /\ next.kind = "found" /\ next.value = pair.value
        /\ next.skipped = found.skipped
    BY <1>3, <2>1 DEF Finding
  <2>3. G = {} /\ (found.skipped = None <=> S = {})
    BY <1>4, <1>5, <1>8
  <2>4. Good(pairs, i) = {i} /\ Session(pairs, i) = S \cup {i}
    BY <1>1, <1>8, <2>3
  <2>5. (\A j \in Session(pairs, i) : i <= j) <=> S = {}
    <3>1. \A j \in S : j \in Nat /\ ~ (i <= j)
      BY <1>2
    <3> QED BY <2>4, <3>1
  <2>6. ASSUME NEW g \in Good(pairs, i)
        PROVE  /\ next.value = pairs[g].value
               /\ next.skipped = None <=> \A j \in Session(pairs, i) : g <= j
    BY <2>2, <2>3, <2>4, <2>5
  <2> QED BY <2>2, <2>4, <2>6 DEF FoundSoFar
<1>9. CASE isSession(pair) /\ found.kind # "found" /\ Refusal(pair.value) # None
  <2>1. next = [kind |-> "rejected", value |-> None,
                skipped |-> IF found.skipped = None THEN Refusal(pair.value) ELSE found.skipped]
    BY <1>9 DEF Scan
  <2>2. next \in Finding /\ next.kind = "rejected" /\ next.skipped # None
    BY <1>3, <1>9, <2>1 DEF Finding
  <2>3. G = {}
    BY <1>4, <1>5, <1>9
  <2>4. Good(pairs, i) = {} /\ Session(pairs, i) # {}
    BY <1>1, <1>9, <2>3
  <2> QED BY <2>2, <2>4 DEF FoundSoFar
<1> QED BY <1>6, <1>7, <1>8, <1>9

\* Extraction is the scan's run over the pairs.
LEMMA ScanRuns ==
    ASSUME NEW header, NEW pairs, pairs = (IF header = None THEN <<>> ELSE header),
           NEW n, n = Len(pairs), n \in Nat, \A i \in 1..n : pairs[i] \in Pair
    PROVE  extractCookie(header) \in Finding /\ FoundSoFar(pairs, n, extractCookie(header))
<1> DEFINE nothing == [kind |-> "absent", value |-> None, skipped |-> None]
           next == [i \in 1..n |-> [x \in Finding |-> Scan(x, pairs[i])]]
           Loop(f) == f = [i \in 0..n |-> IF i = 0 THEN nothing ELSE Scan(f[i - 1], pairs[i])]
           at == CHOOSE f : Loop(f)
<1>1. extractCookie(header) = at[n]
  BY DEF extractCookie
<1>2. nothing \in Finding
  BY DEF Finding
<1>3. ASSUME NEW pair \in Pair, NEW x \in Finding PROVE Scan(x, pair) \in Finding
  <2>1. pair.value \in Seq(Character) /\ Refusal(pair.value) \in {None, "empty", "quoting", "grammar"}
    BY DEF Pair, Refusal
  <2> QED BY <2>1 DEF Scan, Finding
<1>4. Steps(Finding, n, next)
  BY <1>3 DEF Steps
<1> HIDE DEF nothing, Loop, at
<1>5. PICK f : RunOf(Finding, n, next, nothing, f)
  <2> HIDE DEF next
  <2> QED BY <1>2, <1>4, LoopRuns
<1>6. ASSUME NEW i \in 1..n PROVE f[i] = Scan(f[i - 1], pairs[i])
  <2>1. i - 1 \in 0..n
    OBVIOUS
  <2>2. f[i] = next[i][f[i - 1]] /\ f[i - 1] \in Finding
    BY <1>5, <2>1 DEF RunOf
  <2>3. next[i] = [x \in Finding |-> Scan(x, pairs[i])]
    OBVIOUS
  <2> HIDE DEF next
  <2> QED BY <2>2, <2>3
<1> HIDE DEF next
<1>7. Loop(f)
  BY <1>5, <1>6 DEF Loop, RunOf
<1>8. Loop(at)
  BY <1>7 DEF at
<1>9. at[0] = nothing /\ \A i \in 1..n : at[i] = Scan(at[i - 1], pairs[i])
  <2>1. \A i \in 0..n : at[i] = IF i = 0 THEN nothing ELSE Scan(at[i - 1], pairs[i])
    BY <1>8 DEF Loop
  <2>2. \A i \in 1..n : i \in 0..n /\ i # 0
    OBVIOUS
  <2>3. 0 \in 0..n
    OBVIOUS
  <2> QED BY <2>1, <2>2, <2>3
<1> DEFINE G == {i \in 0..n : at[i] \in Finding /\ FoundSoFar(pairs, i, at[i])}
<1>10. 0 \in G
  <2>1. FoundSoFar(pairs, 0, nothing)
    BY DEF FoundSoFar, Session, nothing
  <2> QED BY <1>2, <1>9, <2>1
<1>11. ASSUME NEW i \in 1..n, i - 1 \in G PROVE i \in G
  <2>1. i \in Nat /\ i > 0 /\ pairs[i] \in Pair /\ at[i] = Scan(at[i - 1], pairs[i])
    BY <1>9
  <2>2. at[i] \in Finding /\ FoundSoFar(pairs, i, at[i])
    BY <1>11, <2>1, ScanSteps
  <2> QED BY <2>2
<1>12. n \in G
  <2> HIDE DEF G
  <2> QED BY <1>10, <1>11, Upwards
<1> QED BY <1>1, <1>12

\* n pairs of P, and the run of filtering them.
PairsOf(P, pairs, n) == n = Len(pairs) /\ n \in Nat /\ \A i \in 1..n : pairs[i] \in P
FilterRun(P, pairs, n, kept, at) ==
    /\ Keeping(pairs, kept) = at[n]
    /\ at[0] = <<>>
    /\ \A i \in 1..n :
          at[i] = IF pairs[i] \in kept THEN Append(at[i - 1], pairs[i]) ELSE at[i - 1]
    /\ \A i \in 0..n : at[i] \in Seq(P)

\* Filtering is the run of its steps.
LEMMA KeepingRuns ==
    ASSUME NEW P, NEW pairs, NEW n, PairsOf(P, pairs, n), NEW kept
    PROVE  \E at : FilterRun(P, pairs, n, kept, at)
<1>0. n = Len(pairs) /\ n \in Nat /\ \A i \in 1..n : pairs[i] \in P
  BY DEF PairsOf
<1> DEFINE Takes(x, i) == IF pairs[i] \in kept THEN Append(x, pairs[i]) ELSE x
           X == Seq(P)
           next == [i \in 1..n |-> [x \in X |-> Takes(x, i)]]
           Loop(f) == f = [i \in 0..n |-> IF i = 0 THEN <<>>
                                          ELSE IF pairs[i] \in kept THEN Append(f[i - 1], pairs[i])
                                          ELSE f[i - 1]]
           at == CHOOSE f : Loop(f)
<1>1. Keeping(pairs, kept) = at[n]
  BY <1>0 DEF Keeping
<1>2. <<>> \in X
  OBVIOUS
<1>3. ASSUME NEW i \in 1..n, NEW x \in X PROVE Takes(x, i) \in X
  BY <1>0
<1> HIDE DEF X, Takes
<1>4. Steps(X, n, next)
  BY <1>3 DEF Steps
<1> HIDE DEF Loop, at
<1>5. PICK f : RunOf(X, n, next, <<>>, f)
  <2> HIDE DEF next
  <2> QED BY <1>0, <1>2, <1>4, LoopRuns
<1>6. ASSUME NEW i \in 1..n PROVE f[i] = Takes(f[i - 1], i)
  <2>1. i - 1 \in 0..n
    BY <1>0
  <2>2. f[i] = next[i][f[i - 1]] /\ f[i - 1] \in X
    BY <1>5, <2>1 DEF RunOf
  <2>3. next[i] = [x \in X |-> Takes(x, i)]
    OBVIOUS
  <2> HIDE DEF next
  <2> QED BY <2>2, <2>3
<1> HIDE DEF next
<1>7. Loop(f)
  <2>1. f = [i \in 0..n |-> f[i]] /\ f[0] = <<>>
    BY <1>0, <1>5 DEF RunOf
  <2>2. \A i \in 0..n : f[i] = IF i = 0 THEN <<>>
                               ELSE IF pairs[i] \in kept THEN Append(f[i - 1], pairs[i])
                               ELSE f[i - 1]
    <3>1. \A i \in 0..n : i # 0 => i \in 1..n
      BY <1>0
    <3> QED BY <1>6, <2>1, <3>1 DEF Takes
  <2> QED BY <2>1, <2>2 DEF Loop
<1>8. Loop(at)
  BY <1>7 DEF at
<1>9. at[0] = <<>> /\ \A i \in 1..n : at[i] = Takes(at[i - 1], i)
  <2>1. \A i \in 0..n : at[i] = IF i = 0 THEN <<>>
                                ELSE IF pairs[i] \in kept THEN Append(at[i - 1], pairs[i])
                                ELSE at[i - 1]
    BY <1>8 DEF Loop
  <2>2. \A i \in 1..n : i \in 0..n /\ i # 0
    OBVIOUS
  <2>3. 0 \in 0..n
    BY <1>0
  <2> QED BY <2>1, <2>2, <2>3 DEF Takes
<1> DEFINE G == {i \in 0..n : at[i] \in X}
<1>10. 0 \in G
  BY <1>0, <1>2, <1>9
<1>11. ASSUME NEW i \in 1..n, i - 1 \in G PROVE i \in G
  BY <1>0, <1>3, <1>9, <1>11
<1>12. 0..n \subseteq G
  <2> HIDE DEF G
  <2> QED BY <1>0, <1>10, <1>11, Upwards
<1> QED BY <1>1, <1>9, <1>12 DEF X, Takes, FilterRun

\* What filtering gives is a sequence of pairs of the set, and is none of none.
LEMMA KeepingKeeps ==
    ASSUME NEW P, NEW pairs \in Seq(P), NEW kept
    PROVE  /\ Keeping(pairs, kept) \in Seq(P)
           /\ \A j \in 1..Len(Keeping(pairs, kept)) : Keeping(pairs, kept)[j] \in kept
           /\ pairs = <<>> => Keeping(pairs, kept) = <<>>
<1> DEFINE n == Len(pairs)
           In(x) == \A j \in 1..Len(x) : x[j] \in kept
<1>1. n \in Nat /\ \A i \in 1..n : pairs[i] \in P
  OBVIOUS
<1>0. PairsOf(P, pairs, n)
  BY <1>1 DEF PairsOf
<1>2. PICK at : FilterRun(P, pairs, n, kept, at)
  <2> HIDE DEF n
  <2> QED BY <1>0, KeepingRuns
<1> USE DEF FilterRun
<1> DEFINE G == {i \in 0..n : In(at[i])}
<1>3. 0 \in G
  BY <1>1, <1>2
<1>4. ASSUME NEW i \in 1..n, i - 1 \in G PROVE i \in G
  <2>1. i - 1 \in 0..n /\ at[i - 1] \in Seq(P) /\ In(at[i - 1]) /\ pairs[i] \in P
    BY <1>1, <1>2, <1>4
  <2>2. CASE pairs[i] \in kept
    <3>1. at[i] = Append(at[i - 1], pairs[i])
      BY <1>2, <2>2
    <3>2. In(at[i])
      BY <2>1, <2>2, <3>1
    <3> QED BY <3>2
  <2>3. CASE pairs[i] \notin kept
    BY <1>2, <2>1, <2>3
  <2> QED BY <2>2, <2>3
<1>5. n \in G
  <2> HIDE DEF G, n
  <2> QED BY <1>1, <1>3, <1>4, Upwards
<1>6. n \in 0..n
  BY <1>1
<1>7. pairs = <<>> => n = 0
  OBVIOUS
<1> QED BY <1>2, <1>5, <1>6, <1>7

\* Filtering one pair more.
LEMMA KeepingAppend ==
    ASSUME NEW P, NEW s \in Seq(P), NEW x \in P, NEW kept
    PROVE  Keeping(Append(s, x), kept)
              = IF x \in kept THEN Append(Keeping(s, kept), x) ELSE Keeping(s, kept)
<1> DEFINE n == Len(s)
           t == Append(s, x)
           Filters(q, f, i) == f[i] = IF q[i] \in kept THEN Append(f[i - 1], q[i]) ELSE f[i - 1]
<1>1. /\ n \in Nat /\ \A i \in 1..n : s[i] \in P
      /\ t \in Seq(P) /\ Len(t) = n + 1 /\ t[n + 1] = x /\ \A i \in 1..n : t[i] = s[i]
  OBVIOUS
<1>2. \A i \in 1..(n + 1) : t[i] \in P
  BY <1>1
<1> HIDE DEF n, t
<1>3. PICK f : FilterRun(P, s, n, kept, f)
  <2>1. PairsOf(P, s, n)
    BY <1>1 DEF PairsOf, n
  <2> QED BY <2>1, KeepingRuns
<1>4. PICK g : FilterRun(P, t, n + 1, kept, g)
  <2>1. PairsOf(P, t, n + 1)
    BY <1>1, <1>2 DEF PairsOf
  <2> QED BY <2>1, KeepingRuns
<1> USE DEF FilterRun
<1> DEFINE G == {i \in 0..n : f[i] = g[i]}
<1>5. 0 \in G
  BY <1>1, <1>3, <1>4
<1>6. ASSUME NEW i \in 1..n, i - 1 \in G PROVE i \in G
  <2>1. f[i - 1] = g[i - 1] /\ t[i] = s[i] /\ i \in 1..(n + 1) /\ i \in 0..n
    BY <1>1, <1>6
  <2>2. Filters(s, f, i) /\ Filters(t, g, i)
    BY <1>3, <1>4, <2>1
  <2> QED BY <2>1, <2>2
<1>7. f[n] = g[n]
  <2>1. n \in G
    <3> HIDE DEF G
    <3> QED BY <1>1, <1>5, <1>6, Upwards
  <2> QED BY <2>1
<1>8. Filters(t, g, n + 1) /\ (n + 1) - 1 = n
  BY <1>1, <1>4
<1> QED BY <1>1, <1>3, <1>4, <1>7, <1>8 DEF t

\* Filtering twice is filtering by the narrower set.
LEMMA KeepingTwice ==
    ASSUME NEW P, NEW pairs \in Seq(P), NEW wide, NEW narrow,
           \A i \in 1..Len(pairs) : pairs[i] \in narrow => pairs[i] \in wide
    PROVE  Keeping(Keeping(pairs, wide), narrow) = Keeping(pairs, narrow)
<1> DEFINE n == Len(pairs)
<1>1. n \in Nat /\ \A i \in 1..n : pairs[i] \in P
  OBVIOUS
<1>2. \A i \in 1..n : pairs[i] \in narrow => pairs[i] \in wide
  OBVIOUS
<1>3. PairsOf(P, pairs, n)
  BY <1>1 DEF PairsOf
<1> HIDE DEF n
<1>4. PICK f : FilterRun(P, pairs, n, wide, f)
  BY <1>3, KeepingRuns
<1>5. PICK g : FilterRun(P, pairs, n, narrow, g)
  BY <1>3, KeepingRuns
<1> USE DEF FilterRun
<1> DEFINE G == {i \in 0..n : Keeping(f[i], narrow) = g[i]}
<1>6. 0 \in G
  <2>1. Keeping(<<>>, narrow) = <<>>
    <3>1. <<>> \in Seq(P)
      OBVIOUS
    <3> QED BY <3>1, KeepingKeeps
  <2> QED BY <1>1, <1>4, <1>5, <2>1
<1>7. ASSUME NEW i \in 1..n, i - 1 \in G PROVE i \in G
  <2>1. /\ i - 1 \in 0..n /\ i \in 0..n
        /\ f[i - 1] \in Seq(P) /\ pairs[i] \in P /\ Keeping(f[i - 1], narrow) = g[i - 1]
    BY <1>1, <1>4, <1>7
  <2>2. Keeping(Append(f[i - 1], pairs[i]), narrow)
           = IF pairs[i] \in narrow THEN Append(g[i - 1], pairs[i]) ELSE g[i - 1]
    <3> DEFINE q == f[i - 1]
               pair == pairs[i]
    <3>1. q \in Seq(P) /\ pair \in P /\ Keeping(q, narrow) = g[i - 1]
      BY <2>1
    <3> HIDE DEF q, pair
    <3>2. Keeping(Append(q, pair), narrow)
             = IF pair \in narrow THEN Append(Keeping(q, narrow), pair) ELSE Keeping(q, narrow)
      BY <3>1, KeepingAppend
    <3> QED BY <3>1, <3>2 DEF q, pair
  <2>3. CASE pairs[i] \in wide
    BY <1>4, <1>5, <2>1, <2>2, <2>3
  <2>4. CASE pairs[i] \notin wide
    BY <1>2, <1>4, <1>5, <2>1, <2>4
  <2> QED BY <2>3, <2>4
<1>8. n \in G
  <2> HIDE DEF G
  <2> QED BY <1>1, <1>6, <1>7, Upwards
<1> QED BY <1>4, <1>5, <1>8

\* What CookieReadAndRemoved says of one header.
ReadAndRemoved(cookies, found, left) ==
    LET pairs == IF cookies = None THEN <<>> ELSE cookies
        rest == IF left = None THEN <<>> ELSE left
        session == {i \in 1..Len(pairs) : isSession(pairs[i])}
        good == {i \in session : WellFormed(pairs[i].value)}
        before(i) == {j \in session : j < i}
        another == {pair \in ToSet(pairs) : pair.name = "another"}
    IN  /\ found.kind = CASE session = {} -> "absent"
                          [] session # {} /\ good = {} -> "rejected"
                          [] OTHER -> "found"
        /\ \A i \in good : good \cap before(i) = {} =>
              /\ found.value = pairs[i].value
              /\ (found.skipped = None) <=> (before(i) = {})
        /\ extractCookie(left).kind = "absent"
        /\ Keeping(rest, another) = Keeping(pairs, another)

\* What is read of the cookies, and what is left of them.
LEMMA CookiesRead ==
    ASSUME NEW cookies, cookies \in Seq(Pair) \cup {None}
    PROVE  ReadAndRemoved(cookies, extractCookie(cookies), withoutCookie(cookies))
<1> DEFINE pairs == IF cookies = None THEN <<>> ELSE cookies
           left == withoutCookie(cookies)
           rest == IF left = None THEN <<>> ELSE left
           n == Len(pairs)
           session == {i \in 1..n : isSession(pairs[i])}
           good == {i \in session : WellFormed(pairs[i].value)}
           before(i) == {j \in session : j < i}
           another == {pair \in ToSet(pairs) : pair.name = "another"}
           found == extractCookie(cookies)
<1>1. pairs \in Seq(Pair) /\ n \in Nat /\ \A i \in 1..n : pairs[i] \in Pair
  OBVIOUS
<1>2. found \in Finding /\ FoundSoFar(pairs, n, found)
  <2> HIDE DEF n, found
  <2>1. n = Len(pairs)
    BY DEF n
  <2> QED BY <1>1, <2>1, ScanRuns DEF found
<1>3. session = Session(pairs, n) /\ good = Good(pairs, n)
  <2>1. ASSUME NEW i \in 1..n
        PROVE  WellFormed(pairs[i].value) <=> Refusal(pairs[i].value) = None
    <3>1. pairs[i].value \in Seq(Character)
      BY <1>1 DEF Pair
    <3> QED BY <3>1, TakenIsWellFormed
  <2> QED BY <2>1 DEF Session, Good
<1>4. session \subseteq Nat /\ good \subseteq session
  OBVIOUS
<1>5. found.kind = CASE session = {} -> "absent"
                     [] session # {} /\ good = {} -> "rejected"
                     [] OTHER -> "found"
  <2> HIDE DEF session, good, found
  <2>1. found.kind \in {"absent", "rejected", "found"}
    BY <1>2 DEF Finding
  <2>2. /\ found.kind = "absent" => session = {}
        /\ found.kind = "rejected" => session # {} /\ good = {}
        /\ found.kind = "found" => good # {}
    BY <1>2, <1>3 DEF FoundSoFar
  <2> QED BY <1>4, <2>1, <2>2
<1>6. ASSUME NEW i \in good, good \cap before(i) = {}
      PROVE  /\ found.value = pairs[i].value
             /\ (found.skipped = None) <=> (before(i) = {})
  <2>1. found.kind = "found"
    <3>1. found.kind \in {"absent", "rejected", "found"}
      BY <1>2 DEF Finding
    <3>2. session # {} /\ good # {}
      BY <1>4, <1>6
    <3> HIDE DEF session, good, found
    <3> QED BY <1>2, <1>3, <3>1, <3>2 DEF FoundSoFar
  <2>2. \A j \in good : i <= j
    BY <1>4, <1>6
  <2>3. (\A j \in session : i <= j) <=> before(i) = {}
    BY <1>4, <1>6
  <2> HIDE DEF session, good, found, before
  <2> QED BY <1>2, <1>3, <1>6, <2>1, <2>2, <2>3 DEF FoundSoFar
<1> DEFINE others == {pair \in ToSet(cookies) : ~ isSession(pair)}
           wide == {pair \in others : pair.name # "none" \/ pair.value # <<>>}
           kept == Keeping(cookies, wide)
<1>7. CASE cookies = None
  <2>1. left = None
    BY <1>7 DEF withoutCookie
  <2>2. n = 0 /\ session = {}
    BY <1>7
  <2>3. found.kind = "absent"
    BY <1>5, <2>2
  <2>4. extractCookie(left).kind = "absent"
    BY <1>7, <2>1, <2>3
  <2>5. rest = pairs
    BY <1>7, <2>1
  <2> QED BY <1>5, <1>6, <2>4, <2>5 DEF ReadAndRemoved
<1>8. CASE cookies # None /\ ToSet(cookies) = others
  <2>1. left = cookies
    BY <1>8 DEF withoutCookie
  <2>2. session = {}
    BY <1>8 DEF ToSet
  <2>3. found.kind = "absent"
    BY <1>5, <2>2
  <2>4. extractCookie(left).kind = "absent"
    BY <2>1, <2>3
  <2>5. rest = pairs
    BY <1>8, <2>1
  <2> QED BY <1>5, <1>6, <2>4, <2>5 DEF ReadAndRemoved
<1>9. CASE cookies # None /\ ToSet(cookies) # others
  <2>1. pairs = cookies
    BY <1>9
  <2>2. left = IF kept = <<>> THEN None ELSE kept
    BY <1>9 DEF withoutCookie
  <2>3. kept \in Seq(Pair) /\ \A j \in 1..Len(kept) : kept[j] \in wide
    BY <1>1, <2>1, KeepingKeeps
  <2>4. kept # None
    BY <2>3, CookieAssumption
  <2>5. rest = kept
    BY <2>2, <2>4
  <2>6. Keeping(rest, another) = Keeping(pairs, another)
    <3>1. another \subseteq wide
      BY <2>1 DEF isSession
    <3> HIDE DEF wide, another, pairs, n, kept, rest
    <3>2. kept = Keeping(pairs, wide)
      BY <2>1 DEF kept
    <3> QED BY <1>1, <2>5, <3>1, <3>2, KeepingTwice
  <2>7. extractCookie(left).kind = "absent"
    <3> DEFINE m == Len(kept)
               f == extractCookie(left)
    <3>0. \A pair \in wide : ~ isSession(pair)
      OBVIOUS
    <3>1. m \in Nat /\ \A j \in 1..m : kept[j] \in Pair /\ ~ isSession(kept[j])
      <4> HIDE DEF kept, wide
      <4> QED BY <2>3, <3>0
    <3>2. kept = IF left = None THEN <<>> ELSE left
      BY <2>2, <2>4
    <3>3. f \in Finding /\ FoundSoFar(kept, m, f)
      <4> HIDE DEF m, f, left, kept
      <4>1. m = Len(kept)
        BY DEF m
      <4> QED BY <3>1, <3>2, <4>1, ScanRuns DEF f
    <3>4. Session(kept, m) = {} /\ Good(kept, m) = {}
      BY <3>1 DEF Session, Good
    <3> HIDE DEF f
    <3>5. f.kind \in {"absent", "rejected", "found"}
      BY <3>3 DEF Finding
    <3> QED BY <3>3, <3>4, <3>5 DEF FoundSoFar, f
  <2> QED BY <1>5, <1>6, <2>6, <2>7 DEF ReadAndRemoved
<1> QED BY <1>7, <1>8, <1>9

\* The sender's claims stand where they may.
LEMMA ReadingInitInv == ReadingInit => ReadingInv
<1> SUFFICES ASSUME ReadingInit PROVE ReadingInv
  OBVIOUS
<1>1. PICK s \in Starts :
          /\ s.sender \in Trusted => s.xff = <<>> /\ s.proto = <<>>
          /\ req = s.request
          /\ route = <<s.sender>>
          /\ xff = s.xff
          /\ proto = [i \in 1..Len(s.proto) |-> [value |-> s.proto[i], by |-> s.sender]]
  BY DEF ReadingInit
<1>2. /\ Sendable(s.request) /\ s.sender \in Address
      /\ s.xff \in Seq(Entry) /\ s.proto \in Seq(Scheme)
  BY StartsAssumption
<1>3. RouteIsTrusted
  BY <1>1, <1>2 DEF ReadingInit, RouteIsTrusted
<1>4. ReportsStandLast
  BY <1>1, <1>2 DEF ReadingInit, ReportsStandLast
<1>5. SchemeIsReported
  <2>1. proto \in Seq([value : Scheme, by : Address])
    BY <1>1, <1>2
  <2>2. Len(route) = 1 /\ route[1] = s.sender
    BY <1>1
  <2>3. s.sender \in Trusted => proto = <<>>
    BY <1>1
  <2> QED BY <2>1, <2>2, <2>3 DEF SchemeIsReported
<1>6. SourceIsVouched /\ GateIsStricter /\ CookieReadAndRemoved
  BY DEF ReadingInit, SourceIsVouched, GateIsStricter, CookieReadAndRemoved, Travelling
<1> QED BY <1>1, <1>2, <1>3, <1>4, <1>5, <1>6 DEF ReadingInv

\* A trusted proxy adds its report, and keeps every report before it.
LEMMA HopInv ==
    ASSUME ReadingInv, NEW p \in Trusted, TrustedHop(p)
    PROVE  ReadingInv'
<1> DEFINE n == Len(route)
<1>0. /\ n \in Nat /\ n >= 1 /\ Last(route) = route[n] /\ route[n] \in Address
      /\ xff \in Seq(Entry) /\ Len(xff) \in Nat /\ Len(xff) >= n - 1
      /\ p \in Address
  BY TrustAssumption DEF ReadingInv, RouteIsTrusted, ReportsStandLast, Last
<1>1. PICK plain \in BOOLEAN, scheme \in {"http", "https"} :
          /\ readable' = Append(readable, plain)
          /\ xff' = Append(xff, IF plain THEN Last(route) ELSE "no_ip")
          /\ \/ proto' = <<[value |-> scheme, by |-> p]>>
             \/ proto' = Append(proto, [value |-> scheme, by |-> p])
  BY DEF TrustedHop
<1>2. route' = Append(route, p) /\ UNCHANGED <<req, caller, forwarded>> /\ Travelling
  BY DEF TrustedHop
<1>3. RouteIsTrusted'
  <2>1. Len(route') = n + 1 /\ route'[n + 1] = p /\ \A i \in 1..n : route'[i] = route[i]
    BY <1>0, <1>2 DEF ReadingInv, RouteIsTrusted
  <2>2. route' \in Seq(Address) /\ readable' \in Seq(BOOLEAN) /\ Len(readable') = n + 1
    BY <1>0, <1>1, <1>2 DEF ReadingInv, RouteIsTrusted
  <2>3. \A i \in 2..Len(route') : route'[i] \in Trusted
    BY <1>0, <2>1 DEF ReadingInv, RouteIsTrusted
  <2> QED BY <1>0, <2>1, <2>2, <2>3 DEF RouteIsTrusted
<1>4. ReportsStandLast'
  <2> DEFINE entry == IF plain THEN route[n] ELSE "no_ip"
             m == Len(xff)
  <2>1. entry \in Entry
    BY <1>0 DEF Entry
  <2>2. /\ xff' \in Seq(Entry) /\ Len(xff') = m + 1
        /\ xff'[m + 1] = entry /\ \A i \in 1..m : xff'[i] = xff[i]
    BY <1>0, <1>1, <2>1
  <2>3. Len(route') = n + 1 /\ \A i \in 1..n : route'[i] = route[i]
    BY <1>0, <1>2 DEF ReadingInv, RouteIsTrusted
  <2>4. readable'[n + 1] = plain /\ \A i \in 1..n : readable'[i] = readable[i]
    BY <1>0, <1>1 DEF ReadingInv, RouteIsTrusted
  <2>5. ASSUME NEW i \in 2..Len(route')
        PROVE  xff'[Len(xff') - Len(route') + i]
                  = IF readable'[i] THEN route'[i - 1] ELSE "no_ip"
    <3>1. Len(xff') - Len(route') + i = m - n + i
      BY <1>0, <2>2, <2>3
    <3>2. CASE i = n + 1
      BY <1>0, <2>2, <2>3, <2>4, <3>1, <3>2
    <3>3. CASE i \in 2..n
      <4>1. xff[m - n + i] = IF readable[i] THEN route[i - 1] ELSE "no_ip"
        BY <3>3 DEF ReadingInv, ReportsStandLast
      <4>2. m - n + i \in 1..m
        BY <1>0, <3>3
      <4>3. xff'[m - n + i] = xff[m - n + i]
        BY <2>2, <4>2
      <4>4. route'[i - 1] = route[i - 1] /\ readable'[i] = readable[i]
        BY <1>0, <2>3, <2>4, <3>3
      <4> QED BY <3>1, <4>1, <4>3, <4>4
    <3> QED BY <1>0, <2>3, <3>2, <3>3
  <2>6. route'[1] \in Trusted => Len(xff') = Len(route') - 1
    BY <1>0, <2>2, <2>3 DEF ReadingInv, ReportsStandLast
  <2> QED BY <1>0, <2>2, <2>3, <2>5, <2>6 DEF ReportsStandLast
<1>5. SchemeIsReported'
  <2> DEFINE said == [value |-> scheme, by |-> p]
  <2>1. said \in [value : Scheme, by : Address] /\ said.by \in Trusted
    BY <1>0 DEF Scheme
  <2> HIDE DEF said
  <2>2. proto \in Seq([value : Scheme, by : Address])
    BY DEF ReadingInv, SchemeIsReported
  <2>3. /\ proto' \in Seq([value : Scheme, by : Address])
        /\ Len(proto') >= 1 /\ proto'[Len(proto')] = said
    <3>1. CASE proto' = <<said>>
      BY <2>1, <3>1
    <3>2. CASE proto' = Append(proto, said)
      BY <2>1, <2>2, <3>2
    <3> QED BY <1>1, <3>1, <3>2 DEF said
  <2>4. Len(route') = n + 1
    BY <1>0, <1>2 DEF ReadingInv, RouteIsTrusted
  <2> QED BY <1>0, <2>1, <2>3, <2>4 DEF SchemeIsReported
<1>6. SourceIsVouched' /\ GateIsStricter' /\ CookieReadAndRemoved'
  BY <1>2 DEF Travelling, SourceIsVouched, GateIsStricter, CookieReadAndRemoved
<1> QED BY <1>2, <1>3, <1>4, <1>5, <1>6 DEF ReadingInv, Sendable

\* The router's reading.
LEMMA ReadsInv ==
    ASSUME ReadingInv, NEW socket \in {"http", "https"}, NEW lost \in BOOLEAN, Reads(socket, lost)
    PROVE  ReadingInv'
<1> DEFINE source == requestSource(IF lost THEN None ELSE Last(route), socket, xff, proto)
<1>1. /\ caller'.source = source
      /\ caller'.sameOrigin = sameOriginGate(req.signals, source.protocol, req.public)
      /\ caller'.lost = lost
      /\ UNCHANGED <<req, route, readable, xff, proto>>
  BY DEF Reads
<1> HIDE DEF source
<1>0. req.cookies \in Seq(Pair) \cup {None}
  BY DEF ReadingInv, Sendable
<1>2. RouteIsTrusted' /\ ReportsStandLast' /\ SchemeIsReported' /\ Sendable(req)'
  BY <1>1 DEF ReadingInv, RouteIsTrusted, ReportsStandLast, SchemeIsReported, Sendable
<1>3. SourceIsVouched'
  <2>1. \A j : VouchedFor(j)' <=> VouchedFor(j)
    BY <1>1 DEF VouchedFor
  <2>2. /\ IF lost THEN source.address = None
           ELSE \E j \in 1..Len(route) :
                    /\ source.address = route[j]
                    /\ VouchedFor(j)
                    /\ j = 1 \/ ~ VouchedFor(j - 1)
        /\ source.from \in {"socket"} \cup Trusted
    BY SourceRead DEF source, ReadingInv
  <2> QED BY <1>1, <2>1, <2>2 DEF SourceIsVouched
<1>4. GateIsStricter'
  BY <1>1, GateRead DEF ReadingInv, GateIsStricter
<1>5. CookieReadAndRemoved'
  <2>1. caller'.cookie = extractCookie(req.cookies) /\ forwarded' = withoutCookie(req.cookies)
    BY DEF Reads
  <2>2. ReadAndRemoved(req.cookies, caller'.cookie, forwarded')
    BY <1>0, <2>1, CookiesRead
  <2> QED BY <1>1, <2>2 DEF CookieReadAndRemoved, ReadAndRemoved
<1> QED BY <1>1, <1>2, <1>3, <1>4, <1>5 DEF ReadingInv

\* Whatever the sender and the nodes nobody trusts claim, and however many trusted
\* proxies the request passes, the last entries of X-Forwarded-For are the trusted
\* ones' reports, in order.
THEOREM ReadingInvariance == ReadingSpec => []ReadingInv
<1>1. ReadingInv /\ [ReadingNext]_readingVars => ReadingInv'
  <2> SUFFICES ASSUME ReadingInv, [ReadingNext]_readingVars PROVE ReadingInv'
    OBVIOUS
  <2>1. ASSUME NEW p \in Trusted, TrustedHop(p) PROVE ReadingInv'
    BY <2>1, HopInv
  <2>2. ASSUME NEW socket \in {"http", "https"}, NEW lost \in BOOLEAN, Reads(socket, lost)
        PROVE  ReadingInv'
    BY <2>2, ReadsInv
  <2>3. CASE UNCHANGED readingVars
    <3>1. UNCHANGED <<req, route, readable, xff, proto, caller, forwarded>>
      BY <2>3 DEF readingVars
    <3>2. RouteIsTrusted' /\ ReportsStandLast' /\ SchemeIsReported' /\ Sendable(req)'
      BY <3>1 DEF ReadingInv, Sendable, RouteIsTrusted, ReportsStandLast, SchemeIsReported
    <3>3. SourceIsVouched'
      BY <3>1 DEF ReadingInv, SourceIsVouched, VouchedFor, Travelling
    <3>4. GateIsStricter'
      BY <3>1 DEF ReadingInv, GateIsStricter, Travelling
    <3>5. CookieReadAndRemoved'
      <4>1. CookieReadAndRemoved
               <=> (~ Travelling => ReadAndRemoved(req.cookies, caller.cookie, forwarded))
        BY DEF CookieReadAndRemoved, ReadAndRemoved
      <4>2. CookieReadAndRemoved'
               <=> (~ Travelling' => ReadAndRemoved(req'.cookies, caller'.cookie, forwarded'))
        BY DEF CookieReadAndRemoved, ReadAndRemoved
      <4> QED BY <3>1, <4>1, <4>2 DEF ReadingInv, Travelling
    <3> QED BY <3>2, <3>3, <3>4, <3>5 DEF ReadingInv
  <2> QED BY <2>1, <2>2, <2>3 DEF ReadingNext
<1> QED BY <1>1, ReadingInitInv, PTL DEF ReadingSpec

\* The address the provider is told is that of a node the request passed, the
\* farthest one the trusted chain vouches for, and the scheme is the socket's or
\* one a trusted proxy wrote (request-source.mts).
THEOREM SourceIsVouchedHolds == ReadingSpec => []SourceIsVouched
<1>1. ReadingInv => SourceIsVouched
  BY DEF ReadingInv
<1> QED BY <1>1, ReadingInvariance, PTL

\* What the same-origin gate admits the provider's own check would have, and a
\* browser sent it from a page of the proxy's own (origin-gate.mts).
THEOREM GateIsStricterHolds == ReadingSpec => []GateIsStricter
<1>1. ReadingInv => GateIsStricter
  BY DEF ReadingInv
<1> QED BY <1>1, ReadingInvariance, PTL

\* The session cookie is read from the first well-formed pair of its name, and the
\* upstream gets every pair of another name, in order, and none of it
\* (cookie-extractor.mts).
THEOREM CookieReadAndRemovedHolds == ReadingSpec => []CookieReadAndRemoved
<1>1. ReadingInv => CookieReadAndRemoved
  BY DEF ReadingInv
<1> QED BY <1>1, ReadingInvariance, PTL

----------------------------------------------------------------------------
(* The calls to the provider.                                              *)

\* What a client looks for, with the shape no text may have, covers all that its
\* request carried: nothing sent is left out of a list, for any client that relays.
LEMMA ListsCoverRequest ==
    ASSUME client \in Client, client.kind # "introspection"
    PROVE  Carried \subseteq JwtShaped \cup Checked
<1>1. CASE client.kind = "session"
  BY <1>1 DEF Client, Carried, SessionCarries, Checked, Sent, InForm, JwtShaped
<1>2. CASE client.kind = "exchange"
  BY <1>2 DEF Carried, ExchangeCarries, Checked, JwtShaped
<1> QED BY <1>1, <1>2 DEF Client

\* A text that passed the sanitizer of a client holds nothing its request carried.
LEMMA SanitizedIsClean ==
    ASSUME client \in Client, client.kind # "introspection", NEW t, NEW text \in Sanitized(t)
    PROVE  text.fits /\ text.echoes \cap Carried = {}
<1>1. /\ text.fits
      /\ text.echoes \cap JwtShaped = {}
      /\ text.echoes \cap Checked = {}
  BY DEF Sanitized
<1> QED BY <1>1, ListsCoverRequest

\* Whatever a body is read as, what a verdict relays has passed the sanitizer of the
\* client that asked; an introspection relays nothing.
LEMMA VerdictRelays ==
    ASSUME IndInv, NEW reading, NEW text \in Verdict(reading).relayed
    PROVE  text.fits /\ text.echoes \cap Carried = {}
<1>1. client \in Client /\ client.kind \in {"session", "exchange", "introspection"}
  BY DEF IndInv, Client
<1>2. CASE client.kind = "session"
  <2>1. text \in Sanitized(answer.text)
    BY <1>2 DEF Verdict, SessionVerdict, Ok, Failed, FailedSaying
  <2> QED BY <1>1, <1>2, <2>1, SanitizedIsClean
<1>3. CASE client.kind = "exchange"
  <2>1. text \in Sanitized(answer.text)
    BY <1>3 DEF Verdict, ExchangeVerdict, Ok, Failed, FailedSaying
  <2> QED BY <1>1, <1>3, <2>1, SanitizedIsClean
<1>4. CASE client.kind = "introspection"
  BY <1>4 DEF Verdict, IntrospectionVerdict, Ok, Failed
<1> QED BY <1>1, <1>2, <1>3, <1>4

\* Which readings of an answer blame the caller.
LEMMA VerdictBlames ==
    ASSUME IndInv, NEW reading, Verdict(reading).status \in {401, 403}
    PROVE  /\ answer.status \in {400, 401}
           /\ answer.status = 401 =>
                 /\ client.kind # "exchange"
                 /\ client.kind = "introspection" => client.auth = "none"
                 /\ client.kind = "session" => reading # "invalid_client"
           /\ answer.status = 400 =>
                 client.kind # "introspection" /\ reading \in {"invalid_grant", "not_permitted"}
<1>1. client.kind \in {"session", "exchange", "introspection"}
  BY DEF IndInv, Client
<1>2. CASE client.kind = "session"
  BY <1>2 DEF Verdict, SessionVerdict, Ok, Failed, FailedSaying
<1>3. CASE client.kind = "exchange"
  BY <1>3 DEF Verdict, ExchangeVerdict, Ok, Failed, FailedSaying
<1>4. CASE client.kind = "introspection"
  BY <1>4 DEF Verdict, IntrospectionVerdict, Ok, Failed, FailedSaying
<1> QED BY <1>1, <1>2, <1>3, <1>4

\* A body that is not read blames the caller only on the status, and one that
\* says nothing is neither of the error codes.
LEMMA NothingBlames ==
    ASSUME IndInv, Verdict("nothing").status \in {401, 403}
    PROVE  /\ answer.status = 401
           /\ client.kind # "exchange"
           /\ client.kind = "introspection" => client.auth = "none"
BY VerdictBlames

\* What the request carries depends on the client alone.
LEMMA CarriedStays ==
    ASSUME client' = client
    PROVE  Carried' = Carried
BY DEF Carried, SessionCarries, ExchangeCarries, IntrospectionCarries, InAuthorization, InForm

\* Ending a call on a reading of nothing, with the body let go of.
LEMMA EndsOnNothing ==
    ASSUME IndInv, Ends(Verdict("nothing"), "cancelled") \/ Ends(Verdict("nothing"), "failed"),
           UNCHANGED <<client, answer>>, got' \in Nat
    PROVE  IndInv'
<1> USE DEF Ends
<1>1. BodyReleased'
  BY DEF BodyReleased
<1>2. NoCredentialRelayed'
  BY VerdictRelays, CarriedStays DEF NoCredentialRelayed
<1>3. BlameIsProviders'
  BY NothingBlames DEF BlameIsProviders
<1> QED BY <1>1, <1>2, <1>3 DEF IndInv

\* Ending a call with a failure that is nobody's answer.
LEMMA EndsFailed ==
    ASSUME IndInv, NEW s \in {500, 502}, Ends(Failed(s), "none"),
           UNCHANGED <<client, answer, got>>
    PROVE  IndInv'
BY DEF IndInv, Ends, Failed, BodyReleased, BlameIsProviders, NoCredentialRelayed

\* Building decides nothing, or fails for the proxy's own reasons.
LEMMA BuildsInv ==
    ASSUME IndInv, Builds
    PROVE  IndInv'
<1>1. CASE stage' = "calling" /\ UNCHANGED <<body, outcome>>
  BY <1>1 DEF Builds, IndInv, NoOutcome, BodyReleased, BlameIsProviders, NoCredentialRelayed
<1>2. CASE Ends(Failed(500), "none") \/ Ends(Failed(502), "none")
  BY <1>2, EndsFailed DEF Builds
<1> QED BY <1>1, <1>2 DEF Builds

\* What is read depends on the client and the status alone.
LEMMA ReadsBodyStays ==
    ASSUME ReadsBody, UNCHANGED <<client, answer>>
    PROVE  ReadsBody'
<1>1. client' = client /\ answer' = answer
  OBVIOUS
<1> QED BY <1>1 DEF ReadsBody

\* A body that is not read is discarded: each status has its branch.
LEMMA UnreadIsDiscarded ==
    ASSUME IndInv, ~ ReadsBody
    PROVE  Discards
<1>1. client.kind \in {"session", "exchange", "introspection"}
  BY DEF IndInv, Client
<1>2. answer.status \in Int
  BY DEF IndInv, Answer
<1>3. CASE client.kind = "session"
  BY <1>3 DEF ReadsBody, Discards, Unexpected
<1>4. CASE client.kind = "exchange"
  BY <1>2, <1>4 DEF ReadsBody, Discards, Redirected
<1>5. CASE client.kind = "introspection"
  BY <1>5 DEF ReadsBody, Discards
<1> QED BY <1>1, <1>3, <1>4, <1>5

\* A head opens the body for reading, or decides the call on the status alone.
LEMMA HeadArrivesInv ==
    ASSUME IndInv, HeadArrives
    PROVE  IndInv'
<1>1. CASE ReadsBody
  <2>1. Bound \in Nat
    BY BoundAssumption DEF Bound
  <2>2. got' = 0 /\ got' <= Bound'
    BY <2>1 DEF HeadArrives, IndInv, Bound
  <2>3. ReadsBody'
    BY <1>1, ReadsBodyStays DEF HeadArrives
  <2> QED
    BY <1>1, <2>2, <2>3 DEF HeadArrives, IndInv, NoOutcome, BodyReleased, BlameIsProviders,
                      NoCredentialRelayed
<1>2. CASE ~ ReadsBody
  BY <1>2, UnreadIsDiscarded, EndsOnNothing DEF HeadArrives, IndInv
<1> QED BY <1>1, <1>2

\* A chunk keeps the body within its bound, or ends the call.
LEMMA ChunkArrivesInv ==
    ASSUME IndInv, ChunkArrives
    PROVE  IndInv'
<1>1. got' \in Nat
  BY DEF ChunkArrives, IndInv
<1>2. CASE got' > Bound
  BY <1>1, <1>2, EndsOnNothing DEF ChunkArrives
<1>3. CASE ~ (got' > Bound)
  <2>1. Bound \in Nat /\ Bound' = Bound
    BY BoundAssumption DEF Bound, ChunkArrives
  <2>2. got' <= Bound'
    BY <1>1, <1>3, <2>1
  <2>3. ReadsBody'
    BY ReadsBodyStays DEF ChunkArrives, IndInv
  <2> QED
    BY <1>1, <1>3, <2>2, <2>3 DEF ChunkArrives, IndInv, NoOutcome, BodyReleased, BlameIsProviders,
                            NoCredentialRelayed
<1> QED BY <1>2, <1>3

\* A body that ended was read whole, within the bound of its status.
LEMMA BodyEndsInv ==
    ASSUME IndInv, BodyEnds
    PROVE  IndInv'
<1> USE DEF BodyEnds, Ends
<1>1. BodyReleased'
  BY DEF BodyReleased
<1>2. NoCredentialRelayed'
  BY VerdictRelays, CarriedStays DEF NoCredentialRelayed
<1>3. BlameIsProviders'
  <2> SUFFICES ASSUME Verdict(answer.says).status \in {401, 403}
               PROVE  BlameIsProviders'
    BY DEF BlameIsProviders
  <2>1. answer.status = 400 => answer.size <= ErrorBound
    BY DEF IndInv, Bound
  <2>2. client.kind = "introspection" => answer.status = 200
    BY DEF IndInv, ReadsBody
  <2>3. client.kind \in {"session", "exchange", "introspection"}
    BY DEF IndInv, Client
  <2> QED BY <2>1, <2>2, <2>3, VerdictBlames DEF BlameIsProviders
<1> QED BY <1>1, <1>2, <1>3 DEF IndInv

\* A call cut off ends as one nobody answered, or on a body that says nothing.
LEMMA CutOffInv ==
    ASSUME IndInv, CutOff
    PROVE  IndInv'
<1>1. CASE Ends(Failed(502), "none")
  BY <1>1, EndsFailed DEF CutOff
<1>2. CASE Ends(Verdict("nothing"), "failed")
  BY <1>2, EndsOnNothing DEF CutOff, IndInv
<1> QED BY <1>1, <1>2 DEF CutOff

\* Every reachable state of a call satisfies the inductive invariant.
THEOREM CallInvariance == Spec => []IndInv
<1>1. Init => IndInv
  BY DEF Init, Answers, IndInv, NoOutcome, BodyReleased, BlameIsProviders, NoCredentialRelayed
<1>2. IndInv /\ [Next]_vars => IndInv'
  <2> SUFFICES ASSUME IndInv, [Next]_vars PROVE IndInv'
    OBVIOUS
  <2>1. CASE UNCHANGED vars
    <3>1. ReadsBody => ReadsBody'
      BY <2>1, ReadsBodyStays DEF vars
    <3>2. Carried' = Carried
      BY <2>1, CarriedStays DEF vars
    <3> QED
      BY <2>1, <3>1, <3>2 DEF vars, IndInv, Bound, BodyReleased, BlameIsProviders,
                              NoCredentialRelayed
  <2> QED
    BY <2>1, BuildsInv, HeadArrivesInv, ChunkArrivesInv, BodyEndsInv, CutOffInv DEF Next
<1> QED BY <1>1, <1>2, PTL DEF Spec

\* The caller's credential is blamed only on the provider's word, whatever the
\* bounds on the bodies are and wherever an answer stops.
THEOREM BlameIsProvidersHolds == Spec => []BlameIsProviders
<1>1. IndInv => BlameIsProviders
  BY DEF IndInv
<1> QED BY CallInvariance, <1>1, PTL

\* No call of any client leaves a response body open behind it.
THEOREM BodyReleasedHolds == Spec => []BodyReleased
<1>1. IndInv => BodyReleased
  BY DEF IndInv
<1> QED BY CallInvariance, <1>1, PTL

\* Nothing a request carried, the caller's or the proxy's own, comes back out in what
\* is relayed or logged, for each client and each way of authenticating.
THEOREM NoCredentialRelayedHolds == Spec => []NoCredentialRelayed
<1>1. IndInv => NoCredentialRelayed
  BY DEF IndInv
<1> QED BY CallInvariance, <1>1, PTL
==============================================================================
