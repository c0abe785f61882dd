---------------------------- MODULE CacheLemmas -----------------------------
(***************************************************************************)
(* What the operations of the two caches keep, write and delete.           *)
(***************************************************************************)
EXTENDS TokenCache, IntrospectionCache, TLAPS

\* Deleting keys keeps the entries of the others.
LEMMA WithoutKeeps ==
    ASSUME NEW m, NEW gone
    PROVE  /\ Keys(Without(m, gone)) = Keys(m) \ gone
           /\ \A x \in Keys(m) \ gone : Without(m, gone).at[x] = m.at[x]
BY DEF Without, Keys

\* Dropping the oldest entry adds and changes none.
LEMMA WithoutOldestKeeps ==
    ASSUME NEW m
    PROVE  /\ Keys(WithoutOldest(m)) \subseteq Keys(m)
           /\ \A x \in Keys(WithoutOldest(m)) : WithoutOldest(m).at[x] = m.at[x]
<1>1. CASE Keys(m) = {}
  BY <1>1 DEF WithoutOldest
<1>2. CASE Keys(m) # {}
  <2>1. WithoutOldest(m) = Without(m, {Oldest(m)})
    BY <1>2 DEF WithoutOldest
  <2> QED BY <2>1, WithoutKeeps
<1> QED BY <1>1, <1>2

\* A `set` of the Map writes its own entry and no other.
LEMMA WithWrites ==
    ASSUME NEW m, NEW k, NEW e
    PROVE  /\ Keys(With(m, k, e)) = Keys(m) \cup {k}
           /\ With(m, k, e).at[k] = e
           /\ \A x \in Keys(m) \ {k} : With(m, k, e).at[x] = m.at[x]
BY DEF With, Keys

\* A `set` writes its own entry; the others are gone or what they were.
LEMMA TokenSetWrites ==
    ASSUME NEW m, NEW k, NEW e, NEW t, NEW max
    PROVE  LET n == TokenSet(m, k, e, t, max)
           IN  /\ k \in Keys(n) /\ n.at[k] = e
               /\ \A x \in Keys(n) \ {k} : x \in Keys(m) /\ n.at[x] = m.at[x]
<1> DEFINE a == Without(m, {k})
           b == SweepExpired(a, t)
           c == EvictToken(b, max)
<1>1. \A x \in Keys(a) : x \in Keys(m) /\ a.at[x] = m.at[x]
  BY WithoutKeeps
<1>2. \A x \in Keys(b) : x \in Keys(a) /\ b.at[x] = a.at[x]
  <2> HIDE DEF a
  <2> QED BY WithoutKeeps DEF SweepExpired
<1>3. \A x \in Keys(c) : x \in Keys(b) /\ c.at[x] = b.at[x]
  <2> HIDE DEF b
  <2> QED BY WithoutOldestKeeps DEF EvictToken
<1>4. TokenSet(m, k, e, t, max) = With(c, k, e)
  BY DEF TokenSet
<1> HIDE DEF a, b, c
<1> QED BY <1>1, <1>2, <1>3, <1>4, WithWrites

\* A `get` keeps what it does not delete.
LEMMA TokenGetKeeps ==
    ASSUME NEW m, NEW k, NEW t
    PROVE  \A x \in Keys(AfterTokenGet(m, k, t)) :
              x \in Keys(m) /\ AfterTokenGet(m, k, t).at[x] = m.at[x]
BY WithoutKeeps DEF AfterTokenGet

\* The same of the introspection cache's `set`.
LEMMA ResultSetWrites ==
    ASSUME NEW m, NEW k, NEW e, NEW t, NEW max
    PROVE  LET n == ResultSet(m, k, e, t, max)
           IN  /\ k \in Keys(n) /\ n.at[k] = e
               /\ \A x \in Keys(n) \ {k} : x \in Keys(m) /\ n.at[x] = m.at[x]
<1> DEFINE a == SweepStale(m, t)
           b == MakeRoom(a, k, max)
<1>1. \A x \in Keys(a) : x \in Keys(m) /\ a.at[x] = m.at[x]
  BY WithoutKeeps DEF SweepStale
<1>2. \A x \in Keys(b) : x \in Keys(a) /\ b.at[x] = a.at[x]
  <2> HIDE DEF a
  <2> QED BY WithoutOldestKeeps DEF MakeRoom
<1>3. ResultSet(m, k, e, t, max) = With(b, k, e)
  BY DEF ResultSet
<1> HIDE DEF a, b
<1> QED BY <1>1, <1>2, <1>3, WithWrites
=============================================================================
