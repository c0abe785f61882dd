------------------------ MODULE BoundedCachesProofs -------------------------
(***************************************************************************)
(* The bound, the last write and the eviction order of both caches, for    *)
(* every set of keys, bound and sequence of calls.                         *)
(***************************************************************************)
EXTENDS BoundedCaches, CacheLemmas, FiniteSetTheorems

----------------------------------------------------------------------------
(* A map whose keys are ranked by when they took their position.           *)

\* The order of m is that of the ranks.
Ranked(m, rank) ==
    /\ m.before \subseteq Keys(m) \X Keys(m)
    /\ \A x, y \in Keys(m) : x # y =>
           rank[x] # rank[y] /\ (<<x, y>> \in m.before <=> rank[x] < rank[y])

\* A set of naturals that is not empty has a least member.
LEMMA LeastNatural ==
    ASSUME NEW T, T \subseteq Nat, T # {}
    PROVE  \E x \in T : \A y \in T : x <= y
<1> DEFINE R == OpToRel(<, Nat)
<1>1. IsWellFoundedOn(R, Nat)
  BY NatLessThanWellFounded
<1>2. \A x, y \in Nat : <<y, x>> \in R <=> y < x
  BY DEF OpToRel
<1> HIDE DEF R
<1>3. PICK x \in T : \A y \in T : ~ (<<y, x>> \in R)
  BY <1>1, WFMin
<1>4. ASSUME NEW y \in T PROVE x <= y
  <2>1. x \in Nat /\ y \in Nat
    OBVIOUS
  <2>2. <<y, x>> \notin R
    BY <1>3
  <2>3. ~ (y < x)
    BY <1>2, <2>1, <2>2
  <2> QED BY <2>1, <2>3
<1> QED BY <1>4

\* The oldest key of a ranked map is the one of least rank.
LEMMA OldestIsLeast ==
    ASSUME NEW m, NEW rank, \A x \in Keys(m) : rank[x] \in Nat, Ranked(m, rank), Keys(m) # {}
    PROVE  /\ Oldest(m) \in Keys(m)
           /\ \A y \in Keys(m) \ {Oldest(m)} : rank[Oldest(m)] < rank[y]
<1> DEFINE T == {rank[x] : x \in Keys(m)}
<1>1. T \subseteq Nat /\ T # {}
  OBVIOUS
<1>2. PICK n \in T : \A l \in T : n <= l
  BY <1>1, LeastNatural
<1>3. PICK k \in Keys(m) : \A y \in Keys(m) : rank[k] <= rank[y]
  BY <1>2
<1>4. \A x \in Keys(m) \ {k} : <<k, x>> \in m.before
  BY <1>3 DEF Ranked
<1> DEFINE P(j) == \A x \in Keys(m) \ {j} : <<j, x>> \in m.before
<1>5. Oldest(m) = CHOOSE j \in Keys(m) : P(j)
  BY DEF Oldest
<1>6. \E j \in Keys(m) : P(j)
  BY <1>4
<1> HIDE DEF P
<1>7. Oldest(m) \in Keys(m) /\ P(Oldest(m))
  BY <1>5, <1>6
<1> QED BY <1>7 DEF P, Ranked

\* Deleting keys leaves the others in order.
LEMMA RankedWithout ==
    ASSUME NEW m, NEW rank, Ranked(m, rank), NEW gone
    PROVE  Ranked(Without(m, gone), rank)
<1>1. Keys(Without(m, gone)) = Keys(m) \ gone
  BY WithoutKeeps
<1>2. Without(m, gone).before = {p \in m.before : p[1] \notin gone /\ p[2] \notin gone}
  BY DEF Without
<1>3. Without(m, gone).before \subseteq (Keys(m) \ gone) \X (Keys(m) \ gone)
  BY <1>2 DEF Ranked
<1>4. \A x, y \in Keys(m) \ gone : <<x, y>> \in Without(m, gone).before <=> <<x, y>> \in m.before
  BY <1>2
<1> QED BY <1>1, <1>3, <1>4 DEF Ranked

\* A new key goes last.
LEMMA RankedWith ==
    ASSUME NEW m, NEW rank, Ranked(m, rank), \A x \in Keys(m) : rank[x] \in Nat,
           NEW k, k \notin Keys(m), NEW e, NEW new,
           new[k] \in Nat, \A x \in Keys(m) : new[x] = rank[x] /\ new[x] < new[k]
    PROVE  Ranked(With(m, k, e), new)
<1>1. Keys(With(m, k, e)) = Keys(m) \cup {k}
  BY WithWrites
<1>2. With(m, k, e).before = m.before \cup {<<x, k>> : x \in Keys(m)}
  BY DEF With
<1>3. With(m, k, e).before \subseteq (Keys(m) \cup {k}) \X (Keys(m) \cup {k})
  BY <1>2 DEF Ranked
<1>4. \A x \in Keys(m) : <<x, k>> \in With(m, k, e).before /\ <<k, x>> \notin With(m, k, e).before
  BY <1>2 DEF Ranked
<1>5. \A x, y \in Keys(m) : <<x, y>> \in With(m, k, e).before <=> <<x, y>> \in m.before
  BY <1>2
<1>6. \A x, y \in Keys(m) : x # y =>
         new[x] # new[y] /\ (<<x, y>> \in With(m, k, e).before <=> new[x] < new[y])
  BY <1>5 DEF Ranked
<1>7. \A x \in Keys(m) : new[x] # new[k] /\ ~ (new[k] < new[x])
  OBVIOUS
<1> QED BY <1>1, <1>3, <1>4, <1>6, <1>7 DEF Ranked

\* A key still held keeps its place.
LEMMA RankedInPlace ==
    ASSUME NEW m, NEW rank, Ranked(m, rank), NEW k \in Keys(m), NEW e
    PROVE  Ranked(With(m, k, e), rank)
<1>1. Keys(With(m, k, e)) = Keys(m)
  <2>1. Keys(m) \cup {k} = Keys(m)
    OBVIOUS
  <2> QED BY <2>1, WithWrites
<1>2. With(m, k, e).before = m.before
  BY DEF With
<1> QED BY <1>1, <1>2 DEF Ranked

\* Making room costs at most the oldest entry, that only in a full map, and leaves
\* room for one more.
LEMMA EvictMakesRoom ==
    ASSUME NEW m, NEW rank, Ranked(m, rank), \A x \in Keys(m) : rank[x] \in Nat,
           IsFiniteSet(Keys(m)), NEW max \in Nat \ {0}, Size(m) <= max
    PROVE  LET n == EvictToken(m, max)
           IN  /\ Ranked(n, rank)
               /\ Keys(n) \subseteq Keys(m) /\ Size(n) < max
               /\ \/ Keys(n) = Keys(m)
                  \/ /\ Size(m) >= max
                     /\ \E x \in Keys(m) : /\ Keys(n) = Keys(m) \ {x}
                                           /\ \A y \in Keys(m) \ {x} : rank[x] < rank[y]
<1>1. Size(m) \in Nat
  BY FS_CardinalityType DEF Size
<1>2. CASE Size(m) < max
  <2>1. EvictToken(m, max) = m
    BY <1>1, <1>2 DEF EvictToken
  <2> QED BY <1>2, <2>1
<1>3. CASE Size(m) >= max
  <2>1. Keys(m) # {}
    <3>1. Cardinality({}) = 0
      BY FS_EmptySet
    <3> QED BY <1>3, <3>1 DEF Size
  <2> DEFINE x == Oldest(m)
             n == Without(m, {x})
  <2>2. EvictToken(m, max) = n
    BY <1>3, <2>1 DEF EvictToken, WithoutOldest
  <2>3. x \in Keys(m) /\ \A y \in Keys(m) \ {x} : rank[x] < rank[y]
    BY <2>1, OldestIsLeast
  <2>4. Ranked(n, rank)
    BY RankedWithout
  <2>5. Keys(n) = Keys(m) \ {x}
    BY WithoutKeeps
  <2> HIDE DEF x, n
  <2>6. Cardinality(Keys(n)) = Cardinality(Keys(m)) - 1
    BY <2>3, <2>5, FS_RemoveElement
  <2>7. Size(n) < max
    BY <1>1, <2>6 DEF Size
  <2> QED BY <1>3, <2>2, <2>3, <2>4, <2>5, <2>7
<1> QED BY <1>1, <1>2, <1>3

\* A new key in a map with room.
LEMMA WithFits ==
    ASSUME NEW m, IsFiniteSet(Keys(m)), NEW max \in Nat, Size(m) < max, NEW k, NEW e
    PROVE  IsFiniteSet(Keys(With(m, k, e))) /\ Size(With(m, k, e)) <= max
<1>1. Keys(With(m, k, e)) = Keys(m) \cup {k}
  BY WithWrites
<1>2. Size(m) \in Nat
  BY FS_CardinalityType DEF Size
<1> QED BY <1>1, <1>2, FS_AddElement DEF Size

\* Deleting keys leaves no more of them.
LEMMA WithoutShrinks ==
    ASSUME NEW m, IsFiniteSet(Keys(m)), NEW gone
    PROVE  IsFiniteSet(Keys(Without(m, gone))) /\ Size(Without(m, gone)) <= Size(m)
BY WithoutKeeps, FS_Subset DEF Size

----------------------------------------------------------------------------
(* The inductive invariant.                                                *)

\* Everything held is its key's last write, within the bound, and iterates in the
\* order in which the keys took their positions.
CacheInv ==
    /\ kind \in {"token", "introspection"} /\ now \in Nat /\ writes \in Nat
    /\ last \in [Key -> [value : Nat, expiresAt : Nat]]
    /\ since \in [Key -> Nat] /\ \A k \in Key : since[k] <= writes
    /\ Keys(entries) \subseteq Key /\ IsFiniteSet(Keys(entries)) /\ WithinBound
    /\ \A k \in Keys(entries) : entries.at[k] = last[k]
    /\ Ranked(entries, since)

\* The live entries of the other keys, and what is left of them in map n.
Others(k) == {x \in Key \ {k} : Live(entries, x)}

\* At most one of them is lost, the oldest, and only if they filled the cache.
OldestOnlyWhenFull(k, n) ==
    \/ Others(k) \subseteq Keys(n)
    \/ /\ Cardinality(Others(k)) >= MaxEntries
       /\ \E x \in Others(k) : /\ {y \in Others(k) : y \notin Keys(n)} = {x}
                               /\ \A y \in Others(k) \ {x} : since[x] < since[y]

\* What a write makes of the ranks.
LEMMA SetRanks ==
    ASSUME CacheInv, NEW k \in Key, NEW t \in Nat, Set(k, t)
    PROVE  /\ since' \in [Key -> Nat] /\ \A x \in Key : since'[x] <= writes'
           /\ \A x \in Key \ {k} : since'[x] = since[x] /\ since'[x] < writes + 1
           /\ since'[k] = IF kind = "introspection" /\ Live(entries, k) THEN since[k] ELSE writes + 1
           /\ last' \in [Key -> [value : Nat, expiresAt : Nat]]
           /\ \A x \in Key \ {k} : last'[x] = last[x]
           /\ last'[k] = [value |-> writes + 1, expiresAt |-> t]
           /\ writes' = writes + 1 /\ writes' \in Nat /\ UNCHANGED <<kind, now>>
BY DEF CacheInv, Set

\* Sweeping leaves what is live.
LEMMA SweepLeavesLive ==
    ASSUME CacheInv, NEW gone
    PROVE  /\ Keys(SweepExpired(Without(entries, gone), now)) = {x \in Key \ gone : Live(entries, x)}
           /\ Keys(SweepStale(entries, now)) = {x \in Key : Live(entries, x)}
<1>1. \A x \in Keys(entries) : entries.at[x].expiresAt \in Nat
  BY DEF CacheInv
<1>2. Keys(SweepStale(entries, now)) = {x \in Keys(entries) : entries.at[x].expiresAt > now}
  BY <1>1, WithoutKeeps DEF SweepStale, CacheInv
<1> DEFINE m == Without(entries, gone)
<1>3. Keys(m) = Keys(entries) \ gone /\ \A x \in Keys(m) : m.at[x] = entries.at[x]
  BY WithoutKeeps
<1> HIDE DEF m
<1>4. Keys(SweepExpired(m, now)) = {x \in Keys(m) : m.at[x].expiresAt > now}
  BY <1>1, <1>3, WithoutKeeps DEF SweepExpired, CacheInv
<1>5. \A x : Live(entries, x) <=> x \in Keys(entries) /\ entries.at[x].expiresAt > now
  BY DEF Live, LiveToken, LiveResult
<1> QED BY <1>2, <1>3, <1>4, <1>5 DEF CacheInv, m

\* Making room among what is left of the entries, and writing a key that is new
\* there, keeps the bound and the order and costs at most the oldest.
LEMMA RoomThenWrite ==
    ASSUME CacheInv, NEW k \in Key, NEW e, NEW m,
           Keys(m) = Others(k), IsFiniteSet(Keys(m)), Size(m) <= MaxEntries,
           Ranked(m, since), NEW new, new[k] = writes + 1,
           \A x \in Key \ {k} : new[x] = since[x] /\ new[x] < writes + 1
    PROVE  LET n == With(EvictToken(m, MaxEntries), k, e)
           IN  /\ IsFiniteSet(Keys(n)) /\ Size(n) <= MaxEntries /\ Keys(n) \subseteq Key
               /\ Ranked(n, new)
               /\ OldestOnlyWhenFull(k, n)
<1> DEFINE r == EvictToken(m, MaxEntries)
           n == With(r, k, e)
<1>1. /\ Ranked(r, since) /\ Keys(r) \subseteq Keys(m) /\ Size(r) < MaxEntries
      /\ \/ Keys(r) = Keys(m)
         \/ /\ Size(m) >= MaxEntries
            /\ \E x \in Keys(m) : /\ Keys(r) = Keys(m) \ {x}
                                  /\ \A y \in Keys(m) \ {x} : since[x] < since[y]
  <2>1. \A x \in Keys(m) : since[x] \in Nat
    BY DEF CacheInv, Others
  <2> QED BY <2>1, EvictMakesRoom, MaxEntriesAssumption
<1> HIDE DEF r
<1>2. IsFiniteSet(Keys(r)) /\ k \notin Keys(r) /\ Keys(r) \subseteq Key
  BY <1>1, FS_Subset DEF Others
<1>3. Keys(n) = Keys(r) \cup {k}
  BY WithWrites
<1>4. IsFiniteSet(Keys(n)) /\ Size(n) <= MaxEntries
  BY <1>1, <1>2, WithFits, MaxEntriesAssumption
<1>5. Ranked(n, new)
  <2>1. \A x \in Keys(r) : since[x] \in Nat /\ new[x] = since[x] /\ new[x] < new[k]
    BY <1>2 DEF CacheInv
  <2>2. new[k] \in Nat
    BY DEF CacheInv
  <2> QED BY <1>1, <1>2, <2>1, <2>2, RankedWith
<1>6. OldestOnlyWhenFull(k, n)
  <2>1. CASE Keys(r) = Keys(m)
    BY <1>3, <2>1 DEF OldestOnlyWhenFull
  <2>2. ASSUME Size(m) >= MaxEntries,
               NEW x \in Keys(m), Keys(r) = Keys(m) \ {x},
               \A y \in Keys(m) \ {x} : since[x] < since[y]
        PROVE  OldestOnlyWhenFull(k, n)
    <3>1. {y \in Others(k) : y \notin Keys(n)} = {x}
      BY <1>3, <2>2 DEF Others
    <3>2. Cardinality(Others(k)) >= MaxEntries
      BY <2>2 DEF Size
    <3> QED BY <2>2, <3>1, <3>2 DEF OldestOnlyWhenFull
  <2> QED BY <1>1, <2>1, <2>2
<1> HIDE DEF n
<1>7. Keys(n) \subseteq Key
  BY <1>2, <1>3
<1> QED BY <1>4, <1>5, <1>6, <1>7 DEF n, r

\* The token cache's `set` deletes its key first, so it always makes room and
\* always goes last.
LEMMA TokenSetOrder ==
    ASSUME CacheInv, NEW k \in Key, NEW t \in Nat, Set(k, t), kind = "token"
    PROVE  /\ IsFiniteSet(Keys(entries')) /\ Size(entries') <= MaxEntries /\ Keys(entries') \subseteq Key
           /\ Ranked(entries', since')
           /\ OldestOnlyWhenFull(k, entries')
<1> DEFINE e == [value |-> writes + 1, expiresAt |-> t]
           a == Without(entries, {k})
           m == SweepExpired(a, now)
<1>1. entries' = With(EvictToken(m, MaxEntries), k, e)
  BY DEF Set, TokenSet
<1>2. Keys(m) = Others(k)
  BY SweepLeavesLive DEF Others
<1>3. Ranked(a, since) /\ IsFiniteSet(Keys(a)) /\ Size(a) <= Size(entries)
  BY RankedWithout, WithoutShrinks DEF CacheInv
<1> HIDE DEF a
<1>4. Ranked(m, since) /\ IsFiniteSet(Keys(m)) /\ Size(m) <= Size(a)
  BY <1>3, RankedWithout, WithoutShrinks DEF SweepExpired
<1>5. Size(m) <= MaxEntries
  BY <1>3, <1>4, FS_CardinalityType, MaxEntriesAssumption DEF Size, CacheInv, WithinBound
<1>6. since'[k] = writes + 1 /\ \A x \in Key \ {k} : since'[x] = since[x] /\ since'[x] < writes + 1
  BY SetRanks
<1> HIDE DEF e, m
<1> QED BY <1>1, <1>2, <1>4, <1>5, <1>6, RoomThenWrite

\* The introspection cache's `set` makes room only for a key not held any more, and
\* leaves one still held where it is.
LEMMA ResultSetOrder ==
    ASSUME CacheInv, NEW k \in Key, NEW t \in Nat, Set(k, t), kind = "introspection"
    PROVE  /\ IsFiniteSet(Keys(entries')) /\ Size(entries') <= MaxEntries /\ Keys(entries') \subseteq Key
           /\ Ranked(entries', since')
           /\ OldestOnlyWhenFull(k, entries')
<1> DEFINE e == [value |-> writes + 1, expiresAt |-> t]
           m == SweepStale(entries, now)
<1>1. entries' = With(MakeRoom(m, k, MaxEntries), k, e)
  BY DEF Set, ResultSet
<1>2. Keys(m) = {x \in Key : Live(entries, x)}
  BY SweepLeavesLive
<1>3. Ranked(m, since) /\ IsFiniteSet(Keys(m)) /\ Size(m) <= Size(entries)
  BY RankedWithout, WithoutShrinks DEF CacheInv, SweepStale
<1>4. Size(m) <= MaxEntries
  BY <1>3, FS_CardinalityType, MaxEntriesAssumption DEF Size, CacheInv, WithinBound
<1> HIDE DEF e, m
<1>5. CASE Live(entries, k)
  <2>1. k \in Keys(m) /\ Others(k) \subseteq Keys(m)
    BY <1>2, <1>5 DEF Others
  <2>2. entries' = With(m, k, e)
    BY <1>1, <2>1 DEF MakeRoom
  <2>3. Keys(entries') = Keys(m)
    <3>1. Keys(m) \cup {k} = Keys(m)
      BY <2>1
    <3> QED BY <2>2, <3>1, WithWrites
  <2>4. since' = since
    <3>1. since'[k] = since[k] /\ since' \in [Key -> Nat]
      BY <1>5, SetRanks
    <3>2. \A x \in Key \ {k} : since'[x] = since[x]
      BY SetRanks
    <3> QED BY <3>1, <3>2 DEF CacheInv
  <2>5. Ranked(entries', since')
    BY <1>3, <2>1, <2>2, <2>4, RankedInPlace
  <2> QED BY <1>2, <1>3, <1>4, <2>1, <2>3, <2>5 DEF OldestOnlyWhenFull, Size
<1>6. CASE ~ Live(entries, k)
  <2>1. k \notin Keys(m) /\ Keys(m) = Others(k)
    BY <1>2, <1>6 DEF Others
  <2>2. entries' = With(EvictToken(m, MaxEntries), k, e)
    BY <1>1, <2>1 DEF MakeRoom, EvictToken
  <2>3. since'[k] = writes + 1 /\ \A x \in Key \ {k} : since'[x] = since[x] /\ since'[x] < writes + 1
    BY <1>6, SetRanks
  <2> QED BY <1>3, <1>4, <2>1, <2>2, <2>3, RoomThenWrite
<1> QED BY <1>5, <1>6

\* What is held after a write is the last write of its key.
LEMMA SetEntries ==
    ASSUME CacheInv, NEW k \in Key, NEW t \in Nat, Set(k, t)
    PROVE  \A x \in Keys(entries') : entries'.at[x] = last'[x]
<1> DEFINE e == [value |-> writes + 1, expiresAt |-> t]
<1>1. entries' = TokenSet(entries, k, e, now, MaxEntries) \/ entries' = ResultSet(entries, k, e, now, MaxEntries)
  BY DEF Set
<1>2. last'[k] = e /\ \A x \in Key \ {k} : last'[x] = last[x]
  BY SetRanks
<1> HIDE DEF e
<1>3. /\ k \in Keys(entries') /\ entries'.at[k] = e
      /\ \A x \in Keys(entries') \ {k} : x \in Keys(entries) /\ entries'.at[x] = entries.at[x]
  BY <1>1, TokenSetWrites, ResultSetWrites
<1> QED BY <1>2, <1>3 DEF CacheInv

----------------------------------------------------------------------------
(* The theorems.                                                           *)

\* A write keeps the invariant.
LEMMA SetInv ==
    ASSUME CacheInv, NEW k \in Key, NEW t \in Nat, Set(k, t)
    PROVE  CacheInv' /\ OldestOnlyWhenFull(k, entries')
<1>1. /\ IsFiniteSet(Keys(entries')) /\ Size(entries') <= MaxEntries /\ Keys(entries') \subseteq Key
      /\ Ranked(entries', since') /\ OldestOnlyWhenFull(k, entries')
  BY TokenSetOrder, ResultSetOrder DEF CacheInv
<1>2. Ranked(entries, since)' /\ WithinBound'
  BY <1>1 DEF WithinBound, Ranked, Keys, Size
<1>3. /\ since' \in [Key -> Nat] /\ \A x \in Key : since'[x] <= writes'
      /\ last' \in [Key -> [value : Nat, expiresAt : Nat]]
      /\ writes' \in Nat /\ UNCHANGED <<kind, now>>
  BY SetRanks
<1>4. \A x \in Keys(entries') : entries'.at[x] = last'[x]
  BY SetEntries
<1> QED BY <1>1, <1>2, <1>3, <1>4 DEF CacheInv, Keys

\* A get of the token cache deletes at most its own key.
LEMMA GetInv ==
    ASSUME CacheInv, NEW k \in Key, Get(k)
    PROVE  CacheInv'
<1>1. entries' = entries \/ entries' = Without(entries, {k})
  BY DEF Get, AfterTokenGet
<1>2. UNCHANGED <<kind, now, writes, last, since>>
  BY DEF Get
<1>3. CASE entries' = Without(entries, {k})
  <2>1. Keys(entries') = Keys(entries) \ {k} /\ \A x \in Keys(entries') : entries'.at[x] = entries.at[x]
    BY <1>3, WithoutKeeps
  <2>2. IsFiniteSet(Keys(entries')) /\ Size(entries') <= Size(entries)
    BY <1>3, WithoutShrinks DEF CacheInv
  <2>3. Ranked(entries', since)
    BY <1>3, RankedWithout DEF CacheInv
  <2>4. WithinBound'
    BY <2>2, FS_CardinalityType, MaxEntriesAssumption DEF CacheInv, WithinBound, Size
  <2>5. Ranked(entries, since)'
    BY <1>2, <2>3 DEF Ranked, Keys
  <2> QED BY <1>2, <2>1, <2>2, <2>4, <2>5 DEF CacheInv, Keys
<1>4. CASE entries' = entries
  BY <1>2, <1>4 DEF CacheInv, WithinBound, Ranked, Size, Keys
<1> QED BY <1>1, <1>3, <1>4

\* Nothing is held, in order.
LEMMA EmptyInv ==
    ASSUME NEW rank
    PROVE  Keys(EmptyMap) = {} /\ IsFiniteSet(Keys(EmptyMap)) /\ Size(EmptyMap) = 0 /\ Ranked(EmptyMap, rank)
BY FS_EmptySet DEF EmptyMap, Keys, Size, Ranked

\* The invariant holds in every state.
THEOREM CacheInvariance == Spec => []CacheInv
<1>1. Init => CacheInv
  <2> SUFFICES ASSUME Init PROVE CacheInv
    OBVIOUS
  <2>1. NoWrite \in [value : Nat, expiresAt : Nat]
    BY DEF NoWrite
  <2> QED BY <2>1, EmptyInv, MaxEntriesAssumption DEF Init, CacheInv, WithinBound
<1>2. CacheInv /\ [Next]_vars => CacheInv'
  <2> SUFFICES ASSUME CacheInv, [Next]_vars PROVE CacheInv'
    OBVIOUS
  <2>1. ASSUME NEW k \in Key, Get(k) PROVE CacheInv'
    BY <2>1, GetInv
  <2>2. ASSUME NEW k \in Key, NEW t \in 0..(MaxTime + 1), Set(k, t) PROVE CacheInv'
    BY <2>2, SetInv, MaxTimeAssumption
  <2>3. CASE Clear
    <3>1. NoWrite \in [value : Nat, expiresAt : Nat]
      BY DEF NoWrite
    <3>2. /\ entries' = EmptyMap /\ UNCHANGED <<kind, now, writes>>
          /\ last' = [k \in Key |-> NoWrite] /\ since' = [k \in Key |-> 0]
      BY <2>3 DEF Clear
    <3>3. /\ Keys(entries') = {} /\ IsFiniteSet(Keys(entries')) /\ Size(entries') = 0
          /\ Ranked(entries', since')
      BY <3>2, EmptyInv
    <3>4. Ranked(entries, since)' /\ WithinBound'
      BY <3>3, MaxEntriesAssumption DEF Ranked, Keys, WithinBound, Size
    <3> QED BY <3>1, <3>2, <3>3, <3>4 DEF CacheInv, Keys
  <2>4. CASE Tick
    BY <2>4 DEF Tick, CacheInv, WithinBound, Ranked, Size, Keys
  <2>5. CASE UNCHANGED vars
    BY <2>5 DEF vars, CacheInv, WithinBound, Ranked, Size, Keys
  <2> QED BY <2>1, <2>2, <2>3, <2>4, <2>5 DEF Next
<1> QED BY <1>1, <1>2, PTL DEF Spec

\* `set` makes room first: neither cache ever holds more than its bound.
THEOREM WithinBoundHolds == Spec => []WithinBound
<1>1. CacheInv => WithinBound
  BY DEF CacheInv
<1> QED BY <1>1, CacheInvariance, PTL

\* A key is only ever served with its last write, and not from its instant on.
THEOREM ServesLastWriteHolds == Spec => []ServesLastWrite
<1>1. CacheInv => ServesLastWrite
  <2> SUFFICES ASSUME CacheInv, NEW k \in Key, NEW e \in Served(k)
               PROVE  e = last[k] /\ now < e.expiresAt
    BY DEF ServesLastWrite
  <2>1. Live(entries, k) /\ e = entries.at[k]
    BY DEF Served
  <2>2. k \in Keys(entries) /\ entries.at[k].expiresAt > now
    BY <2>1 DEF Live, LiveToken, LiveResult
  <2>3. entries.at[k] = last[k] /\ last[k].expiresAt \in Nat
    BY <2>2 DEF CacheInv
  <2> QED BY <2>1, <2>2, <2>3 DEF CacheInv
<1> QED BY <1>1, CacheInvariance, PTL

\* A write costs another key its live entry only in a cache full of live entries, and
\* then the one entry that has held its position longest.
THEOREM EvictsOldestOnlyWhenFullHolds == Spec => EvictsOldestOnlyWhenFull
<1> DEFINE A == \A k \in Key :
          last'[k] # last[k] /\ writes' # writes =>
            LET live == {x \in Key \ {k} : Live(entries, x)}
                lost == {x \in live : x \notin Keys(entries')}
                full == Cardinality(live) >= MaxEntries
            IN  lost # {} =>
                  /\ full
                  /\ \E x \in lost : lost = {x} /\ \A y \in live \ {x} : since[x] < since[y]
<1>1. ASSUME CacheInv, [Next]_vars, NEW k \in Key, last'[k] # last[k], writes' # writes
      PROVE  OldestOnlyWhenFull(k, entries')
  <2>1. PICK j \in Key, t \in 0..(MaxTime + 1) : Set(j, t)
    BY <1>1 DEF Next, Get, Clear, Tick, vars
  <2>2. t \in Nat
    BY MaxTimeAssumption
  <2>3. j = k
    BY <1>1, <2>1, <2>2, SetRanks
  <2> QED BY <1>1, <2>1, <2>2, <2>3, SetInv
<1>2. ASSUME NEW k \in Key, OldestOnlyWhenFull(k, entries')
      PROVE  LET lost == {x \in Others(k) : x \notin Keys(entries')}
             IN  lost # {} =>
                    /\ Cardinality(Others(k)) >= MaxEntries
                    /\ \E x \in lost : lost = {x} /\ \A y \in Others(k) \ {x} : since[x] < since[y]
  BY <1>2 DEF OldestOnlyWhenFull
<1>3. CacheInv /\ [Next]_vars => [A]_vars
  BY <1>1, <1>2 DEF Others
<1>4. [][A]_vars <=> EvictsOldestOnlyWhenFull
  BY DEF EvictsOldestOnlyWhenFull
<1> QED BY <1>3, <1>4, CacheInvariance, PTL DEF Spec

=============================================================================
