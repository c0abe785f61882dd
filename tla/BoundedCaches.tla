--------------------------- MODULE BoundedCaches ----------------------------
(***************************************************************************)
(* The two caches, driven by any sequence of get, set, clear and passing   *)
(* time.  `kind` says which of the two is under test; it never changes.    *)
(*                                                                         *)
(* Beside the cache the model keeps a log of what was written, which no    *)
(* cache has: the last write of every key and when its key last entered.   *)
(***************************************************************************)
EXTENDS TokenCache, IntrospectionCache

CONSTANTS
    Key,         \* cache keys (digests)
    MaxEntries,  \* the configured bound
    MaxTime,     \* the clock stops here (bounds the model)
    MaxWrites    \* how many writes are made (bounds the model)

ASSUME MaxEntriesAssumption == MaxEntries \in Nat \ {0}   \* the schema's min: 1
ASSUME MaxTimeAssumption == MaxTime \in Nat
ASSUME MaxWritesAssumption == MaxWrites \in Nat

VARIABLES
    kind,     \* "token" or "introspection"
    now,      \* Date.now()
    entries,  \* the cache's Map
    writes,   \* how many writes were made; a write's value is its number
    last,     \* last[k]: the last write of k since the last clear
    since     \* since[k]: the write with which k took its present position

vars == <<kind, now, entries, writes, last, since>>

Entry == [value : 1..MaxWrites, expiresAt : 0..(MaxTime + 1)]
NoWrite == [value |-> 0, expiresAt |-> 0]

Init ==
    /\ kind \in {"token", "introspection"}
    /\ now = 0
    /\ entries = EmptyMap
    /\ writes = 0
    /\ last = [k \in Key |-> NoWrite]
    /\ since = [k \in Key |-> 0]

Live(m, k) == IF kind = "token" THEN LiveToken(m, k, now) ELSE LiveResult(m, k, now)

\* What a `get(k)` would answer now, as the entry it serves.
Served(k) == IF Live(entries, k) THEN {entries.at[k]} ELSE {}

Get(k) ==
    /\ kind = "token"
    /\ entries' = AfterTokenGet(entries, k, now)
    /\ UNCHANGED <<kind, now, writes, last, since>>

\* `set` with an instant of the caller's choosing: both callers write only
\* instants still ahead, but the cache does not rely on it.
Set(k, expiresAt) ==
    LET e == [value |-> writes + 1, expiresAt |-> expiresAt]
    IN  /\ writes < MaxWrites
        /\ entries' = IF kind = "token"
                      THEN TokenSet(entries, k, e, now, MaxEntries)
                      ELSE ResultSet(entries, k, e, now, MaxEntries)
        /\ last' = [last EXCEPT ![k] = e]
        /\ since' = [since EXCEPT ![k] =
                        IF kind = "introspection" /\ Live(entries, k) THEN @ ELSE writes + 1]
        /\ writes' = writes + 1
        /\ UNCHANGED <<kind, now>>

Clear ==
    /\ entries' = EmptyMap
    /\ last' = [k \in Key |-> NoWrite]
    /\ since' = [k \in Key |-> 0]
    /\ UNCHANGED <<kind, now, writes>>

Tick ==
    /\ now < MaxTime
    /\ now' = now + 1
    /\ UNCHANGED <<kind, entries, writes, last, since>>

Next ==
    \/ \E k \in Key : Get(k)
    \/ \E k \in Key, t \in 0..(MaxTime + 1) : Set(k, t)
    \/ Clear
    \/ Tick

Spec == Init /\ [][Next]_vars

----------------------------------------------------------------------------
(* Properties.                                                             *)

\* The cache never holds more than maxEntries (`set` makes room first).
WithinBound == Size(entries) <= MaxEntries

\* Whatever was evicted, swept, rewritten or cleared in between, a key is only
\* ever served with its last write, and never at or past that write's instant
\* (`get` in both caches).
ServesLastWrite ==
    \A k \in Key : \A e \in Served(k) : e = last[k] /\ now < e.expiresAt

\* A write costs another key its live entry only when the cache was full of
\* live entries, and then exactly the one entry that has held its position
\* longest: by its last write in TokenCache, by its first in IntrospectionCache.
EvictsOldestOnlyWhenFull ==
    [][\A k \in Key :
          last'[k] # last[k] /\ writes' # writes =>
            LET live == {x \in Key \ {k} : Live(entries, x)}
                lost == {x \in live : x \notin Keys(entries')}
                full == Cardinality(live) >= MaxEntries
            IN  lost # {} =>
                  /\ full
                  /\ \E x \in lost : lost = {x} /\ \A y \in live \ {x} : since[x] < since[y]
      ]_vars
=============================================================================
