------------------------- MODULE IntrospectionCache -------------------------
(***************************************************************************)
(* src/modes/validation/introspection-cache.mts, as operators on its Map.  *)
(* It differs from TokenCache twice: `get` deletes nothing, and `set` of a *)
(* key still held evicts nothing and leaves the key where it is.           *)
(***************************************************************************)
EXTENDS InsertionMap

\* Plausible bug: an entry is served at the instant it expires.
LiveResultLate(m, k, now) == k \in Keys(m) /\ m.at[k].expiresAt >= now

\* Whether `get` would serve k.
LiveResult(m, k, now) == k \in Keys(m) /\ m.at[k].expiresAt > now

SweepStale(m, now) == Without(m, {k \in Keys(m) : m.at[k].expiresAt <= now})

\* Only a new key can push the map past its bound.
MakeRoom(m, k, maxEntries) ==
    IF k \notin Keys(m) /\ Size(m) >= maxEntries THEN WithoutOldest(m) ELSE m

\* `set`: sweep, make room for a new key, insert or overwrite in place.
ResultSet(m, k, entry, now, maxEntries) ==
    With(MakeRoom(SweepStale(m, now), k, maxEntries), k, entry)
=============================================================================
