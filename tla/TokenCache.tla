----------------------------- MODULE TokenCache -----------------------------
(***************************************************************************)
(* src/modes/injection/token-cache.mts, as operators on its Map: each call *)
(* runs without yielding, so each is one value-to-value step.  An entry is *)
(* [value |-> token, expiresAt |-> instant].                               *)
(***************************************************************************)
EXTENDS InsertionMap

\* Whether `get` would serve k: held, with its instant still ahead.
LiveToken(m, k, now) == k \in Keys(m) /\ m.at[k].expiresAt > now

\* What `get` leaves behind: an expired entry it declined to serve is gone.
AfterTokenGet(m, k, now) ==
    IF k \in Keys(m) /\ ~ LiveToken(m, k, now) THEN Without(m, {k}) ELSE m

SweepExpired(m, now) == Without(m, {k \in Keys(m) : m.at[k].expiresAt <= now})

\* Plausible bug: the bound is compared with > instead of >=.
EvictTokenPastBound(m, maxEntries) ==
    IF Size(m) > maxEntries THEN WithoutOldest(m) ELSE m

\* `entries.size >= maxEntries`: the oldest insertion makes room.
EvictToken(m, maxEntries) ==
    IF Size(m) >= maxEntries THEN WithoutOldest(m) ELSE m

\* Plausible bug: no sweep, so an expired entry can cost a live one its place.
TokenSetNoSweep(m, k, entry, now, maxEntries) ==
    With(EvictToken(Without(m, {k}), maxEntries), k, entry)

\* `set`: remove the key, sweep, make room, insert last.
TokenSet(m, k, entry, now, maxEntries) ==
    With(EvictToken(SweepExpired(Without(m, {k}), now), maxEntries), k, entry)
=============================================================================
