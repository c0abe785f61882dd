---------------------------- MODULE SingleFlight ----------------------------
(***************************************************************************)
(* src/single-flight.mts: the table both modes coalesce their calls with.  *)
(*                                                                         *)
(* A flight is named by the call that started it.  Its life is the life of *)
(* two promises: `started`, what the fetcher returned, and `promise`,      *)
(* `started.finally(...)`, the one the table holds and everyone awaits.    *)
(*                                                                         *)
(*   "fetching"  the fetcher is running                                    *)
(*   "settling"  `started` has settled, the finally callback is queued     *)
(*   "settled"   the callback ran: `promise` has settled                   *)
(*                                                                         *)
(* The steps between two `await`s are the actions.  Any other call may run *)
(* between any two of them, which allows more interleavings than one       *)
(* microtask queue does.                                                   *)
(***************************************************************************)
CONSTANTS
    Key,     \* the keys calls are made with
    Call,    \* invocations of `run`; a call runs once
    NoKey,   \* sentinel: not called yet
    NoCall   \* sentinel: no flight

ASSUME NoCallAssumption == NoCall \notin Call
ASSUME NoKeyAssumption == NoKey \notin Key

VARIABLES
    pending,   \* the table: pending[k] is the flight `pending` holds for k
    asked,     \* asked[c]: the key of the call
    joined,    \* joined[c]: the flight whose `promise` the call awaits
    promise,   \* promise[f]: how far flight f has come, "none" if c led none
    result,    \* result[f]: how `started` settled
    returned   \* the calls whose `run` has returned or thrown

vars == <<pending, asked, joined, promise, result, returned>>

Outcome == {"resolved", "rejected"}
Open == {"fetching", "settling"}

TypeOK ==
    /\ pending \in [Key -> Call \cup {NoCall}]
    /\ asked \in [Call -> Key \cup {NoKey}]
    /\ joined \in [Call -> Call \cup {NoCall}]
    /\ promise \in [Call -> Open \cup {"none", "settled"}]
    /\ result \in [Call -> Outcome \cup {"none"}]
    /\ returned \in SUBSET Call

Init ==
    /\ pending = [k \in Key |-> NoCall]
    /\ asked = [c \in Call |-> NoKey]
    /\ joined = [c \in Call |-> NoCall]
    /\ promise = [c \in Call |-> "none"]
    /\ result = [c \in Call |-> "none"]
    /\ returned = {}

----------------------------------------------------------------------------
(* `run` up to its first await.                                            *)

\* `existing !== undefined`: the call awaits the flight the table holds.
RunJoin(c, k) ==
    /\ asked[c] = NoKey
    /\ pending[k] # NoCall
    /\ asked' = [asked EXCEPT ![c] = k]
    /\ joined' = [joined EXCEPT ![c] = pending[k]]
    /\ UNCHANGED <<pending, promise, result, returned>>

\* The call starts the flight of its key and enters it in the table.
Lead(c, k, stage, res) ==
    /\ asked[c] = NoKey
    /\ pending[k] = NoCall
    /\ asked' = [asked EXCEPT ![c] = k]
    /\ joined' = [joined EXCEPT ![c] = c]
    /\ promise' = [promise EXCEPT ![c] = stage]
    /\ result' = [result EXCEPT ![c] = res]
    /\ pending' = [pending EXCEPT ![k] = c]
    /\ UNCHANGED returned

\* Plausible bug: two calls that miss at once both fetch.
RunStartUnguarded(c, k) ==
    /\ asked[c] = NoKey
    /\ asked' = [asked EXCEPT ![c] = k]
    /\ joined' = [joined EXCEPT ![c] = c]
    /\ promise' = [promise EXCEPT ![c] = "fetching"]
    /\ pending' = [pending EXCEPT ![k] = c]
    /\ UNCHANGED <<result, returned>>

\* `fetch()` returned a promise.
RunStart(c, k) == Lead(c, k, "fetching", "none")

\* `fetch()` threw before it returned a promise: `started` is a rejection from
\* the start, and its finally callback still runs after `pending.set`.
RunThrows(c, k) == Lead(c, k, "settling", "rejected")

----------------------------------------------------------------------------
(* The flight settles.                                                     *)

\* The fetcher's promise settles; the finally callback is queued.
FetchSettles(f) ==
    /\ promise[f] = "fetching"
    /\ promise' = [promise EXCEPT ![f] = "settling"]
    /\ \E out \in Outcome : result' = [result EXCEPT ![f] = out]
    /\ UNCHANGED <<pending, asked, joined, returned>>

\* The finally callback deletes the key, whatever it holds, and then `promise`
\* settles the way `started` did.
Finally(f) ==
    /\ promise[f] = "settling"
    /\ pending' = [pending EXCEPT ![asked[f]] = NoCall]
    /\ promise' = [promise EXCEPT ![f] = "settled"]
    /\ UNCHANGED <<asked, joined, result, returned>>

----------------------------------------------------------------------------
(* `run` after its await: returns {value, wasWaiter} or rethrows.          *)

\* Plausible bug: the waiters await `started`, not the finally promise.
ResumeEarly(c) ==
    /\ joined[c] # NoCall
    /\ c \notin returned
    /\ promise[joined[c]] \in {"settling", "settled"}
    /\ returned' = returned \cup {c}
    /\ UNCHANGED <<pending, asked, joined, promise, result>>

\* Plausible bug: a failed flight is reported to its leader alone.
ResumeLeaderOfFailure(c) ==
    /\ joined[c] # NoCall
    /\ c \notin returned
    /\ promise[joined[c]] = "settled"
    /\ result[joined[c]] = "resolved" \/ joined[c] = c
    /\ returned' = returned \cup {c}
    /\ UNCHANGED <<pending, asked, joined, promise, result>>

Resume(c) ==
    /\ joined[c] # NoCall
    /\ c \notin returned
    /\ promise[joined[c]] = "settled"
    /\ returned' = returned \cup {c}
    /\ UNCHANGED <<pending, asked, joined, promise, result>>

Next ==
    \/ \E c \in Call, k \in Key : RunJoin(c, k)
    \/ \E c \in Call, k \in Key : RunStart(c, k)
    \/ \E c \in Call, k \in Key : RunThrows(c, k)
    \/ \E f \in Call : FetchSettles(f)
    \/ \E f \in Call : Finally(f)
    \/ \E c \in Call : Resume(c)

(***************************************************************************)
(* Calls come from outside and need not come.  A fetch settles because     *)
(* every fetcher of this repository bounds it with AbortSignal.timeout;    *)
(* the finally callback and the resumptions are microtasks, which the      *)
(* event loop always runs.                                                 *)
(***************************************************************************)
Fairness ==
    /\ \A f \in Call : WF_vars(FetchSettles(f)) /\ WF_vars(Finally(f))
    /\ \A c \in Call : WF_vars(Resume(c))

Safe == Init /\ [][Next]_vars
Spec == Safe /\ Fairness

----------------------------------------------------------------------------
(* Properties.                                                             *)

\* Two fetches for one key are never running at the same time, however the
\* calls, the settlements and the clean-ups interleave (run's lookup and set).
OneFetchPerKey ==
    \A f, g \in Call :
        /\ promise[f] \in Open
        /\ promise[g] \in Open
        /\ asked[f] = asked[g]
        => f = g

\* An entry never outlives its flight: what the table holds for a key is a
\* flight for that key that has not settled, a flight whose fetcher threw
\* synchronously included (the clean-up in `finally`).
NoPinnedFlight ==
    \A k \in Key :
        pending[k] # NoCall =>
            /\ promise[pending[k]] \in Open
            /\ asked[pending[k]] = k

\* No call resumes into a stale entry: once any call of a flight has returned,
\* its key no longer leads to that flight, so a caller that asks again at once
\* gets a new fetch (`finally` settles the promise only after the delete).
ResumesIntoFreeSlot ==
    \A c \in returned : pending[asked[c]] # joined[c]

\* A running flight is the one the table holds for its key: the clean-up of an
\* earlier flight, which deletes by key alone, never removes a later one's entry.
FlightIsListed ==
    \A f \in Call :
        promise[f] \in Open => asked[f] \in Key /\ pending[asked[f]] = f

\* How far a call and its flight have come agree with each other.
CallIsConsistent ==
    \A c \in Call :
        /\ asked[c] = NoKey => joined[c] = NoCall /\ promise[c] = "none"
        /\ asked[c] # NoKey => joined[c] # NoCall
        /\ joined[c] # NoCall =>
              asked[joined[c]] = asked[c] /\ promise[joined[c]] # "none"
        /\ c \in returned =>
              joined[c] # NoCall /\ promise[joined[c]] = "settled"
        /\ result[c] = "none" <=> promise[c] \in {"none", "fetching"}

\* The inductive invariant behind the theorems of SingleFlightProofs: the types,
\* the table and the flights naming each other, and the stages agreeing across
\* run, FetchSettles, Finally and Resume.
IndInv == TypeOK /\ NoPinnedFlight /\ FlightIsListed /\ CallIsConsistent

\* Every call is answered, waiters of a failed flight included.
EveryCallAnswered ==
    \A c \in Call : (joined[c] # NoCall) ~> (c \in returned)

\* The four-step table implements the one-step promise of Coalescing: to its
\* callers the clean-up and the settlement are a single event.
Promise == INSTANCE Coalescing WITH
    open <- pending,
    attached <- joined,
    verdict <- [f \in Call |-> IF promise[f] = "settled" THEN result[f] ELSE "none"],
    answered <- returned

ImplementsCoalescing == Promise!Spec
=============================================================================
