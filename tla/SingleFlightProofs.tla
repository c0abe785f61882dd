------------------------- MODULE SingleFlightProofs -------------------------
(***************************************************************************)
(* Theorems about the single-flight table, for any keys and any calls.     *)
(***************************************************************************)
EXTENDS SingleFlight, TLAPS

\* The initial table is empty and no call has been made.
LEMMA InitInv == Init => IndInv
BY NoCallAssumption, NoKeyAssumption
   DEF Init, IndInv, TypeOK, NoPinnedFlight, FlightIsListed, CallIsConsistent, Open, Outcome

\* A call that joins changes nothing of the flights or the table.
LEMMA JoinInv ==
    ASSUME IndInv, NEW c \in Call, NEW k \in Key, RunJoin(c, k)
    PROVE  IndInv'
<1> USE NoCallAssumption, NoKeyAssumption DEF IndInv, RunJoin
<1>1. TypeOK'
  BY DEF TypeOK
<1>2. NoPinnedFlight'
  BY DEF NoPinnedFlight, TypeOK, CallIsConsistent, Open
<1>3. FlightIsListed'
  BY DEF FlightIsListed, TypeOK, CallIsConsistent, Open
<1>4. CallIsConsistent'
  BY DEF CallIsConsistent, TypeOK, NoPinnedFlight, Open
<1> QED BY <1>1, <1>2, <1>3, <1>4

\* A call that leads starts the only flight of its key, whether the fetcher
\* returned a promise or threw.
LEMMA LeadInv ==
    ASSUME IndInv, NEW c \in Call, NEW k \in Key, NEW s, NEW r, Lead(c, k, s, r),
           \/ s = "fetching" /\ r = "none"
           \/ s = "settling" /\ r = "rejected"
    PROVE  IndInv'
<1> USE NoCallAssumption, NoKeyAssumption DEF IndInv, Lead
<1>1. TypeOK'
  BY DEF TypeOK, Open, Outcome
<1>2. NoPinnedFlight'
  BY DEF NoPinnedFlight, TypeOK, CallIsConsistent, Open
<1>3. FlightIsListed'
  BY DEF FlightIsListed, TypeOK, CallIsConsistent, Open
<1>4. CallIsConsistent'
  BY DEF CallIsConsistent, TypeOK, Open, Outcome
<1> QED BY <1>1, <1>2, <1>3, <1>4

\* A fetch that settles leaves its entry in the table.
LEMMA SettleInv ==
    ASSUME IndInv, NEW f \in Call, FetchSettles(f)
    PROVE  IndInv'
<1> USE NoCallAssumption, NoKeyAssumption DEF IndInv, FetchSettles
<1>1. TypeOK'
  BY DEF TypeOK, Open, Outcome
<1>2. NoPinnedFlight'
  BY DEF NoPinnedFlight, TypeOK, Open
<1>3. FlightIsListed'
  BY DEF FlightIsListed, TypeOK, Open
<1>4. CallIsConsistent'
  BY DEF CallIsConsistent, TypeOK, Open, Outcome
<1> QED BY <1>1, <1>2, <1>3, <1>4

\* The finally callback deletes by key; the entry it finds is its own.
LEMMA FinallyInv ==
    ASSUME IndInv, NEW f \in Call, Finally(f)
    PROVE  IndInv'
<1> USE NoCallAssumption, NoKeyAssumption DEF IndInv, Finally
<1>1. asked[f] \in Key /\ pending[asked[f]] = f
  BY DEF FlightIsListed, Open
<1>2. TypeOK'
  BY <1>1 DEF TypeOK
<1>3. NoPinnedFlight'
  BY <1>1 DEF NoPinnedFlight, TypeOK, Open
<1>4. FlightIsListed'
  BY <1>1 DEF FlightIsListed, TypeOK, Open
<1>5. CallIsConsistent'
  BY <1>1 DEF CallIsConsistent, TypeOK, Open
<1> QED BY <1>2, <1>3, <1>4, <1>5

\* A call that returns changes nothing else.
LEMMA ResumeInv ==
    ASSUME IndInv, NEW c \in Call, Resume(c)
    PROVE  IndInv'
BY NoCallAssumption, NoKeyAssumption
   DEF IndInv, Resume, TypeOK, NoPinnedFlight, FlightIsListed, CallIsConsistent

\* Every step of `run`, of a settlement and of the clean-up keeps the invariant.
LEMMA StepInv == IndInv /\ [Next]_vars => IndInv'
<1> SUFFICES ASSUME IndInv, [Next]_vars PROVE IndInv'
  OBVIOUS
<1>1. ASSUME NEW c \in Call, NEW k \in Key, RunJoin(c, k) PROVE IndInv'
  BY <1>1, JoinInv
<1>2. ASSUME NEW c \in Call, NEW k \in Key, RunStart(c, k) PROVE IndInv'
  BY <1>2, LeadInv DEF RunStart
<1>3. ASSUME NEW c \in Call, NEW k \in Key, RunThrows(c, k) PROVE IndInv'
  BY <1>3, LeadInv DEF RunThrows
<1>4. ASSUME NEW f \in Call, FetchSettles(f) PROVE IndInv'
  BY <1>4, SettleInv
<1>5. ASSUME NEW f \in Call, Finally(f) PROVE IndInv'
  BY <1>5, FinallyInv
<1>6. ASSUME NEW c \in Call, Resume(c) PROVE IndInv'
  BY <1>6, ResumeInv
<1>7. CASE UNCHANGED vars
  BY <1>7 DEF IndInv, TypeOK, NoPinnedFlight, FlightIsListed, CallIsConsistent, vars
<1> QED
  BY <1>1, <1>2, <1>3, <1>4, <1>5, <1>6, <1>7 DEF Next

\* The table, the flights and the calls agree in every reachable state.
THEOREM Invariance == Spec => []IndInv
BY InitInv, StepInv, PTL DEF Spec, Safe

\* At most one fetch per key is running, in every reachable state.
THEOREM OneFetchPerKeyHolds == Spec => []OneFetchPerKey
<1>1. IndInv => OneFetchPerKey
  BY DEF IndInv, FlightIsListed, OneFetchPerKey
<1> QED BY <1>1, Invariance, PTL

\* No entry outlives its flight.
THEOREM NoPinnedFlightHolds == Spec => []NoPinnedFlight
<1>1. IndInv => NoPinnedFlight
  BY DEF IndInv
<1> QED BY <1>1, Invariance, PTL

\* No caller resumes while the table still leads to its flight.
THEOREM ResumesIntoFreeSlotHolds == Spec => []ResumesIntoFreeSlot
<1>1. IndInv => ResumesIntoFreeSlot
  <2> SUFFICES ASSUME IndInv, NEW c \in returned
               PROVE  pending[asked[c]] # joined[c]
    BY DEF ResumesIntoFreeSlot
  <2>1. c \in Call /\ asked[c] \in Key /\ promise[joined[c]] = "settled" /\ joined[c] # NoCall
    BY NoKeyAssumption DEF IndInv, TypeOK, CallIsConsistent
  <2> QED BY <2>1 DEF IndInv, NoPinnedFlight, Open
<1> QED BY <1>1, Invariance, PTL

----------------------------------------------------------------------------
(* The refinement.                                                         *)

\* The empty table is the initial state of the promise.
LEMMA InitRefines == Init => Promise!Init
BY DEF Init, Promise!Init

\* Each step of the table is a step of the promise or changes nothing of it:
\* calls attach, a settlement is invisible, `finally` closes, resuming answers.
LEMMA StepRefines == IndInv /\ [Next]_vars => [Promise!Next]_(Promise!cvars)
<1> DEFINE Verdict == [f \in Call |-> IF promise[f] = "settled" THEN result[f] ELSE "none"]
<1> SUFFICES ASSUME IndInv, [Next]_vars
             PROVE  Promise!Next \/ UNCHANGED Promise!cvars
  OBVIOUS
<1> USE NoCallAssumption, NoKeyAssumption
<1>1. ASSUME NEW c \in Call, NEW k \in Key, RunJoin(c, k) PROVE Promise!Attach(c, k)
  BY <1>1 DEF RunJoin, Promise!Attach, IndInv, TypeOK, CallIsConsistent
<1>2. ASSUME NEW c \in Call, NEW k \in Key, NEW s, NEW r, Lead(c, k, s, r),
             s # "settled"
      PROVE  Promise!Attach(c, k)
  <2>1. Verdict' = Verdict
    BY <1>2 DEF Lead, IndInv, TypeOK, CallIsConsistent
  <2> QED BY <1>2, <2>1 DEF Lead, Promise!Attach, IndInv, TypeOK, CallIsConsistent
<1>3. ASSUME NEW f \in Call, FetchSettles(f) PROVE UNCHANGED Promise!cvars
  <2>1. Verdict' = Verdict
    BY <1>3 DEF FetchSettles, IndInv, TypeOK
  <2> QED BY <1>3, <2>1 DEF FetchSettles, Promise!cvars
<1>4. ASSUME NEW f \in Call, Finally(f) PROVE Promise!Next
  <2>1. asked[f] \in Key /\ pending[asked[f]] = f
    BY <1>4 DEF Finally, IndInv, FlightIsListed, Open
  <2>2. result[f] \in {"resolved", "rejected"}
    BY <1>4 DEF Finally, IndInv, TypeOK, CallIsConsistent, Outcome
  <2>3. Verdict' = [Verdict EXCEPT ![f] = result[f]]
    BY <1>4 DEF Finally, IndInv, TypeOK
  <2> QED BY <1>4, <2>1, <2>2, <2>3 DEF Finally, Promise!Next, Promise!Close
<1>5. ASSUME NEW c \in Call, Resume(c) PROVE Promise!Answer(c)
  <2>1. joined[c] \in Call /\ Verdict[joined[c]] # "none"
    BY <1>5 DEF Resume, IndInv, TypeOK, CallIsConsistent
  <2> QED BY <1>5, <2>1 DEF Resume, Promise!Answer
<1>6. CASE UNCHANGED vars
  BY <1>6 DEF vars, Promise!cvars
<1>7. ASSUME NEW c \in Call, NEW k \in Key, RunStart(c, k) \/ RunThrows(c, k)
      PROVE  Promise!Attach(c, k)
  BY <1>7, <1>2 DEF RunStart, RunThrows
<1> QED
  BY <1>1, <1>3, <1>4, <1>5, <1>6, <1>7 DEF Next, Promise!Next

\* The table implements the safety part of its promise.
THEOREM RefinesCoalescing == Spec => Promise!Safe
BY InitRefines, StepRefines, Invariance, PTL DEF Spec, Safe, Promise!Safe
=============================================================================
