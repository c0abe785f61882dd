----------------------------- MODULE Coalescing -----------------------------
(***************************************************************************)
(* What a single-flight table promises its callers, with no promise, no    *)
(* microtask and no map clean-up in it: at every moment at most one fetch  *)
(* per key is open; a call attaches to the open fetch of its key or opens  *)
(* one; closing a fetch frees its key and fixes its outcome in one step;   *)
(* a call is answered by the outcome of the fetch it attached to.          *)
(*                                                                         *)
(* src/single-flight.mts does this in four separate steps.  SingleFlight   *)
(* models those and is shown to implement this specification.              *)
(***************************************************************************)
CONSTANTS
    Key,     \* what calls are coalesced by
    Call,    \* invocations; the fetch a call opens carries the call's name
    NoKey,   \* "no key asked for yet"
    NoCall   \* "no fetch"

VARIABLES
    open,      \* open[k]: the fetch now open for k, or NoCall
    asked,     \* asked[c]: the key c was called with
    attached,  \* attached[c]: the fetch whose outcome c will get
    verdict,   \* verdict[f]: how fetch f closed, "none" before
    answered   \* the calls that have been answered

cvars == <<open, asked, attached, verdict, answered>>

Init ==
    /\ open = [k \in Key |-> NoCall]
    /\ asked = [c \in Call |-> NoKey]
    /\ attached = [c \in Call |-> NoCall]
    /\ verdict = [c \in Call |-> "none"]
    /\ answered = {}

\* A call attaches to the fetch open for its key, opening one if there is none.
Attach(c, k) ==
    /\ attached[c] = NoCall
    /\ LET f == IF open[k] = NoCall THEN c ELSE open[k]
       IN  /\ open' = [open EXCEPT ![k] = f]
           /\ attached' = [attached EXCEPT ![c] = f]
    /\ asked' = [asked EXCEPT ![c] = k]
    /\ UNCHANGED <<verdict, answered>>

\* The open fetch of a key closes: the key is free and the outcome is fixed.
Close(k) ==
    /\ open[k] # NoCall
    /\ open' = [open EXCEPT ![k] = NoCall]
    /\ \E out \in {"resolved", "rejected"} :
          verdict' = [verdict EXCEPT ![open[k]] = out]
    /\ UNCHANGED <<asked, attached, answered>>

\* A call attached to a closed fetch is answered with its outcome.
Answer(c) ==
    /\ attached[c] # NoCall
    /\ c \notin answered
    /\ verdict[attached[c]] # "none"
    /\ answered' = answered \cup {c}
    /\ UNCHANGED <<open, asked, attached, verdict>>

Next ==
    \/ \E c \in Call, k \in Key : Attach(c, k)
    \/ \E k \in Key : Close(k)
    \/ \E c \in Call : Answer(c)

Safe == Init /\ [][Next]_cvars

Spec ==
    /\ Safe
    /\ \A k \in Key : WF_cvars(Close(k))
    /\ \A c \in Call : WF_cvars(Answer(c))
=============================================================================
