------------------------------ MODULE Exchange ------------------------------
(***************************************************************************)
(* What the server promises for one request, whatever stages it passes:    *)
(* at most one answer; one upstream connection, held only while there is a *)
(* caller to answer; an exchange that ends only with its caller answered   *)
(* or gone, and that does end once the caller has gone.                    *)
(***************************************************************************)
EXTENDS Naturals

VARIABLES
    answers,   \* the answers started towards the caller
    left,      \* the caller's connection is closed
    conn,      \* the upstream connection: "none", "open" or "closed"
    over       \* nothing more is done for the request

vars == <<answers, left, conn, over>>

Released == IF conn = "open" THEN "closed" ELSE conn

Init == answers = 0 /\ left = FALSE /\ conn = "none" /\ over = FALSE

\* The request goes to the upstream.
Connect ==
    /\ ~ over /\ ~ left /\ answers = 0 /\ conn = "none"
    /\ conn' = "open"
    /\ UNCHANGED <<answers, left, over>>

\* The upstream's answer starts.
Relay ==
    /\ ~ over /\ ~ left /\ answers = 0 /\ conn = "open"
    /\ answers' = 1
    /\ UNCHANGED <<left, conn, over>>

\* The proxy answers itself, which ends the exchange.
Answer ==
    /\ ~ over /\ ~ left /\ answers = 0
    /\ answers' = 1 /\ over' = TRUE
    /\ conn' = Released
    /\ UNCHANGED left

\* The relayed answer ends: completely, or cut, and then the caller's connection
\* is cut too, so that a part is not read as the whole.
End(cut) ==
    /\ ~ over /\ ~ left /\ answers = 1 /\ conn = "open"
    /\ over' = TRUE
    /\ conn' = "closed"
    /\ left' = cut
    /\ UNCHANGED answers

\* The caller leaves, and the upstream connection is given up with it.
Leave ==
    /\ ~ over /\ ~ left
    /\ left' = TRUE
    /\ conn' = Released
    /\ UNCHANGED <<answers, over>>

\* Nothing is owed to a caller that left.
Finish ==
    /\ left /\ ~ over
    /\ over' = TRUE
    /\ UNCHANGED <<answers, left, conn>>

Next == Connect \/ Relay \/ Answer \/ (\E cut \in BOOLEAN : End(cut)) \/ Leave \/ Finish

Spec == Init /\ [][Next]_vars /\ WF_vars(Finish)
=============================================================================
