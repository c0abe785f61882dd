--------------------------- MODULE MCSingleFlight ---------------------------
(* SingleFlight on a small instance: enough calls for a flight with a       *)
(* waiter, a second flight of the same key and a flight of another key.     *)
EXTENDS SingleFlight, TLC

CONSTANTS k1, k2, c1, c2, c3, c4

MCKey == {k1, k2}
MCCall == {c1, c2, c3, c4}
=============================================================================
