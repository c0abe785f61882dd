----------------------------- MODULE MCShutdown -----------------------------
(* Shutdown with a connection of up to two pipelined requests and one of up *)
(* to one; the runs that end at a divergence need one connection only.      *)
EXTENDS Shutdown

CONSTANTS c1, c2

MCMaxRequests == [c \in Conn |-> IF c = c1 THEN 2 ELSE 1]
=============================================================================
