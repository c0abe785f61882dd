---------------------------- MODULE MCValidation ----------------------------
(* Validation on a small instance: one token that expires, one that does    *)
(* not, a cache of one entry; credentials with the cache off, none with it  *)
(* on, where what a provider's 401 means is the token's fault.              *)
EXTENDS Validation

CONSTANTS t1, t2

MCToken == {t1, t2}
MCTokenExp == [t \in Token |-> IF t = t1 THEN 2 ELSE None]
MCConfigs == {[ttl |-> 0, client |-> TRUE], [ttl |-> 2, client |-> FALSE]}
=============================================================================
