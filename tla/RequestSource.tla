---------------------------- MODULE RequestSource ----------------------------
(* Where a request came from, as src/modes/injection/request-source.mts reads *)
(* it from the socket and the X-Forwarded fields.                             *)
EXTENDS Optional, Naturals, Sequences, SequencesExt

CONSTANTS
    Address,   \* IP addresses
    Trusted    \* those in auth.injection.trustedProxies

ASSUME TrustAssumption ==
    Trusted \subseteq Address /\ Address \cap {None, "no_ip", "blank"} = {}

\* An entry of X-Forwarded-For: an address, one that is none (a host name, a port,
\* a zone ID), or nothing between two commas.
Entry == Address \cup {"no_ip", "blank"}

\* A value of X-Forwarded-Proto.
Scheme == {"http", "https", "other"}

\* Plausible bug: the walk goes on through addresses that are not trusted.
StepAny(hop, at) ==
    IF at.ended \/ hop = "no_ip" THEN [at EXCEPT !.ended = TRUE]
    ELSE IF hop = "blank" THEN at ELSE [at EXCEPT !.address = hop]

\* One step of the walk; a blank entry, which the code takes out before, is none.
Step(hop, at) ==
    IF at.ended \/ at.address \notin Trusted \/ hop = "blank" THEN at
    ELSE IF hop = "no_ip" THEN [at EXCEPT !.ended = TRUE] ELSE [at EXCEPT !.address = hop]

\* The loop over the entries: at[i] is where it stands after the last i of them.
Walk(peer, xff) ==
    LET at[i \in 0..Len(xff)] ==
            IF i = 0 THEN [address |-> peer, ended |-> FALSE]
            ELSE Step(xff[Len(xff) + 1 - i], at[i - 1])
    IN  at[Len(xff)].address

\* X-Forwarded-Proto is believed when it is one value, http or https.
OneValue(proto) == Len(proto) = 1 /\ proto[1].value \in {"http", "https"}

\* createRequestSource's function; `from` is who wrote the scheme it answers with.
requestSource(peer, socket, xff, proto) ==
    CASE peer = None \/ peer \notin Trusted ->
            [address |-> peer, protocol |-> socket, from |-> "socket"]
      [] OTHER ->
            [address |-> Walk(peer, xff),
             protocol |-> IF OneValue(proto) THEN proto[1].value ELSE socket,
             from |-> IF OneValue(proto) THEN proto[1].by ELSE "socket"]
=============================================================================
