--------------------------- MODULE CookieExtractor ---------------------------
(* The Cookie header as src/modes/injection/cookie-extractor.mts reads it: a  *)
(* sequence of the segments between semicolons, slack trimmed, each blank or  *)
(* a pair.  A value is a sequence of character classes.                       *)
EXTENDS Optional, Naturals, Sequences, SequencesExt

Character == {"octet", "dquote", "other"}

\* A segment's name: the session cookie's, another's, or "none" where there is
\* no "=", as in a blank one, whose value is empty.
Name == {"session", "another", "none"}

Pair == [name : Name, value : Seq(Character)]

ASSUME CookieAssumption == None \notin Seq(Pair) \cup {"empty", "quoting", "grammar"}

isSession(pair) == pair.name = "session"

\* classifyValue: the reason a value is refused, or None.
Refusal(value) ==
    LET wrapped == Len(value) >= 2 /\ value[1] = "dquote" /\ Last(value) = "dquote"
        interior == IF wrapped THEN SubSeq(value, 2, Len(value) - 1) ELSE value
    IN  CASE value \in {<<>>, <<"dquote", "dquote">>} -> "empty"
          [] value \notin {<<>>, <<"dquote", "dquote">>} /\ Contains(interior, "dquote") -> "quoting"
          [] OTHER -> IF Contains(interior, "other") THEN "grammar" ELSE None

\* Plausible bug: the first pair of the name decides.
ScanFirst(found, pair) ==
    IF ~ isSession(pair) \/ found.kind # "absent" THEN found
    ELSE IF Refusal(pair.value) = None
         THEN [kind |-> "found", value |-> pair.value, skipped |-> None]
         ELSE [kind |-> "rejected", value |-> None, skipped |-> Refusal(pair.value)]

\* extractCookie's loop over the pairs: the first good one ends it, the first
\* refused one's reason is kept.
Scan(found, pair) ==
    IF ~ isSession(pair) \/ found.kind = "found" THEN found
    ELSE IF Refusal(pair.value) = None
         THEN [found EXCEPT !.kind = "found", !.value = pair.value]
         ELSE [kind |-> "rejected", value |-> None,
               skipped |-> IF found.skipped = None THEN Refusal(pair.value) ELSE found.skipped]

\* kind: "absent", "rejected" (skipped is the reason) or "found".
extractCookie(header) ==
    LET pairs == IF header = None THEN <<>> ELSE header
        found[i \in 0..Len(pairs)] ==
            IF i = 0 THEN [kind |-> "absent", value |-> None, skipped |-> None]
            ELSE Scan(found[i - 1], pairs[i])
    IN  found[Len(pairs)]

\* filter: the pairs of the set kept, in order.
Keeping(pairs, kept) ==
    LET taken[i \in 0..Len(pairs)] ==
            IF i = 0 THEN <<>>
            ELSE IF pairs[i] \in kept THEN Append(taken[i - 1], pairs[i]) ELSE taken[i - 1]
    IN  taken[Len(pairs)]

\* The header without the session's pairs: as it is when there is none, else
\* without blank segments too, and absent when nothing is left.
withoutCookie(header) ==
    CASE header = None -> None
      [] OTHER ->
            LET others == {pair \in ToSet(header) : ~ isSession(pair)}
                rest == Keeping(header, {pair \in others : pair.name # "none" \/ pair.value # <<>>})
            IN  IF ToSet(header) = others THEN header
                ELSE IF rest = <<>> THEN None ELSE rest
=============================================================================
