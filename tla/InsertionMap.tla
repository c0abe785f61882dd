---------------------------- MODULE InsertionMap ----------------------------
(***************************************************************************)
(* A JavaScript Map: a partial function, and the order its keys were       *)
(* inserted in, which is the order it iterates in.  m.at is the function;  *)
(* <<x, y>> \in m.before says x was inserted before y.                     *)
(***************************************************************************)
EXTENDS Naturals, FiniteSets

EmptyMap == [at |-> [k \in {} |-> 0], before |-> {}]

Keys(m) == DOMAIN m.at

Size(m) == Cardinality(Keys(m))

\* delete(k) for every k of a set.
Without(m, gone) ==
    [at |-> [k \in Keys(m) \ gone |-> m.at[k]],
     before |-> {p \in m.before : p[1] \notin gone /\ p[2] \notin gone}]

\* set(k, v): a key already held keeps its position, a new one goes last.
With(m, k, v) ==
    [at |-> [x \in Keys(m) \cup {k} |-> IF x = k THEN v ELSE m.at[x]],
     before |-> IF k \in Keys(m) THEN m.before
                ELSE m.before \cup {<<x, k>> : x \in Keys(m)}]

\* keys().next().value of a map that is not empty.
Oldest(m) == CHOOSE k \in Keys(m) : \A x \in Keys(m) \ {k} : <<k, x>> \in m.before

\* Without the oldest key, if there is one.
WithoutOldest(m) == IF Keys(m) = {} THEN m ELSE Without(m, {Oldest(m)})
=============================================================================
