-------------------------- MODULE DeclaredTopology --------------------------
(***************************************************************************)
(* What the declared-topology pipeline promises its readers, without       *)
(* discovery, reconciliation or storage: the known edges and the range of  *)
(* times over which each was declared, changed by whole observations of    *)
(* the broker only.  An observation happens at one instant; a complete one *)
(* forgets whatever it did not see, an incomplete one forgets nothing, and *)
(* either widens the range of what it saw.                                 *)
(***************************************************************************)
EXTENDS Integers

CONSTANTS
    Edge,      \* the edges a broker can declare
    Instant,   \* instants
    Volatile   \* whether everything known can be lost at once

VARIABLE known   \* a function from the known edges to [first, last]

Init == known = [e \in {} |-> [first |-> 0, last |-> 0]]

\* The range of an edge that was declared at time t.
Widened(e, t) ==
    IF e \in DOMAIN known
    THEN [first |-> IF known[e].first < t THEN known[e].first ELSE t,
          last  |-> IF known[e].last > t THEN known[e].last ELSE t]
    ELSE [first |-> t, last |-> t]

Observe(E, t, complete) ==
    known' = [e \in E \cup (IF complete THEN {} ELSE DOMAIN known) |->
                IF e \in E THEN Widened(e, t) ELSE known[e]]

Forget == Volatile /\ known' = [e \in {} |-> [first |-> 0, last |-> 0]]

Next ==
    \/ \E E \in SUBSET Edge, t \in Instant, complete \in BOOLEAN :
          Observe(E, t, complete)
    \/ Forget

Spec == Init /\ [][Next]_known

=============================================================================
