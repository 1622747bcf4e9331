---------------------- MODULE MCPostgresTopologyStore ----------------------
(* Three calls of Replace and one reader that calls Current again and again. *)
EXTENDS PostgresTopologyStore, TLC

CONSTANTS w1, w2, w3, r1, s1, s2

MCSymmetry == Permutations({w1, w2, w3}) \cup Permutations({s1, s2})

=============================================================================
