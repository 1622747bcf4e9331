--------------------- MODULE MCPostgresObservationStore ---------------------
(* Batches over two rows, in both orders and with a repeated row; two       *)
(* instants are one microsecond.                                           *)
EXTENDS PostgresObservationStore, TLC

CONSTANTS k, l, m, n   \* two identities, two metadata values

F(key, at, metadata) == [key |-> key, at |-> at, metadata |-> metadata]

\* 4 and 5 are in the same microsecond.
MCBatches == {<<F(k, 5, m), F(l, 2, m)>>,
              <<F(l, 4, n), F(k, 4, n)>>,
              <<F(k, 4, n), F(k, 3, m)>>}

=============================================================================
