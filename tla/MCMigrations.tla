---------------------------- MODULE MCMigrations ----------------------------
(* Two replicas of a release with both migrations and one of an older one. *)
EXTENDS Migrations, TLC

CONSTANTS old, new1, new2, topology, observations

MCFiles == old :> <<topology>> @@ [p \in {new1, new2} |-> <<topology, observations>>]

=============================================================================
