-------------------------- MODULE MCNatsDiscovery --------------------------
(* Lists that fit into a page of two entries, and lists that do not.       *)
EXTENDS NatsDiscovery, TLC

CONSTANTS created, shared

Has(subjects, consumers) == [subjects |-> subjects, consumers |-> consumers]

\* Everything on one page, a subject of two streams; a second page of streams; a
\* second page of consumers; nothing.
MCBrokers ==
    {1 :> Has({created, shared}, {1}) @@ 2 :> Has({shared}, {}),
     1 :> Has({created}, {}) @@ 2 :> Has({}, {}) @@ 3 :> Has({}, {}),
     1 :> Has({created}, {2, 3, 4, 5}),
     NoStreams}

=============================================================================
