-------------------------- MODULE ObservationStore --------------------------
(***************************************************************************)
(* The contract of application.ObservationStore, which the memory adapter  *)
(* implements by holding its mutex: a batch is validated before anything   *)
(* is changed and is then recorded as a whole, in its order.               *)
(***************************************************************************)
EXTENDS ObservationAggregate, Sequences

CONSTANT Batches   \* the non-empty batches of facts that may be upserted

VARIABLE aggregates

\* The aggregates after a whole batch, fact by fact.
WithBatch(before, batch) ==
    LET After[n \in 0..Len(batch)] ==
            IF n = 0 THEN before ELSE WithFact(After[n - 1], batch[n])
    IN  After[Len(batch)]

Init == aggregates = NoAggregates

UpsertBatch(batch) == aggregates' = WithBatch(aggregates, batch)

Next == \E batch \in Batches : UpsertBatch(batch)

Spec == Init /\ [][Next]_aggregates

=============================================================================
