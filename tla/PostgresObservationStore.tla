---------------------- MODULE PostgresObservationStore ----------------------
(***************************************************************************)
(* storage/postgres ObservationStore: concurrent UpsertBatch transactions  *)
(* at the default isolation level, statement by statement.                 *)
(*                                                                         *)
(* Each fact is one INSERT ... ON CONFLICT DO UPDATE.  The first statement *)
(* of a transaction that touches a row locks it until the transaction      *)
(* ends; a statement that finds the row of another open transaction waits  *)
(* for that one to end and then reads what it committed.  Batches come in  *)
(* the order the spans came in, so that transactions may wait for each     *)
(* other; PostgreSQL then aborts one of them.                              *)
(*                                                                         *)
(* Facts are timed in nanoseconds and a timestamptz keeps microseconds:    *)
(* every time that goes to the database, the start of the window of        *)
(* ListActive included, loses what is below one.                           *)
(***************************************************************************)
EXTENDS ObservationAggregate, Sequences, Functions

CONSTANTS
    Writer,      \* the calls of UpsertBatch that may be open at once
    CallBatches, \* the non-empty batches they may carry
    NoWriter,    \* the holder of a free row
    Precision,   \* instants in one microsecond
    MaxBatches,  \* bound: calls in all
    MaxFailures  \* bound: calls that fail for another reason than a deadlock

Truncate(at, unit) == at - (at % unit)

\* The time that is stored for an instant.
Stored(at) == Truncate(at, Precision)

ASSUME PrecisionAssumption ==
    /\ Precision \in Nat \ {0}
    /\ \A at \in Instant : Stored(at) \in Instant

ASSUME CallAssumption ==
    /\ CallBatches \subseteq Seq(Fact) \ {<<>>} /\ NoWriter \notin Writer
    /\ MaxBatches \in Nat /\ MaxFailures \in Nat

VARIABLES
    rows,      \* the committed table
    lock,      \* the transaction that holds each row
    tx,        \* the open call of each writer
    recorded,  \* history: the facts that were committed
    begun, failures

tableVars == <<rows, lock, tx, recorded, begun, failures>>

Closed == [open |-> FALSE, batch |-> <<>>, next |-> 1, writes |-> NoAggregates]

Calls == [open : BOOLEAN, batch : CallBatches \cup {<<>>}, next : Nat \ {0},
          writes : Aggregates]

TableTypeOK ==
    /\ rows \in Aggregates
    /\ lock \in [Key -> Writer \cup {NoWriter}]
    /\ tx \in [Writer -> Calls]
    /\ recorded \subseteq Fact
    /\ begun \in 0..MaxBatches /\ failures \in 0..MaxFailures

TableInit ==
    /\ rows = NoAggregates
    /\ lock = [k \in Key |-> NoWriter]
    /\ tx = [w \in Writer |-> Closed]
    /\ recorded = {}
    /\ begun = 0 /\ failures = 0

\* A fact as the parameters of its statement.
Truncated(fact) == [fact EXCEPT !.at = Stored(fact.at)]

\* The fact of the next statement.
NextFact(w) == Truncated(tx[w].batch[tx[w].next])

MoreFacts(w) == tx[w].open /\ tx[w].next <= Len(tx[w].batch)

Blocked(w) == MoreFacts(w) /\ lock[NextFact(w).key] \notin {w, NoWriter}

\* w waits for a transaction that waits, in the end, for w.
Deadlocked(w) ==
    \E C \in SUBSET Writer :
        w \in C /\ \A v \in C : Blocked(v) /\ lock[NextFact(v).key] \in C

\* What the transaction of w reads: its own writes before committed rows.
Visible(w) ==
    [k \in DOMAIN rows \cup DOMAIN tx[w].writes |->
        IF k \in DOMAIN tx[w].writes THEN tx[w].writes[k] ELSE rows[k]]

Begin(w, batch) ==
    /\ ~tx[w].open /\ begun < MaxBatches
    /\ begun' = begun + 1
    /\ tx' = [tx EXCEPT ![w] = [Closed EXCEPT !.open = TRUE, !.batch = batch]]
    /\ UNCHANGED <<rows, lock, recorded, failures>>

\* Mutant: the statement computes on the committed row without locking it.
UpsertUnlocked(w) ==
    /\ MoreFacts(w)
    /\ LET fact == NextFact(w)
       IN  tx' = [tx EXCEPT ![w].next = @ + 1,
                            ![w].writes = [k \in DOMAIN @ \cup {fact.key} |->
                                              WithFact(Visible(w), fact)[k]]]
    /\ UNCHANGED <<rows, lock, recorded, begun, failures>>

UpsertObservation(w) ==
    /\ MoreFacts(w) /\ ~Blocked(w)
    /\ LET fact == NextFact(w)
       IN  /\ lock' = [lock EXCEPT ![fact.key] = w]
           /\ tx' = [tx EXCEPT ![w].next = @ + 1,
                               ![w].writes = [k \in DOMAIN @ \cup {fact.key} |->
                                                 WithFact(Visible(w), fact)[k]]]
    /\ UNCHANGED <<rows, recorded, begun, failures>>

\* Mutant: the deferred rollback is missing.
KeepLocks(w) ==
    /\ tx' = [tx EXCEPT ![w] = Closed]
    /\ UNCHANGED lock

\* The end of a transaction frees its rows.
Release(w) ==
    /\ tx' = [tx EXCEPT ![w] = Closed]
    /\ lock' = [k \in Key |-> IF lock[k] = w THEN NoWriter ELSE lock[k]]

Commit(w) ==
    /\ tx[w].open /\ ~MoreFacts(w)
    /\ rows' = Visible(w)
    /\ recorded' = recorded \cup Range(tx[w].batch)
    /\ Release(w)
    /\ UNCHANGED <<begun, failures>>

\* A statement or the commit fails, or the context of the request ends.
Rollback(w) ==
    /\ tx[w].open /\ failures < MaxFailures
    /\ failures' = failures + 1
    /\ Release(w)
    /\ UNCHANGED <<rows, recorded, begun>>

DeadlockVictim(w) ==
    /\ Deadlocked(w)
    /\ Release(w)
    /\ UNCHANGED <<rows, recorded, begun, failures>>

TableNext == \E w \in Writer :
    \/ \E batch \in CallBatches : Begin(w, batch)
    \/ UpsertObservation(w) \/ Commit(w) \/ Rollback(w) \/ DeadlockVictim(w)

TableSpec == TableInit /\ [][TableNext]_tableVars

\* A statement that is not blocked returns, and PostgreSQL resolves deadlocks.
FairTableSpec == TableSpec /\ \A w \in Writer : WF_tableVars(UpsertObservation(w) \/ Commit(w)
                                                 \/ DeadlockVictim(w))

-----------------------------------------------------------------------------

\* What scanObservationAggregate makes an aggregate of again.
Restorable(a) == a.count > 0 /\ a.first <= a.last

\* Mutant: the start of the window keeps its nanoseconds.
ListActiveExactly(since) == Active(rows, since)

\* One statement over the committed rows; a row that can not be restored fails
\* the whole list.
ListActive(since) ==
    LET listed == Active(rows, Stored(since))
    IN  IF \A k \in listed : Restorable(rows[k]) THEN listed ELSE {}

TruncatedBatch(batch) == [i \in 1..Len(batch) |-> Truncated(batch[i])]

Store == INSTANCE ObservationStore
    WITH aggregates <- rows, Batches <- {TruncatedBatch(batch) : batch \in CallBatches}

\* Concurrent batches are as good as batches one after the other: none is
\* recorded in part, none overwrites what another one recorded meanwhile, and
\* an aborted one leaves no trace (postgres/observation_store.go:42-76,130-175).
ImplementsStore == Store!Spec

\* Every call returns, although batches lock rows in any order.
EveryCallReturns == \A w \in Writer : tx[w].open ~> ~tx[w].open

\* What was observed since the start of the window is listed, although times are
\* kept in microseconds, and what is listed was observed then or less than one
\* microsecond before (observation_store.go:78-102): the adapters may disagree
\* about an observation for no longer than that.
ListsTheActive ==
    \A since \in Instant :
        /\ \A f \in recorded : f.at >= since => f.key \in ListActive(since)
        /\ \A k \in ListActive(since) :
              \E f \in recorded : f.key = k /\ f.at + Precision > since

FactsWith(k) == {f \in recorded : f.key = k}

\* The facts with identity k that are the latest ones when times have this unit.
Latest(k, unit) ==
    {f \in FactsWith(k) :
        \A g \in FactsWith(k) : Truncate(g.at, unit) <= Truncate(f.at, unit)}

\* In whatever order facts are committed, the metadata of a row are those of its
\* latest fact, or of one of the same microsecond (observation_store.go:156-160).
MetadataOfTheLatest ==
    \A k \in DOMAIN rows : \E f \in Latest(k, Precision) : rows[k].metadata = f.metadata

=============================================================================
