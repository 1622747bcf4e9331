--------------------------- MODULE TopologyRefresh ---------------------------
(***************************************************************************)
(* The declared-topology pipeline of one EventAtlas process: the initial   *)
(* load of cmd/eventatlas/main.go, PeriodicRefresher.Run and               *)
(* TopologyService.Refresh over a TopologyStore, with the broker that is   *)
(* observed, failing calls, SIGTERM, crashes and restarts.                 *)
(*                                                                         *)
(* A refresh is three calls (Discover, Current, Replace) with everything   *)
(* else free to happen between them.  A call fails at any time, be it for  *)
(* its timeout or for an error; a store that is durable may have applied a *)
(* Replace whose caller was told it failed, or died before it was told.    *)
(***************************************************************************)
EXTENDS DeclaredGraphs

CONSTANTS
    Durable,        \* PostgreSQL is configured, not the memory store
    MaxChanges,     \* bound: changes of the broker
    MaxFaults,      \* bound: calls that fail or die with their process
    MaxSignals      \* bound: SIGTERM signals

ASSUME ConfigurationAssumption ==
    /\ Durable \in BOOLEAN
    /\ {MaxChanges, MaxFaults, MaxSignals} \subseteq Nat

VARIABLES
    broker,     \* the graph the broker declares
    store,      \* the content of the TopologyStore
    pc,         \* the call the process is about to make
    started,    \* loadInitialTopology has returned
    persisted,  \* a snapshot was loaded before the initial discovery
    tick,       \* a tick waits in the ticker's channel
    cancelled,  \* the context of the process is done
    incoming,   \* the snapshot of the refresh under way
    current,    \* what the refresh under way read from the store
    changes, faults, signals

process == <<pc, started, persisted, tick, cancelled, incoming, current>>
vars == <<broker, store, process, changes, faults, signals>>

Phase == {"down", "load", "discover", "current", "replace", "wait"}

TypeOK ==
    /\ broker \in Graph
    /\ store \in Snapshot \cup {NoSnapshot}
    /\ pc \in Phase
    /\ started \in BOOLEAN /\ persisted \in BOOLEAN
    /\ tick \in BOOLEAN /\ cancelled \in BOOLEAN
    /\ incoming \in Snapshot \cup {NoSnapshot}
    /\ current \in Snapshot \cup {NoSnapshot}
    /\ changes \in 0..MaxChanges
    /\ faults \in 0..MaxFaults
    /\ signals \in 0..MaxSignals

\* The states in which the process serves what the store holds.
Serving == started /\ pc # "down"

Init ==
    /\ broker \in Graph
    /\ store = NoSnapshot
    /\ pc = "down"
    /\ started = FALSE /\ persisted = FALSE
    /\ tick = FALSE /\ cancelled = FALSE
    /\ incoming = NoSnapshot /\ current = NoSnapshot
    /\ changes = 0 /\ faults = 0 /\ signals = 0

-----------------------------------------------------------------------------
(* The broker.                                                             *)

BrokerChanges ==
    /\ changes < MaxChanges
    /\ changes' = changes + 1
    /\ broker' \in Graph \ {broker}
    /\ UNCHANGED <<store, process, faults, signals>>

-----------------------------------------------------------------------------
(* The end of the process: what it held in memory is gone.                 *)

ProcessEnds ==
    /\ pc' = "down"
    /\ started' = FALSE /\ persisted' = FALSE
    /\ tick' = FALSE /\ cancelled' = FALSE
    /\ incoming' = NoSnapshot /\ current' = NoSnapshot

Survivor(s) == IF Durable THEN s ELSE NoSnapshot

\* A call fails by itself at the price of a fault, or because the context
\* of the process is done.
CallFails ==
    \/ cancelled /\ UNCHANGED faults
    \/ /\ faults < MaxFaults
       /\ faults' = faults + 1

-----------------------------------------------------------------------------
(* One refresh attempt.                                                    *)

\* Refresh returned: loadInitialTopology returns, or Run selects again.
AttemptSucceeds ==
    /\ pc' = "wait"
    /\ started' = TRUE
    /\ incoming' = NoSnapshot /\ current' = NoSnapshot
    /\ UNCHANGED <<persisted, tick, cancelled>>

\* Mutant: a failed initial discovery is always tolerated.
FailureTolerated ==
    /\ pc' = "wait"
    /\ started' = TRUE
    /\ incoming' = NoSnapshot /\ current' = NoSnapshot
    /\ UNCHANGED <<persisted, tick, cancelled>>

\* Mutant: Run returns when an attempt fails.
RunReturnsOnFailure ==
    IF started \/ persisted
    THEN /\ pc' = "wait"
         /\ started' = FALSE
         /\ incoming' = NoSnapshot /\ current' = NoSnapshot
         /\ UNCHANGED <<persisted, tick, cancelled>>
    ELSE ProcessEnds

\* Without a persisted snapshot a failed initial discovery ends the process.
AttemptFails ==
    IF started \/ persisted
    THEN /\ pc' = "wait"
         /\ started' = TRUE
         /\ incoming' = NoSnapshot /\ current' = NoSnapshot
         /\ UNCHANGED <<persisted, tick, cancelled>>
    ELSE ProcessEnds

DiscoverSucceeds ==
    /\ pc = "discover" /\ ~cancelled
    /\ \E t \in Time, report \in Reports : \E g \in Visible(broker, report) :
          incoming' = SnapshotOf(g, t, report)
    /\ pc' = "current"
    /\ UNCHANGED <<broker, store, started, persisted, tick, cancelled, current,
                   changes, faults, signals>>

DiscoverFails ==
    /\ pc = "discover"
    /\ CallFails
    /\ AttemptFails
    /\ store' = IF pc' = "down" THEN Survivor(store) ELSE store
    /\ UNCHANGED <<broker, changes, signals>>

\* ErrTopologyNotFound is not a failure: it reads as no current snapshot.
\* An error of reconcileSnapshots ends the attempt without any call failing.
CurrentSucceeds ==
    /\ pc = "current" /\ ~cancelled
    /\ IF ReconcileAccepts(store, incoming)
       THEN /\ current' = store
            /\ pc' = "replace"
            /\ UNCHANGED <<store, started, persisted, tick, cancelled, incoming>>
       ELSE /\ AttemptFails
            /\ store' = IF pc' = "down" THEN Survivor(store) ELSE store
    /\ UNCHANGED <<broker, changes, faults, signals>>

CurrentFails ==
    /\ pc = "current"
    /\ CallFails
    /\ AttemptFails
    /\ store' = IF pc' = "down" THEN Survivor(store) ELSE store
    /\ UNCHANGED <<broker, changes, signals>>

ReplaceSucceeds ==
    /\ pc = "replace" /\ ~cancelled
    /\ store' = Reconciled(current, incoming)
    /\ AttemptSucceeds
    /\ UNCHANGED <<broker, changes, faults, signals>>

\* The memory store reports an error only when it did nothing; PostgreSQL
\* may have committed when the client sees its deadline or a broken link.
ReplaceFails ==
    /\ pc = "replace"
    /\ CallFails
    /\ AttemptFails
    /\ \E s \in {store} \cup (IF Durable THEN {Reconciled(current, incoming)}
                                         ELSE {}) :
          store' = IF pc' = "down" THEN Survivor(s) ELSE s
    /\ UNCHANGED <<broker, changes, signals>>

-----------------------------------------------------------------------------
(* The life of the process.                                                *)

Start ==
    /\ pc = "down"
    /\ pc' = "load"
    /\ UNCHANGED <<broker, store, started, persisted, tick, cancelled, incoming,
                   current, changes, faults, signals>>

LoadSucceeds ==
    /\ pc = "load" /\ ~cancelled
    /\ persisted' = (store # NoSnapshot)
    /\ pc' = "discover"
    /\ UNCHANGED <<broker, store, started, tick, cancelled, incoming, current,
                   changes, faults, signals>>

\* Any error but ErrTopologyNotFound ends the process, and so does an error of
\* what run does before the load.
LoadFails ==
    /\ pc = "load"
    /\ CallFails
    /\ ProcessEnds
    /\ store' = Survivor(store)
    /\ UNCHANGED <<broker, changes, signals>>

\* The ticker runs while Run does; its channel holds one tick.
Tick ==
    /\ started /\ ~tick
    /\ tick' = TRUE
    /\ UNCHANGED <<broker, store, pc, started, persisted, cancelled, incoming,
                   current, changes, faults, signals>>

\* select takes the tick, and may do so after the context is done.
TakeTick ==
    /\ pc = "wait" /\ tick
    /\ tick' = FALSE
    /\ pc' = "discover"
    /\ UNCHANGED <<broker, store, started, persisted, cancelled, incoming,
                   current, changes, faults, signals>>

\* Run returns, runHTTPServers returns, run returns.
Stop ==
    /\ pc = "wait" /\ cancelled
    /\ ProcessEnds
    /\ store' = Survivor(store)
    /\ UNCHANGED <<broker, changes, faults, signals>>

\* SIGTERM or SIGINT, or a server that stopped.
Cancel ==
    /\ pc # "down" /\ ~cancelled
    /\ signals < MaxSignals
    /\ signals' = signals + 1
    /\ cancelled' = TRUE
    /\ UNCHANGED <<broker, store, pc, started, persisted, tick, incoming,
                   current, changes, faults>>

\* A crash; PostgreSQL may still commit what it had received.
Crash ==
    /\ pc # "down"
    /\ faults < MaxFaults
    /\ faults' = faults + 1
    /\ ProcessEnds
    /\ \E s \in {store} \cup (IF pc = "replace"
                              THEN {Reconciled(current, incoming)} ELSE {}) :
          store' = Survivor(s)
    /\ UNCHANGED <<broker, changes, signals>>

Attempt == \/ DiscoverSucceeds \/ DiscoverFails
           \/ CurrentSucceeds \/ CurrentFails
           \/ ReplaceSucceeds \/ ReplaceFails

Load == LoadSucceeds \/ LoadFails

Next == \/ BrokerChanges \/ Start \/ Load \/ Attempt
        \/ Tick \/ TakeTick \/ Stop \/ Cancel \/ Crash

Spec == Init /\ [][Next]_vars

\* Every call has a timeout, the ticker ticks, and a select with two ready
\* channels chooses between them at random: neither is passed over for ever.
Fairness ==
    /\ WF_vars(Load) /\ WF_vars(Attempt)
    /\ WF_vars(Tick) /\ WF_vars(TakeTick) /\ SF_vars(Stop)

FairSpec == Spec /\ Fairness

-----------------------------------------------------------------------------
(* Safety.                                                                 *)

\* A provider whose node identities are stable never makes reconcileSnapshots
\* fail (reconciliation.go:32-69), neither with a full nor with a partial
\* snapshot: the pipeline can not lock itself out of refreshing.
ReconciliationNeverFails ==
    pc = "current" => ReconcileAccepts(store, incoming)

\* Once loadInitialTopology has returned the API has a topology to show,
\* whatever failed before and whatever fails later (main.go:159-186).
ServesATopology == Serving => store # NoSnapshot

\* The evidence of an edge that stays in the store is never narrowed, whatever
\* the clock does between two discoveries (reconciliation.go:139-171).
EvidenceNeverNarrows ==
    [][store # NoSnapshot /\ store' # NoSnapshot =>
         \A k \in DOMAIN store.edges \cap DOMAIN store'.edges :
            \A s \in DOMAIN store.edges[k] \cap DOMAIN store'.edges[k] :
               /\ store'.edges[k][s].first <= store.edges[k][s].first
               /\ store'.edges[k][s].last >= store.edges[k][s].last]_store

\* An incomplete discovery removes nothing it did not see, and a complete one
\* leaves exactly what it saw (the comment at reconciliation.go:29-31).
CompletenessDecidesWhatStays ==
    [][store' \notin {store, NoSnapshot} =>
         IF store'.completeness = "full"
         THEN /\ store'.nodes = incoming.nodes
              /\ DOMAIN store'.edges = DOMAIN incoming.edges
         ELSE store # NoSnapshot =>
              /\ DOMAIN store.nodes \subseteq DOMAIN store'.nodes
              /\ DOMAIN store.edges \subseteq DOMAIN store'.edges]_store

-----------------------------------------------------------------------------
(* Liveness.                                                               *)

Mirrors ==
    /\ store # NoSnapshot
    /\ store.nodes = broker.nodes
    /\ DOMAIN store.edges = broker.edges

\* A process that stays up ends up showing the broker's graph for good once
\* the broker and its connection are stable and its snapshots are full, however
\* many attempts failed or saw a part before (periodic_refresh.go:61-84).
EventuallyMirrors ==
    <>[](pc # "down" /\ (incoming # NoSnapshot => incoming.completeness = "full"))
        => <>[]Mirrors

-----------------------------------------------------------------------------
(* The pipeline implements the abstract DeclaredTopology.                  *)

KnownRanges ==
    [k \in IF store = NoSnapshot THEN {} ELSE DOMAIN store.edges |->
        store.edges[k][System]]

Declared == INSTANCE DeclaredTopology
    WITH Edge <- EdgeKey, Instant <- Time, Volatile <- ~Durable,
         known <- KnownRanges

\* Every refresh, whatever it was interrupted by, acts on the known edges like
\* one observation of the broker at one instant, or not at all.
ImplementsDeclared == Declared!Spec

=============================================================================
