------------------------ MODULE OverlappingRefreshes ------------------------
(***************************************************************************)
(* Refreshes composed with the store they share: TopologyService.Refresh   *)
(* of one or several processes, call by call, over the TopologyRegister    *)
(* that the durable store implements.  A Replace whose caller gave up, or  *)
(* died, may take effect while a later refresh is under way; refreshes of  *)
(* different processes, such as the old and the new one of a deployment,   *)
(* interleave freely.  TopologyRefresh is what one process makes of this   *)
(* when every call in doubt is settled before the next one.                *)
(***************************************************************************)
EXTENDS DeclaredGraphs

CONSTANTS
    Process,       \* processes that refresh the same source and scope
    MaxAttempts,   \* bound: refreshes in all
    MaxChanges,    \* bound: changes of the broker
    MaxFaults      \* bound: refreshes that fail or die

ASSUME BoundsAssumption == {MaxAttempts, MaxChanges, MaxFaults} \subseteq Nat

VARIABLES
    broker,     \* the graph the broker declares
    stored, replace, read,   \* the shared store
    at,         \* the call each process is about to make, or makes
    attempt,    \* the number of its refresh, in the order they began
    incoming,   \* what its refresh has discovered
    owner,      \* history: the process of each refresh
    by,         \* history: the refresh whose result is stored, 0 if none
    sighted,    \* history: when each edge was discovered
    begun, changes, faults

refreshes == <<at, attempt, incoming, begun>>
history == <<owner, by, sighted>>
vars == <<broker, stored, replace, read, refreshes, history, changes, faults>>

Attempt == 1..MaxAttempts

Store == INSTANCE TopologyRegister
    WITH Writer <- Attempt, Reader <- Process, Content <- Snapshot, Nothing <- NoSnapshot

TypeOK ==
    /\ broker \in Graph
    /\ stored \in Snapshot \cup {NoSnapshot}
    /\ replace \in [Attempt -> [state : {"idle", "called", "succeeded", "failed"},
                               content : Snapshot \cup {NoSnapshot},
                               applied : BOOLEAN, after : SUBSET Attempt]]
    /\ read \in [Process -> [state : {"idle", "called", "looked", "returned"},
                            content : Snapshot \cup {NoSnapshot}]]
    /\ at \in [Process -> {"idle", "discover", "current", "reconciled", "replace"}]
    /\ attempt \in [Process -> 0..MaxAttempts]
    /\ incoming \in [Process -> Snapshot \cup {NoSnapshot}]
    /\ owner \in [1..begun -> Process] /\ by \in 0..begun
    /\ sighted \in [EdgeKey -> SUBSET Time]
    /\ begun \in 0..MaxAttempts /\ changes \in 0..MaxChanges /\ faults \in 0..MaxFaults

Init ==
    /\ broker \in Graph
    /\ Store!Init
    /\ at = [p \in Process |-> "idle"]
    /\ attempt = [p \in Process |-> 0]
    /\ incoming = [p \in Process |-> NoSnapshot]
    /\ owner = << >> /\ by = 0 /\ sighted = [k \in EdgeKey |-> {}]
    /\ begun = 0 /\ changes = 0 /\ faults = 0

BrokerChanges ==
    /\ changes < MaxChanges
    /\ changes' = changes + 1
    /\ broker' \in Graph \ {broker}
    /\ UNCHANGED <<stored, replace, read, refreshes, history, faults>>

-----------------------------------------------------------------------------
(* One refresh.                                                            *)

Goes(p, where) == at' = [at EXCEPT ![p] = where]

\* What a refresh held is gone when it returns.
Ends(p) ==
    /\ Goes(p, "idle")
    /\ attempt' = [attempt EXCEPT ![p] = 0]
    /\ incoming' = [incoming EXCEPT ![p] = NoSnapshot]
    /\ UNCHANGED begun

Begin(p) ==
    /\ at[p] = "idle" /\ begun < MaxAttempts
    /\ begun' = begun + 1
    /\ attempt' = [attempt EXCEPT ![p] = begun + 1]
    /\ owner' = [w \in 1..(begun + 1) |-> IF w > begun THEN p ELSE owner[w]]
    /\ Goes(p, "discover")
    /\ UNCHANGED <<broker, stored, replace, read, incoming, by, sighted, changes, faults>>

\* The provider answers, and the store is asked for what is current.
Discover(p) ==
    /\ at[p] = "discover"
    /\ \E t \in Time, report \in Reports : \E g \in Visible(broker, report) :
          /\ incoming' = [incoming EXCEPT ![p] = SnapshotOf(g, t, report)]
          /\ sighted' = [k \in EdgeKey |-> sighted[k] \cup IF k \in g.edges THEN {t} ELSE {}]
    /\ Store!CallCurrent(p)
    /\ Goes(p, "current")
    /\ UNCHANGED <<broker, attempt, owner, by, begun, changes, faults>>

\* The refresh ends here if the two snapshots do not reconcile.
Reconcile(p) ==
    /\ at[p] = "current"
    /\ Store!ReturnCurrent(p)
    /\ IF ReconcileAccepts(read[p].content, incoming[p])
       THEN Goes(p, "reconciled") /\ UNCHANGED <<attempt, incoming, begun>>
       ELSE Ends(p)
    /\ UNCHANGED <<broker, history, changes, faults>>

Replace(p) ==
    /\ at[p] = "reconciled"
    /\ Store!CallReplace(attempt[p], Reconciled(read[p].content, incoming[p]))
    /\ Goes(p, "replace")
    /\ UNCHANGED <<broker, attempt, incoming, begun, history, changes, faults>>

Succeed(p) ==
    /\ at[p] = "replace"
    /\ Store!ReturnReplace(attempt[p], "succeeded")
    /\ Ends(p)
    /\ UNCHANGED <<broker, history, changes, faults>>

\* A call fails, times out, or dies with its process.
Fail(p) ==
    /\ at[p] # "idle" /\ faults < MaxFaults
    /\ faults' = faults + 1
    /\ CASE at[p] = "current" -> Store!FailCurrent(p)
         [] at[p] = "replace" -> Store!ReturnReplace(attempt[p], "failed")
         [] OTHER -> UNCHANGED <<stored, replace, read>>
    /\ Ends(p)
    /\ UNCHANGED <<broker, history, changes>>

-----------------------------------------------------------------------------
(* The store.                                                              *)

Looks(p) ==
    /\ Store!Look(p)
    /\ UNCHANGED <<broker, refreshes, history, changes, faults>>

\* What was asked for takes effect, now or long after its caller gave up.
Applies(w) ==
    /\ Store!Apply(w)
    /\ by' = w
    /\ UNCHANGED <<broker, refreshes, owner, sighted, changes, faults>>

Next ==
    \/ BrokerChanges
    \/ \E p \in Process : \/ Begin(p) \/ Discover(p) \/ Looks(p) \/ Reconcile(p)
                          \/ Replace(p) \/ Succeed(p) \/ Fail(p)
    \/ \E w \in Attempt : Applies(w)

Spec == Init /\ [][Next]_vars

-----------------------------------------------------------------------------

\* Whatever other refreshes write, late or at the same time, what a refresh
\* finds in the store can be reconciled with what it has discovered
\* (topology_service.go:56-66): no interleaving locks the pipeline out.
ReconciliationNeverFails ==
    \A p \in Process : read[p].state = "looked" =>
        ReconcileAccepts(read[p].content, incoming[p])

\* Whatever interleaves, a stored range is delimited by instants at which its
\* edge was discovered: what a refresh has not seen it does not claim to have
\* seen (reconciliation.go:92-171).
RangesAreSighted ==
    stored # NoSnapshot =>
        \A k \in DOMAIN stored.edges :
            {stored.edges[k][System].first, stored.edges[k][System].last} \subseteq sighted[k]

\* The refreshes of a process do not overlap, so that what is stored is never older
\* than a refresh that this process was told had succeeded, unless another process
\* wrote it: nothing it gave up before comes back (periodic_refresh.go:58-60).
SuccessIsNotUndone ==
    \A w \in Attempt : replace[w].state = "succeeded" =>
        by >= w \/ owner[by] # owner[w]

=============================================================================
