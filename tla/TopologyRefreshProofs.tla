----------------------- MODULE TopologyRefreshProofs -----------------------
(***************************************************************************)
(* Proofs about TopologyRefresh, for every broker, clock, store and bound. *)
(* The inductive invariant IInv adds to the type invariant what the store  *)
(* and the refresh under way owe to the broker: whatever is stored was     *)
(* accepted by the constructor, comes from the configured source and       *)
(* scope, and agrees with everything the broker may declare; and what a    *)
(* refresh is about to overwrite is what it has reconciled against.        *)
(***************************************************************************)
EXTENDS TopologyRefresh, ReconciliationProofs

StoreInv == store # NoSnapshot => Genuine(store)

AttemptInv == pc \in {"current", "replace"} => FromBroker(incoming)

BasisInv == pc = "replace" => current = store

StartInv == started \/ persisted => store # NoSnapshot

IInv == TypeOK /\ StoreInv /\ AttemptInv /\ BasisInv /\ StartInv

-----------------------------------------------------------------------------
(* The steps of the process.                                               *)

\* How the store can change in a step: not at all, by losing its memory, or
\* by the one write of the refresh under way.
StoreMoves ==
    \/ store' = store
    \/ ~Durable /\ store' = NoSnapshot
    \/ pc = "replace" /\ store' = Reconciled(store, incoming)

\* What a failed attempt leaves behind.
LEMMA AttemptFailsLeaves ==
    ASSUME AttemptFails, TypeOK, StartInv
    PROVE  /\ pc' \in {"wait", "down"}
           /\ started' \in BOOLEAN /\ persisted' \in BOOLEAN
           /\ tick' \in BOOLEAN /\ cancelled' \in BOOLEAN
           /\ incoming' = NoSnapshot /\ current' = NoSnapshot
           /\ pc' = "down" => ~started' /\ ~persisted'
           /\ pc' = "wait" => store # NoSnapshot
  BY DEF AttemptFails, ProcessEnds, TypeOK, StartInv

\* The end of the process satisfies whatever is asked of a process.
LEMMA ProcessEndsLeaves ==
    ASSUME ProcessEnds
    PROVE  /\ pc' = "down" /\ pc' \in Phase
           /\ started' \in BOOLEAN /\ persisted' \in BOOLEAN
           /\ tick' \in BOOLEAN /\ cancelled' \in BOOLEAN
           /\ incoming' = NoSnapshot /\ current' = NoSnapshot
           /\ ~started' /\ ~persisted'
  BY DEF ProcessEnds, Phase

\* Every step changes the store in one of these ways.
LEMMA StoreOnlyMoves ==
    ASSUME IInv, [Next]_vars
    PROVE  StoreMoves
<1> USE DEF StoreMoves
<1>1. CASE UNCHANGED vars
  BY <1>1 DEF vars
<1>2. CASE BrokerChanges \/ Start \/ LoadSucceeds \/ Tick \/ TakeTick \/ Cancel
  BY <1>2 DEF BrokerChanges, Start, LoadSucceeds, Tick, TakeTick, Cancel
<1>3. CASE LoadFails \/ Stop
  BY <1>3 DEF LoadFails, Stop, Survivor
<1>4. CASE DiscoverSucceeds \/ DiscoverFails
  BY <1>4 DEF DiscoverSucceeds, DiscoverFails, Survivor
<1>5. CASE CurrentSucceeds \/ CurrentFails
  BY <1>5 DEF CurrentSucceeds, CurrentFails, Survivor
<1>6. CASE ReplaceSucceeds
  BY <1>6 DEF ReplaceSucceeds, IInv, BasisInv
<1>7. CASE ReplaceFails
  BY <1>7 DEF ReplaceFails, Survivor, IInv, BasisInv
<1>8. CASE Crash
  BY <1>8 DEF Crash, Survivor, IInv, BasisInv
<1> QED
  BY <1>1, <1>2, <1>3, <1>4, <1>5, <1>6, <1>7, <1>8 DEF Next, Attempt, Load

\* What can be in the store after a step.
LEMMA StoreInvPreserved ==
    ASSUME IInv, StoreMoves
    PROVE  store' \in Snapshot \cup {NoSnapshot} /\ StoreInv'
<1>1. CASE store' = store
  BY <1>1 DEF IInv, TypeOK, StoreInv, Genuine
<1>2. CASE store' = NoSnapshot
  BY <1>2 DEF StoreInv
<1>3. CASE pc = "replace" /\ store' = Reconciled(store, incoming)
  <2>1. store \in Snapshot \cup {NoSnapshot} /\ (store # NoSnapshot => Genuine(store))
    BY DEF IInv, TypeOK, StoreInv
  <2>2. FromBroker(incoming)
    BY <1>3 DEF IInv, AttemptInv
  <2> QED
    BY <1>3, <2>1, <2>2, ReconciledGenuine DEF StoreInv
<1> QED
  BY <1>1, <1>2, <1>3 DEF StoreMoves

\* Initially.
LEMMA InitIInv == Init => IInv
<1> SUFFICES ASSUME Init PROVE IInv
  OBVIOUS
<1>1. MaxChanges \in Nat /\ MaxFaults \in Nat /\ MaxSignals \in Nat
  BY ConfigurationAssumption
<1>2. TypeOK
  <2>1. changes \in 0..MaxChanges /\ faults \in 0..MaxFaults /\ signals \in 0..MaxSignals
    BY <1>1 DEF Init
  <2> QED
    BY <2>1, Zenon DEF Init, TypeOK, Phase
<1>3. StoreInv /\ AttemptInv /\ BasisInv
  BY DEF Init, StoreInv, AttemptInv, BasisInv
<1>4. StartInv
  BY DEF Init, StartInv
<1> QED
  BY <1>2, <1>3, <1>4 DEF IInv

\* Every step.
LEMMA NextIInv == IInv /\ [Next]_vars => IInv'
<1> SUFFICES ASSUME IInv, [Next]_vars PROVE IInv'
  OBVIOUS
<1>1. store' \in Snapshot \cup {NoSnapshot} /\ StoreInv'
  BY StoreOnlyMoves, StoreInvPreserved
<1>2. MaxChanges \in Nat /\ MaxFaults \in Nat /\ MaxSignals \in Nat
  BY ConfigurationAssumption
<1> DEFINE Rest == AttemptInv /\ BasisInv /\ StartInv
<1>3. CASE UNCHANGED vars
  BY <1>3, <1>1 DEF vars, process, IInv, TypeOK, AttemptInv, BasisInv, StartInv, FromBroker
<1>4. CASE BrokerChanges
  BY <1>4, <1>1, <1>2 DEF BrokerChanges, process, IInv, TypeOK, AttemptInv, BasisInv,
     StartInv, FromBroker
<1>5. CASE Start
  BY <1>5, <1>1 DEF Start, IInv, TypeOK, Phase, AttemptInv, BasisInv, StartInv
<1>6. CASE LoadSucceeds
  BY <1>6, <1>1 DEF LoadSucceeds, IInv, TypeOK, Phase, AttemptInv, BasisInv, StartInv
<1>7. ASSUME ProcessEnds,
             broker' \in Graph /\ changes' \in 0..MaxChanges
                /\ faults' \in 0..MaxFaults /\ signals' \in 0..MaxSignals
      PROVE  IInv'
  BY <1>7, <1>1, ProcessEndsLeaves DEF IInv, TypeOK, AttemptInv, BasisInv, StartInv
<1>8. ASSUME CallFails PROVE faults' \in 0..MaxFaults
  BY <1>8, <1>2 DEF CallFails, IInv, TypeOK
<1>9. ASSUME AttemptFails, broker' = broker, changes' = changes, signals' = signals,
             faults' \in 0..MaxFaults, pc' = "wait" /\ store # NoSnapshot => store' # NoSnapshot
      PROVE  IInv'
  <2>1. TypeOK'
    BY <1>1, <1>9, AttemptFailsLeaves DEF IInv, TypeOK, Phase
  <2>2. AttemptInv' /\ BasisInv'
    BY <1>9, AttemptFailsLeaves DEF IInv, AttemptInv, BasisInv
  <2>3. StartInv'
    BY <1>9, AttemptFailsLeaves DEF IInv, StartInv
  <2> QED
    BY <1>1, <2>1, <2>2, <2>3 DEF IInv
<1>10. CASE LoadFails
  BY <1>10, <1>7, <1>8 DEF LoadFails, IInv, TypeOK
<1>11. CASE Stop
  BY <1>11, <1>7 DEF Stop, IInv, TypeOK
<1>12. CASE Crash
  <2>1. faults' \in 0..MaxFaults
    BY <1>12, <1>2 DEF Crash, IInv, TypeOK
  <2> QED
    BY <1>12, <1>7, <2>1 DEF Crash, IInv, TypeOK
<1>13. CASE DiscoverSucceeds
  <2>1. PICK t \in Time, report \in Reports :
           \E g \in Visible(broker, report) : incoming' = SnapshotOf(g, t, report)
    BY <1>13 DEF DiscoverSucceeds
  <2>2. PICK g \in Visible(broker, report) : incoming' = SnapshotOf(g, t, report)
    BY <2>1
  <2>3. g \in Graph
    BY <2>2 DEF Visible, IInv, TypeOK
  <2>4. FromBroker(incoming') /\ incoming' \in Snapshot
    BY <2>2, <2>3, SnapshotOfGenuine DEF FromBroker
  <2> QED
    BY <1>13, <1>1, <2>4 DEF DiscoverSucceeds, IInv, TypeOK, Phase, AttemptInv, BasisInv,
       StartInv, FromBroker
<1>14. CASE DiscoverFails
  BY <1>14, <1>8, <1>9 DEF DiscoverFails
<1>15. CASE CurrentSucceeds
  <2>1. ReconcileAccepts(store, incoming)
    BY <1>15, ReconciledGenuine DEF CurrentSucceeds, IInv, TypeOK, StoreInv, AttemptInv
  <2> QED
    BY <1>15, <1>1, <2>1 DEF CurrentSucceeds, IInv, TypeOK, Phase, AttemptInv, BasisInv,
       StartInv, FromBroker
<1>16. CASE CurrentFails
  BY <1>16, <1>8, <1>9 DEF CurrentFails
<1>17. ASSUME pc = "replace" PROVE Reconciled(current, incoming) # NoSnapshot
  BY <1>17, ReconciledGenuine DEF IInv, TypeOK, StoreInv, AttemptInv, BasisInv
<1>18. CASE ReplaceSucceeds
  BY <1>18, <1>1, <1>17 DEF ReplaceSucceeds, AttemptSucceeds, IInv, TypeOK, Phase,
     AttemptInv, BasisInv, StartInv
<1>19. CASE ReplaceFails
  BY <1>19, <1>8, <1>9, <1>17 DEF ReplaceFails
<1>20. CASE Tick
  BY <1>20, <1>1 DEF Tick, IInv, TypeOK, AttemptInv, BasisInv, StartInv, FromBroker
<1>21. CASE TakeTick
  BY <1>21, <1>1 DEF TakeTick, IInv, TypeOK, Phase, AttemptInv, BasisInv, StartInv
<1>22. CASE Cancel
  BY <1>22, <1>1, <1>2 DEF Cancel, IInv, TypeOK, AttemptInv, BasisInv, StartInv, FromBroker
<1> QED
  BY <1>3, <1>4, <1>5, <1>6, <1>10, <1>11, <1>12, <1>13, <1>14, <1>15, <1>16, <1>18,
     <1>19, <1>20, <1>21, <1>22 DEF Next, Attempt, Load

\* The inductive invariant.
LEMMA IInvAlways == Spec => []IInv
  BY InitIInv, NextIInv, PTL DEF Spec

-----------------------------------------------------------------------------
(* What follows from the invariant.                                        *)

\* Every variable stays in its type.
THEOREM TypeCorrect == Spec => []TypeOK
  BY IInvAlways, PTL DEF IInv

\* reconcileSnapshots never fails inside a refresh.
THEOREM NeverLockedOut == Spec => []ReconciliationNeverFails
<1>1. IInv => ReconciliationNeverFails
  BY ReconciledGenuine DEF IInv, TypeOK, StoreInv, AttemptInv, ReconciliationNeverFails
<1> QED
  BY <1>1, IInvAlways, PTL

\* Whoever is served has a topology to be served.
THEOREM AlwaysServesATopology == Spec => []ServesATopology
<1>1. IInv => ServesATopology
  BY DEF IInv, StartInv, ServesATopology, Serving
<1> QED
  BY <1>1, IInvAlways, PTL

\* Evidence that stays is never narrowed.
THEOREM EvidenceNeverNarrowed == Spec => EvidenceNeverNarrows
<1> DEFINE Wider(c, n) ==
        \A k \in DOMAIN c.edges \cap DOMAIN n.edges :
            \A s \in DOMAIN c.edges[k] \cap DOMAIN n.edges[k] :
               /\ n.edges[k][s].first <= c.edges[k][s].first
               /\ n.edges[k][s].last >= c.edges[k][s].last
           Step == store # NoSnapshot /\ store' # NoSnapshot => Wider(store, store')
<1>0. \A r \in SeenRange : r.first <= r.first /\ r.last >= r.last
  <2>1. \A r \in SeenRange : r.first \in Nat /\ r.last \in Nat
    BY TimeAssumption DEF SeenRange
  <2> QED
    BY <2>1
<1>1. ASSUME NEW c \in Snapshot, NEW i \in Snapshot PROVE Wider(c, Reconciled(c, i))
  <2>1. /\ Reconciled(c, i).edges = ReconciledEdges(c, i)
    <3>1. i = [source |-> i.source, scope |-> i.scope, capturedAt |-> i.capturedAt,
               completeness |-> i.completeness, nodes |-> i.nodes, edges |-> i.edges]
      BY DEF Snapshot
    <3> QED
      BY <3>1, NoSnapshotAssumption DEF Reconciled
  <2>2. SUFFICES ASSUME NEW k \in DOMAIN c.edges \cap DOMAIN ReconciledEdges(c, i),
                        NEW s \in DOMAIN c.edges[k] \cap DOMAIN ReconciledEdges(c, i)[k]
                 PROVE  /\ ReconciledEdges(c, i)[k][s].first <= c.edges[k][s].first
                        /\ ReconciledEdges(c, i)[k][s].last >= c.edges[k][s].last
    BY <2>1
  <2>3. c.edges[k] \in Evidence /\ (k \in DOMAIN i.edges => i.edges[k] \in Evidence)
    BY DEF Snapshot, EdgeMap
  <2>4. c.edges[k][s] \in SeenRange
    BY <2>3 DEF Evidence
  <2>5. CASE k \notin DOMAIN i.edges
    <3>1. ReconciledEdges(c, i)[k] = c.edges[k]
      BY <2>5 DEF ReconciledEdges
    <3> QED
      BY <1>0, <2>4, <3>1
  <2>6. CASE k \in DOMAIN i.edges
    <3>1. ReconciledEdges(c, i)[k] = ReconciledEvidence(c.edges[k], i.edges[k])
      BY <2>6 DEF ReconciledEdges
    <3>2. s \in DOMAIN i.edges[k] /\ i.edges[k][s] \in SeenRange
      BY <2>3, <2>6, <3>1, ReconciledEvidenceType DEF Evidence
    <3>3. ReconciledEdges(c, i)[k][s] = MergedRange(c.edges[k][s], i.edges[k][s])
      BY <3>1, <3>2 DEF ReconciledEvidence
    <3> QED
      BY <2>4, <3>2, <3>3, MergedRangeContains
  <2> QED
    BY <2>5, <2>6
<1>2. ASSUME NEW c \in Snapshot PROVE Wider(c, c)
  <2>1. \A k \in DOMAIN c.edges : \A s \in DOMAIN c.edges[k] : c.edges[k][s] \in SeenRange
    <3>1. \A k \in DOMAIN c.edges : c.edges[k] \in Evidence
      BY DEF Snapshot, EdgeMap
    <3> QED
      BY <3>1 DEF Evidence
  <2> QED
    BY <1>0, <2>1
<1>3. ASSUME IInv, [Next]_vars PROVE Step
  <2>1. SUFFICES ASSUME store # NoSnapshot, store' # NoSnapshot PROVE Wider(store, store')
    OBVIOUS
  <2>2. store \in Snapshot /\ (pc = "replace" => incoming \in Snapshot)
    <3>1. store \in Snapshot
      BY <1>3, <2>1 DEF IInv, TypeOK
    <3>2. pc = "replace" => FromBroker(incoming)
      BY <1>3 DEF IInv, AttemptInv
    <3> QED
      BY <3>1, <3>2, SnapshotOfGenuine DEF FromBroker
  <2>3. StoreMoves
    BY <1>3, StoreOnlyMoves
  <2> HIDE DEF Wider
  <2> QED
    BY <1>1, <1>2, <2>1, <2>2, <2>3 DEF StoreMoves
<1>4. IInv /\ [Next]_vars => [Step]_store
  BY <1>3
<1> QED
  BY <1>4, IInvAlways, PTL DEF Spec, EvidenceNeverNarrows

\* A write leaves what a complete discovery saw, and adds to what there was what an
\* incomplete one saw (reconciliation.go:29-31).
THEOREM CompletenessDecides == Spec => CompletenessDecidesWhatStays
<1> DEFINE Fits(c, i, n) ==
        IF n.completeness = "full"
        THEN n.nodes = i.nodes /\ DOMAIN n.edges = DOMAIN i.edges
        ELSE c # NoSnapshot => /\ DOMAIN c.nodes \subseteq DOMAIN n.nodes
                               /\ DOMAIN c.edges \subseteq DOMAIN n.edges
           Step == store' \notin {store, NoSnapshot} => Fits(store, incoming, store')
<1>1. ASSUME NEW c, NEW i \in Snapshot PROVE Fits(c, i, Reconciled(c, i))
  <2> DEFINE n == Reconciled(c, i)
  <2>1. i.completeness \in {"full", "partial"}
    BY DEF Snapshot, Completeness
  <2>2. CASE c = NoSnapshot
    <3>1. n = i
      BY <2>2 DEF Reconciled
    <3> QED
      BY <2>2, <3>1
  <2>3. CASE c # NoSnapshot
    <3>1. i = [source |-> i.source, scope |-> i.scope, capturedAt |-> i.capturedAt,
               completeness |-> i.completeness, nodes |-> i.nodes, edges |-> i.edges]
      BY DEF Snapshot
    <3>2. /\ n.completeness = i.completeness
          /\ n.nodes = ReconciledNodes(c, i) /\ n.edges = ReconciledEdges(c, i)
      BY <2>3, <3>1 DEF Reconciled
    <3>3. CASE i.completeness = "full"
      <4>1. DOMAIN n.edges = DOMAIN i.edges
        BY <3>2, <3>3 DEF ReconciledEdges
      <4>2. ReconciledNodes(c, i) = [k \in DOMAIN i.nodes |-> i.nodes[k]]
        BY <3>3 DEF ReconciledNodes
      <4>3. i.nodes = [k \in DOMAIN i.nodes |-> i.nodes[k]]
        BY DEF Snapshot, NodeMap
      <4> QED
        BY <3>2, <3>3, <4>1, <4>2, <4>3
    <3>4. CASE i.completeness = "partial"
      <4>1. /\ DOMAIN c.edges \subseteq DOMAIN n.edges
            /\ DOMAIN c.nodes \subseteq DOMAIN n.nodes
        BY <3>2, <3>4 DEF ReconciledEdges, ReconciledNodes
      <4> QED
        BY <3>2, <3>4, <4>1
    <3> QED
      BY <2>1, <3>3, <3>4
  <2> QED
    BY <2>2, <2>3
<1>2. ASSUME IInv, [Next]_vars PROVE Step
  <2>1. pc = "replace" => incoming \in Snapshot
    <3>1. pc = "replace" => FromBroker(incoming)
      BY <1>2 DEF IInv, AttemptInv
    <3> QED
      BY <3>1, SnapshotOfGenuine DEF FromBroker
  <2>2. StoreMoves
    BY <1>2, StoreOnlyMoves
  <2> HIDE DEF Fits
  <2> QED
    BY <1>1, <2>1, <2>2 DEF StoreMoves
<1>3. IInv /\ [Next]_vars =>
        [store' \notin {store, NoSnapshot} =>
           IF store'.completeness = "full"
           THEN /\ store'.nodes = incoming.nodes
                /\ DOMAIN store'.edges = DOMAIN incoming.edges
           ELSE store # NoSnapshot =>
                /\ DOMAIN store.nodes \subseteq DOMAIN store'.nodes
                /\ DOMAIN store.edges \subseteq DOMAIN store'.edges]_store
  BY <1>2
<1> HIDE DEF Fits, Step
<1> QED
  BY <1>3, IInvAlways, PTL DEF Spec, CompletenessDecidesWhatStays

-----------------------------------------------------------------------------
(* The refinement.                                                         *)

\* The ranges a snapshot knows.
RangesOf(s) == [k \in IF s = NoSnapshot THEN {} ELSE DOMAIN s.edges |-> s.edges[k][System]]

\* The range of edge k after it was declared at time t.
RangeAfter(K, k, t) ==
    IF k \in DOMAIN K
    THEN [first |-> IF K[k].first < t THEN K[k].first ELSE t,
          last  |-> IF K[k].last > t THEN K[k].last ELSE t]
    ELSE [first |-> t, last |-> t]

\* The ranges after one observation of the edges E at time t.
RangesAfter(K, E, t, complete) ==
    [k \in E \cup (IF complete THEN {} ELSE DOMAIN K) |->
        IF k \in E THEN RangeAfter(K, k, t) ELSE K[k]]

\* A reconciliation widens the ranges the store knows by one observation.
LEMMA ReconciledObserves ==
    ASSUME NEW c \in Snapshot \cup {NoSnapshot}, c # NoSnapshot => Genuine(c),
           NEW g \in Graph, NEW t \in Time, NEW report \in Reports
    PROVE  RangesOf(Reconciled(c, SnapshotOf(g, t, report)))
              = RangesAfter(RangesOf(c), g.edges, t, report = "full")
<1> DEFINE K == RangesOf(c)
           i == SnapshotOf(g, t, report)
           seen == [first |-> t, last |-> t]
           D == g.edges \cup (IF report = "full" THEN {} ELSE DOMAIN K)
           R == Reconciled(c, i)
<1>. SUFFICES RangesOf(R) = RangesAfter(K, g.edges, t, report = "full")
  OBVIOUS
<1>1. /\ i \in Snapshot /\ i # NoSnapshot
      /\ i.completeness = report
      /\ DOMAIN i.edges = g.edges
      /\ \A k \in g.edges : i.edges[k] = [s \in {System} |-> seen]
  BY SnapshotOfGenuine DEF SnapshotOf
<1>2. report \in {"full", "partial"}
  BY SourceAssumption DEF Completeness
<1>3. R # NoSnapshot
  BY ReconciledGenuine DEF FromBroker
<1>4. CASE c = NoSnapshot
  <2>1. R = i /\ DOMAIN K = {}
    BY <1>4 DEF Reconciled, RangesOf
  <2>2. D = g.edges
    BY <2>1
  <2>3. \A k \in g.edges : i.edges[k][System] = RangeAfter(K, k, t)
    BY <1>1, <2>1 DEF RangeAfter
  <2>4. RangesOf(R) = [k \in g.edges |-> i.edges[k][System]]
    BY <1>1, <2>1 DEF RangesOf
  <2>5. RangesAfter(K, g.edges, t, report = "full")
          = [k \in g.edges |-> RangeAfter(K, k, t)]
    BY <2>2 DEF RangesAfter
  <2> HIDE DEF K, R, i
  <2> QED
    BY <2>3, <2>4, <2>5
<1>5. CASE c # NoSnapshot
  <2>1. R.edges = ReconciledEdges(c, i)
    <3>1. i = [source |-> i.source, scope |-> i.scope, capturedAt |-> i.capturedAt,
               completeness |-> i.completeness, nodes |-> i.nodes, edges |-> i.edges]
      BY <1>1 DEF Snapshot
    <3> QED
      BY <1>5, <3>1 DEF Reconciled
  <2>2. /\ DOMAIN K = DOMAIN c.edges
        /\ \A k \in DOMAIN c.edges : K[k] = c.edges[k][System]
    BY <1>5 DEF RangesOf
  <2>3. \A k \in DOMAIN c.edges : DOMAIN c.edges[k] = {System}
    BY <1>5 DEF Genuine
  <2>4. DOMAIN ReconciledEdges(c, i) = D
    BY <1>1, <1>2, <2>2 DEF ReconciledEdges
  <2>5. ASSUME NEW k \in g.edges PROVE ReconciledEdges(c, i)[k][System] = RangeAfter(K, k, t)
    <3>1. CASE k \in DOMAIN c.edges
      <4>1. ReconciledEdges(c, i)[k] = ReconciledEvidence(c.edges[k], i.edges[k])
        BY <1>1, <3>1 DEF ReconciledEdges
      <4>2. ReconciledEvidence(c.edges[k], i.edges[k])[System]
              = MergedRange(c.edges[k][System], seen)
        BY <1>1, <2>3, <3>1 DEF ReconciledEvidence
      <4> QED
        BY <2>2, <3>1, <4>1, <4>2 DEF MergedRange, RangeAfter
    <3>2. CASE k \notin DOMAIN c.edges
      <4>1. ReconciledEdges(c, i)[k] = i.edges[k]
        BY <1>1, <3>2 DEF ReconciledEdges
      <4> QED
        BY <1>1, <2>2, <3>2, <4>1 DEF RangeAfter
    <3> QED
      BY <3>1, <3>2
  <2>6. ASSUME NEW k \in D, k \notin g.edges
        PROVE  ReconciledEdges(c, i)[k][System] = K[k]
    <3>1. k \in DOMAIN c.edges /\ report = "partial"
      BY <1>2, <2>2, <2>6
    <3>2. ReconciledEdges(c, i)[k] = c.edges[k]
      BY <1>1, <2>6, <3>1 DEF ReconciledEdges
    <3> QED
      BY <2>2, <3>1, <3>2
  <2>7. RangesOf(R) = [k \in D |-> ReconciledEdges(c, i)[k][System]]
    BY <1>3, <2>1, <2>4 DEF RangesOf
  <2>8. RangesAfter(K, g.edges, t, report = "full")
          = [k \in D |-> IF k \in g.edges THEN RangeAfter(K, k, t) ELSE K[k]]
    BY DEF RangesAfter
  <2> HIDE DEF K, D, R, i
  <2> QED
    BY <2>5, <2>6, <2>7, <2>8
<1> QED
  BY <1>4, <1>5

\* Every step of the pipeline is one step of the abstract system, or none.
LEMMA StepRefines ==
    ASSUME IInv, [Next]_vars
    PROVE  [Declared!Next]_KnownRanges
<1> USE DEF RangesOf
<1>1. KnownRanges = RangesOf(store) /\ KnownRanges' = RangesOf(store')
  BY DEF KnownRanges
<1>2. CASE store' = store
  BY <1>1, <1>2
<1>3. CASE ~Durable /\ store' = NoSnapshot
  <2>1. KnownRanges' = [e \in {} |-> [first |-> 0, last |-> 0]]
    BY <1>1, <1>3
  <2> QED
    BY <1>3, <2>1 DEF Declared!Next, Declared!Forget
<1>4. CASE pc = "replace" /\ store' = Reconciled(store, incoming)
  <2>1. PICK g \in Graph, t \in Time, report \in Reports :
           incoming = SnapshotOf(g, t, report)
    BY <1>4 DEF IInv, AttemptInv, FromBroker
  <2>2. store \in Snapshot \cup {NoSnapshot} /\ (store # NoSnapshot => Genuine(store))
    BY DEF IInv, TypeOK, StoreInv
  <2>3. g.edges \in SUBSET EdgeKey
    BY GraphAssumption
  <2> DEFINE complete == report = "full"
  <2>4. Declared!Observe(g.edges, t, complete)
    <3> HIDE DEF RangesOf
    <3>1. KnownRanges' = RangesAfter(KnownRanges, g.edges, t, complete)
      BY <1>1, <1>4, <2>1, <2>2, ReconciledObserves
    <3> HIDE DEF complete
    <3> QED
      BY <3>1 DEF Declared!Observe, Declared!Widened, RangesAfter, RangeAfter
  <2>5. complete \in BOOLEAN
    OBVIOUS
  <2> HIDE DEF complete
  <2> QED
    BY <2>3, <2>4, <2>5 DEF Declared!Next
<1> QED
  BY <1>2, <1>3, <1>4, StoreOnlyMoves DEF StoreMoves

\* The pipeline implements DeclaredTopology.
THEOREM Refinement == Spec => ImplementsDeclared
<1>1. Init => Declared!Init
  BY DEF Init, Declared!Init, KnownRanges
<1> QED
  BY <1>1, StepRefines, IInvAlways, PTL DEF Spec, ImplementsDeclared, Declared!Spec

=============================================================================
