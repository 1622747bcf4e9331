------------------------ MODULE ReconciliationProofs ------------------------
(***************************************************************************)
(* Lemmas about the reconciliation operators: what they return, what they  *)
(* preserve, and when reconcileSnapshots can not fail; then about the      *)
(* snapshots that a refresh handles, whichever specification it is a       *)
(* refresh of.                                                             *)
(***************************************************************************)
EXTENDS DeclaredGraphs, TLAPS

\* The nodes of a reconciled snapshot are a node map again.
LEMMA ReconciledNodesType ==
    ASSUME NEW c \in Snapshot, NEW i \in Snapshot
    PROVE  ReconciledNodes(c, i) \in NodeMap
<1> DEFINE kept == IF i.completeness = "partial" THEN DOMAIN c.nodes ELSE {}
           D == kept \cup DOMAIN i.nodes
<1>1. /\ DOMAIN c.nodes \subseteq NodeId /\ c.nodes \in [DOMAIN c.nodes -> Node]
      /\ DOMAIN i.nodes \subseteq NodeId /\ i.nodes \in [DOMAIN i.nodes -> Node]
  BY DEF Snapshot, NodeMap
<1>2. D \in SUBSET NodeId
  BY <1>1
<1>3. \A n \in D : (IF n \in DOMAIN i.nodes THEN i.nodes[n] ELSE c.nodes[n]) \in Node
  BY <1>1
<1>4. ReconciledNodes(c, i) \in [D -> Node]
  BY <1>3 DEF ReconciledNodes
<1> QED
  BY <1>2, <1>4 DEF NodeMap

\* Merging two ranges gives a range that contains both.
LEMMA MergedRangeContains ==
    ASSUME NEW p \in SeenRange, NEW q \in SeenRange
    PROVE  /\ MergedRange(p, q) \in SeenRange
           /\ MergedRange(p, q).first <= p.first /\ MergedRange(p, q).first <= q.first
           /\ MergedRange(p, q).last >= p.last /\ MergedRange(p, q).last >= q.last
           /\ q.first <= q.last => MergedRange(p, q).first <= MergedRange(p, q).last
<1>1. {p.first, p.last, q.first, q.last} \subseteq Nat
  BY TimeAssumption DEF SeenRange
<1> QED
  BY <1>1 DEF MergedRange, SeenRange

\* The evidence of a reconciled edge is evidence of the incoming systems.
LEMMA ReconciledEvidenceType ==
    ASSUME NEW p \in Evidence, NEW e \in Evidence
    PROVE  /\ ReconciledEvidence(p, e) \in Evidence
           /\ DOMAIN ReconciledEvidence(p, e) = DOMAIN e
<1>1. /\ DOMAIN p \subseteq SourceSystem /\ p \in [DOMAIN p -> SeenRange]
      /\ DOMAIN e \in (SUBSET SourceSystem) \ {{}} /\ e \in [DOMAIN e -> SeenRange]
  BY DEF Evidence
<1>2. \A s \in DOMAIN e : (IF s \in DOMAIN p THEN MergedRange(p[s], e[s]) ELSE e[s])
                             \in SeenRange
  BY <1>1, MergedRangeContains
<1>3. ReconciledEvidence(p, e) \in [DOMAIN e -> SeenRange]
  BY <1>2 DEF ReconciledEvidence
<1> QED
  BY <1>1, <1>3 DEF Evidence

\* Widening the ranges of valid evidence keeps it valid.
LEMMA ReconciledEvidenceValid ==
    ASSUME NEW p \in Evidence, NEW e \in Evidence, ValidEvidence(e)
    PROVE  ValidEvidence(ReconciledEvidence(p, e))
<1>1. /\ p \in [DOMAIN p -> SeenRange] /\ e \in [DOMAIN e -> SeenRange]
  BY DEF Evidence
<1> QED
  BY <1>1, MergedRangeContains DEF ReconciledEvidence, ValidEvidence

\* The edges of a reconciled snapshot are an edge map again, and the edges
\* taken from the incoming snapshot carry the systems that reported them.
LEMMA ReconciledEdgesType ==
    ASSUME NEW c \in Snapshot, NEW i \in Snapshot
    PROVE  /\ ReconciledEdges(c, i) \in EdgeMap
           /\ \A k \in DOMAIN i.edges :
                 DOMAIN ReconciledEdges(c, i)[k] = DOMAIN i.edges[k]
<1> DEFINE kept == IF i.completeness = "partial" THEN DOMAIN c.edges ELSE {}
           D == kept \cup DOMAIN i.edges
           Edge(k) == IF k \notin DOMAIN i.edges THEN c.edges[k]
                      ELSE IF k \in DOMAIN c.edges
                           THEN ReconciledEvidence(c.edges[k], i.edges[k])
                           ELSE i.edges[k]
<1>1. /\ DOMAIN c.edges \subseteq EdgeKey /\ c.edges \in [DOMAIN c.edges -> Evidence]
      /\ DOMAIN i.edges \subseteq EdgeKey /\ i.edges \in [DOMAIN i.edges -> Evidence]
  BY DEF Snapshot, EdgeMap
<1>2. D \in SUBSET EdgeKey
  BY <1>1
<1>3. \A k \in D : Edge(k) \in Evidence
  BY <1>1, ReconciledEvidenceType
<1>4. ReconciledEdges(c, i) = [k \in D |-> Edge(k)]
  BY DEF ReconciledEdges
<1>5. ReconciledEdges(c, i) \in [D -> Evidence]
  BY <1>3, <1>4
<1>6. \A k \in DOMAIN i.edges : DOMAIN Edge(k) = DOMAIN i.edges[k]
  BY <1>1, ReconciledEvidenceType
<1> HIDE DEF Edge
<1>7. \A k \in DOMAIN i.edges : ReconciledEdges(c, i)[k] = Edge(k)
  BY <1>4
<1> QED
  BY <1>2, <1>5, <1>6, <1>7 DEF EdgeMap

\* reconcileSnapshots returns a snapshot, with the incoming snapshot's source,
\* scope, capture time and completeness.
THEOREM ReconciledType ==
    ASSUME NEW c \in Snapshot \cup {NoSnapshot}, NEW i \in Snapshot
    PROVE  /\ Reconciled(c, i) \in Snapshot
           /\ Reconciled(c, i).source = i.source
           /\ Reconciled(c, i).scope = i.scope
           /\ Reconciled(c, i).completeness = i.completeness
<1>1. CASE c = NoSnapshot
  BY <1>1 DEF Reconciled
<1>2. CASE c # NoSnapshot
  <2>1. c \in Snapshot
    BY <1>2
  <2>2. ReconciledNodes(c, i) \in NodeMap /\ ReconciledEdges(c, i) \in EdgeMap
    BY <2>1, ReconciledNodesType, ReconciledEdgesType
  <2> QED
    BY <1>2, <2>2 DEF Reconciled, Snapshot
<1> QED
  BY <1>1, <1>2

-----------------------------------------------------------------------------

\* N says of every node of m what m says.
Extends(N, m) == \A n \in DOMAIN m : n \in DOMAIN N /\ N[n] = m[n]

\* The node map of a reconciled snapshot extends the incoming one and, where
\* the current nodes are kept and agree with the incoming ones, the current one.
LEMMA ReconciledNodesExtend ==
    ASSUME NEW c, NEW i
    PROVE  /\ Extends(ReconciledNodes(c, i), i.nodes)
           /\ i.completeness = "partial" /\ Consistent(c, i)
                => Extends(ReconciledNodes(c, i), c.nodes)
           /\ i.completeness # "partial" => DOMAIN ReconciledNodes(c, i) = DOMAIN i.nodes
           /\ i.completeness = "partial" =>
                DOMAIN ReconciledNodes(c, i) = DOMAIN c.nodes \cup DOMAIN i.nodes
  BY DEF Extends, ReconciledNodes, Consistent

\* An edge that can be built over some nodes can be built over more of them.
LEMMA EdgeBuildsExtends ==
    ASSUME NEW N, NEW m, NEW k, Extends(N, m), EdgeBuilds(k, m)
    PROVE  EdgeBuilds(k, N) /\ N[k.source] = m[k.source]
  BY DEF Extends, EdgeBuilds

\* Where every edge of a reconciled snapshot comes from.
LEMMA ReconciledEdgesOrigin ==
    ASSUME NEW c \in Snapshot, NEW i \in Snapshot,
           SnapshotAccepted(c), SnapshotAccepted(i),
           NEW k \in DOMAIN ReconciledEdges(c, i)
    PROVE  /\ k \in DOMAIN i.edges \/ (i.completeness = "partial" /\ k \in DOMAIN c.edges)
           /\ ValidEvidence(ReconciledEdges(c, i)[k])
<1> DEFINE kept == IF i.completeness = "partial" THEN DOMAIN c.edges ELSE {}
           Edge == IF k \notin DOMAIN i.edges THEN c.edges[k]
                   ELSE IF k \in DOMAIN c.edges
                        THEN ReconciledEvidence(c.edges[k], i.edges[k])
                        ELSE i.edges[k]
<1>1. k \in kept \cup DOMAIN i.edges /\ ReconciledEdges(c, i)[k] = Edge
  BY DEF ReconciledEdges
<1>2. c.edges \in [DOMAIN c.edges -> Evidence] /\ i.edges \in [DOMAIN i.edges -> Evidence]
  BY DEF Snapshot, EdgeMap
<1>3. ASSUME k \in DOMAIN i.edges PROVE i.edges[k] \in Evidence /\ ValidEvidence(i.edges[k])
  BY <1>2, <1>3 DEF SnapshotAccepted, SnapshotEdgesValid
<1>4. ASSUME k \in DOMAIN c.edges PROVE c.edges[k] \in Evidence /\ ValidEvidence(c.edges[k])
  BY <1>2, <1>4 DEF SnapshotAccepted, SnapshotEdgesValid
<1>5. ValidEvidence(Edge)
  BY <1>1, <1>3, <1>4, ReconciledEvidenceValid
<1> QED
  BY <1>1, <1>5

\* reconcileSnapshots succeeds on valid snapshots of one source and scope if
\* the incoming one is full, whatever it says, or if the two agree on the
\* nodes they share (reconciliation.go:32-69).
THEOREM ReconcileNeverFails ==
    ASSUME NEW c \in Snapshot, NEW i \in Snapshot,
           SnapshotAccepted(c), SnapshotAccepted(i),
           c.source = i.source, c.scope = i.scope,
           i.completeness = "full" \/ Consistent(c, i)
    PROVE  ReconcileAccepts(c, i)
<1> DEFINE N == ReconciledNodes(c, i)
           E == ReconciledEdges(c, i)
<1>1. Extends(N, i.nodes)
  BY ReconciledNodesExtend
<1>2. i.completeness = "partial" => Extends(N, c.nodes)
  BY ReconciledNodesExtend
<1>3. \A n \in DOMAIN N : \/ n \in DOMAIN i.nodes
                          \/ i.completeness = "partial" /\ n \in DOMAIN c.nodes
  BY ReconciledNodesExtend
<1>4. BrokerReferencesValid(N)
  <2> SUFFICES ASSUME NEW n \in DOMAIN N, ProviderOwned(N[n])
               PROVE  N[n].broker \in DOMAIN N /\ N[N[n].broker].kind = "broker"
    BY DEF BrokerReferencesValid
  <2>1. CASE n \in DOMAIN i.nodes
    BY <1>1, <2>1 DEF Extends, SnapshotAccepted, BrokerReferencesValid
  <2>2. CASE i.completeness = "partial" /\ n \in DOMAIN c.nodes
    BY <1>2, <2>2 DEF Extends, SnapshotAccepted, BrokerReferencesValid
  <2> QED
    BY <1>3, <2>1, <2>2
<1>5. \A k \in DOMAIN i.edges : EdgeBuilds(k, N) /\ N[k.source] = i.nodes[k.source]
  BY <1>1, EdgeBuildsExtends DEF SnapshotAccepted, SnapshotEdgesValid
<1>6. ASSUME i.completeness = "partial"
      PROVE  \A k \in DOMAIN c.edges : EdgeBuilds(k, N) /\ N[k.source] = c.nodes[k.source]
  BY <1>2, <1>6, EdgeBuildsExtends DEF SnapshotAccepted, SnapshotEdgesValid
<1>7. SnapshotEdgesValid(N, E)
  <2> SUFFICES ASSUME NEW k \in DOMAIN E
               PROVE  /\ ValidEvidence(E[k])
                      /\ EdgeBuilds(k, N)
                      /\ k.kind = "belongs_to" => N[k.source].broker = k.target
    BY DEF SnapshotEdgesValid
  <2>1. /\ k \in DOMAIN i.edges \/ (i.completeness = "partial" /\ k \in DOMAIN c.edges)
        /\ ValidEvidence(E[k])
    BY ReconciledEdgesOrigin
  <2>2. CASE k \in DOMAIN i.edges
    BY <1>5, <2>1, <2>2 DEF SnapshotAccepted, SnapshotEdgesValid
  <2>3. CASE i.completeness = "partial" /\ k \in DOMAIN c.edges
    BY <1>6, <2>1, <2>3 DEF SnapshotAccepted, SnapshotEdgesValid
  <2> QED
    BY <2>1, <2>2, <2>3
<1>8. \A k \in DOMAIN i.edges : ValidEvidence(E[k])
  <2>1. \A k \in DOMAIN i.edges : k \in DOMAIN E
    BY DEF ReconciledEdges
  <2> QED
    BY <1>7, <2>1 DEF SnapshotEdgesValid
<1>9. SnapshotAccepted(Reconciled(c, i))
  <2>1. c # NoSnapshot
    BY NoSnapshotAssumption
  <2>2. Reconciled(c, i).nodes = N /\ Reconciled(c, i).edges = E
    <3>1. i = [source |-> i.source, scope |-> i.scope, capturedAt |-> i.capturedAt,
               completeness |-> i.completeness, nodes |-> i.nodes, edges |-> i.edges]
      BY DEF Snapshot
    <3> QED
      BY <2>1, <3>1 DEF Reconciled
  <2> QED
    BY <1>4, <1>7, <2>2 DEF SnapshotAccepted
<1> QED
  BY <1>5, <1>8, <1>9 DEF ReconcileAccepts

-----------------------------------------------------------------------------
(* Reconciling with the same snapshot a second time.                       *)

\* A range that was widened by another one already contains it.
LEMMA MergedRangeAgain ==
    ASSUME NEW p \in SeenRange, NEW q \in SeenRange
    PROVE  /\ MergedRange(MergedRange(p, q), q) = MergedRange(p, q)
           /\ MergedRange(q, q) = q
<1>1. /\ p.first \in Nat /\ p.last \in Nat /\ q.first \in Nat /\ q.last \in Nat
      /\ q = [first |-> q.first, last |-> q.last]
  BY TimeAssumption DEF SeenRange
<1> QED
  BY <1>1 DEF MergedRange

\* The same for the evidence of an edge, whatever systems it is of.
LEMMA ReconciledEvidenceAgain ==
    ASSUME NEW p \in Evidence, NEW e \in Evidence
    PROVE  /\ ReconciledEvidence(ReconciledEvidence(p, e), e) = ReconciledEvidence(p, e)
           /\ ReconciledEvidence(e, e) = e
<1>1. /\ p \in [DOMAIN p -> SeenRange] /\ e \in [DOMAIN e -> SeenRange]
  BY DEF Evidence
<1>2. \A s \in DOMAIN e : MergedRange(e[s], e[s]) = e[s]
  BY <1>1, MergedRangeAgain
<1>3. ReconciledEvidence(e, e) = [s \in DOMAIN e |-> e[s]]
  BY <1>2 DEF ReconciledEvidence
<1> DEFINE f == ReconciledEvidence(p, e)
<1>4. DOMAIN f = DOMAIN e
  BY DEF ReconciledEvidence
<1>5. \A s \in DOMAIN e : MergedRange(f[s], e[s]) = f[s]
  BY <1>1, <1>2, MergedRangeAgain DEF ReconciledEvidence
<1>6. f = [s \in DOMAIN e |-> f[s]]
  BY DEF ReconciledEvidence
<1> HIDE DEF f
<1>7. ReconciledEvidence(f, e) = [s \in DOMAIN e |-> f[s]]
  BY <1>4, <1>5 DEF ReconciledEvidence
<1> QED
  BY <1>1, <1>3, <1>6, <1>7 DEF f

\* Reconciling a snapshot with the result of reconciling it changes nothing,
\* whatever either of them contains: an attempt that does not know whether its
\* result was stored can be repeated (reconciliation.go:32-69).
THEOREM ReconciledAgain ==
    ASSUME NEW c \in Snapshot \cup {NoSnapshot}, NEW i \in Snapshot
    PROVE  Reconciled(Reconciled(c, i), i) = Reconciled(c, i)
<1> DEFINE r == Reconciled(c, i)
<1>1. r \in Snapshot /\ r # NoSnapshot
  BY ReconciledType, NoSnapshotAssumption
<1>2. \A x \in Snapshot :
         x = [source |-> x.source, scope |-> x.scope, capturedAt |-> x.capturedAt,
              completeness |-> x.completeness, nodes |-> x.nodes, edges |-> x.edges]
  BY DEF Snapshot
<1>3. /\ i.nodes = [n \in DOMAIN i.nodes |-> i.nodes[n]]
      /\ i.edges = [k \in DOMAIN i.edges |-> i.edges[k]]
      /\ \A k \in DOMAIN i.edges : i.edges[k] \in Evidence
  BY DEF Snapshot, NodeMap, EdgeMap
<1>4. CASE c = NoSnapshot
  <2>1. r = i
    BY <1>4 DEF Reconciled
  <2>2. ReconciledNodes(i, i) = i.nodes
    BY <1>3 DEF ReconciledNodes
  <2>3. ReconciledEdges(i, i) = i.edges
    <3>1. \A k \in DOMAIN i.edges : ReconciledEvidence(i.edges[k], i.edges[k]) = i.edges[k]
      BY <1>3, ReconciledEvidenceAgain
    <3> QED
      BY <1>3, <3>1 DEF ReconciledEdges
  <2> QED
    BY <1>1, <1>2, <2>1, <2>2, <2>3 DEF Reconciled
<1>5. CASE c # NoSnapshot
  <2>1. c \in Snapshot /\ \A k \in DOMAIN c.edges : c.edges[k] \in Evidence
    BY <1>5 DEF Snapshot, EdgeMap
  <2>2. /\ r.nodes = ReconciledNodes(c, i) /\ r.edges = ReconciledEdges(c, i)
        /\ r = [i EXCEPT !.nodes = r.nodes, !.edges = r.edges]
    BY <1>2, <1>5 DEF Reconciled
  <2>3. ReconciledNodes(r, i) = r.nodes
    BY <2>2 DEF ReconciledNodes
  <2>4. ReconciledEdges(r, i) = r.edges
    <3> DEFINE D == DOMAIN r.edges
    <3>1. /\ DOMAIN i.edges \subseteq D
          /\ D = (IF i.completeness = "partial" THEN D ELSE {}) \cup DOMAIN i.edges
          /\ r.edges = [k \in D |-> r.edges[k]]
      BY <2>2 DEF ReconciledEdges
    <3>2. \A k \in DOMAIN i.edges : ReconciledEvidence(r.edges[k], i.edges[k]) = r.edges[k]
      <4> SUFFICES ASSUME NEW k \in DOMAIN i.edges
                   PROVE  ReconciledEvidence(r.edges[k], i.edges[k]) = r.edges[k]
        OBVIOUS
      <4>1. r.edges[k] = IF k \in DOMAIN c.edges
                         THEN ReconciledEvidence(c.edges[k], i.edges[k]) ELSE i.edges[k]
        BY <2>2 DEF ReconciledEdges
      <4> QED
        BY <4>1, <1>3, <2>1, ReconciledEvidenceAgain
    <3>3. ReconciledEdges(r, i) = [k \in D |-> r.edges[k]]
      <4> HIDE DEF r
      <4> QED BY <3>1, <3>2 DEF ReconciledEdges
    <3> QED
      BY <3>1, <3>3
  <2>5. Reconciled(r, i) = [i EXCEPT !.nodes = r.nodes, !.edges = r.edges]
    <3> HIDE DEF r
    <3> QED BY <1>1, <2>3, <2>4 DEF Reconciled
  <2> QED
    BY <2>2, <2>5
<1> QED
  BY <1>4, <1>5

-----------------------------------------------------------------------------
(* The snapshots of a refresh.                                             *)

\* A genuine snapshot was accepted by the constructor, comes from the configured
\* source and scope, and agrees with everything the broker may declare.
Genuine(s) ==
    /\ s.source = Source /\ s.scope = RefreshScope
    /\ SnapshotAccepted(s)
    /\ \A g \in Graph : Consistent(s, g)
    /\ \A k \in DOMAIN s.edges : DOMAIN s.edges[k] = {System}

FromBroker(s) ==
    \E g \in Graph, t \in Time, report \in Reports : s = SnapshotOf(g, t, report)

\* What a provider discovers is a valid snapshot of the configured source.
LEMMA SnapshotOfGenuine ==
    ASSUME NEW g \in Graph, NEW t \in Time, NEW report \in Reports
    PROVE  /\ SnapshotOf(g, t, report) \in Snapshot
           /\ Genuine(SnapshotOf(g, t, report))
           /\ SnapshotOf(g, t, report) # NoSnapshot
<1> DEFINE s == SnapshotOf(g, t, report)
           seen == [x \in {System} |-> [first |-> t, last |-> t]]
<1>1. /\ g.nodes \in NodeMap /\ g.edges \subseteq EdgeKey
      /\ BrokerReferencesValid(g.nodes)
      /\ \A k \in g.edges :
            /\ EdgeBuilds(k, g.nodes)
            /\ k.kind = "belongs_to" => g.nodes[k.source].broker = k.target
  BY GraphAssumption
<1>2. seen \in Evidence /\ ValidEvidence(seen) /\ DOMAIN seen = {System}
  <2>1. seen \in [{System} -> SeenRange] /\ {System} \in (SUBSET SourceSystem) \ {{}}
    BY SourceAssumption DEF SeenRange
  <2>2. t <= t
    BY TimeAssumption
  <2> QED
    BY <2>1, <2>2 DEF Evidence, ValidEvidence
<1>3. /\ s.source = Source /\ s.scope = RefreshScope
      /\ s.nodes = g.nodes /\ s.edges = [k \in g.edges |-> seen]
  BY DEF SnapshotOf
<1>4. [k \in g.edges |-> seen] \in EdgeMap
  BY <1>1, <1>2 DEF EdgeMap
<1>5. s \in Snapshot
  BY <1>1, <1>4, SourceAssumption DEF SnapshotOf, Snapshot
<1>6. SnapshotAccepted(s)
  BY <1>1, <1>2, <1>3 DEF SnapshotAccepted, SnapshotEdgesValid
<1>7. \A h \in Graph : Consistent(s, h)
  BY <1>3, IdentityAssumption DEF Consistent
<1> QED
  BY <1>2, <1>3, <1>5, <1>6, <1>7, NoSnapshotAssumption DEF Genuine

\* Reconciling what a provider discovered with what is stored succeeds, and
\* gives a snapshot of the same quality.
THEOREM ReconciledGenuine ==
    ASSUME NEW c \in Snapshot \cup {NoSnapshot}, NEW i, FromBroker(i),
           c # NoSnapshot => Genuine(c)
    PROVE  /\ ReconcileAccepts(c, i)
           /\ Reconciled(c, i) \in Snapshot
           /\ Reconciled(c, i) # NoSnapshot
           /\ Genuine(Reconciled(c, i))
<1>1. i \in Snapshot /\ Genuine(i) /\ i # NoSnapshot
  BY SnapshotOfGenuine DEF FromBroker
<1>2. PICK g \in Graph, t \in Time, report \in Reports : i = SnapshotOf(g, t, report)
  BY DEF FromBroker
<1>3. /\ Reconciled(c, i) \in Snapshot
      /\ Reconciled(c, i).source = Source /\ Reconciled(c, i).scope = RefreshScope
  BY <1>1, ReconciledType DEF Genuine
<1>4. CASE c = NoSnapshot
  BY <1>1, <1>4 DEF ReconcileAccepts, Reconciled
<1>5. CASE c # NoSnapshot
  <2>1. c \in Snapshot /\ Genuine(c)
    BY <1>5
  <2>2. i.nodes = g.nodes
    BY <1>2 DEF SnapshotOf
  <2>3. Consistent(c, i)
    BY <2>1, <2>2 DEF Genuine, Consistent
  <2>4. ReconcileAccepts(c, i)
    BY <1>1, <2>1, <2>3, ReconcileNeverFails DEF Genuine
  <2>5. /\ Reconciled(c, i).nodes = ReconciledNodes(c, i)
        /\ Reconciled(c, i).edges = ReconciledEdges(c, i)
    <3>1. i = [source |-> i.source, scope |-> i.scope, capturedAt |-> i.capturedAt,
               completeness |-> i.completeness, nodes |-> i.nodes, edges |-> i.edges]
      BY <1>1 DEF Snapshot
    <3> QED
      BY <1>5, <3>1 DEF Reconciled
  <2>6. \A h \in Graph : Consistent(Reconciled(c, i), h)
    <3>1. \A h \in Graph : Consistent(i, h) /\ Consistent(c, h)
      BY <1>1, <2>1 DEF Genuine
    <3> QED
      BY <2>5, <3>1 DEF Consistent, ReconciledNodes
  <2>7. \A k \in DOMAIN Reconciled(c, i).edges : DOMAIN Reconciled(c, i).edges[k] = {System}
    <3>1. \A k \in DOMAIN i.edges : DOMAIN ReconciledEdges(c, i)[k] = {System}
      BY <1>1, <2>1, ReconciledEdgesType DEF Genuine
    <3>2. \A k \in DOMAIN c.edges : DOMAIN c.edges[k] = {System}
      BY <2>1 DEF Genuine
    <3>3. \A k \in DOMAIN ReconciledEdges(c, i) :
             \/ k \in DOMAIN i.edges
             \/ k \in DOMAIN c.edges /\ ReconciledEdges(c, i)[k] = c.edges[k]
      BY DEF ReconciledEdges
    <3> QED
      BY <2>5, <3>1, <3>2, <3>3
  <2>8. SnapshotAccepted(Reconciled(c, i))
    BY <1>5, <2>4 DEF ReconcileAccepts
  <2> QED
    BY <1>3, <2>4, <2>6, <2>7, <2>8, NoSnapshotAssumption DEF Genuine
<1> QED
  BY <1>4, <1>5

=============================================================================
