---------------------- MODULE TopologyViewServiceProofs ----------------------
(***************************************************************************)
(* Proofs about TopologyViewService, for any snapshots, observations and   *)
(* number of concurrent calls.  The first part is about the projection,    *)
(* whose evidence is merged along KeyOrder: an induction over an initial   *)
(* part of that list, by its least counterexample.  The second part is the *)
(* inductive invariant of the calls.                                       *)
(***************************************************************************)
EXTENDS TopologyViewService, FiniteSetTheorems, WellFoundedInduction, TLAPS

-----------------------------------------------------------------------------
(* Induction over the naturals.                                            *)

\* A set of naturals that is not empty has a least element.
LEMMA LeastNumber ==
    ASSUME NEW S \in SUBSET Nat, S # {}
    PROVE  \E m \in S : \A n \in S : m <= n
<1>1. PICK m \in S : \A n \in S : <<n, m>> \notin OpToRel(<, Nat)
  BY NatLessThanWellFounded, WFMin, Zenon
<1>2. \A n \in S : ~(n < m)
  BY <1>1, Zenon DEF OpToRel
<1>3. QED
  BY <1>2

-----------------------------------------------------------------------------
(* The evidence of an edge.                                                *)

\* Evidence that is exactly what the aggregates of K give: a range without slack,
\* a count that is not less than any, the metadata of an aggregate seen last.
Exact(evidence, a, K) ==
    /\ evidence.first \in Nat /\ evidence.last \in Nat /\ evidence.count \in Nat
    /\ K = {} => evidence = NoEvidence
    /\ \A k \in K : /\ evidence.first <= a[k].first /\ evidence.last >= a[k].last
                    /\ evidence.count >= a[k].count
    /\ K # {} => /\ \E k \in K : evidence.first = a[k].first
                 /\ \E k \in K : evidence.last = a[k].last /\ evidence.metadata = a[k].metadata

\* The type of aggregates, one by one.
LEMMA AggregatesTyped ==
    ASSUME NEW a \in Aggregates
    PROVE  /\ DOMAIN a \subseteq Key
           /\ \A k \in DOMAIN a : a[k] \in Aggregate
<1>1. PICK K \in SUBSET Key : a \in [K -> Aggregate]
  BY DEF Aggregates
<1>2. QED
  BY <1>1

\* One more aggregate keeps evidence exact.
LEMMA MergeExact ==
    ASSUME NEW a \in Aggregates, NEW K \in SUBSET DOMAIN a, NEW k \in DOMAIN a,
           NEW evidence, Exact(evidence, a, K)
    PROVE  Exact(MergeProjected(evidence, a[k]), a, K \cup {k})
<1> DEFINE merged == MergeProjected(evidence, a[k])
<1>1. /\ \A l \in DOMAIN a : /\ a[l].first \in Nat \ {0} /\ a[l].last \in Nat \ {0}
                             /\ a[l].count \in Nat /\ a[l].count <= MaxShown
      /\ MaxShown \in Nat
  <2>1. MaxCount \in Nat /\ MaxShown \in Nat /\ MaxCount <= MaxShown
    BY AggregateAssumption, ProjectionAssumption
  <2>2. \A l \in DOMAIN a : /\ a[l].first \in Instant /\ a[l].last \in Instant
                            /\ a[l].count \in 1..MaxCount
    BY AggregatesTyped DEF Aggregate
  <2>3. Instant \subseteq Nat \ {0}
    BY AggregateAssumption
  <2>4. ASSUME NEW l \in DOMAIN a
        PROVE  /\ a[l].first \in Nat \ {0} /\ a[l].last \in Nat \ {0}
               /\ a[l].count \in Nat /\ a[l].count <= MaxShown
    <3>1. a[l].first \in Instant /\ a[l].last \in Instant /\ a[l].count \in 1..MaxCount
      BY <2>2
    <3>2. a[l].first \in Nat \ {0} /\ a[l].last \in Nat \ {0}
      BY <3>1, <2>3
    <3>3. a[l].count \in Nat /\ a[l].count <= MaxShown
      BY <3>1, <2>1
    <3>4. QED
      BY <3>2, <3>3
  <2>5. QED
    BY <2>1, <2>4
<1>2. evidence.first \in Nat /\ evidence.last \in Nat /\ evidence.count \in Nat
  BY DEF Exact
<1>3. /\ merged.first = IF evidence.first = 0 \/ a[k].first < evidence.first
                        THEN a[k].first ELSE evidence.first
      /\ merged.last = IF evidence.last = 0 \/ a[k].last >= evidence.last
                       THEN a[k].last ELSE evidence.last
      /\ merged.metadata = IF evidence.last = 0 \/ a[k].last >= evidence.last
                           THEN a[k].metadata ELSE evidence.metadata
      /\ merged.count = IF evidence.count + a[k].count > MaxShown THEN MaxShown
                        ELSE evidence.count + a[k].count
  BY DEF MergeProjected, CountsSum
<1> HIDE DEF merged
<1>4. merged.first \in Nat /\ merged.last \in Nat /\ merged.count \in Nat
  BY <1>1, <1>2, <1>3
<1>5. CASE K = {}
  <2>1. evidence.first = 0 /\ evidence.last = 0 /\ evidence.count = 0
    BY <1>5 DEF Exact, NoEvidence
  <2>2. /\ merged.first = a[k].first /\ merged.last = a[k].last
        /\ merged.metadata = a[k].metadata /\ merged.count >= a[k].count
    BY <2>1, <1>1, <1>3
  <2>3. K \cup {k} = {k}
    BY <1>5
  <2>4. QED
    BY <2>2, <2>3, <1>1, <1>4 DEF Exact, merged
<1>6. CASE K # {}
  <2>1. /\ \A l \in K : /\ evidence.first <= a[l].first /\ evidence.last >= a[l].last
                        /\ evidence.count >= a[l].count
        /\ \E l \in K : evidence.first = a[l].first
        /\ \E l \in K : evidence.last = a[l].last /\ evidence.metadata = a[l].metadata
    BY <1>6 DEF Exact
  <2>2. evidence.first # 0 /\ evidence.last # 0
    BY <2>1, <1>1
  <2>3. /\ merged.first <= evidence.first /\ merged.first <= a[k].first
        /\ merged.last >= evidence.last /\ merged.last >= a[k].last
        /\ merged.first \in {evidence.first, a[k].first}
    BY <2>2, <1>1, <1>2, <1>3
  <2>4. \A l \in K \cup {k} : merged.first <= a[l].first /\ merged.last >= a[l].last
    BY <2>1, <2>3, <1>1, <1>2, <1>4
  <2>5. \A l \in K \cup {k} : merged.count >= a[l].count
    BY <2>1, <1>1, <1>2, <1>3
  <2>6. \E l \in K \cup {k} : merged.first = a[l].first
    BY <2>1, <2>3
  <2>7. \E l \in K \cup {k} : merged.last = a[l].last /\ merged.metadata = a[l].metadata
    BY <2>1, <1>3
  <2>8. QED
    BY <2>4, <2>5, <2>6, <2>7, <1>4 DEF Exact, merged
<1>7. QED
  BY <1>5, <1>6

\* What merging the first n identities of KeyOrder gives, as a function of n.
IsMerged(g, a, keys, n) ==
    g = [i \in 0..n |-> IF i = 0 THEN NoEvidence
                        ELSE IF KeyOrder[i] \in keys
                             THEN MergeProjected(g[i - 1], a[KeyOrder[i]])
                        ELSE g[i - 1]]

\* The recursion of ProjectedEvidence defines a function.
LEMMA MergedExists ==
    ASSUME NEW a, NEW keys, NEW n \in Nat
    PROVE  \E g : IsMerged(g, a, keys, n)
<1> DEFINE Bad == {i \in Nat : ~\E g : IsMerged(g, a, keys, i)}
<1>1. SUFFICES ASSUME Bad # {} PROVE FALSE
  OBVIOUS
<1>2. PICK m \in Bad : \A i \in Bad : m <= i
  <2>1. Bad \in SUBSET Nat
    OBVIOUS
  <2>2. QED
    BY <1>1, <2>1, LeastNumber
<1>3. m # 0
  <2>1. IsMerged([i \in 0..0 |-> NoEvidence], a, keys, 0)
    BY DEF IsMerged
  <2>2. QED
    BY <1>2, <2>1
<1>4. m \in Nat /\ m - 1 \in Nat /\ m - 1 \notin Bad
  BY <1>2, <1>3
<1>5. PICK g : IsMerged(g, a, keys, m - 1)
  BY <1>4
<1> DEFINE next == IF KeyOrder[m] \in keys THEN MergeProjected(g[m - 1], a[KeyOrder[m]])
                   ELSE g[m - 1]
           h == [i \in 0..m |-> IF i = m THEN next ELSE g[i]]
<1>6. \A i \in 0..(m - 1) : g[i] = IF i = 0 THEN NoEvidence
                                   ELSE IF KeyOrder[i] \in keys
                                        THEN MergeProjected(g[i - 1], a[KeyOrder[i]])
                                   ELSE g[i - 1]
  BY <1>5 DEF IsMerged
<1> HIDE DEF next
<1>7. \A i \in 0..m : h[i] = IF i = 0 THEN NoEvidence
                             ELSE IF KeyOrder[i] \in keys
                                  THEN MergeProjected(h[i - 1], a[KeyOrder[i]])
                             ELSE h[i - 1]
  <2>1. ASSUME NEW i \in 0..m, i # m
        PROVE  /\ h[i] = g[i] /\ i \in 0..(m - 1)
               /\ i # 0 => h[i - 1] = g[i - 1]
    BY <2>1, <1>3, <1>4
  <2>2. h[m] = next /\ h[m - 1] = g[m - 1]
    BY <1>3, <1>4
  <2>3. QED
    BY <1>3, <1>4, <1>6, <2>1, <2>2 DEF next
<1>8. IsMerged(h, a, keys, m)
  BY <1>7 DEF IsMerged
<1>9. QED
  BY <1>2, <1>8

\* Those of the first i identities of KeyOrder that are in keys.
Seen(keys, i) == {KeyOrder[j] : j \in 1..i} \cap keys

\* What ProjectedEvidence makes of the aggregates with some identities is exact.
LEMMA EvidenceExact ==
    ASSUME NEW a \in Aggregates, NEW keys \in SUBSET DOMAIN a
    PROVE  Exact(ProjectedEvidence(a, keys), a, keys)
<1> DEFINE N == Len(KeyOrder)
<1>1. KeyOrder \in Seq(Key) /\ N \in Nat /\ DOMAIN KeyOrder = 1..N
  BY ProjectionAssumption
<1>2. PICK g : IsMerged(g, a, keys, N) /\ ProjectedEvidence(a, keys) = g[N]
  <2> DEFINE M == CHOOSE g : IsMerged(g, a, keys, N)
  <2>1. IsMerged(M, a, keys, N)
    BY <1>1, MergedExists, Zenon
  <2>2. ProjectedEvidence(a, keys) = M[N]
    BY DEF ProjectedEvidence, IsMerged
  <2>3. QED
    BY <2>1, <2>2
<1>3. \A i \in 0..N : g[i] = IF i = 0 THEN NoEvidence
                             ELSE IF KeyOrder[i] \in keys
                                  THEN MergeProjected(g[i - 1], a[KeyOrder[i]])
                             ELSE g[i - 1]
  BY <1>2 DEF IsMerged
<1> DEFINE Bad == {i \in 0..N : ~Exact(g[i], a, Seen(keys, i))}
<1>4. Bad = {}
  <2>1. SUFFICES ASSUME Bad # {} PROVE FALSE
    OBVIOUS
  <2>2. PICK m \in Bad : \A i \in Bad : m <= i
    <3>1. Bad \in SUBSET Nat
      BY <1>1
    <3>2. QED
      BY <2>1, <3>1, LeastNumber
  <2>3. m # 0
    <3>1. Exact(NoEvidence, a, {})
      BY DEF Exact, NoEvidence
    <3>2. Seen(keys, 0) = {} /\ g[0] = NoEvidence
      BY <1>1, <1>3 DEF Seen
    <3>3. Exact(g[0], a, Seen(keys, 0))
      BY <3>1, <3>2
    <3>4. 0 \notin Bad
      BY <3>3
    <3>5. QED
      BY <2>2, <3>4
  <2>4. m \in 1..N /\ m - 1 \in 0..N /\ m - 1 \notin Bad
    BY <1>1, <2>2, <2>3
  <2>5. Exact(g[m - 1], a, Seen(keys, m - 1))
    BY <2>4
  <2>6. Seen(keys, m) = IF KeyOrder[m] \in keys THEN Seen(keys, m - 1) \cup {KeyOrder[m]} ELSE Seen(keys, m - 1)
    <3>1. 1..m = 1..(m - 1) \cup {m}
      BY <2>4, <1>1
    <3>2. QED
      BY <3>1 DEF Seen
  <2>7. g[m] = IF KeyOrder[m] \in keys THEN MergeProjected(g[m - 1], a[KeyOrder[m]])
               ELSE g[m - 1]
    BY <1>3, <2>2, <2>3
  <2>8. CASE KeyOrder[m] \in keys
    <3>1. Seen(keys, m - 1) \in SUBSET DOMAIN a /\ KeyOrder[m] \in DOMAIN a
      BY <2>8 DEF Seen
    <3>2. Exact(g[m], a, Seen(keys, m))
      BY <2>5, <2>6, <2>7, <2>8, <3>1, MergeExact
    <3>3. QED
      BY <3>2, <2>2
  <2>9. CASE KeyOrder[m] \notin keys
    BY <2>2, <2>5, <2>6, <2>7, <2>9
  <2>10. QED
    BY <2>8, <2>9
<1>5. Exact(g[N], a, Seen(keys, N))
  BY <1>1, <1>4
<1>6. Seen(keys, N) = keys
  <2>1. DOMAIN a \subseteq {KeyOrder[j] : j \in 1..N}
    BY <1>1, ProjectionAssumption, AggregatesTyped
  <2>2. keys \subseteq {KeyOrder[j] : j \in 1..N}
    BY <2>1
  <2>3. QED
    BY <2>2 DEF Seen
<1>7. QED
  BY <1>2, <1>5, <1>6

-----------------------------------------------------------------------------
(* The view.                                                               *)

\* The resolved ones among the active aggregates.
Keys(declared, a, since) == {k \in Active(a, since) : Resolved(k, declared.nodes)}

\* Those of them that are evidence of e from one telemetry source.
On(keys, declared, e, source) ==
    {k \in {l \in keys : ObservedEdge(l, declared.nodes) = e} : k.source = source}

\* Where every piece of evidence of a projected view comes from.
LEMMA EvidenceOfView ==
    ASSUME NEW declared, NEW a, NEW since, NEW now,
           NEW e \in DOMAIN Projected(declared, a, since, now).edges
    PROVE  LET keys == Keys(declared, a, since)
               evidence == Projected(declared, a, since, now).edges[e]
           IN  /\ \/ e \in DOMAIN declared.edges
                  \/ \E k \in keys : e = ObservedEdge(k, declared.nodes)
               /\ e \in DOMAIN declared.edges => \A s \in DOMAIN declared.edges[e] :
                     DeclaredBy(s, declared.source) \in DOMAIN evidence
               /\ \A k \in keys : e = ObservedEdge(k, declared.nodes) =>
                     ObservedBy(k.source) \in DOMAIN evidence
               /\ \A by \in DOMAIN evidence :
                     \/ /\ e \in DOMAIN declared.edges
                        /\ \E s \in DOMAIN declared.edges[e] :
                              /\ by = DeclaredBy(s, declared.source)
                              /\ evidence[by] = declared.edges[e][s]
                     \/ /\ \E k \in keys : /\ e = ObservedEdge(k, declared.nodes)
                                           /\ by = ObservedBy(k.source)
                        /\ evidence[by] = ProjectedEvidence(a, On(keys, declared, e, by.source))
<1> DEFINE keys == Keys(declared, a, since)
           on == {k \in keys : ObservedEdge(k, declared.nodes) = e}
           shown == IF e \in DOMAIN declared.edges THEN DOMAIN declared.edges[e] ELSE {}
           bys == {DeclaredBy(s, declared.source) : s \in shown}
                     \cup {ObservedBy(k.source) : k \in on}
           evidence == Projected(declared, a, since, now).edges[e]
<1>1. Projected(declared, a, since, now).edges = ProjectedEdges(declared, a, keys)
  BY DEF Projected, Keys
<1>2. e \in DOMAIN declared.edges \cup {ObservedEdge(k, declared.nodes) : k \in keys}
  BY <1>1 DEF ProjectedEdges
<1>3. evidence = [by \in bys |-> IF by.mode = "declared" THEN declared.edges[e][by.system]
                                 ELSE ProjectedEvidence(a, On(keys, declared, e, by.source))]
  BY <1>1, <1>2 DEF ProjectedEdges, On
<1> HIDE DEF evidence, keys
<1>4. DOMAIN evidence = bys
  BY <1>3
<1>5. ASSUME NEW s \in shown
      PROVE  /\ DeclaredBy(s, declared.source) \in DOMAIN evidence
             /\ evidence[DeclaredBy(s, declared.source)] = declared.edges[e][s]
  <2>1. DeclaredBy(s, declared.source) \in bys
    OBVIOUS
  <2>2. /\ DeclaredBy(s, declared.source).mode = "declared"
        /\ DeclaredBy(s, declared.source).system = s
    BY DEF DeclaredBy
  <2>3. QED
    BY <1>3, <1>4, <2>1, <2>2
<1>6. ASSUME NEW k \in on
      PROVE  /\ ObservedBy(k.source) \in DOMAIN evidence
             /\ evidence[ObservedBy(k.source)]
                   = ProjectedEvidence(a, On(keys, declared, e, ObservedBy(k.source).source))
  <2>1. ObservedBy(k.source) \in bys
    OBVIOUS
  <2>2. ObservedBy(k.source).mode # "declared"
    BY DEF ObservedBy
  <2>3. QED
    BY <1>3, <1>4, <2>1, <2>2
<1>7. ASSUME NEW by \in DOMAIN evidence
      PROVE  \/ \E s \in shown : by = DeclaredBy(s, declared.source)
             \/ \E k \in on : by = ObservedBy(k.source)
  BY <1>4
<1>8. e \in DOMAIN declared.edges \/ \E k \in keys : e = ObservedEdge(k, declared.nodes)
  BY <1>2
<1>9. QED
  BY <1>5, <1>6, <1>7, <1>8 DEF evidence, keys

\* A resolved aggregate shows up in the evidence of its edge, which is exact.
LEMMA ResolvedIsShown ==
    ASSUME NEW declared, NEW a \in Aggregates, NEW since, NEW now,
           NEW k \in Keys(declared, a, since)
    PROVE  LET edges == Projected(declared, a, since, now).edges
               e == ObservedEdge(k, declared.nodes)
               evidence == edges[e][ObservedBy(k.source)]
           IN  /\ e \in DOMAIN edges
               /\ ObservedBy(k.source) \in DOMAIN edges[e]
               /\ evidence.first \in Nat /\ evidence.last \in Nat /\ evidence.count \in Nat
               /\ evidence.first <= a[k].first /\ evidence.last >= a[k].last
               /\ evidence.count >= a[k].count
<1> DEFINE keys == Keys(declared, a, since)
           edges == Projected(declared, a, since, now).edges
           e == ObservedEdge(k, declared.nodes)
           by == ObservedBy(k.source)
<1>1. e \in DOMAIN edges
  BY DEF Projected, ProjectedEdges, Keys
<1>2. by \in DOMAIN edges[e]
  BY <1>1, EvidenceOfView
<1>3. by.source = k.source /\ by.mode = "observed"
  BY DEF ObservedBy
<1>4. \A s : by # DeclaredBy(s, declared.source)
  BY <1>3 DEF DeclaredBy
<1>5. edges[e][by] = ProjectedEvidence(a, On(keys, declared, e, by.source))
  BY <1>1, <1>2, <1>4, EvidenceOfView
<1>6. On(keys, declared, e, by.source) \in SUBSET DOMAIN a
  BY DEF On, Keys, Active
<1>7. k \in On(keys, declared, e, by.source)
  BY <1>3 DEF On
<1>8. Exact(edges[e][by], a, On(keys, declared, e, by.source))
  BY <1>5, <1>6, EvidenceExact
<1>9. QED
  BY <1>1, <1>2, <1>7, <1>8 DEF Exact

\* No observation ends before it starts.
Ranged(a) == \A k \in DOMAIN a : a[k].first <= a[k].last

\* What a resolved aggregate is resolved to.
LEMMA ResolvedTarget ==
    ASSUME NEW k, NEW nodes, Resolved(k, nodes)
    PROVE  LET target == ObservedEdge(k, nodes).target
           IN  target \in DOMAIN nodes /\ nodes[target].kind = "destination"
<1>1. Candidates(k, nodes) # {}
  BY FS_EmptySet DEF Resolved
<1>2. ObservedEdge(k, nodes).target \in Candidates(k, nodes)
  BY <1>1, Zenon DEF ObservedEdge
<1>3. Candidates(k, nodes) \subseteq Eligible(k, nodes)
  BY DEF Candidates
<1>4. QED
  BY <1>2, <1>3 DEF Eligible

\* The nodes of a view: those of the snapshot and observed services.
LEMMA NodesOfView ==
    ASSUME NEW i \in DOMAIN Snapshots, NEW a \in Aggregates, NEW since, NEW now
    PROVE  LET declared == Snapshots[i]
               nodes == Projected(declared, a, since, now).nodes
           IN  /\ \A n \in DOMAIN declared.nodes : /\ n \in DOMAIN nodes
                                                   /\ nodes[n] = declared.nodes[n]
               /\ \A n \in DOMAIN nodes \ DOMAIN declared.nodes : nodes[n].kind = "service"
               /\ \A k \in Keys(declared, a, since) :
                     /\ ServiceNode[k.service] \in DOMAIN nodes
                     /\ nodes[ServiceNode[k.service]].kind = "service"
<1> DEFINE declared == Snapshots[i]
           nodes == Projected(declared, a, since, now).nodes
           keys == Keys(declared, a, since)
<1>1. nodes = [n \in DOMAIN declared.nodes \cup {ServiceNode[k.service] : k \in keys} |->
                  IF n \in DOMAIN declared.nodes THEN declared.nodes[n]
                  ELSE [kind |-> "service", broker |-> NoBroker]]
  BY DEF Projected, ProjectedNodes, Keys
<1>2. keys \subseteq Key
  BY AggregatesTyped DEF Keys, Active
<1>3. \A k \in keys : ServiceNode[k.service] \in DOMAIN declared.nodes
                         => declared.nodes[ServiceNode[k.service]].kind = "service"
  BY <1>2, ReadPathAssumption
<1> HIDE DEF nodes, keys, declared
<1>4. \A n \in DOMAIN declared.nodes : n \in DOMAIN nodes /\ nodes[n] = declared.nodes[n]
  BY <1>1
<1>5. \A n \in DOMAIN nodes \ DOMAIN declared.nodes : nodes[n].kind = "service"
  BY <1>1
<1>6. \A k \in keys : /\ ServiceNode[k.service] \in DOMAIN nodes
                      /\ nodes[ServiceNode[k.service]].kind = "service"
  BY <1>1, <1>3, <1>4, <1>5
<1>7. QED
  BY <1>4, <1>5, <1>6 DEF nodes, keys, declared

\* What the constructors guarantee of a stored snapshot.
LEMMA SnapshotIsValid ==
    ASSUME NEW i \in DOMAIN Snapshots
    PROVE  LET declared == Snapshots[i]
           IN  /\ BrokerReferencesValid(declared.nodes)
               /\ \A e \in DOMAIN declared.edges :
                     /\ ValidEvidence(declared.edges[e])
                     /\ EdgeBuilds(e, declared.nodes)
                     /\ e.kind = "belongs_to" => declared.nodes[e.source].broker = e.target
                     /\ DOMAIN declared.edges[e] # {}
<1> DEFINE declared == Snapshots[i]
<1>1. declared \in Snapshot /\ SnapshotAccepted(declared)
  BY ReadPathAssumption
<1>2. declared.edges \in EdgeMap
  BY <1>1 DEF Snapshot
<1>3. PICK K \in SUBSET EdgeKey : declared.edges \in [K -> Evidence]
  BY <1>2 DEF EdgeMap
<1>4. \A e \in DOMAIN declared.edges : declared.edges[e] \in Evidence
  BY <1>3
<1>5. \A evidence \in Evidence : DOMAIN evidence # {}
  BY DEF Evidence
<1>6. QED
  BY <1>1, <1>4, <1>5 DEF SnapshotAccepted, SnapshotEdgesValid

\* NewTopologyView accepts whatever is projected from what may be stored.
LEMMA ProjectedIsAccepted ==
    ASSUME NEW i \in DOMAIN Snapshots, NEW a \in Aggregates, Ranged(a), NEW since, NEW now
    PROVE  ProjectionAccepted(Snapshots[i], Projected(Snapshots[i], a, since, now))
<1> DEFINE declared == Snapshots[i]
           view == Projected(declared, a, since, now)
           keys == Keys(declared, a, since)
<1>1. \A k \in keys : /\ k \in DOMAIN a /\ k \in Key /\ k \in Active(a, since)
                      /\ Resolved(k, declared.nodes)
  BY AggregatesTyped DEF Keys, Active
<1>2. \A k \in keys : /\ ObservedEdge(k, declared.nodes).source = ServiceNode[k.service]
                      /\ ObservedEdge(k, declared.nodes).kind \in {"publishes", "consumes"}
  BY <1>1, ProjectionAssumption DEF ObservedEdge
<1>3. /\ \A n \in DOMAIN declared.nodes : n \in DOMAIN view.nodes
                                          /\ view.nodes[n] = declared.nodes[n]
      /\ \A n \in DOMAIN view.nodes \ DOMAIN declared.nodes : view.nodes[n].kind = "service"
      /\ \A k \in keys : /\ ServiceNode[k.service] \in DOMAIN view.nodes
                         /\ view.nodes[ServiceNode[k.service]].kind = "service"
  BY NodesOfView
<1>4. /\ BrokerReferencesValid(declared.nodes)
      /\ \A e \in DOMAIN declared.edges :
            /\ ValidEvidence(declared.edges[e])
            /\ EdgeBuilds(e, declared.nodes)
            /\ e.kind = "belongs_to" => declared.nodes[e.source].broker = e.target
            /\ DOMAIN declared.edges[e] # {}
  BY SnapshotIsValid
<1>5. /\ [id |-> declared.source, mode |-> "declared"] \in DOMAIN view.sources
      /\ \A k \in keys : [id |-> k.source, mode |-> "observed"] \in DOMAIN view.sources
  BY <1>1 DEF Projected, ProjectedSources
<1> HIDE DEF keys, view, declared
<1>6. ASSUME NEW e \in DOMAIN view.edges
      PROVE  /\ e \in DOMAIN declared.edges \/ \E k \in keys : e = ObservedEdge(k, declared.nodes)
             /\ e \in DOMAIN declared.edges => \A s \in DOMAIN declared.edges[e] :
                   DeclaredBy(s, declared.source) \in DOMAIN view.edges[e]
             /\ \A k \in keys : e = ObservedEdge(k, declared.nodes) =>
                   ObservedBy(k.source) \in DOMAIN view.edges[e]
             /\ \A by \in DOMAIN view.edges[e] :
                   \/ /\ e \in DOMAIN declared.edges
                      /\ \E s \in DOMAIN declared.edges[e] :
                            /\ by = DeclaredBy(s, declared.source)
                            /\ view.edges[e][by] = declared.edges[e][s]
                   \/ /\ \E k \in keys : /\ e = ObservedEdge(k, declared.nodes)
                                         /\ by = ObservedBy(k.source)
                      /\ view.edges[e][by]
                            = ProjectedEvidence(a, On(keys, declared, e, by.source))
  BY EvidenceOfView DEF view, keys
<1>7. ASSUME NEW e \in DOMAIN view.edges, e.kind \in {"publishes", "consumes"},
             e.source \in DOMAIN declared.nodes
      PROVE  declared.nodes[e.source].kind = "service"
  <2>1. CASE e \in DOMAIN declared.edges
    BY <1>4, <1>7, <2>1 DEF EdgeBuilds, IsAllowedEdgeEndpointPair
  <2>2. CASE \E k \in keys : e = ObservedEdge(k, declared.nodes)
    BY <1>2, <1>3, <1>7, <2>2
  <2>3. QED
    BY <1>6, <2>1, <2>2
<1>8. BrokerReferencesValid(view.nodes)
  <2>1. ASSUME NEW n \in DOMAIN view.nodes, ProviderOwned(view.nodes[n])
        PROVE  /\ view.nodes[n].broker \in DOMAIN view.nodes
               /\ view.nodes[view.nodes[n].broker].kind = "broker"
    <3>1. n \in DOMAIN declared.nodes /\ view.nodes[n] = declared.nodes[n]
      BY <1>3, <2>1 DEF ProviderOwned
    <3>2. /\ declared.nodes[n].broker \in DOMAIN declared.nodes
          /\ declared.nodes[declared.nodes[n].broker].kind = "broker"
      BY <1>4, <2>1, <3>1 DEF BrokerReferencesValid
    <3>3. QED
      BY <1>3, <3>1, <3>2
  <2>2. QED
    BY <2>1 DEF BrokerReferencesValid
<1>9. ViewEdgesValid(view)
  <2> SUFFICES ASSUME NEW e \in DOMAIN view.edges
               PROVE  /\ EdgeBuilds(e, view.nodes)
                      /\ e.kind = "belongs_to" => view.nodes[e.source].broker = e.target
                      /\ DOMAIN view.edges[e] # {}
                      /\ \A by \in DOMAIN view.edges[e] :
                            /\ [id |-> by.source, mode |-> by.mode] \in DOMAIN view.sources
                            /\ view.edges[e][by].first <= view.edges[e][by].last
    BY DEF ViewEdgesValid
  <2>1. ASSUME e \in DOMAIN declared.edges
        PROVE  /\ EdgeBuilds(e, view.nodes)
               /\ e.kind = "belongs_to" => view.nodes[e.source].broker = e.target
               /\ DOMAIN view.edges[e] # {}
    <3>1. /\ EdgeBuilds(e, declared.nodes)
          /\ e.kind = "belongs_to" => declared.nodes[e.source].broker = e.target
          /\ DOMAIN declared.edges[e] # {}
      BY <1>4, <2>1
    <3>2. EdgeBuilds(e, view.nodes)
      BY <3>1, <1>3 DEF EdgeBuilds
    <3>3. e.kind = "belongs_to" => view.nodes[e.source].broker = e.target
      BY <3>1, <1>3 DEF EdgeBuilds
    <3>4. DOMAIN view.edges[e] # {}
      BY <3>1, <1>6, <2>1
    <3>5. QED
      BY <3>2, <3>3, <3>4
  <2>2. ASSUME \E k \in keys : e = ObservedEdge(k, declared.nodes)
        PROVE  /\ EdgeBuilds(e, view.nodes)
               /\ e.kind = "belongs_to" => view.nodes[e.source].broker = e.target
               /\ DOMAIN view.edges[e] # {}
    <3>1. PICK k \in keys : e = ObservedEdge(k, declared.nodes)
      BY <2>2
    <3>2. e.source \in DOMAIN view.nodes /\ view.nodes[e.source].kind = "service"
      BY <1>2, <1>3, <3>1
    <3>3. e.target \in DOMAIN view.nodes /\ view.nodes[e.target].kind = "destination"
      BY <1>1, <1>3, <3>1, ResolvedTarget
    <3>4. EdgeBuilds(e, view.nodes) /\ e.kind # "belongs_to"
      BY <1>2, <3>1, <3>2, <3>3 DEF EdgeBuilds, IsAllowedEdgeEndpointPair
    <3>5. DOMAIN view.edges[e] # {}
      BY <1>6, <3>1
    <3>6. QED
      BY <3>4, <3>5
  <2>3. ASSUME NEW by \in DOMAIN view.edges[e]
        PROVE  /\ [id |-> by.source, mode |-> by.mode] \in DOMAIN view.sources
               /\ view.edges[e][by].first <= view.edges[e][by].last
    <3>1. CASE /\ e \in DOMAIN declared.edges
               /\ \E s \in DOMAIN declared.edges[e] :
                     /\ by = DeclaredBy(s, declared.source)
                     /\ view.edges[e][by] = declared.edges[e][s]
      BY <1>4, <1>5, <3>1 DEF DeclaredBy, ValidEvidence
    <3>2. CASE /\ \E k \in keys : e = ObservedEdge(k, declared.nodes) /\ by = ObservedBy(k.source)
               /\ view.edges[e][by] = ProjectedEvidence(a, On(keys, declared, e, by.source))
      <4>1. PICK k \in keys : e = ObservedEdge(k, declared.nodes) /\ by = ObservedBy(k.source)
        BY <3>2
      <4>2. by.source = k.source /\ by.mode = "observed"
        BY <4>1 DEF ObservedBy
      <4>3. /\ k \in On(keys, declared, e, by.source)
            /\ On(keys, declared, e, by.source) \in SUBSET DOMAIN a
        BY <1>1, <4>1, <4>2 DEF On
      <4>4. Exact(view.edges[e][by], a, On(keys, declared, e, by.source))
        BY <3>2, <4>3, EvidenceExact
      <4>5. /\ view.edges[e][by].first <= a[k].first /\ a[k].last <= view.edges[e][by].last
            /\ view.edges[e][by].first \in Nat /\ view.edges[e][by].last \in Nat
        BY <4>3, <4>4 DEF Exact
      <4>6. a[k].first \in Nat /\ a[k].last \in Nat /\ a[k].first <= a[k].last
        <5>1. k \in DOMAIN a
          BY <1>1
        <5>2. a[k].first \in Instant /\ a[k].last \in Instant
          BY <5>1, AggregatesTyped DEF Aggregate
        <5>3. QED
          BY <5>1, <5>2, AggregateAssumption DEF Ranged
      <4>7. QED
        BY <1>5, <4>2, <4>5, <4>6
    <3>3. QED
      BY <1>6, <3>1, <3>2
  <2>4. QED
    BY <1>6, <2>1, <2>2, <2>3
<1>10. QED
  BY <1>7, <1>8, <1>9 DEF ProjectionAccepted, view, declared

\* Every active aggregate resolves, is ambiguous or matches nothing.
LEMMA ActiveIsPartitioned ==
    ASSUME NEW i \in DOMAIN Snapshots, NEW a \in Aggregates, NEW since
    PROVE  LET active == Active(a, since)
               nodes == Snapshots[i].nodes
           IN  Cardinality({k \in active : Unresolved(k, nodes)})
                  + Cardinality({k \in active : Ambiguous(k, nodes)})
                  + Cardinality({k \in active : Resolved(k, nodes)})
                  = Cardinality(active)
<1> DEFINE active == Active(a, since)
           nodes == Snapshots[i].nodes
           U == {k \in active : Unresolved(k, nodes)}
           A == {k \in active : Ambiguous(k, nodes)}
           R == {k \in active : Resolved(k, nodes)}
<1>1. IsFiniteSet(active)
  <2>1. IsFiniteSet(Key)
    <3>1. KeyOrder \in Seq(Key) /\ Key = {KeyOrder[j] : j \in DOMAIN KeyOrder}
      BY ProjectionAssumption
    <3>2. IsFiniteSet(DOMAIN KeyOrder)
      <4>1. DOMAIN KeyOrder = 1..Len(KeyOrder) /\ Len(KeyOrder) \in Nat
        BY <3>1
      <4>2. QED
        BY <4>1, FS_Interval
    <3>3. KeyOrder \in Surjection(DOMAIN KeyOrder, Key)
      BY <3>1 DEF Surjection
    <3>4. QED
      BY <3>2, <3>3, FS_Surjection
  <2>2. active \in SUBSET Key
    BY AggregatesTyped DEF Active
  <2>3. QED
    BY <2>1, <2>2, FS_Subset
<1>2. IsFiniteSet(U) /\ IsFiniteSet(A) /\ IsFiniteSet(R)
  BY <1>1, FS_Subset
<1>3. \A k : Cardinality(Candidates(k, nodes)) \in Nat
  <2>1. TAKE k
  <2>2. IsFiniteSet(DOMAIN nodes)
    BY ReadPathAssumption
  <2>3. Candidates(k, nodes) \in SUBSET DOMAIN nodes
    BY DEF Candidates, Eligible
  <2>4. QED
    BY <2>2, <2>3, FS_Subset, FS_CardinalityType
<1>4. /\ active = (U \cup A) \cup R
      /\ U \cap A = {} /\ (U \cup A) \cap R = {}
  BY <1>3 DEF Unresolved, Ambiguous, Resolved
<1> HIDE DEF U, A, R, active
<1>5. /\ IsFiniteSet(U \cup A)
      /\ Cardinality(U \cup A) = Cardinality(U) + Cardinality(A)
  <2>1. Cardinality(U \cup A) = Cardinality(U) + Cardinality(A) - Cardinality(U \cap A)
        /\ IsFiniteSet(U \cup A)
    BY <1>2, FS_Union
  <2>2. Cardinality(U \cap A) = 0
    BY <1>4, FS_EmptySet
  <2>3. Cardinality(U) \in Nat /\ Cardinality(A) \in Nat
    BY <1>2, FS_CardinalityType
  <2>4. QED
    BY <2>1, <2>2, <2>3
<1>6. Cardinality(active) = Cardinality(U \cup A) + Cardinality(R)
  <2>1. Cardinality((U \cup A) \cup R)
           = Cardinality(U \cup A) + Cardinality(R) - Cardinality((U \cup A) \cap R)
    BY <1>2, <1>5, FS_Union
  <2>2. Cardinality((U \cup A) \cap R) = 0
    BY <1>4, FS_EmptySet
  <2>3. Cardinality(U \cup A) \in Nat /\ Cardinality(R) \in Nat
    BY <1>2, <1>5, FS_CardinalityType
  <2>4. QED
    BY <1>4, <2>1, <2>2, <2>3
<1>7. QED
  BY <1>5, <1>6 DEF U, A, R, active

-----------------------------------------------------------------------------
(* The inductive invariant.                                                *)

\* The store has seen all that it had seen before, and perhaps more.
Grown(before, a) ==
    \A k \in DOMAIN before :
        /\ k \in DOMAIN a
        /\ a[k].first <= before[k].first /\ a[k].last >= before[k].last
        /\ a[k].count >= before[k].count

\* ShowsWhatWasKnown, of one call.
Shown(c) ==
    LET declared == Snapshots[c.version]
        before == c.knew.aggregates
    IN  /\ c.version >= c.knew.version
        /\ \A k \in DOMAIN before :
             (before[k].last >= c.view.generatedAt - Retention /\ Resolved(k, declared.nodes)) =>
               LET e == ObservedEdge(k, declared.nodes)
               IN  /\ e \in DOMAIN c.view.edges
                   /\ ObservedBy(k.source) \in DOMAIN c.view.edges[e]
                   /\ c.view.edges[e][ObservedBy(k.source)].first <= before[k].first
                   /\ c.view.edges[e][ObservedBy(k.source)].last >= before[k].last
                   /\ c.view.edges[e][ObservedBy(k.source)].count >= before[k].count

\* A call, against the snapshots stored so far, the observation store and the view
\* that is kept: what it knew is still known, what it read is not older than that,
\* and the view that is kept covers what it returned.
Sound(c, stored, a, kept) ==
    /\ c.version \in 0..stored /\ c.knew.version \in 0..stored
    /\ c.at \in {"keep", "returned"} <=> c.view # NoView
    /\ Grown(c.knew.aggregates, a)
    /\ c.at \in {"clock", "list", "keep"} => c.version > 0 /\ c.knew.version <= c.version
    /\ c.at = "list" => c.time \in Clock
    /\ c.at = "missing" => c.knew.version = 0
    /\ c.at = "keep" => Shown(c)
    /\ c.at = "returned" => kept # NoView /\ kept.generatedAt >= c.view.generatedAt

IInv ==
    /\ TypeOK
    /\ Ranged(aggregates)
    /\ \A r \in Reader : Sound(call[r], refreshes, aggregates, lastSuccess)

-----------------------------------------------------------------------------
(* The observation store grows.                                            *)

LEMMA NumbersOfAggregates ==
    ASSUME NEW a \in Aggregates, NEW k \in DOMAIN a
    PROVE  /\ a[k].first \in Nat \ {0} /\ a[k].last \in Nat \ {0}
           /\ a[k].count \in Nat
<1>1. a[k] \in Aggregate
  BY AggregatesTyped
<1>2. a[k].first \in Instant /\ a[k].last \in Instant /\ a[k].count \in 1..MaxCount
  BY <1>1 DEF Aggregate
<1>3. Instant \subseteq Nat \ {0} /\ MaxCount \in Nat
  BY AggregateAssumption
<1>4. a[k].first \in Nat \ {0} /\ a[k].last \in Nat \ {0}
  BY <1>2, <1>3
<1>5. a[k].count \in Nat
  BY <1>2, <1>3
<1>6. QED
  BY <1>4, <1>5

LEMMA GrownReflexive ==
    ASSUME NEW a \in Aggregates
    PROVE  Grown(a, a)
BY NumbersOfAggregates DEF Grown

LEMMA GrownTransitive ==
    ASSUME NEW a \in Aggregates, NEW b \in Aggregates, NEW c \in Aggregates,
           Grown(a, b), Grown(b, c)
    PROVE  Grown(a, c)
<1> SUFFICES ASSUME NEW k \in DOMAIN a
             PROVE  /\ k \in DOMAIN c
                    /\ c[k].first <= a[k].first /\ c[k].last >= a[k].last
                    /\ c[k].count >= a[k].count
  BY DEF Grown
<1>1. /\ k \in DOMAIN b
      /\ b[k].first <= a[k].first /\ b[k].last >= a[k].last /\ b[k].count >= a[k].count
  BY DEF Grown
<1>2. /\ k \in DOMAIN c
      /\ c[k].first <= b[k].first /\ c[k].last >= b[k].last /\ c[k].count >= b[k].count
  BY <1>1 DEF Grown
<1>3. /\ a[k].first \in Nat /\ a[k].last \in Nat /\ a[k].count \in Nat
      /\ b[k].first \in Nat /\ b[k].last \in Nat /\ b[k].count \in Nat
      /\ c[k].first \in Nat /\ c[k].last \in Nat /\ c[k].count \in Nat
  BY <1>1, <1>2, NumbersOfAggregates
<1>4. QED
  BY <1>1, <1>2, <1>3

\* One more fact keeps the type and the order of an aggregate, and widens it.
LEMMA AddedAggregate ==
    ASSUME NEW a \in Aggregate, NEW fact \in Fact
    PROVE  LET b == Add(a, fact)
           IN  /\ b \in Aggregate
               /\ a.first <= a.last => b.first <= b.last
               /\ b.first <= a.first /\ b.last >= a.last /\ b.count >= a.count
<1> DEFINE b == Add(a, fact)
<1>1. /\ a.first \in Instant /\ a.last \in Instant /\ a.count \in 1..MaxCount
      /\ a.metadata \in Metadata /\ fact.at \in Instant /\ fact.metadata \in Metadata
  BY DEF Aggregate, Fact
<1>2. (\A t \in Instant : t \in Nat) /\ MaxCount \in Nat /\ \A n \in 1..MaxCount : n \in Nat
  BY AggregateAssumption
<1>3. a.first \in Nat /\ a.last \in Nat /\ a.count \in Nat /\ fact.at \in Nat
  BY <1>1, <1>2, Zenon
<1>4. /\ b.first \in Instant /\ b.last \in Instant /\ b.metadata \in Metadata
      /\ b.first <= a.first /\ b.last >= a.last
      /\ a.first <= a.last => b.first <= b.last
  <2>1. /\ b.first = IF fact.at < a.first THEN fact.at ELSE a.first
        /\ b.last = IF fact.at >= a.last THEN fact.at ELSE a.last
        /\ b.metadata = IF fact.at >= a.last THEN fact.metadata ELSE a.metadata
    BY DEF Add
  <2> HIDE DEF b
  <2>2. b.first \in Instant /\ b.last \in Instant /\ b.metadata \in Metadata
    BY <1>1, <2>1
  <2>3. b.first <= a.first /\ b.last >= a.last
    BY <1>3, <2>1
  <2>4. a.first <= a.last => b.first <= b.last
    BY <1>3, <2>1
  <2>5. QED
    BY <2>2, <2>3, <2>4
<1>5. b.count \in 1..MaxCount /\ b.count >= a.count
  BY <1>1, <1>2, <1>3 DEF Add
<1>6. b \in Aggregate
  <2>1. b = [first |-> b.first, last |-> b.last, count |-> b.count, metadata |-> b.metadata]
    BY DEF Add
  <2>2. QED
    BY <1>4, <1>5, <2>1 DEF Aggregate
<1>7. QED
  BY <1>4, <1>5, <1>6

LEMMA NewAggregateTyped ==
    ASSUME NEW fact \in Fact
    PROVE  LET b == NewAggregate(fact)
           IN  b \in Aggregate /\ b.first <= b.last
<1>1. fact.at \in Instant /\ fact.metadata \in Metadata
  BY DEF Fact
<1>2. fact.at \in Nat /\ 1 \in 1..MaxCount
  <2>1. (\A t \in Instant : t \in Nat) /\ 1 \in 1..MaxCount
    BY AggregateAssumption
  <2>2. QED
    BY <1>1, <2>1, Zenon
<1>3. NewAggregate(fact) \in Aggregate
  BY <1>1, <1>2 DEF NewAggregate, Aggregate
<1>4. NewAggregate(fact).first = fact.at /\ NewAggregate(fact).last = fact.at
  BY DEF NewAggregate
<1>5. QED
  BY <1>2, <1>3, <1>4

LEMMA StoreGrows ==
    ASSUME NEW a \in Aggregates, NEW fact \in Fact
    PROVE  LET b == WithFact(a, fact)
           IN  /\ b \in Aggregates
               /\ Ranged(a) => Ranged(b)
               /\ Grown(a, b)
<1> DEFINE b == WithFact(a, fact)
<1>1. DOMAIN a \subseteq Key /\ \A k \in DOMAIN a : a[k] \in Aggregate
  BY AggregatesTyped
<1>2. /\ DOMAIN b = DOMAIN a \cup {fact.key} /\ fact.key \in Key
      /\ b = [k \in DOMAIN a \cup {fact.key} |-> b[k]]
  BY DEF WithFact, Fact
<1>3. ASSUME NEW k \in DOMAIN b
      PROVE  /\ b[k] \in Aggregate
             /\ k \notin DOMAIN a => b[k].first <= b[k].last
             /\ k \in DOMAIN a => /\ a[k].first <= a[k].last => b[k].first <= b[k].last
                                  /\ b[k].first <= a[k].first /\ b[k].last >= a[k].last
                                  /\ b[k].count >= a[k].count
  <2>1. CASE k # fact.key
    <3>1. k \in DOMAIN a /\ b[k] = a[k]
      BY <1>2, <2>1 DEF WithFact
    <3>2. QED
      BY <1>1, <3>1, NumbersOfAggregates
  <2>2. CASE k = fact.key /\ k \in DOMAIN a
    <3>1. b[k] = Add(a[k], fact)
      BY <2>2 DEF WithFact
    <3>2. QED
      BY <1>1, <2>2, <3>1, AddedAggregate
  <2>3. CASE k = fact.key /\ k \notin DOMAIN a
    <3>1. b[k] = NewAggregate(fact)
      BY <2>3 DEF WithFact
    <3>2. QED
      BY <2>3, <3>1, NewAggregateTyped
  <2>4. QED
    BY <2>1, <2>2, <2>3
<1> HIDE DEF b
<1>4. b \in Aggregates
  <2>1. DOMAIN b \in SUBSET Key
    BY <1>1, <1>2
  <2>2. b \in [DOMAIN b -> Aggregate]
    BY <1>2, <1>3
  <2>3. QED
    BY <2>1, <2>2 DEF Aggregates
<1>5. Ranged(a) => Ranged(b)
  BY <1>3 DEF Ranged
<1>6. Grown(a, b)
  BY <1>2, <1>3 DEF Grown
<1>7. QED
  BY <1>4, <1>5, <1>6 DEF b

-----------------------------------------------------------------------------
(* The calls keep the invariant.                                           *)

LEMMA NoCallTyped ==
    /\ NoCall \in Calls
    /\ NoAggregates \in Aggregates
<1>1. NoAggregates \in [{} -> Aggregate]
  BY DEF NoAggregates
<1>2. NoAggregates \in Aggregates
  BY <1>1 DEF Aggregates
<1>3. 0 \in 0..Len(Snapshots)
  <2>1. Len(Snapshots) \in Nat
    BY ReadPathAssumption
  <2>2. QED
    BY <2>1
<1>4. NothingKnown \in [version : 0..Len(Snapshots), aggregates : Aggregates]
  BY <1>2, <1>3 DEF NothingKnown
<1>5. QED
  BY <1>2, <1>3, <1>4 DEF NoCall, Calls

\* A step of one call keeps the invariant when the call is sound after it, and the
\* others are with the view that is kept then.
LEMMA CallStep ==
    ASSUME IInv, NEW r \in Reader, NEW kept \in Views \cup {NoView},
           call' \in [Reader -> Calls], \A s \in Reader \ {r} : call'[s] = call[s],
           UNCHANGED environment, lastSuccess' = kept,
           Sound(call'[r], refreshes, aggregates, kept),
           \A s \in Reader : Sound(call[s], refreshes, aggregates, kept)
    PROVE  IInv'
<1>1. /\ refreshes' = refreshes /\ aggregates' = aggregates /\ facts' = facts
  BY DEF environment
<1>2. \A s \in Reader : Sound(call'[s], refreshes, aggregates, kept)
  OBVIOUS
<1>3. \A s \in Reader : Sound(call'[s], refreshes', aggregates', lastSuccess')
  BY <1>1, <1>2
<1>4. \A s \in Reader : /\ call'[s].version \in 0..refreshes'
                        /\ call'[s].at \in {"keep", "returned"} <=> call'[s].view # NoView
  BY <1>3 DEF Sound
<1>5. TypeOK'
  BY <1>1, <1>4 DEF IInv, TypeOK
<1>6. Ranged(aggregates')
  BY <1>1 DEF IInv
<1>7. QED
  BY <1>3, <1>5, <1>6 DEF IInv

\* A call that goes on without anything it has read, or ends.
LEMMA EndStep ==
    ASSUME IInv, NEW r \in Reader, NEW at, NEW view \in Views \cup {NoView},
           at \in {"fallback", "returned", "failed", "notFound"},
           (at = "returned") <=> (view # NoView),
           NEW kept \in Views \cup {NoView},
           Ends(r, at, view), UNCHANGED environment, lastSuccess' = kept,
           at = "returned" => kept # NoView /\ kept.generatedAt >= view.generatedAt,
           \A s \in Reader : Sound(call[s], refreshes, aggregates, kept)
    PROVE  IInv'
<1> DEFINE c == [NoCall EXCEPT !.at = at, !.view = view]
<1>1. /\ c.at = at /\ c.view = view /\ c.version = 0 /\ c.time = 0 /\ c.knew = NothingKnown
      /\ c = [at |-> at, version |-> 0, time |-> 0, view |-> view, knew |-> NothingKnown]
  <2>1. NoCall = [at |-> "idle", version |-> 0, time |-> 0, view |-> NoView,
                  knew |-> NothingKnown]
    BY DEF NoCall
  <2> DEFINE d == [NoCall EXCEPT !.at = at]
  <2>2. d = [at |-> at, version |-> 0, time |-> 0, view |-> NoView, knew |-> NothingKnown]
    BY <2>1
  <2>3. c = [d EXCEPT !.view = view]
    OBVIOUS
  <2>4. c = [at |-> at, version |-> 0, time |-> 0, view |-> view, knew |-> NothingKnown]
    <3> HIDE DEF d
    <3>1. QED
      BY <2>2, <2>3
  <2>5. QED
    BY <2>4
<1>2. c \in Calls
  <2>1. 0 \in 0..Len(Snapshots) /\ NothingKnown \in [version : 0..Len(Snapshots),
                                                     aggregates : Aggregates]
    BY NoCallTyped DEF NoCall, Calls
  <2>2. QED
    BY <1>1, <2>1 DEF Calls
<1>3. Sound(c, refreshes, aggregates, kept)
  <2>1. refreshes \in Nat
    BY ReadPathAssumption DEF IInv, TypeOK
  <2>2. Grown(NothingKnown.aggregates, aggregates) /\ NothingKnown.version = 0
    BY DEF NothingKnown, NoAggregates, Grown
  <2>3. QED
    BY <1>1, <2>1, <2>2 DEF Sound
<1>4. call' = [call EXCEPT ![r] = c]
  BY DEF Ends
<1>5. /\ call' \in [Reader -> Calls] /\ call'[r] = c
      /\ \A s \in Reader \ {r} : call'[s] = call[s]
  <2> HIDE DEF c
  <2>1. QED
    BY <1>2, <1>4 DEF IInv, TypeOK
<1>6. QED
  <2> HIDE DEF c
  <2>1. QED
    BY <1>3, <1>5, CallStep

LEMMA InitIInv == Init => IInv
<1> SUFFICES ASSUME Init PROVE IInv
  OBVIOUS
<1>1. Len(Snapshots) \in Nat /\ MaxFacts \in Nat
  BY ReadPathAssumption
<1>2. /\ refreshes = 0 /\ aggregates = NoAggregates /\ facts = 0 /\ lastSuccess = NoView
      /\ call = [r \in Reader |-> NoCall]
  BY DEF Init
<1>3. call \in [Reader -> Calls] /\ aggregates \in Aggregates
  BY <1>2, NoCallTyped
<1>4. \A r \in Reader : Sound(call[r], refreshes, aggregates, lastSuccess)
  <2>1. \A r \in Reader : /\ call[r].at = "idle" /\ call[r].version = 0 /\ call[r].view = NoView
                          /\ call[r].knew = NothingKnown
    BY <1>2 DEF NoCall
  <2>2. NothingKnown.version = 0 /\ Grown(NothingKnown.aggregates, aggregates)
    BY DEF NothingKnown, NoAggregates, Grown
  <2>3. QED
    BY <1>2, <2>1, <2>2 DEF Sound
<1>5. Ranged(aggregates)
  BY <1>2 DEF Ranged, NoAggregates
<1>6. TypeOK
  <2>1. \A r \in Reader : /\ call[r].version \in 0..refreshes
                          /\ call[r].at \in {"keep", "returned"} <=> call[r].view # NoView
    BY <1>4 DEF Sound
  <2>2. /\ refreshes \in 0..Len(Snapshots) /\ facts \in 0..MaxFacts
        /\ lastSuccess \in Views \cup {NoView}
    BY <1>1, <1>2
  <2>3. QED
    BY <1>3, <2>1, <2>2 DEF TypeOK
<1>7. QED
  BY <1>4, <1>5, <1>6 DEF IInv

LEMMA ViewsTyped ==
    ASSUME NEW view \in Views
    PROVE  view.generatedAt \in Nat
<1>1. PICK i \in DOMAIN Snapshots, a \in Aggregates, now \in Clock :
        view = Projected(Snapshots[i], a, now - Retention, now)
  <2> DEFINE P(i, a, now) == Projected(Snapshots[i], a, now - Retention, now)
  <2>1. Views = {P(i, a, now) : i \in DOMAIN Snapshots, a \in Aggregates, now \in Clock}
    BY DEF Views
  <2> HIDE DEF P
  <2>2. \E i \in DOMAIN Snapshots, a \in Aggregates, now \in Clock : view = P(i, a, now)
    BY <2>1
  <2>3. QED
    BY <2>2 DEF P
<1>2. view.generatedAt = now
  BY <1>1 DEF Projected
<1>3. QED
  BY <1>2, ReadPathAssumption

LEMMA RefreshIInv == IInv /\ Refresh => IInv'
<1> SUFFICES ASSUME IInv, Refresh PROVE IInv'
  OBVIOUS
<1>1. /\ refreshes' = refreshes + 1 /\ refreshes' \in 0..Len(Snapshots) /\ refreshes \in Nat
      /\ aggregates' = aggregates /\ facts' = facts /\ lastSuccess' = lastSuccess /\ call' = call
  BY ReadPathAssumption DEF Refresh, IInv, TypeOK
<1>2. \A r \in Reader : Sound(call[r], refreshes', aggregates, lastSuccess)
  BY <1>1 DEF IInv, Sound
<1>3. TypeOK'
  <2>1. \A r \in Reader : call[r].version \in 0..refreshes'
    BY <1>2 DEF Sound
  <2>2. QED
    BY <1>1, <2>1 DEF IInv, TypeOK
<1>4. QED
  BY <1>1, <1>2, <1>3 DEF IInv

LEMMA IngestIInv == IInv /\ Ingest => IInv'
<1> SUFFICES ASSUME IInv, Ingest PROVE IInv'
  OBVIOUS
<1>1. PICK fact \in NewFacts : aggregates' = WithFact(aggregates, fact)
  BY DEF Ingest
<1>2. fact \in Fact /\ aggregates \in Aggregates
  BY ReadPathAssumption DEF IInv, TypeOK
<1>3. /\ aggregates' \in Aggregates /\ Grown(aggregates, aggregates')
      /\ Ranged(aggregates')
  BY <1>1, <1>2, StoreGrows DEF IInv
<1>4. /\ facts' = facts + 1 /\ facts' \in 0..MaxFacts
      /\ refreshes' = refreshes /\ lastSuccess' = lastSuccess /\ call' = call
  BY ReadPathAssumption DEF Ingest, IInv, TypeOK
<1>5. \A r \in Reader : Grown(call[r].knew.aggregates, aggregates')
  <2>1. TAKE r \in Reader
  <2>2. call[r].knew.aggregates \in Aggregates
    BY DEF IInv, TypeOK, Calls
  <2>3. Grown(call[r].knew.aggregates, aggregates)
    BY DEF IInv, Sound
  <2>4. QED
    BY <1>2, <1>3, <2>2, <2>3, GrownTransitive
<1>6. \A r \in Reader : Sound(call[r], refreshes, aggregates', lastSuccess)
  BY <1>5 DEF IInv, Sound
<1>7. TypeOK'
  BY <1>3, <1>4 DEF IInv, TypeOK
<1>8. QED
  BY <1>3, <1>4, <1>6, <1>7 DEF IInv

\* What the steps of a call may use of the invariant.
LEMMA CallOf ==
    ASSUME IInv, NEW r \in Reader
    PROVE  /\ call[r] \in Calls
           /\ call \in [Reader -> Calls]
           /\ Sound(call[r], refreshes, aggregates, lastSuccess)
           /\ lastSuccess \in Views \cup {NoView}
           /\ refreshes \in Nat /\ refreshes <= Len(Snapshots) /\ Len(Snapshots) \in Nat
<1>1. /\ call \in [Reader -> Calls] /\ call[r] \in Calls
      /\ Sound(call[r], refreshes, aggregates, lastSuccess)
      /\ lastSuccess \in Views \cup {NoView}
  BY DEF IInv, TypeOK
<1>2. refreshes \in Nat /\ refreshes <= Len(Snapshots) /\ Len(Snapshots) \in Nat
  BY ReadPathAssumption DEF IInv, TypeOK
<1>3. QED
  BY <1>1, <1>2

LEMMA BeginIInv ==
    ASSUME IInv, NEW r \in Reader, Begin(r)
    PROVE  IInv'
<1> DEFINE d == [NoCall EXCEPT !.at = "declared"]
           known == [version |-> refreshes, aggregates |-> aggregates]
           c == [NoCall EXCEPT !.at = "declared", !.knew = known]
<1>1. c = [at |-> "declared", version |-> 0, time |-> 0, view |-> NoView, knew |-> known]
  <2>1. NoCall = [at |-> "idle", version |-> 0, time |-> 0, view |-> NoView,
                  knew |-> NothingKnown]
    BY DEF NoCall
  <2>2. d = [at |-> "declared", version |-> 0, time |-> 0, view |-> NoView, knew |-> NothingKnown]
    BY <2>1
  <2>3. c = [d EXCEPT !.knew = known]
    OBVIOUS
  <2>4. QED
    <3> HIDE DEF d, known
    <3>1. QED
      BY <2>2, <2>3
<1>2. refreshes \in 0..Len(Snapshots) /\ aggregates \in Aggregates /\ Len(Snapshots) \in Nat
  BY ReadPathAssumption DEF IInv, TypeOK
<1>3. c \in Calls
  <2>1. known \in [version : 0..Len(Snapshots), aggregates : Aggregates] /\ 0 \in 0..Len(Snapshots)
    BY <1>2
  <2> HIDE DEF known, c
  <2>2. QED
    BY <1>1, <2>1 DEF Calls
<1>4. Sound(c, refreshes, aggregates, lastSuccess)
  <2> HIDE DEF c
  <2>1. /\ c.at = "declared" /\ c.version = 0 /\ c.view = NoView
        /\ c.knew.version = refreshes /\ c.knew.aggregates = aggregates
    BY <1>1
  <2>2. Grown(aggregates, aggregates)
    BY <1>2, GrownReflexive
  <2>3. QED
    BY <1>2, <2>1, <2>2 DEF Sound
<1>5. call' = [call EXCEPT ![r] = c] /\ UNCHANGED environment /\ lastSuccess' = lastSuccess
  <2>1. call' = [call EXCEPT ![r] = c]
    BY Zenon DEF Begin
  <2>2. UNCHANGED environment /\ lastSuccess' = lastSuccess
    BY DEF Begin
  <2>3. QED
    BY <2>1, <2>2
<1>6. QED
  <2> HIDE DEF c
  <2>1. lastSuccess \in Views \cup {NoView}
    BY CallOf
  <2>2. \A s \in Reader : Sound(call[s], refreshes, aggregates, lastSuccess)
    BY DEF IInv
  <2>3. /\ call' \in [Reader -> Calls] /\ call'[r] = c
        /\ \A s \in Reader \ {r} : call'[s] = call[s]
    BY <1>3, <1>5 DEF IInv, TypeOK
  <2>4. QED
    BY <1>4, <1>5, <2>1, <2>2, <2>3, CallStep

\* What a call reads, of what it keeps.
LEMMA ReadStep ==
    ASSUME IInv, NEW r \in Reader,
           call' \in [Reader -> Calls], \A s \in Reader \ {r} : call'[s] = call[s],
           call[r].at \notin {"keep", "returned"},
           call'[r].at \in {"clock", "list", "missing"}, call'[r].version \in 0..refreshes,
           call'[r].view = call[r].view, call'[r].knew = call[r].knew,
           UNCHANGED environment, lastSuccess' = lastSuccess,
           call'[r].at \in {"clock", "list"} =>
              call'[r].version > 0 /\ call[r].knew.version <= call'[r].version,
           call'[r].at = "list" => call'[r].time \in Clock,
           call'[r].at = "missing" => call[r].knew.version = 0
    PROVE  IInv'
<1>1. /\ Sound(call[r], refreshes, aggregates, lastSuccess)
      /\ lastSuccess \in Views \cup {NoView}
  BY CallOf
<1>2. Sound(call'[r], refreshes, aggregates, lastSuccess)
  BY <1>1 DEF Sound
<1>3. \A s \in Reader : Sound(call[s], refreshes, aggregates, lastSuccess)
  BY DEF IInv
<1>4. QED
  BY <1>1, <1>2, <1>3, CallStep

LEMMA ReadDeclaredIInv ==
    ASSUME IInv, NEW r \in Reader, ReadDeclared(r)
    PROVE  IInv'
<1>1. /\ call[r] \in Calls /\ Sound(call[r], refreshes, aggregates, lastSuccess)
      /\ call \in [Reader -> Calls]
      /\ refreshes \in Nat /\ refreshes <= Len(Snapshots) /\ Len(Snapshots) \in Nat
  BY CallOf
<1>2. call[r].version \in 0..refreshes /\ call[r].knew.version \in 0..refreshes
  BY <1>1 DEF Sound
<1>3. /\ call[r].at = "declared" /\ UNCHANGED environment /\ lastSuccess' = lastSuccess
  BY DEF ReadDeclared
<1>4. CASE refreshes = 0
  <2>1. call' = [call EXCEPT ![r].at = "missing"]
    BY <1>4 DEF ReadDeclared
  <2>2. /\ call'[r].at = "missing" /\ call'[r].version = call[r].version
        /\ call'[r].view = call[r].view /\ call'[r].knew = call[r].knew
        /\ \A s \in Reader \ {r} : call'[s] = call[s]
    BY <1>1, <2>1 DEF Calls
  <2>3. call' \in [Reader -> Calls]
    BY <1>1, <2>1 DEF Calls
  <2>4. call[r].knew.version = 0
    BY <1>2, <1>4
  <2>5. QED
    BY <1>2, <1>3, <2>2, <2>3, <2>4, ReadStep
<1>5. CASE refreshes # 0
  <2>1. call' = [call EXCEPT ![r].at = "clock", ![r].version = refreshes]
    BY <1>5 DEF ReadDeclared
  <2>2. /\ call'[r].at = "clock" /\ call'[r].version = refreshes
        /\ call'[r].view = call[r].view /\ call'[r].knew = call[r].knew
        /\ \A s \in Reader \ {r} : call'[s] = call[s]
    BY <1>1, <2>1 DEF Calls
  <2>3. call' \in [Reader -> Calls]
    <3>1. refreshes \in 0..Len(Snapshots)
      BY <1>1
    <3>2. QED
      BY <1>1, <2>1, <3>1 DEF Calls
  <2>4. refreshes > 0 /\ call[r].knew.version <= refreshes /\ refreshes \in 0..refreshes
    BY <1>1, <1>2, <1>5
  <2>5. QED
    BY <1>2, <1>3, <2>2, <2>3, <2>4, ReadStep
<1>6. QED
  BY <1>4, <1>5

LEMMA ReadClockIInv ==
    ASSUME IInv, NEW r \in Reader, ReadClock(r)
    PROVE  IInv'
<1>1. /\ call[r] \in Calls /\ Sound(call[r], refreshes, aggregates, lastSuccess)
      /\ call \in [Reader -> Calls]
  BY CallOf
<1>2. PICK now \in Clock : call' = [call EXCEPT ![r].at = "list", ![r].time = now]
  BY DEF ReadClock
<1>3. call[r].at = "clock" /\ UNCHANGED environment /\ lastSuccess' = lastSuccess
  BY DEF ReadClock
<1>4. /\ call[r].version \in 0..refreshes
      /\ call[r].version > 0 /\ call[r].knew.version <= call[r].version
  BY <1>1, <1>3 DEF Sound
<1>5. /\ call'[r].at = "list" /\ call'[r].version = call[r].version /\ call'[r].time = now
      /\ call'[r].view = call[r].view /\ call'[r].knew = call[r].knew
      /\ \A s \in Reader \ {r} : call'[s] = call[s]
  BY <1>1, <1>2 DEF Calls
<1>6. call' \in [Reader -> Calls]
  BY <1>1, <1>2 DEF Calls
<1>7. QED
  BY <1>3, <1>4, <1>5, <1>6, ReadStep

\* The snapshot a call projects, and when.
LEMMA Reads ==
    ASSUME IInv, NEW r \in Reader, call[r].at = "list"
    PROVE  /\ call[r].version \in DOMAIN Snapshots /\ call[r].time \in Clock
           /\ aggregates \in Aggregates /\ Ranged(aggregates)
<1>1. /\ Sound(call[r], refreshes, aggregates, lastSuccess)
      /\ refreshes \in Nat /\ refreshes <= Len(Snapshots) /\ Len(Snapshots) \in Nat
  BY CallOf
<1>2. call[r].version \in 1..Len(Snapshots) /\ call[r].time \in Clock
  BY <1>1 DEF Sound
<1>3. DOMAIN Snapshots = 1..Len(Snapshots)
  BY ReadPathAssumption
<1>4. QED
  BY <1>2, <1>3 DEF IInv, TypeOK

LEMMA ProjectIInv ==
    ASSUME IInv, NEW r \in Reader, Project(r)
    PROVE  IInv'
<1> DEFINE view == ProjectionOf(r)
           declared == Snapshots[call[r].version]
           since == call[r].time - Retention
           c == call'[r]
<1>1. /\ call[r] \in Calls /\ Sound(call[r], refreshes, aggregates, lastSuccess)
      /\ lastSuccess \in Views \cup {NoView}
  BY CallOf
<1>2. call[r].at = "list" /\ UNCHANGED environment /\ lastSuccess' = lastSuccess
  BY DEF Project
<1>3. /\ call[r].version \in DOMAIN Snapshots /\ call[r].time \in Clock
      /\ aggregates \in Aggregates /\ Ranged(aggregates)
  BY <1>2, Reads
<1>4. ProjectionAccepted(declared, view)
  BY <1>3, ProjectedIsAccepted DEF ProjectionOf
<1>5. call' = [call EXCEPT ![r].at = "keep", ![r].view = view]
  BY <1>4 DEF Project
<1>6. view \in Views /\ view # NoView /\ view.generatedAt = call[r].time
  <2>1. view \in Views
    <3> DEFINE P(i, a, now) == Projected(Snapshots[i], a, now - Retention, now)
    <3>1. Views = {P(i, a, now) : i \in DOMAIN Snapshots, a \in Aggregates, now \in Clock}
      BY DEF Views
    <3>2. view = P(call[r].version, aggregates, call[r].time)
      BY DEF ProjectionOf
    <3> HIDE DEF P, view
    <3>3. QED
      BY <1>3, <3>1, <3>2
  <2>2. view.generatedAt = call[r].time
    BY DEF ProjectionOf, Projected
  <2>3. QED
    BY <2>1, <2>2, NoViewAssumption
<1> HIDE DEF view
<1>7. /\ c.at = "keep" /\ c.version = call[r].version /\ c.view = view /\ c.knew = call[r].knew
      /\ \A s \in Reader \ {r} : call'[s] = call[s]
      /\ call' \in [Reader -> Calls]
  <2>1. call \in [Reader -> Calls]
    BY CallOf
  <2>2. /\ c.at = "keep" /\ c.version = call[r].version /\ c.view = view /\ c.knew = call[r].knew
        /\ \A s \in Reader \ {r} : call'[s] = call[s]
    BY <1>1, <1>5, <2>1 DEF Calls
  <2>3. call' \in [Reader -> Calls]
    BY <1>1, <1>5, <1>6, <2>1 DEF Calls
  <2>4. QED
    BY <2>2, <2>3
<1> HIDE DEF c
<1>8. Shown(c)
  <2> SUFFICES ASSUME NEW k \in DOMAIN call[r].knew.aggregates,
                      call[r].knew.aggregates[k].last >= since,
                      Resolved(k, declared.nodes)
               PROVE  LET e == ObservedEdge(k, declared.nodes)
                          evidence == view.edges[e][ObservedBy(k.source)]
                          before == call[r].knew.aggregates[k]
                      IN  /\ e \in DOMAIN view.edges
                          /\ ObservedBy(k.source) \in DOMAIN view.edges[e]
                          /\ evidence.first <= before.first
                          /\ evidence.last >= before.last
                          /\ evidence.count >= before.count
    <3>1. call[r].version >= call[r].knew.version
      BY <1>1, <1>2 DEF Sound, Calls
    <3>2. QED
      BY <1>6, <1>7, <3>1 DEF Shown
  <2> DEFINE before == call[r].knew.aggregates[k]
             e == ObservedEdge(k, declared.nodes)
             evidence == view.edges[e][ObservedBy(k.source)]
  <2>1. /\ k \in DOMAIN aggregates
        /\ aggregates[k].first <= before.first /\ aggregates[k].last >= before.last
        /\ aggregates[k].count >= before.count
    BY <1>1 DEF Sound, Grown
  <2>2. /\ before.first \in Nat /\ before.last \in Nat /\ before.count \in Nat
        /\ aggregates[k].first \in Nat /\ aggregates[k].last \in Nat
        /\ aggregates[k].count \in Nat
    <3>1. call[r].knew.aggregates \in Aggregates
      BY <1>1 DEF Calls
    <3>2. QED
      BY <1>3, <2>1, <3>1, NumbersOfAggregates
  <2>3. since \in Int
    <3>1. (\A t \in Clock : t \in Int) /\ Retention \in Int
      BY ReadPathAssumption
    <3>2. QED
      BY <1>3, <3>1
  <2>4. k \in Keys(declared, aggregates, since)
    <3>1. aggregates[k].last >= since
      <4> HIDE DEF before, since
      <4>1. before.last >= since
        BY DEF before
      <4>2. QED
        BY <2>1, <2>2, <2>3, <4>1
    <3>2. QED
      BY <2>1, <3>1 DEF Keys, Active
  <2>5. /\ e \in DOMAIN view.edges
        /\ ObservedBy(k.source) \in DOMAIN view.edges[e]
        /\ evidence.first \in Nat /\ evidence.last \in Nat /\ evidence.count \in Nat
        /\ evidence.first <= aggregates[k].first /\ evidence.last >= aggregates[k].last
        /\ evidence.count >= aggregates[k].count
    <3>1. view = Projected(declared, aggregates, since, call[r].time)
      BY DEF view, ProjectionOf
    <3> HIDE DEF since, declared
    <3>2. QED
      BY <1>3, <2>4, <3>1, ResolvedIsShown
  <2> HIDE DEF evidence, before, e
  <2>6. /\ evidence.first <= before.first /\ evidence.last >= before.last
        /\ evidence.count >= before.count
    BY <2>1, <2>2, <2>5
  <2>7. QED
    BY <2>5, <2>6 DEF evidence, before, e
<1>9. Sound(c, refreshes, aggregates, lastSuccess)
  BY <1>1, <1>2, <1>6, <1>7, <1>8 DEF Sound
<1>10. QED
  <2>1. \A s \in Reader : Sound(call[s], refreshes, aggregates, lastSuccess)
    BY DEF IInv
  <2>2. QED
    BY <1>1, <1>2, <1>7, <1>9, <2>1, CallStep DEF c

LEMMA ReadFailsIInv ==
    ASSUME IInv, NEW r \in Reader, ReadFails(r)
    PROVE  IInv'
<1>1. /\ Ends(r, "fallback", NoView) /\ UNCHANGED environment /\ lastSuccess' = lastSuccess
  BY DEF ReadFails
<1>2. \A s \in Reader : Sound(call[s], refreshes, aggregates, lastSuccess)
  BY DEF IInv
<1>3. lastSuccess \in Views \cup {NoView}
  BY CallOf
<1>4. QED
  BY <1>1, <1>2, <1>3, EndStep

\* The view that is kept is generated no earlier than before, and no earlier than
\* the one that is returned.
LEMMA KeepIInv ==
    ASSUME IInv, NEW r \in Reader, Keep(r)
    PROVE  IInv'
<1> DEFINE view == call[r].view
           kept == lastSuccess'
<1>1. /\ call[r].at = "keep" /\ Ends(r, "returned", view) /\ UNCHANGED environment
      /\ kept = IF lastSuccess = NoView \/ view.generatedAt >= lastSuccess.generatedAt
                THEN view ELSE lastSuccess
  BY DEF Keep
<1>2. /\ view \in Views /\ view # NoView /\ lastSuccess \in Views \cup {NoView}
  <2>1. /\ call[r] \in Calls /\ Sound(call[r], refreshes, aggregates, lastSuccess)
        /\ lastSuccess \in Views \cup {NoView}
    BY CallOf
  <2>2. view \in Views \cup {NoView}
    BY <2>1 DEF Calls
  <2>3. view # NoView
    BY <1>1, <2>1 DEF Sound
  <2>4. QED
    BY <2>1, <2>2, <2>3
<1>3. /\ kept \in Views /\ kept # NoView /\ kept.generatedAt >= view.generatedAt
      /\ lastSuccess # NoView => kept.generatedAt >= lastSuccess.generatedAt
  <2>1. view.generatedAt \in Nat
    BY <1>2, ViewsTyped
  <2>2. lastSuccess # NoView => lastSuccess.generatedAt \in Nat
    BY <1>2, ViewsTyped
  <2> HIDE DEF view, kept
  <2>3. kept \in Views /\ kept # NoView
    BY <1>1, <1>2
  <2>4. /\ kept.generatedAt >= view.generatedAt
        /\ lastSuccess # NoView => kept.generatedAt >= lastSuccess.generatedAt
    BY <1>1, <2>1, <2>2
  <2>5. QED
    BY <2>3, <2>4
<1>4. ASSUME NEW s \in Reader
      PROVE  Sound(call[s], refreshes, aggregates, kept)
  <2>1. /\ call[s] \in Calls /\ Sound(call[s], refreshes, aggregates, lastSuccess)
    BY CallOf
  <2> SUFFICES ASSUME call[s].at = "returned"
               PROVE  kept # NoView /\ kept.generatedAt >= call[s].view.generatedAt
    <3> HIDE DEF kept
    <3>1. QED
      BY <2>1 DEF Sound
  <2>2. /\ lastSuccess # NoView /\ lastSuccess.generatedAt >= call[s].view.generatedAt
        /\ call[s].view # NoView
    BY <2>1 DEF Sound
  <2>3. /\ lastSuccess.generatedAt \in Nat /\ call[s].view.generatedAt \in Nat
        /\ kept.generatedAt \in Nat
    <3>1. call[s].view \in Views
      BY <2>1, <2>2 DEF Calls
    <3> HIDE DEF kept
    <3>2. QED
      BY <1>2, <1>3, <2>2, <3>1, ViewsTyped
  <2> HIDE DEF kept
  <2>4. QED
    BY <1>3, <2>2, <2>3
<1>5. QED
  <2> HIDE DEF view
  <2>1. kept \in Views \cup {NoView} /\ view \in Views \cup {NoView}
    BY <1>2, <1>3
  <2>2. "returned" \in {"fallback", "returned", "failed", "notFound"}
    OBVIOUS
  <2>3. QED
    BY <1>1, <1>2, <1>3, <1>4, <2>1, EndStep

LEMMA FallbackIInv ==
    ASSUME IInv, NEW r \in Reader, Fallback(r)
    PROVE  IInv'
<1> DEFINE at == IF lastSuccess # NoView THEN "returned"
                 ELSE IF call[r].at = "missing" THEN "notFound" ELSE "failed"
<1>1. Ends(r, at, lastSuccess) /\ UNCHANGED environment /\ lastSuccess' = lastSuccess
  BY DEF Fallback
<1>2. /\ at \in {"fallback", "returned", "failed", "notFound"}
      /\ at = "returned" <=> lastSuccess # NoView
  OBVIOUS
<1>3. lastSuccess \in Views \cup {NoView}
  BY CallOf
<1>4. at = "returned" => lastSuccess # NoView
                         /\ lastSuccess.generatedAt >= lastSuccess.generatedAt
  <2>1. lastSuccess # NoView => lastSuccess.generatedAt \in Nat
    BY <1>3, ViewsTyped
  <2>2. QED
    BY <2>1
<1>5. \A s \in Reader : Sound(call[s], refreshes, aggregates, lastSuccess)
  BY DEF IInv
<1> HIDE DEF at
<1>6. QED
  BY <1>1, <1>2, <1>3, <1>4, <1>5, EndStep

LEMMA NextIInv == IInv /\ [Next]_vars => IInv'
<1> SUFFICES ASSUME IInv, [Next]_vars PROVE IInv'
  OBVIOUS
<1>1. CASE Refresh
  BY <1>1, RefreshIInv
<1>2. CASE Ingest
  BY <1>2, IngestIInv
<1>3. ASSUME NEW r \in Reader, Current(r) PROVE IInv'
  BY <1>3, BeginIInv, ReadDeclaredIInv, ReadClockIInv, ProjectIInv, ReadFailsIInv,
     KeepIInv, FallbackIInv DEF Current
<1>4. CASE UNCHANGED vars
  <2>1. /\ refreshes' = refreshes /\ aggregates' = aggregates /\ facts' = facts
        /\ lastSuccess' = lastSuccess /\ call' = call
    BY <1>4 DEF vars
  <2>2. TypeOK'
    BY <2>1 DEF IInv, TypeOK
  <2>3. QED
    BY <2>1, <2>2 DEF IInv
<1>5. QED
  BY <1>1, <1>2, <1>3, <1>4 DEF Next

LEMMA IInvAlways == Spec => []IInv
BY InitIInv, NextIInv, PTL DEF Spec

-----------------------------------------------------------------------------
(* What the read path promises.                                            *)

\* Every state has its type: a call holds a view exactly when it is about to keep it
\* or has returned it, and has read no snapshot that was not stored yet.
THEOREM TypeCorrect == Spec => []TypeOK
<1>1. IInv => TypeOK
  BY DEF IInv
<1>2. QED
  BY <1>1, IInvAlways, PTL

\* NewTopologyView accepts every projection (topology_view.go:94-230), for any stored
\* snapshots and any facts: a call never falls back for a reason of its own.
THEOREM ProjectionNeverFailsAlways == Spec => []ProjectionNeverFails
<1>1. IInv => ProjectionNeverFails
  BY Reads, ProjectedIsAccepted DEF ProjectionNeverFails, ProjectionOf
<1>2. QED
  BY <1>1, IInvAlways, PTL

\* A view of its own shows all that was stored when its call began: snapshots that
\* are not older, and in full every active observation that resolves.
THEOREM ShowsWhatWasKnownAlways == Spec => []ShowsWhatWasKnown
<1>1. IInv => ShowsWhatWasKnown
  BY DEF IInv, Sound, Shown, ShowsWhatWasKnown
<1>2. QED
  BY <1>1, IInvAlways, PTL

\* Every active aggregate is counted as unresolved or as ambiguous or is part of one
\* piece of evidence, and that evidence is exact (topology_view_projector.go:
\* 98-138,363-380), however many aggregates are merged into it.
THEOREM ProjectionIsExactAlways == Spec => []ProjectionIsExact
<1>1. IInv => ProjectionIsExact
  <2> SUFFICES ASSUME IInv, NEW r \in Reader, call[r].at = "list"
               PROVE  LET declared == Snapshots[call[r].version]
                          view == ProjectionOf(r)
                          active == Active(aggregates, call[r].time - Retention)
                          keys == {k \in active : Resolved(k, declared.nodes)}
                          Merged(e, by) == {k \in keys : k.source = by.source
                                              /\ ObservedEdge(k, declared.nodes) = e}
                      IN  /\ view.unresolved + view.ambiguous + Cardinality(keys)
                                = Cardinality(active)
                          /\ \A e \in DOMAIN view.edges : \A by \in DOMAIN view.edges[e] :
                                by.mode = "observed" =>
                                  LET evidence == view.edges[e][by]
                                  IN  /\ \A k \in Merged(e, by) :
                                            /\ evidence.first <= aggregates[k].first
                                            /\ evidence.last >= aggregates[k].last
                                      /\ \E k \in Merged(e, by) :
                                            aggregates[k].first = evidence.first
                                      /\ \E k \in Merged(e, by) :
                                            /\ aggregates[k].last = evidence.last
                                            /\ aggregates[k].metadata = evidence.metadata
    BY DEF ProjectionIsExact
  <2> DEFINE declared == Snapshots[call[r].version]
             since == call[r].time - Retention
             view == ProjectionOf(r)
             active == Active(aggregates, since)
             keys == {k \in active : Resolved(k, declared.nodes)}
             Merged(e, by) == {k \in keys : k.source = by.source
                                              /\ ObservedEdge(k, declared.nodes) = e}
  <2>1. /\ call[r].version \in DOMAIN Snapshots
        /\ aggregates \in Aggregates /\ Ranged(aggregates)
    BY Reads
  <2>2. view = Projected(declared, aggregates, since, call[r].time)
    BY DEF ProjectionOf
  <2>3. view.unresolved + view.ambiguous + Cardinality(keys) = Cardinality(active)
    <3>1. /\ view.unresolved = Cardinality({k \in active : Unresolved(k, declared.nodes)})
          /\ view.ambiguous = Cardinality({k \in active : Ambiguous(k, declared.nodes)})
      BY <2>2 DEF Projected
    <3> HIDE DEF view
    <3>2. QED
      BY <2>1, <3>1, ActiveIsPartitioned
  <2>4. ASSUME NEW e \in DOMAIN view.edges, NEW by \in DOMAIN view.edges[e],
               by.mode = "observed"
        PROVE  LET evidence == view.edges[e][by]
               IN  /\ \A k \in Merged(e, by) : /\ evidence.first <= aggregates[k].first
                                               /\ evidence.last >= aggregates[k].last
                   /\ \E k \in Merged(e, by) : aggregates[k].first = evidence.first
                   /\ \E k \in Merged(e, by) : /\ aggregates[k].last = evidence.last
                                               /\ aggregates[k].metadata = evidence.metadata
    <3> DEFINE K == On(keys, declared, e, by.source)
               evidence == view.edges[e][by]
    <3>1. keys = Keys(declared, aggregates, since)
      BY DEF Keys
    <3>2. Merged(e, by) = K
      BY DEF On
    <3>3. \A s : by # DeclaredBy(s, declared.source)
      BY <2>4 DEF DeclaredBy
    <3>4. /\ \E k \in keys : e = ObservedEdge(k, declared.nodes) /\ by = ObservedBy(k.source)
          /\ evidence = ProjectedEvidence(aggregates, K)
      <4> HIDE DEF view, keys, since, declared
      <4>1. QED
        BY <2>2, <3>1, <3>3, EvidenceOfView
    <3>5. K # {}
      BY <3>4 DEF On, ObservedBy
    <3>6. K \in SUBSET DOMAIN aggregates
      BY DEF On, Active
    <3> HIDE DEF view, keys, evidence, K
    <3>7. Exact(evidence, aggregates, K)
      BY <2>1, <3>4, <3>6, EvidenceExact
    <3>8. /\ \A k \in K : evidence.first <= aggregates[k].first
                          /\ evidence.last >= aggregates[k].last
          /\ \E k \in K : aggregates[k].first = evidence.first
          /\ \E k \in K : /\ aggregates[k].last = evidence.last
                          /\ aggregates[k].metadata = evidence.metadata
      BY <3>5, <3>7 DEF Exact
    <3>9. QED
      BY <3>2, <3>8 DEF evidence
  <2>5. QED
    BY <2>3, <2>4
<1>2. QED
  BY <1>1, IInvAlways, PTL

\* The only step that answers a call with an error, or with what is kept.
LEMMA Answers ==
    ASSUME IInv, [Next]_vars, NEW r \in Reader, call'[r].at # call[r].at,
           call'[r].at \in {"failed", "notFound"}
              \/ (call[r].at # "keep" /\ call'[r].at = "returned")
    PROVE  /\ call[r].at \in {"fallback", "missing"}
           /\ call'[r].at = IF lastSuccess # NoView THEN "returned"
                            ELSE IF call[r].at = "missing" THEN "notFound" ELSE "failed"
           /\ call'[r].view = lastSuccess
<1>1. call' # call
  OBVIOUS
<1>2. PICK q \in Reader : Current(q)
  BY <1>1 DEF Next, Refresh, Ingest, vars
<1>3. call \in [Reader -> Calls]
  BY DEF IInv, TypeOK
<1>4. \A at, view : Ends(q, at, view) =>
         /\ call'[q].at = at /\ call'[q].view = view
         /\ \A s \in Reader \ {q} : call'[s] = call[s]
  BY <1>3 DEF Ends, NoCall
<1>5. q = r
  <2>1. \A s \in Reader \ {q} : call'[s] = call[s]
    BY <1>2, <1>3, <1>4, Zenon DEF Current, Begin, ReadDeclared, ReadClock, Project, ReadFails,
       Keep, Fallback
  <2>2. QED
    BY <2>1
<1>6. ~Begin(r) /\ ~ReadDeclared(r) /\ ~ReadClock(r) /\ ~ReadFails(r)
  <2>1. ~Begin(r)
    BY <1>3 DEF Begin, NoCall
  <2>2. ~ReadDeclared(r)
    BY <1>3 DEF ReadDeclared, Calls
  <2>3. ~ReadClock(r)
    BY <1>3 DEF ReadClock, Calls
  <2>4. ~ReadFails(r)
    BY <1>4, <1>5 DEF ReadFails
  <2>5. QED
    BY <2>1, <2>2, <2>3, <2>4
<1>7. ~Project(r) /\ ~Keep(r)
  <2>1. ASSUME Project(r) PROVE FALSE
    <3> DEFINE view == ProjectionOf(r)
    <3>1. \/ call' = [call EXCEPT ![r].at = "keep", ![r].view = view]
          \/ Ends(r, "fallback", NoView)
      BY <2>1 DEF Project
    <3> HIDE DEF view
    <3>2. call'[r].at \in {"keep", "fallback"}
      BY <1>3, <1>4, <1>5, <3>1 DEF Calls
    <3>3. QED
      BY <3>2
  <2>2. ASSUME Keep(r) PROVE FALSE
    BY <1>4, <1>5, <2>2 DEF Keep
  <2>3. QED
    BY <2>1, <2>2
<1>8. Fallback(r)
  BY <1>2, <1>5, <1>6, <1>7 DEF Current
<1>9. QED
  BY <1>4, <1>5, <1>8 DEF Fallback

\* Once a call has returned a view no call returns an error, whatever fails
\* (topology_view_service.go:27-29, "remains readable").
THEOREM StaysReadableAlways == Spec => StaysReadable
<1>1. ASSUME IInv, [Next]_vars, NEW r \in Reader, NEW s \in Reader, Returned(s),
             call'[r].at \in {"failed", "notFound"}
      PROVE  call[r].at = call'[r].at
  <2>1. lastSuccess # NoView
    BY <1>1 DEF IInv, Sound, Returned
  <2>2. QED
    BY <1>1, <2>1, Answers
<1>2. IInv /\ [Next]_vars =>
        [\A r, s \in Reader :
            Returned(s) /\ call'[r].at \in {"failed", "notFound"}
               => call[r].at = call'[r].at]_vars
  BY <1>1
<1>3. QED
  BY <1>2, IInvAlways, PTL DEF Spec, StaysReadable

\* 404 is answered only if no snapshot was stored when the request arrived, never
\* because a store failed (api.go:49-51).
THEOREM NotFoundIsTrueAlways == Spec => NotFoundIsTrue
<1>1. ASSUME IInv, [Next]_vars, NEW r \in Reader,
             call[r].at # "notFound", call'[r].at = "notFound"
      PROVE  call[r].knew.version = 0
  <2>1. call[r].at = "missing"
    BY <1>1, Answers
  <2>2. QED
    BY <1>1, <2>1 DEF IInv, Sound
<1>2. IInv /\ [Next]_vars =>
        [\A r \in Reader :
            call[r].at # "notFound" /\ call'[r].at = "notFound"
               => call[r].knew.version = 0]_vars
  BY <1>1
<1>3. QED
  BY <1>2, IInvAlways, PTL DEF Spec, NotFoundIsTrue

\* A call that falls back shows nothing generated before a view that some call has
\* returned, in whatever order slow calls finish and whatever the clock reads.
THEOREM FallbackNeverGoesBackAlways == Spec => FallbackNeverGoesBack
<1>1. ASSUME IInv, [Next]_vars, NEW r \in Reader, NEW s \in Reader,
             call[r].at \in {"fallback", "missing"}, call'[r].at = "returned", Returned(s)
      PROVE  call'[r].view.generatedAt >= call[s].view.generatedAt
  <2>1. call'[r].view = lastSuccess
    BY <1>1, Answers
  <2>2. lastSuccess.generatedAt >= call[s].view.generatedAt
    BY <1>1 DEF IInv, Sound, Returned
  <2>3. QED
    BY <2>1, <2>2
<1>2. IInv /\ [Next]_vars =>
        [\A r, s \in Reader :
            /\ call[r].at \in {"fallback", "missing"} /\ call'[r].at = "returned"
            /\ Returned(s)
            => call'[r].view.generatedAt >= call[s].view.generatedAt]_vars
  BY <1>1
<1>3. QED
  BY <1>2, IInvAlways, PTL DEF Spec, FallbackNeverGoesBack

=============================================================================
