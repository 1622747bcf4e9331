------------------------- MODULE TopologyProjection -------------------------
(***************************************************************************)
(* TopologyViewProjector.Project: the declared snapshot merged with the    *)
(* observations that resolve to one of its destinations, and what          *)
(* NewTopologyView accepts.                                                *)
(*                                                                         *)
(* What a node is called is fixed by its identity and given by Label; the  *)
(* identity of an observed service is that of its node (an injective hash  *)
(* of environment, namespace and name).                                    *)
(***************************************************************************)
EXTENDS Reconciliation, ObservationAggregate, FiniteSets, Sequences

CONSTANTS
    Label,      \* of each node: [name, logical, provider, environment]
    NoName,     \* the empty string
    KeyOrder,   \* the identities of aggregates in the order of their sort
    ServiceNode,\* the node identity of each observed service
    MaxShown    \* the largest count of a view

ASSUME ProjectionAssumption ==
    /\ \A n \in NodeId : DOMAIN Label[n] = {"name", "logical", "provider", "environment"}
    /\ KeyOrder \in Seq(Key) /\ Key = {KeyOrder[i] : i \in DOMAIN KeyOrder}
    /\ \A k \in Key : k.relationship \in {"publishes", "consumes"}
    /\ \A k, l \in Key : ServiceNode[k.service] = ServiceNode[l.service]
                            => k.service = l.service
    /\ MaxShown \in Nat /\ MaxCount <= MaxShown

-----------------------------------------------------------------------------
(* resolveDeclaredDestination.                                             *)

\* Destinations on a broker of the hinted technology, in the environment of
\* the service.
Eligible(key, nodes) ==
    {n \in DOMAIN nodes :
        /\ nodes[n].kind = "destination"
        /\ nodes[n].broker \in DOMAIN nodes
        /\ nodes[nodes[n].broker].kind = "broker"
        /\ Label[nodes[n].broker].provider = key.system
        /\ Label[nodes[n].broker].environment = key.environment}

\* The physical name counts only where the logical one matches nothing.
Candidates(key, nodes) ==
    LET logical == {n \in Eligible(key, nodes) :
                      /\ key.logical # NoName
                      /\ key.logical \in {Label[n].logical, Label[n].name}}
        physical == {n \in Eligible(key, nodes) : Label[n].name = key.physical}
    IN  IF logical # {} THEN logical ELSE physical

Unresolved(key, nodes) == Cardinality(Candidates(key, nodes)) = 0
Resolved(key, nodes) == Cardinality(Candidates(key, nodes)) = 1
Ambiguous(key, nodes) == Cardinality(Candidates(key, nodes)) > 1

\* The edge a resolved observation is evidence of.
ObservedEdge(key, nodes) ==
    [source |-> ServiceNode[key.service], kind |-> key.relationship,
     target |-> CHOOSE n \in Candidates(key, nodes) : TRUE]

-----------------------------------------------------------------------------
(* Project.                                                                *)

CountsSum(m, n) == IF m + n > MaxShown THEN MaxShown ELSE m + n

NoEvidence == [first |-> 0, last |-> 0, count |-> 0, metadata |-> NoName]

\* Mutant: the metadata of the aggregate that is merged last.
MergeLast(evidence, a) ==
    [first    |-> IF evidence.first = 0 \/ a.first < evidence.first
                  THEN a.first ELSE evidence.first,
     last     |-> IF evidence.last = 0 \/ a.last >= evidence.last
                  THEN a.last ELSE evidence.last,
     count    |-> CountsSum(evidence.count, a.count),
     metadata |-> a.metadata]

\* mergeProjectedObservationEvidence; zero stands for the zero time.
MergeProjected(evidence, a) ==
    LET later == evidence.last = 0 \/ a.last >= evidence.last
    IN  [first    |-> IF evidence.first = 0 \/ a.first < evidence.first
                      THEN a.first ELSE evidence.first,
         last     |-> IF later THEN a.last ELSE evidence.last,
         count    |-> CountsSum(evidence.count, a.count),
         metadata |-> IF later THEN a.metadata ELSE evidence.metadata]

\* The evidence an edge gets from one telemetry source.
ProjectedEvidence(aggregates, keys) ==
    LET Merged[i \in 0..Len(KeyOrder)] ==
            IF i = 0 THEN NoEvidence
            ELSE IF KeyOrder[i] \in keys
                 THEN MergeProjected(Merged[i - 1], aggregates[KeyOrder[i]])
            ELSE Merged[i - 1]
    IN  Merged[Len(KeyOrder)]

DeclaredBy(system, source) == [source |-> source, mode |-> "declared", system |-> system]
ObservedBy(source) == [source |-> source, mode |-> "observed", system |-> "opentelemetry"]

ProjectedNodes(declared, keys) ==
    [n \in DOMAIN declared.nodes \cup {ServiceNode[k.service] : k \in keys} |->
        IF n \in DOMAIN declared.nodes THEN declared.nodes[n]
        ELSE [kind |-> "service", broker |-> NoBroker]]

ProjectedEdges(declared, aggregates, keys) ==
    LET edgeOf(k) == ObservedEdge(k, declared.nodes)
        on(e) == {k \in keys : edgeOf(k) = e}
        shown(e) == IF e \in DOMAIN declared.edges THEN DOMAIN declared.edges[e] ELSE {}
    IN  [e \in DOMAIN declared.edges \cup {edgeOf(k) : k \in keys} |->
           [by \in {DeclaredBy(s, declared.source) : s \in shown(e)}
                   \cup {ObservedBy(k.source) : k \in on(e)} |->
              IF by.mode = "declared" THEN declared.edges[e][by.system]
              ELSE ProjectedEvidence(aggregates, {k \in on(e) : k.source = by.source})]]

LatestSeen(aggregates, keys) ==
    CHOOSE t \in {aggregates[k].last : k \in keys} :
        \A k \in keys : aggregates[k].last <= t

\* Mutant: a telemetry source is listed when the view shows some of its evidence
\* under the hinted name.
SourcesByName(declared, aggregates, active) ==
    LET named == {k \in active : \E n \in DOMAIN declared.nodes : Label[n].name = k.physical}
    IN  [by \in {[id |-> declared.source, mode |-> "declared"]}
                \cup {[id |-> k.source, mode |-> "observed"] : k \in named} |->
            declared.capturedAt]

\* The declared source and every source of an active observation, resolved or
\* not, with the latest instant known of each.
ProjectedSources(declared, aggregates, active) ==
    [by \in {[id |-> declared.source, mode |-> "declared"]}
            \cup {[id |-> k.source, mode |-> "observed"] : k \in active} |->
        IF by.mode = "declared" THEN declared.capturedAt
        ELSE LatestSeen(aggregates, {k \in active : k.source = by.id})]

Projected(declared, aggregates, since, generatedAt) ==
    LET active == Active(aggregates, since)
        keys == {k \in active : Resolved(k, declared.nodes)}
    IN  [generatedAt |-> generatedAt,
         nodes      |-> ProjectedNodes(declared, keys),
         edges      |-> ProjectedEdges(declared, aggregates, keys),
         sources    |-> ProjectedSources(declared, aggregates, active),
         ambiguous  |-> Cardinality({k \in active : Ambiguous(k, declared.nodes)}),
         unresolved |-> Cardinality({k \in active : Unresolved(k, declared.nodes)})]

-----------------------------------------------------------------------------
(* NewTopologyView.                                                        *)

ViewEdgesValid(view) ==
    \A e \in DOMAIN view.edges :
        /\ EdgeBuilds(e, view.nodes)
        /\ e.kind = "belongs_to" => view.nodes[e.source].broker = e.target
        /\ DOMAIN view.edges[e] # {}
        /\ \A by \in DOMAIN view.edges[e] :
              /\ [id |-> by.source, mode |-> by.mode] \in DOMAIN view.sources
              /\ view.edges[e][by].first <= view.edges[e][by].last

\* Project returns no error of its own: no observed service has the identity
\* of another kind of node, and NewTopologyView accepts the view.
ProjectionAccepted(declared, view) ==
    /\ \A e \in DOMAIN view.edges :
          (e.kind \in {"publishes", "consumes"} /\ e.source \in DOMAIN declared.nodes)
              => declared.nodes[e.source].kind = "service"
    /\ BrokerReferencesValid(view.nodes)
    /\ ViewEdgesValid(view)

=============================================================================
