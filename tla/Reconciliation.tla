--------------------------- MODULE Reconciliation ---------------------------
(***************************************************************************)
(* Declared-topology snapshots and their reconciliation: the pure part of  *)
(* internal/application (reconciliation.go) together with the validation   *)
(* that internal/topology runs on every snapshot it constructs.            *)
(*                                                                         *)
(* A snapshot is a record.  Its nodes are a function from node identities  *)
(* to what the rules look at (the kind and the owning broker), its edges a *)
(* function from edge keys to evidence, and the evidence of an edge a      *)
(* function from source systems to the range of times at which it was      *)
(* seen: within one snapshot the source and the mode of the evidence are   *)
(* fixed, so the source system is what is left of the evidence key.        *)
(* Names, attributes, metadata, the cursor, the identifier and the order   *)
(* of the lists take no part in any decision and are left out.             *)
(***************************************************************************)
EXTENDS Integers

CONSTANTS
    NodeId,        \* identities of topology nodes
    EdgeKey,       \* identities of edges: source node, kind, target node
    SourceId,      \* configured discovery sources
    Scope,         \* discovery scopes
    SourceSystem,  \* technologies that supply evidence
    Time,          \* instants, the zero time excluded
    NoBroker,      \* broker of a node that no broker owns
    NoSnapshot     \* the nil snapshot

ASSUME TimeAssumption == Time \subseteq Nat

NodeKind == {"service", "broker", "destination", "resource", "consumer"}

EdgeKind == {"publishes", "consumes", "captured_by", "has_consumer",
             "executed_by", "routes_to", "belongs_to"}

Completeness == {"full", "partial"}

Node == [kind : NodeKind, broker : NodeId \cup {NoBroker}]

ASSUME EdgeKeyAssumption ==
    EdgeKey \subseteq [source : NodeId, kind : EdgeKind, target : NodeId]

SeenRange == [first : Time, last : Time]

\* NewEdge refuses an edge without evidence.
Evidence == UNION {[S -> SeenRange] : S \in (SUBSET SourceSystem) \ {{}}}

NodeMap == UNION {[N -> Node] : N \in SUBSET NodeId}

EdgeMap == UNION {[K -> Evidence] : K \in SUBSET EdgeKey}

Snapshot == [source : SourceId, scope : Scope, capturedAt : Time,
             completeness : Completeness, nodes : NodeMap, edges : EdgeMap]

ASSUME NoSnapshotAssumption == NoSnapshot \notin Snapshot

-----------------------------------------------------------------------------
(* What NewEvidence, NewEdge and NewTopologySnapshot accept.               *)

\* NewEvidence: lastSeen is not before firstSeen.
ValidEvidence(evidence) ==
    \A s \in DOMAIN evidence : evidence[s].first <= evidence[s].last

IsAllowedEdgeEndpointPair(source, target, kind) ==
    \/ /\ kind \in {"publishes", "consumes"}
       /\ source = "service" /\ target = "destination"
    \/ /\ kind = "captured_by"
       /\ source = "destination" /\ target = "resource"
    \/ /\ kind = "has_consumer"
       /\ source \in {"resource", "destination"} /\ target = "consumer"
    \/ /\ kind = "executed_by"
       /\ source = "consumer" /\ target = "service"
    \/ /\ kind = "routes_to"
       /\ {source, target} \subseteq {"destination", "resource"}
    \/ /\ kind = "belongs_to"
       /\ source \in {"destination", "resource", "consumer"}
       /\ target = "broker"

\* NewEdge: both endpoints exist and their kinds admit the relationship.
EdgeBuilds(key, nodes) ==
    /\ {key.source, key.target} \subseteq DOMAIN nodes
    /\ IsAllowedEdgeEndpointPair(nodes[key.source].kind,
                                 nodes[key.target].kind, key.kind)

ProviderOwned(node) == node.kind \in {"destination", "resource", "consumer"}

BrokerReferencesValid(nodes) ==
    \A n \in DOMAIN nodes : ProviderOwned(nodes[n]) =>
        /\ nodes[n].broker \in DOMAIN nodes
        /\ nodes[nodes[n].broker].kind = "broker"

SnapshotEdgesValid(nodes, edges) ==
    \A k \in DOMAIN edges :
        /\ ValidEvidence(edges[k])
        /\ EdgeBuilds(k, nodes)
        /\ k.kind = "belongs_to" => nodes[k.source].broker = k.target

\* NewTopologySnapshot returns no error.
SnapshotAccepted(s) ==
    /\ BrokerReferencesValid(s.nodes)
    /\ SnapshotEdgesValid(s.nodes, s.edges)

-----------------------------------------------------------------------------
(* reconcileSnapshots.                                                     *)

\* Mutant: the incoming nodes only, whatever the completeness.
NodesForgotten(current, incoming) == incoming.nodes

\* Mutant: the current nodes are kept whatever the completeness.
NodesAlwaysKept(current, incoming) ==
    [n \in DOMAIN current.nodes \cup DOMAIN incoming.nodes |->
        IF n \in DOMAIN incoming.nodes THEN incoming.nodes[n]
                                       ELSE current.nodes[n]]

ReconciledNodes(current, incoming) ==
    LET kept == IF incoming.completeness = "partial"
                THEN DOMAIN current.nodes ELSE {}
    IN  [n \in kept \cup DOMAIN incoming.nodes |->
            IF n \in DOMAIN incoming.nodes THEN incoming.nodes[n]
                                           ELSE current.nodes[n]]

\* Mutant: the clock is trusted to go forward.
LatestRange(previous, seen) == [first |-> previous.first, last |-> seen.last]

MergedRange(previous, seen) ==
    [first |-> IF previous.first < seen.first THEN previous.first ELSE seen.first,
     last  |-> IF previous.last > seen.last THEN previous.last ELSE seen.last]

\* Mutant: only evidence that is new to the edge is kept.
EvidenceNewOnly(previous, incoming) ==
    [s \in DOMAIN incoming \ DOMAIN previous |-> incoming[s]]

\* Mutant: the incoming evidence replaces the evidence there was.
EvidenceReplaced(previous, incoming) == incoming

\* Only the incoming records survive, each widened by its predecessor.
ReconciledEvidence(previous, incoming) ==
    [s \in DOMAIN incoming |-> IF s \in DOMAIN previous
                               THEN MergedRange(previous[s], incoming[s])
                               ELSE incoming[s]]

\* Mutant: what is kept counts as seen again.
KeptRestamped(current, incoming) ==
    LET kept == IF incoming.completeness = "partial"
                THEN DOMAIN current.edges ELSE {}
    IN  [k \in kept \cup DOMAIN incoming.edges |->
            IF k \notin DOMAIN incoming.edges
            THEN [s \in DOMAIN current.edges[k] |->
                    [current.edges[k][s] EXCEPT !.last = incoming.capturedAt]]
            ELSE IF k \in DOMAIN current.edges
                 THEN ReconciledEvidence(current.edges[k], incoming.edges[k])
                 ELSE incoming.edges[k]]

\* An edge that is not in the current snapshot reconciles against nothing.
ReconciledEdges(current, incoming) ==
    LET kept == IF incoming.completeness = "partial"
                THEN DOMAIN current.edges ELSE {}
    IN  [k \in kept \cup DOMAIN incoming.edges |->
            IF k \notin DOMAIN incoming.edges THEN current.edges[k]
            ELSE IF k \in DOMAIN current.edges
                 THEN ReconciledEvidence(current.edges[k], incoming.edges[k])
                 ELSE incoming.edges[k]]

Reconciled(current, incoming) ==
    IF current = NoSnapshot THEN incoming
    ELSE [incoming EXCEPT !.nodes = ReconciledNodes(current, incoming),
                          !.edges = ReconciledEdges(current, incoming)]

\* reconcileSnapshots returns no error.
ReconcileAccepts(current, incoming) ==
    current # NoSnapshot =>
        /\ current.source = incoming.source
        /\ current.scope = incoming.scope
        /\ \A k \in DOMAIN incoming.edges :
              /\ EdgeBuilds(k, ReconciledNodes(current, incoming))
              /\ ValidEvidence(ReconciledEdges(current, incoming)[k])
        /\ SnapshotAccepted(Reconciled(current, incoming))

-----------------------------------------------------------------------------
(* What two snapshots of one source agree on when node identities are      *)
(* stable: a node that is in both has the same kind and the same broker.   *)
Consistent(s, t) ==
    \A n \in DOMAIN s.nodes \cap DOMAIN t.nodes : s.nodes[n] = t.nodes[n]

=============================================================================
