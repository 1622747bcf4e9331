--------------------------- MODULE DeclaredGraphs ---------------------------
(***************************************************************************)
(* What a broker can declare and the snapshots its provider makes of it:   *)
(* the inputs of every specification of the refresh pipeline.              *)
(***************************************************************************)
EXTENDS Reconciliation

CONSTANTS
    Graph,          \* what a broker can declare: records [nodes, edges]
    Source,         \* the configured discovery source
    RefreshScope,   \* the configured discovery scope
    System,         \* the source system of every piece of its evidence
    Reports         \* the completeness a provider can report

ASSUME SourceAssumption ==
    /\ Source \in SourceId /\ RefreshScope \in Scope /\ System \in SourceSystem
    /\ Reports \subseteq Completeness

\* A broker declares a graph that its provider can turn into a snapshot.
ASSUME GraphAssumption ==
    \A g \in Graph :
        /\ g.nodes \in NodeMap
        /\ g.edges \subseteq EdgeKey
        /\ BrokerReferencesValid(g.nodes)
        /\ \A k \in g.edges :
              /\ EdgeBuilds(k, g.nodes)
              /\ k.kind = "belongs_to" => g.nodes[k.source].broker = k.target

\* The identity of a node fixes its kind and its broker (identity.go hashes
\* the kind into the identity, and a source has one broker).
ASSUME IdentityAssumption == \A g, h \in Graph : Consistent(g, h)

\* The snapshot a provider builds of graph g at time t.
SnapshotOf(g, t, report) ==
    [source |-> Source, scope |-> RefreshScope, capturedAt |-> t,
     completeness |-> report, nodes |-> g.nodes,
     edges |-> [k \in g.edges |->
                  [s \in {System} |-> [first |-> t, last |-> t]]]]

\* An incomplete discovery sees a part of the graph that is a graph itself.
Visible(g, report) ==
    IF report = "full" THEN {g}
    ELSE {h \in Graph : /\ DOMAIN h.nodes \subseteq DOMAIN g.nodes
                        /\ h.edges \subseteq g.edges}

=============================================================================
