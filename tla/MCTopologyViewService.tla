----------------------- MODULE MCTopologyViewService -----------------------
(***************************************************************************)
(* Two snapshots of a broker with two destinations, one of which has the   *)
(* other's name as its logical name, and observations of one service that  *)
(* hint at them by a physical or by a logical name.                        *)
(***************************************************************************)
EXTENDS TopologyViewService, TLC

CONSTANTS b, d1, d2, s, orders, created, nats, prod, src, scp, otel, m, n

Named(name, logical) == [name |-> name, logical |-> logical,
                         provider |-> NoName, environment |-> NoName]

MCLabel == b :> [name |-> b, logical |-> NoName, provider |-> nats, environment |-> prod]
             @@ d1 :> Named(created, orders)
             @@ d2 :> Named(orders, NoName)
             @@ s :> Named(s, NoName)

Hint(physical, logical) ==
    [source |-> otel, relationship |-> "publishes", service |-> s, environment |-> prod,
     system |-> nats, physical |-> physical, logical |-> logical]

ByLogical == Hint(NoName, orders)   \* resolved, ambiguous or unresolved
ByPhysical == Hint(created, NoName) \* the same edge as long as it is resolved

MCKeyOrder == <<ByLogical, ByPhysical>>

MCKeys == {ByLogical, ByPhysical}

MCServiceNode == s :> s

MCNodes == b :> [kind |-> "broker", broker |-> NoBroker]
             @@ d1 :> [kind |-> "destination", broker |-> b]
             @@ d2 :> [kind |-> "destination", broker |-> b]

BelongsTo(d) == [source |-> d, kind |-> "belongs_to", target |-> b]

MCEdgeKey == {BelongsTo(d1), BelongsTo(d2)}

SnapshotWith(ds, t) ==
    [source |-> src, scope |-> scp, capturedAt |-> t, completeness |-> "full",
     nodes |-> [x \in {b} \cup ds |-> MCNodes[x]],
     edges |-> [k \in {BelongsTo(d) : d \in ds} |-> [y \in {nats} |-> [first |-> t, last |-> t]]]]

MCSnapshots == <<SnapshotWith({d1}, 1), SnapshotWith({d1, d2}, 2)>>

F(k, t, metadata) == [key |-> k, at |-> t, metadata |-> metadata]

MCNewFacts == {F(ByLogical, 1, m), F(ByLogical, 2, m), F(ByPhysical, 1, n)}

MCSymmetry == Permutations(Reader)

=============================================================================
