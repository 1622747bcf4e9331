-------------------------- MODULE MCTopologyRefresh --------------------------
(***************************************************************************)
(* Small brokers for TopologyRefresh: a stream r with one subject d and    *)
(* one consumer c, any of which may come and go.                           *)
(***************************************************************************)
EXTENDS TopologyRefresh, TLC

CONSTANTS b, r, d, c   \* the broker, its stream, a subject, a consumer

Owned(kind) == [kind |-> kind, broker |-> b]

MCNodes == b :> [kind |-> "broker", broker |-> NoBroker] @@ r :> Owned("resource")
             @@ d :> Owned("destination") @@ c :> Owned("consumer")

CapturedBy == [source |-> d, kind |-> "captured_by", target |-> r]
HasConsumer == [source |-> r, kind |-> "has_consumer", target |-> c]

MCEdgeKey == {CapturedBy, HasConsumer}

GraphOf(nodes, edges) == [nodes |-> [n \in nodes |-> MCNodes[n]], edges |-> edges]

MCGraph == {GraphOf({b}, {}),
            GraphOf({b, r, d}, {CapturedBy}),
            GraphOf({b, r, c}, {HasConsumer}),
            GraphOf({b, r, d, c}, {CapturedBy, HasConsumer})}

=============================================================================
