----------------------- MODULE MCOverlappingRefreshes -----------------------
(***************************************************************************)
(* Small brokers for OverlappingRefreshes: a stream r with a subject d     *)
(* and a consumer c that come and go.                                      *)
(***************************************************************************)
EXTENDS OverlappingRefreshes, TLC

CONSTANTS b, r, d, c   \* the broker, its stream, a subject, a consumer

Owned(kind) == [kind |-> kind, broker |-> b]

MCNodes == b :> [kind |-> "broker", broker |-> NoBroker] @@ r :> Owned("resource")
             @@ d :> Owned("destination") @@ c :> Owned("consumer")

CapturedBy == [source |-> d, kind |-> "captured_by", target |-> r]
HasConsumer == [source |-> r, kind |-> "has_consumer", target |-> c]

MCEdgeKey == {CapturedBy, HasConsumer}

GraphOf(nodes, edges) == [nodes |-> [n \in nodes |-> MCNodes[n]], edges |-> edges]

MCGraph == {GraphOf({b, r, d}, {CapturedBy}),
            GraphOf({b, r, d, c}, {CapturedBy, HasConsumer})}

MCSymmetry == Permutations(Process)

=============================================================================
