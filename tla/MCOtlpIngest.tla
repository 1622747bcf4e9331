---------------------------- MODULE MCOtlpIngest ----------------------------
(***************************************************************************)
(* Bodies as long as the smaller limit and longer, one of them compressed  *)
(* to that length, one that breaks in the middle, an empty one, and one    *)
(* that the store refuses.                                                 *)
(***************************************************************************)
EXTENDS OtlpIngest, TLC

CONSTANTS k, l, m, n   \* two identities, two metadata values

F(key, at, metadata) == [key |-> key, at |-> at, metadata |-> metadata]

Two     == <<F(k, 1, m), F(l, 2, m)>>
Three   == <<F(k, 2, n), F(k, 1, m), F(l, 1, n)>>
Refused == <<F(k, 2, m)>>

MCBatches == {Two, Three, Refused}

Plain(payload) ==
    [protobuf |-> TRUE, encoding |-> "identity", wire |-> Len(payload),
     declared |-> Len(payload), payload |-> payload, sound |-> TRUE, valid |-> TRUE,
     storable |-> TRUE]

Compressed == [Plain(Three) EXCEPT !.encoding = "gzip", !.wire = 2, !.declared = 2]

MCRequests ==
    {Plain(Two), Plain(<<>>), Compressed, [Plain(Refused) EXCEPT !.storable = FALSE],
     [Compressed EXCEPT !.sound = FALSE, !.wire = 3, !.declared = Undeclared]}

=============================================================================
