--------------------------- MODULE EvidenceHistory ---------------------------
(***************************************************************************)
(* TopologyRefresh with a history of when each edge was first learned.     *)
(***************************************************************************)
EXTENDS MCTopologyRefresh

VARIABLE firstLearned   \* the first sighting of each edge, 0 before it

Learned(k) ==
    IF firstLearned[k] # 0 \/ store' = NoSnapshot \/ k \notin DOMAIN store'.edges
    THEN firstLearned[k]
    ELSE store'.edges[k][System].first

HistoryInit == Init /\ firstLearned = [k \in EdgeKey |-> 0]

HistoryNext == Next /\ firstLearned' = [k \in EdgeKey |-> Learned(k)]

HistorySpec == HistoryInit /\ [][HistoryNext]_<<vars, firstLearned>>

\* "FirstSeen returns when EventAtlas first learned this evidence"
\* (internal/topology/evidence.go:86): what the store reports as the first
\* sighting of an edge is never later than the first one there was.
FirstSeenIsFirstLearned ==
    store # NoSnapshot =>
        \A k \in DOMAIN store.edges :
            store.edges[k][System].first <= firstLearned[k]

=============================================================================
