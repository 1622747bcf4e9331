\* A durable store and a provider that may report partial snapshots.
SPECIFICATION FairSpec
CONSTANTS
    b = b
    r = r
    d = d
    c = c
    NodeId = {b, r, d, c}
    EdgeKey <- MCEdgeKey
    SourceId = {src}
    Scope = {scp}
    SourceSystem = {nats}
    Source = src
    RefreshScope = scp
    System = nats
    Time = {1, 2}
    NoBroker = NoBroker
    NoSnapshot = NoSnapshot
    Graph <- MCGraph
    Reports = {"full", "partial"}
    Durable = TRUE
    MaxChanges = 2
    MaxFaults = 2
    MaxSignals = 1
INVARIANTS
    TypeOK
    ServesATopology
PROPERTIES
    EvidenceNeverNarrows
    CompletenessDecidesWhatStays
    ImplementsDeclared
    EventuallyMirrors
