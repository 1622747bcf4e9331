\* The broker drops an edge and declares it again.
SPECIFICATION HistorySpec
CONSTANTS
    b = b
    r = r
    d = d
    c = c
    NodeId = {b, r, d, c}
    EdgeKey <- MCEdgeKey
    SourceId = {src}
    Scope = {scp}
    SourceSystem = {nats}
    Source = src
    RefreshScope = scp
    System = nats
    Time = {1, 2}
    NoBroker = NoBroker
    NoSnapshot = NoSnapshot
    Graph <- MCGraph
    Reports = {"full"}
    Durable = TRUE
    MaxChanges = 2
    MaxFaults = 0
    MaxSignals = 0
INVARIANT
    FirstSeenIsFirstLearned
