\* Two processes that share the store; their provider may report partial snapshots.
SPECIFICATION Spec
CONSTANTS
    b = b
    r = r
    d = d
    c = c
    NodeId = {b, r, d, c}
    EdgeKey <- MCEdgeKey
    SourceId = {src}
    Scope = {scp}
    SourceSystem = {nats}
    Source = src
    RefreshScope = scp
    System = nats
    Time = {1, 2}
    NoBroker = NoBroker
    NoSnapshot = NoSnapshot
    Graph <- MCGraph
    Reports = {"full", "partial"}
    Process = {p1, p2}
    MaxAttempts = 3
    MaxChanges = 1
    MaxFaults = 1
SYMMETRY MCSymmetry
INVARIANTS
    ReconciliationNeverFails
    RangesAreSighted
    SuccessIsNotUndone
\* All refreshes may be over.
CHECK_DEADLOCK FALSE
