\* Two concurrent, interchangeable calls, two snapshots, two ingested facts, a clock that may be set.
SPECIFICATION Spec
CONSTANTS
    b = b
    d1 = d1
    d2 = d2
    s = s
    orders = orders
    created = created
    nats = nats
    prod = prod
    src = src
    scp = scp
    otel = otel
    m = m
    n = n
    NodeId = {b, d1, d2, s}
    EdgeKey <- MCEdgeKey
    SourceId = {src}
    Scope = {scp}
    SourceSystem = {nats}
    Time = {1, 2}
    NoBroker = NoBroker
    NoSnapshot = NoSnapshot
    Key <- MCKeys
    Instant = {1, 2}
    Metadata = {m, n}
    MaxCount = 2
    Label <- MCLabel
    NoName = NoName
    KeyOrder <- MCKeyOrder
    ServiceNode <- MCServiceNode
    MaxShown = 3
    Reader = {r1, r2}
    Snapshots <- MCSnapshots
    NewFacts <- MCNewFacts
    Retention = 1
    Clock = {2, 3}
    NoView = NoView
    MaxFacts = 2
SYMMETRY MCSymmetry
INVARIANTS
    ProjectionNeverFails
    ProjectionIsExact
    ShowsWhatWasKnown
PROPERTIES
    StaysReadable
    NotFoundIsTrue
    FallbackNeverGoesBack
