\* Three concurrent calls, five batches in all.
SPECIFICATION FairTableSpec
CONSTANTS
    k = k
    l = l
    m = m
    n = n
    Key = {k, l}
    Instant = {2, 3, 4, 5}
    Precision = 2
    Metadata = {m, n}
    MaxCount = 3
    Writer = {w1, w2, w3}
    CallBatches <- MCBatches
    NoWriter = NoWriter
    MaxBatches = 5
    MaxFailures = 1
INVARIANTS
    ListsTheActive
    MetadataOfTheLatest
PROPERTIES
    ImplementsStore
    EveryCallReturns
\* All calls may have returned.
CHECK_DEADLOCK FALSE
