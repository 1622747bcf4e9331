\* Two exporters over a durable store, more attempts than faults.
SPECIFICATION FairIngestSpec
CONSTANTS
    k = k
    l = l
    m = m
    n = n
    Key = {k, l}
    Instant = {1, 2}
    Metadata = {m, n}
    MaxCount = 4
    MaxInt64 = 3
    Limits = {2, 3}
    Client = {c1, c2}
    Batches <- MCBatches
    Requests <- MCRequests
    Durable = TRUE
    MaxAttempts = 3
    MaxFaults = 2
INVARIANTS
    AckedIsRecorded
    CountIsBetween
PROPERTY
    EventuallyAcked
\* All requests may be settled.
CHECK_DEADLOCK FALSE
