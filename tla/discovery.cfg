\* Lists that fit into a page of two, and lists that do not; the broker changes twice.
SPECIFICATION FairSpec
CONSTANTS
    created = created
    shared = shared
    StreamName = {1, 2, 3}
    Subject = {created, shared}
    ConsumerName = {1, 2, 3, 4, 5}
    NoStream = NoStream
    Brokers <- MCBrokers
    PageSize = 2
    Provider = src
    ProviderScope = scp
    Technology = nats
    NodeId = {}
    EdgeKey = {}
    SourceId = {src}
    Scope = {scp}
    SourceSystem = {nats}
    Time = {1}
    NoBroker = NoBroker
    NoSnapshot = NoSnapshot
    MaxChanges = 2
    MaxFaults = 1
INVARIANTS
    NothingInvented
    AbsenceIsRealOnOnePage
    MissesNoMoreThanWasDeleted
PROPERTY
    EventuallyExact
