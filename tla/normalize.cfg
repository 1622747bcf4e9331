\* Words of three bits: 4 to 7 do not fit a signed one.
SPECIFICATION NormalizeSpec
CONSTANTS
    svc = svc
    unknown = unknown
    inbox = inbox
    subject = subject
    nats = nats
    kafka = kafka
    redis = redis
    prod = prod
    dev = dev
    ns = ns
    lib = lib
    Traces <- MCRequests
    Environment = prod
    Systems = {nats, kafka}
    Unknown = {unknown}
    Inbox <- MCInbox
    Blank = Blank
    TooLong = TooLong
    NotString = NotString
    Width = 3
    Now = 2
    MaxFutureSkew = 0
INVARIANTS
    ForeignSpansAreNotRejected
    FactsAreDated
    MetadataIsHonest
\* A request that was answered has no further step.
CHECK_DEADLOCK FALSE
