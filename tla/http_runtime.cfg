\* The API and the OTLP receiver, with one request each.
SPECIFICATION FairSpec
CONSTANTS
    api = api
    otlp = otlp
    Servers <- MCServers
    MaxRequests = 1
INVARIANTS
    StoresOutliveTheirUsers
    ErrorsTellTheTruth
PROPERTY
    CancellationEndsTheProcess
\* The process has exited.
CHECK_DEADLOCK FALSE
