\* Three starts at once, two of which may be interrupted.
SPECIFICATION FairMigrateSpec
CONSTANTS
    old = old
    new1 = new1
    new2 = new2
    topology = topology
    observations = observations
    Process = {old, new1, new2}
    Version = {topology, observations}
    Files <- MCFiles
    NoProcess = NoProcess
    MaxFaults = 2
INVARIANTS
    SchemaIsRegistered
    NoStarterFailsAnother
PROPERTY
    EveryStartEnds
\* All processes have started.
CHECK_DEADLOCK FALSE
