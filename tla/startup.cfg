\* Every environment with at most two variables set, and every outcome of the calls.
SPECIFICATION FairStartSpec
CONSTANTS
    Environments <- MCEnvironments
INVARIANTS
    AcceptedIsUsable
    NothingLeaks
PROPERTIES
    EveryStartDecides
\* The process ends.
CHECK_DEADLOCK FALSE
