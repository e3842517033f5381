SPECIFICATION FairSpec
CONSTANTS
    NumSlots = 2
    MergeStatuses = {0, 2, 3}
    MaxCalls = 6
    MaxFaults = 2
INVARIANTS FallbackKept ActivationHolds EveryTryMade
PROPERTIES ActivatesLast Converges
CHECK_DEADLOCK FALSE
