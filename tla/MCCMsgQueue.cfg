SPECIFICATION QueueFairSpec
CONSTANTS
    Replaced = {"osd_name"}
    Added = {"physical_address"}
    Delays = {0, 1, 2}
    MaxSent = 3
    MaxTime = 4
INVARIANT RemovedForGood
PROPERTY EveryMessageLeaves
CHECK_DEADLOCK FALSE
