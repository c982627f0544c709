\* NotReplayedIsTrue (an invariant) and EveryLaunchEnds (a property, with MaxStops = 0) are violated too.
SPECIFICATION FairSpec
CONSTANTS
    MaxRequests = 3
    MaxStops = 1
    MaxTrouble = 1
    MaxWorked = 1
INVARIANTS StopHolds
CHECK_DEADLOCK FALSE
