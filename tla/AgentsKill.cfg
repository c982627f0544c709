\* StopReachesAll (a property) and AskerHears (an invariant) are violated too.
SPECIFICATION FairSpec
CONSTANTS
    MaxAgents = 2
    MaxStops = 2
    MaxAsks = 1
PROPERTIES StoppedEnds
CHECK_DEADLOCK FALSE
