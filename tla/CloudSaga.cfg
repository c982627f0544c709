CONSTANTS
    MaxLaunches = 2
    MaxSends = 1
    MaxRequests = 1
    MaxStops = 2
    MaxArchives = 1
    MaxCrashes = 1
    MaxEvents = 4
SPECIFICATION Spec
INVARIANTS CalledOffWorkRests OneSender BoundAlive OutboxAccounted
CHECK_DEADLOCK FALSE
