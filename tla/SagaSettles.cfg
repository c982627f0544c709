CONSTANTS
    MaxLaunches = 2
    MaxSends = 0
    MaxRequests = 1
    MaxStops = 1
    MaxArchives = 1
    MaxCrashes = 1
    MaxEvents = 3
SPECIFICATION FairSpec
PROPERTIES Settles
CHECK_DEADLOCK FALSE
