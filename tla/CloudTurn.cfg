SPECIFICATION Spec
CONSTANTS
    NumTasks = 2
    Threads <- MCThreads
    Controls = {"stop", "archive"}
    None = None
    Providers = 2
    FailureLimit = 2
    MaxTrouble = 2
INVARIANTS RequestsAreMadeOnce CardIsTrue OrdersAreHonest
PROPERTIES StopIsAFence
CHECK_DEADLOCK FALSE
