SPECIFICATION Spec
CONSTANTS
    p1 = p1  p2 = p2  reply = reply
    Procs = {p1, p2}
    NoProc = NoProc
    NumUpdates = 2
    Jobs <- MCJobs
    Parent <- MCParent
    Lanes <- MCLanes
    Lane <- MCLane
    Kinds <- MCKinds
    KindOf <- MCKindOf
    Priority <- MCPriority
    Concurrency <- MCConcurrency
    FailureLimit = 1
    SlowAfter = 1
    MaxSetbacks = 1
    StartupMayStall = FALSE
INVARIANTS  UpdatesAreSafe
 
SYMMETRY AnyProcess
CHECK_DEADLOCK FALSE
