SPECIFICATION Behaviors
CONSTANTS
    proc = proc  NoProc = NoProc  task = task  control = control  workLane = workLane  stopLane = stopLane
    mac = mac  ovh = ovh  r1 = r1  r2 = r2  Nothing = Nothing
    QueueProcs = {proc}  QueueUpdates = 2  QueueJobs = {task, control}  QueueParent <- Parents
    QueueLanes <- RowLanes  QueueLane <- LaneOf  QueueKinds = {"update", "cloud"}
    QueueKindOf <- KindOfLane  QueuePriority <- PriorityOf  QueueWorkers <- WorkersOf
    QueueFailures = 1  QueueSlow = 1  QueueSetbacks = 0
    TopicWorks = 2  TopicCount = 2  TopicNotes = 0  TopicEdits = 0  TopicTries = 1  TopicTouches = 0
    TopicTrouble = 0  TopicDeletes = FALSE
    TakeoverRequests = 3  TakeoverStops = 1  TakeoverTrouble = 1  TakeoverWorked = 0
    AgentRuns = 3  AgentPresses = 2  AgentAsks = 1
    FoundWorks = 2  FoundLaunches = 1  FoundRecords = 2  FoundFails = 1  FoundRenames = 0  FoundTrouble = 1
    LaneRotation <- DeliveryProviders  LaneAuthor = "claude"  LaneReview = TRUE  LanePushes = 2
    LaneChanges = 0  LaneSessions = 5  LaneTrouble = 1
    DispatchLanes <- ThreeLanes  DispatchProviders <- StageProviders  DispatchWants <- LaneWants
    DispatchAfter <- LaneAfter  DispatchActive = 1  DispatchNudges = 3  DispatchTrouble = 1
    PhotoFiles = 2  PhotoWaits = 1  PhotoRestarts = 1  PhotoTrouble = 0  PhotoStops = FALSE
    RouteRows = 2  RouteRouters = 2  RouteSessions = 3  RouteFails = 2  RouteGone = 1  RouteTrouble = 1
    TalkSends = 2  TalkReplies = 2  TalkStops = 1  TalkRebuilds = 1  TalkTrouble = 0
    TurnSends = 1  TurnProviders = 2  TurnPage = 3  TurnFaults = 1  TurnSleeps = 0  TurnStops = TRUE
    TurnErrorsClear = TRUE  TurnTrouble = 1
    LedgerSites = {mac, ovh}  LedgerMac = mac  LedgerRuns = {r1, r2}  LedgerSteps = 1  LedgerAttempts = 1
    LedgerTrouble = 1
    Rotation <- StageProviders
    MaxPushes = 2
    MaxForeign = 1
    MaxRejects = 1
    MaxReruns = 0
    MaxTrouble = 1
    MaxAges = 1
INVARIANTS TypesHold MergesAreEarned OneAgentAtWork LanesGetOneOfEach WorkersStayBounded RoutedOnce FollowedOnce  FilesGoOnce ThreadsAreFollowed LocalRunsGoOnce
PROPERTIES TopicsSpeakInTurn 
CHECK_DEADLOCK FALSE
