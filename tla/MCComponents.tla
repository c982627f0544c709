----------------------------- MODULE MCComponents -----------------------------
(***************************************************************************)
(* One run for the safety of thirteen components, each in a small instance  *)
(* of its own.  `picked` says which one a behavior is of; it never changes, *)
(* so the behaviors are those of the components, side by side and not       *)
(* composed.  LaneStages has its variables to itself; the others are         *)
(* instantiated over v1, v2, ..., and one that is not picked rests.          *)
(***************************************************************************)
EXTENDS LaneStages, TLC

CONSTANTS proc, NoProc, task, control, workLane, stopLane, mac, ovh, r1, r2, Nothing

\* The parameters of the instances that ComponentsProofs takes for any value: those of the gateway's
\* queue and of the delivery to topics, of the local runs and their takeover, of the discovery, of the
\* in-process lanes' delivery and dispatch, of an album's files, of the router, of a thread, of the
\* sessions of a workspace, and of the durable lanes' ledger.
CONSTANTS QueueProcs, QueueUpdates, QueueJobs, QueueParent, QueueLanes, QueueLane, QueueKinds,
    QueueKindOf, QueuePriority, QueueWorkers, QueueFailures, QueueSlow, QueueSetbacks
CONSTANTS TopicWorks, TopicCount, TopicNotes, TopicEdits, TopicTries, TopicTouches, TopicTrouble,
    TopicDeletes
CONSTANTS TakeoverRequests, TakeoverStops, TakeoverTrouble, TakeoverWorked,
    AgentRuns, AgentPresses, AgentAsks
CONSTANTS FoundWorks, FoundLaunches, FoundRecords, FoundFails, FoundRenames, FoundTrouble
CONSTANTS LaneRotation, LaneAuthor, LaneReview, LanePushes, LaneChanges, LaneSessions, LaneTrouble
CONSTANTS DispatchLanes, DispatchProviders, DispatchWants, DispatchAfter, DispatchActive, DispatchNudges,
    DispatchTrouble
CONSTANTS PhotoFiles, PhotoWaits, PhotoRestarts, PhotoTrouble, PhotoStops
CONSTANTS RouteRows, RouteRouters, RouteSessions, RouteFails, RouteGone, RouteTrouble
CONSTANTS TalkSends, TalkReplies, TalkStops, TalkRebuilds, TalkTrouble
CONSTANTS TurnSends, TurnProviders, TurnPage, TurnFaults, TurnSleeps, TurnStops, TurnErrorsClear,
    TurnTrouble
CONSTANTS LedgerSites, LedgerMac, LedgerRuns, LedgerSteps, LedgerAttempts, LedgerTrouble

VARIABLES picked, v1, v2, v3, v4, v5, v6, v7, v8, v9, v10, v11, v12, v13, v14, v15, v16, v17, v18,
    v19

shared == <<v1, v2, v3, v4, v5, v6, v7, v8, v9, v10, v11, v12, v13, v14, v15, v16, v17, v18, v19>>
lanes == <<run, work, review, finals, checks, proof, ctl, down, host, votes, greens, count>>

\* Constants of the instances that are functions.
StageProviders == <<"claude", "codex">>
DeliveryProviders == <<"claude", "codex", "cursor">>
\* Two updates of two conversations; the first queues a task, the second a stop of the same workspace.
Parents == (task :> 0) @@ (control :> 1)
RowLanes == {0, 1, workLane, stopLane}
LaneOf == (0 :> 0) @@ (1 :> 1) @@ (task :> workLane) @@ (control :> stopLane)
KindOfLane == [l \in RowLanes |-> IF l \in {workLane, stopLane} THEN "cloud" ELSE "update"]
PriorityOf == [l \in RowLanes |-> IF l = stopLane THEN 0 ELSE 10]
WorkersOf == [k \in {"update", "cloud"} |-> 1]
ThreeLanes == <<"L1", "L2", "L3">>
LaneWants == [l \in {"L1", "L2", "L3"} |-> IF l = "L1" THEN "claude" ELSE "any"]
LaneAfter == [l \in {"L1", "L2", "L3"} |-> IF l = "L3" THEN {"L1"} ELSE {}]

-----------------------------------------------------------------------------
(* The instances.                                                           *)

\* A module with proofs is taken together with them.
Actions == INSTANCE LaneActionsProofs WITH Sites <- LedgerSites, Mac <- LedgerMac,
    Runs <- LedgerRuns, Steps <- LedgerSteps, Nothing <- Nothing, Attempts <- LedgerAttempts,
    KeepsContract <- FALSE, MaxTrouble <- LedgerTrouble, lease <- v1, fence <- v2, mine <- v3,
    pc <- v4, task <- v5, seen <- v6, mode <- v7, progress <- v8, status <- v9, refused <- v10,
    effects <- v11, late <- v12, trouble <- v13,
    Rotation <- LaneRotation, Author <- LaneAuthor, HasReview <- LaneReview,
    MaxPushes <- LanePushes, MaxChanges <- LaneChanges, MaxSessions <- LaneSessions,
    MaxOutages <- LaneTrouble, state <- v1, spaces <- v2, desk <- v3, posts <- v4, author <- v5,
    host <- v6, out <- v7, tick <- v8, spent <- v9,
    Lanes <- DispatchLanes, Providers <- DispatchProviders, Wants <- DispatchWants,
    After <- DispatchAfter, MaxActive <- DispatchActive, MaxNudges <- DispatchNudges,
    MaxLost <- DispatchTrouble, space <- v1, ledger <- v2, paused <- v3, turn <- v4, made <- v5,
    given <- v6, lost <- v7

Workers == INSTANCE GatewayQueueProofs WITH Procs <- QueueProcs, NoProc <- NoProc,
    NumUpdates <- QueueUpdates, Jobs <- QueueJobs, Parent <- QueueParent, Lanes <- QueueLanes,
    Lane <- QueueLane, Kinds <- QueueKinds, KindOf <- QueueKindOf, Priority <- QueuePriority,
    Concurrency <- QueueWorkers, FailureLimit <- QueueFailures, SlowAfter <- QueueSlow,
    MaxSetbacks <- QueueSetbacks, StartupMayStall <- FALSE, lease <- v1, pc <- v2, tasks <- v3,
    batch <- v4, rowid <- v5, lastRowid <- v6, state <- v7, ready <- v8, failures <- v9,
    transient <- v10, notices <- v11, offset <- v12, published <- v13, acked <- v14,
    setbacks <- v15,
    PostWorks <- TopicWorks, PostTopics <- TopicCount, PostNotes <- TopicNotes,
    PostEdits <- TopicEdits, PostTries <- TopicTries, PostTouches <- TopicTouches,
    PostLost <- TopicTrouble, PostDeletes <- TopicDeletes, rows <- v1, thread <- v2, life <- v3,
    required <- v4, link <- v5, replaced <- v6, call <- v7, topic <- v8, messages <- v9,
    known <- v10, used <- v11,
    AlbumSize <- PhotoFiles, MaxWaits <- PhotoWaits, MaxRestarts <- PhotoRestarts,
    MaxFailures <- PhotoTrouble, OwnerActs <- PhotoStops, update <- v1, at <- v2, leader <- v3,
    joinable <- v4, settles <- v5, members <- v6, resend <- v7, job <- v8, flight <- v9,
    failed <- v10, saved <- v11, post <- v12, workers <- v13, attempted <- v14, sent <- v15,
    halted <- v16, gone <- v17, restarts <- v18, lapses <- v19,
    ChatSends <- TurnSends, ChatProviders <- TurnProviders, ChatPage <- TurnPage,
    ChatFaults <- TurnFaults, ChatSleeps <- TurnSleeps, ChatStops <- TurnStops,
    ErrorsClear <- TurnErrorsClear, ChatTrouble <- TurnTrouble, tape <- v1, requested <- v2,
    chapter <- v3, hand <- v4, chats <- v5, reach <- v6, laddered <- v7, carried <- v8, cards <- v9,
    newest <- v10, ended <- v11, glance <- v12, talk <- v13, doing <- v14, behind <- v15,
    faulty <- v16, slept <- v17, result <- v18, budget <- v19

Parts == INSTANCE PartsProofs WITH MaxRequests <- TakeoverRequests,
    MaxStops <- TakeoverStops, MaxTrouble <- TakeoverTrouble, MaxWorked <- TakeoverWorked,
    row <- v1, saga <- v2, taker <- v3, request <- v4, told <- v5, outbox <- v6, outcome <- v7,
    wire <- v8, first <- v9, taken <- v10, count <- v11, ran <- v12, fenced <- v13,
    MaxAgents <- AgentRuns, MaxPresses <- AgentPresses, MaxAsks <- AgentAsks, main <- v1,
    agent <- v2, entry <- v3, starts <- v4, canceled <- v5, session <- v6, agentRow <- v7,
    stdin <- v8, asked <- v9, heard <- v10, presses <- v11,
    MaxWorks <- FoundWorks, MaxLaunches <- FoundLaunches, MaxRecords <- FoundRecords,
    MaxFails <- FoundFails, MaxRenames <- FoundRenames, MaxRefusals <- FoundTrouble,
    bound <- v1, known <- v2, archived <- v3, synced <- v4, topic <- v5, stop <- v6, order <- v7,
    launch <- v8, jobs <- v9, checks <- v10, works <- v11, key <- v12, early <- v13, used <- v14,
    MaxMessages <- RouteRows, MaxRouters <- RouteRouters, RouterSessions <- RouteSessions,
    MaxRouteFails <- RouteFails, MaxRemoved <- RouteGone, MaxUnanswered <- RouteTrouble, ask <- v1,
    proposal <- v2, binding <- v3, spawned <- v4, opened <- v5, retired <- v6, healed <- v7,
    late <- v8, step <- v9, home <- v10, alive <- v11, loose <- v12, transcript <- v13,
    working <- v14, wear <- v15,
    ThreadSends <- TalkSends, ThreadReplies <- TalkReplies, ThreadStops <- TalkStops,
    ThreadRebuilds <- TalkRebuilds, ThreadSetbacks <- TalkTrouble, threadRow <- v1, intent <- v2,
    cycle <- v3, cursor <- v4, log <- v5, epoch <- v6, answerer <- v7, open <- v8, sender <- v9,
    cable <- v10, halt <- v11, poll <- v12, shown <- v13, lapsed <- v14, tally <- v15

-----------------------------------------------------------------------------
(* What the component that is picked leaves alone.                          *)

Rest15 == <<v16, v17, v18, v19>>
Unused15 == v16 = 0 /\ v17 = 0 /\ v18 = 0 /\ v19 = 0
Rest14 == <<v15, Rest15>>
Unused14 == v15 = 0 /\ Unused15
Rest13 == <<v14, Rest14>>
Unused13 == v14 = 0 /\ Unused14
Rest11 == <<v12, v13, Rest13>>
Unused11 == v12 = 0 /\ v13 = 0 /\ Unused13
Rest9 == <<v10, v11, Rest11>>
Unused9 == v10 = 0 /\ v11 = 0 /\ Unused11
Rest7 == <<v8, v9, Rest9>>
Unused7 == v8 = 0 /\ v9 = 0 /\ Unused9
Rest0 == <<v1, v2, v3, v4, v5, v6, v7, Rest7>>
Unused0 == v1 = 0 /\ v2 = 0 /\ v3 = 0 /\ v4 = 0 /\ v5 = 0 /\ v6 = 0 /\ v7 = 0 /\ Unused7

Initially ==
  /\ Init
  /\ \/ picked = "stages" /\ Unused0
     \/ picked = "actions" /\ Actions!Init /\ Unused13
     \/ picked = "workers" /\ Workers!Init /\ Unused15
     \/ picked = "delivery" /\ Actions!Lane!Init /\ Unused9
     \/ picked = "dispatch" /\ Actions!Dispatch!Init /\ Unused7
     \/ picked = "topics" /\ Workers!Sender!Init /\ Unused11
     \/ picked = "router" /\ Parts!Route!Init /\ Unused15
     \/ picked = "discovery" /\ Parts!Found!Init /\ Unused14
     \/ picked = "turns" /\ Workers!Cloud!Init
     \/ picked = "album" /\ Workers!Photos!Init
     \/ picked = "poll" /\ Parts!Thread!Init /\ Unused15
     \/ picked = "takeover" /\ Parts!Init /\ Unused13
     \/ picked = "agents" /\ Parts!Agent!Init /\ Unused11

Step ==
    \/ picked = "stages" /\ Next /\ UNCHANGED <<picked, Rest0>>
    \/ picked = "actions" /\ Actions!Next /\ UNCHANGED <<picked, Rest13, lanes>>
    \/ picked = "workers" /\ Workers!Next /\ UNCHANGED <<picked, Rest15, lanes>>
    \/ picked = "delivery" /\ Actions!Lane!Next /\ UNCHANGED <<picked, Rest9, lanes>>
    \/ picked = "dispatch" /\ Actions!Dispatch!Next /\ UNCHANGED <<picked, Rest7, lanes>>
    \/ picked = "topics" /\ Workers!Sender!Next /\ UNCHANGED <<picked, Rest11, lanes>>
    \/ picked = "router" /\ Parts!Route!Next /\ UNCHANGED <<picked, Rest15, lanes>>
    \/ picked = "discovery" /\ Parts!Found!Next /\ UNCHANGED <<picked, Rest14, lanes>>
    \/ picked = "turns" /\ Workers!Cloud!Next /\ UNCHANGED <<picked, lanes>>
    \/ picked = "album" /\ Workers!Photos!Next /\ UNCHANGED <<picked, lanes>>
    \/ picked = "poll" /\ Parts!Thread!Next /\ UNCHANGED <<picked, Rest15, lanes>>
    \/ picked = "takeover" /\ Parts!Next /\ UNCHANGED <<picked, Rest13, lanes>>
    \/ picked = "agents" /\ Parts!Agent!Next /\ UNCHANGED <<picked, Rest11, lanes>>

Behaviors == Initially /\ [][Step]_<<picked, shared, lanes>>

-----------------------------------------------------------------------------
(* Properties: those of the components, each where it applies.              *)

Of(key, P) == picked = key => P

\* Every variable keeps its type, in every component.
TypesHold ==
    /\ TypeOK
    /\ Of("actions", Actions!TypeOK) /\ Of("workers", Workers!TypeOK)
    /\ Of("delivery", Actions!Lane!TypeOK) /\ Of("dispatch", Actions!Dispatch!TypeOK)
    /\ Of("topics", Workers!Sender!TypeOK) /\ Of("router", Parts!Route!TypeOK) /\ Of("discovery", Parts!Found!TypeOK)
    /\ Of("turns", Workers!Cloud!TypeOK) /\ Of("album", Workers!Photos!TypeOK)
    /\ Of("poll", Parts!Thread!TypeOK) /\ Of("takeover", Parts!TypeOK) /\ Of("agents", Parts!Agent!TypeOK)

\* A pull request is merged, and a merge adopted, only for a head that the
\* reviewers of that very head let through, and a run is validated only by
\* somebody else on a green commit: in the durable controller and in the
\* in-process pipeline, whatever is pushed, lost or answered late; nor is the
\* workspace of a reviewer archived while the pipeline waits for it.
MergesAreEarned ==
    /\ MergeIsEarned /\ ValidationIsEarned
    /\ Of("delivery", Actions!Lane!MergeHasTwoFinals /\ Actions!Lane!AwaitedStays)

\* A lane gets one workspace and its prompt once; the ledger of the durable
\* lanes never holds two unresolved actions, unreadable answers included.
LanesGetOneOfEach == Of("dispatch", Actions!Dispatch!OneOfEach) /\ Of("actions", Actions!OneUnresolved)

\* No kind of gateway work runs more handlers than it has workers.
WorkersStayBounded == Of("workers", Workers!WorkersBounded)

\* No message lands in a topic behind one of newer work that lives there.
TopicsSpeakInTurn == [][Of("topics", Workers!Sender!SpeaksInTurn)]_<<picked, shared>>

\* A message in words is put to one router once, and is proposed the target
\* that the finished answer to that message names.
RoutedOnce == Of("router", Parts!Route!OwnAnswer /\ Parts!Route!SubmittedOnce /\ Parts!Route!OneRouter)

\* No workspace is followed under two records.
FollowedOnce == Of("discovery", Parts!Found!OneRecord)

\* A task goes on in one session at a time, whatever the poller had read before
\* the owner sent, stopped or the turn ended.
OneSessionWorks == Of("turns", Workers!Cloud!OneContinues)

\* A session is replaced only for a turn that failed, nothing is continued after
\* a stop, and no local process is started once a Stop has canceled its start.
RecoveryIsFenced ==
    [][/\ Of("turns", Workers!Cloud!ReplacesFailed /\ Workers!Cloud!LeavesStopped)
       /\ Of("agents", Parts!Agent!HoldsCanceled)]_<<picked, shared>>

\* Every file of an album is saved and submitted once, with all that were
\* collected beside it.
FilesGoOnce == Of("album", Workers!Photos!FilesOnce /\ Workers!Photos!SentWhole)

\* The bot starts one turn of a thread at a time, and skips no reply.
ThreadsAreFollowed == Of("poll", Parts!Thread!ThreadIsFollowed)

\* A request of a local run that failed reaches Cloud once, and not at all if
\* Stop found it in the outbox; two local processes never resume one
\* conversation.
LocalRunsGoOnce ==
    /\ Of("takeover", Parts!ReplayedOnce /\ Parts!QueuedStopHolds)
    /\ Of("agents", Parts!Agent!OneResume)

\* The bounds of the instances are what their modules assume.
ASSUME InstanceBounds ==
    /\ Workers!UpdatesAssumption /\ Workers!ProcsAssumption /\ Workers!RowsAssumption
    /\ Workers!KindsAssumption /\ Workers!LimitsAssumption
    /\ Actions!Lane!DeliveryBounds /\ Actions!Dispatch!DispatchBounds /\ Workers!Sender!DeliveryAssumption
    /\ Parts!Route!RouterAssumption /\ Parts!Found!DiscoveryAssumption /\ Workers!Cloud!CloudPollAssumption
    /\ Workers!Photos!AttachmentsAssumption /\ Parts!Thread!PollBounds
    /\ Actions!SizesAssumption /\ Actions!NamesAssumption
    /\ Parts!TakeoverBounds /\ Parts!Agent!AgentBounds
=============================================================================
