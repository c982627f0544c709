------------------------------ MODULE MCSettles -------------------------------
(***************************************************************************)
(* One run for what must eventually happen, in thirteen components, each in *)
(* a small instance of its own under the fairness of its module.  `picked`   *)
(* says which one a behavior is of, as in MCComponents; every formula is      *)
(* guarded by it, since the variables v1, v2, ... mean something else in     *)
(* the other components.                                                    *)
(***************************************************************************)
EXTENDS Integers, TLC

CONSTANTS p1, p2, NoProc, reply, NoThread

VARIABLES picked, v1, v2, v3, v4, v5, v6, v7, v8, v9, v10, v11, v12, v13, v14, v15, v16, v17, v18,
    v19, v20, v21, v22, v23, v24, v25

all == <<picked, v1, v2, v3, v4, v5, v6, v7, v8, v9, v10, v11, v12, v13, v14, v15, v16, v17, v18,
    v19, v20, v21, v22, v23, v24, v25>>

\* Constants of the instances that are functions.
Parents == reply :> 0
LaneOf == (0 :> "chat") @@ (reply :> "work")
KindOfLane == [l \in {"chat", "work"} |-> IF l = "chat" THEN "update" ELSE "cloud"]
PriorityOf == [l \in {"chat", "work"} |-> 10]
WorkersOf == [k \in {"update", "cloud"} |-> 2]
LaneWants == [l \in {"L1", "L2"} |-> "claude"]
LaneAfter == [l \in {"L1", "L2"} |-> {}]

-----------------------------------------------------------------------------
(* The instances.                                                           *)

Queue == INSTANCE GatewayQueue WITH Procs <- {p1, p2}, NoProc <- NoProc, NumUpdates <- 1,
    Jobs <- {reply}, Parent <- Parents, Lanes <- {"chat", "work"}, Lane <- LaneOf,
    Kinds <- {"update", "cloud"}, KindOf <- KindOfLane, Priority <- PriorityOf,
    Concurrency <- WorkersOf, FailureLimit <- 1, SlowAfter <- 1, MaxSetbacks <- 1,
    StartupMayStall <- FALSE, lease <- v1, pc <- v2, tasks <- v3, batch <- v4, rowid <- v5,
    lastRowid <- v6, state <- v7, ready <- v8, failures <- v9, transient <- v10, notices <- v11,
    offset <- v12, published <- v13, acked <- v14, setbacks <- v15

Turn == INSTANCE CloudTurn WITH NumTasks <- 2, Threads <- {}, Controls <- {"stop"},
    None <- NoThread, Providers <- 1, FailureLimit <- 2, MaxTrouble <- 1, state <- v1, at <- v2,
    call <- v3, tries <- v4, refusals <- v5, attempted <- v6, created <- v7, submitted <- v8,
    target <- v9, card <- v10, session <- v11, selected <- v12, stop <- v13, archived <- v14,
    orders <- v15, done <- v16, step <- v17, todo <- v18, makes <- v19, posts <- v20,
    lateMakes <- v21, latePosts <- v22, works <- v23, lifecycle <- v24, trouble <- v25

Starts == INSTANCE CloudPoll WITH MaxSends <- 1, Providers <- 2, Page <- 3, MaxFaults <- 1,
    MaxSleeps <- 0, Stops <- FALSE, ErrorClears <- FALSE, MaxTrouble <- 0, rows <- v1,
    asked <- v2, episode <- v3, pc <- v4, sess <- v5, cursor <- v6, tried <- v7, resumed <- v8,
    notices <- v9, current <- v10, stop <- v11, visit <- v12, transcript <- v13, work <- v14,
    waiting <- v15, err <- v16, asleep <- v17, outcome <- v18, used <- v19

Sleeps == INSTANCE CloudPoll WITH MaxSends <- 1, Providers <- 2, Page <- 3, MaxFaults <- 0,
    MaxSleeps <- 1, Stops <- FALSE, ErrorClears <- FALSE, MaxTrouble <- 0, rows <- v1,
    asked <- v2, episode <- v3, pc <- v4, sess <- v5, cursor <- v6, tried <- v7, resumed <- v8,
    notices <- v9, current <- v10, stop <- v11, visit <- v12, transcript <- v13, work <- v14,
    waiting <- v15, err <- v16, asleep <- v17, outcome <- v18, used <- v19

Router == INSTANCE RouterTurn WITH MaxRows <- 1, MaxRouters <- 2, MaxSessions <- 3,
    MaxFails <- 2, MaxGone <- 1, MaxTrouble <- 1, row <- v1, proposal <- v2, binding <- v3,
    made <- v4, opened <- v5, retired <- v6, healed <- v7, late <- v8, pc <- v9, home <- v10,
    alive <- v11, loose <- v12, transcript <- v13, working <- v14, used <- v15

Found == INSTANCE Discovery WITH MaxWorks <- 1, MaxLaunches <- 1, MaxRecords <- 2,
    MaxFails <- 1, MaxRenames <- 1, MaxTrouble <- 1, bound <- v1, known <- v2, archived <- v3,
    synced <- v4, topic <- v5, stop <- v6, order <- v7, launch <- v8, jobs <- v9, checks <- v10,
    state <- v11, key <- v12, early <- v13, used <- v14

Topics == INSTANCE TopicDelivery WITH MaxWorks <- 1, MaxTopics <- 2, MaxNotes <- 0,
    MaxEdits <- 2, MaxTries <- 2, MaxTouches <- 0, MaxLost <- 1, Deletes <- FALSE, rows <- v1,
    thread <- v2, life <- v3, required <- v4, link <- v5, replaced <- v6, call <- v7,
    topic <- v8, messages <- v9, known <- v10, used <- v11

Closed == INSTANCE TopicDelivery WITH MaxWorks <- 1, MaxTopics <- 2, MaxNotes <- 0,
    MaxEdits <- 1, MaxTries <- 2, MaxTouches <- 1, MaxLost <- 0, Deletes <- FALSE, rows <- v1,
    thread <- v2, life <- v3, required <- v4, link <- v5, replaced <- v6, call <- v7,
    topic <- v8, messages <- v9, known <- v10, used <- v11

Naming == INSTANCE WorkspaceNaming WITH MaxRenames <- 1, MaxOutside <- 1, MaxTrouble <- 1,
    TitleAttempts <- 2, remote <- v1, name <- v2, fence <- v3, tries <- v4, row <- v5,
    title <- v6, scan <- v7, edits <- v8, inFlight <- v9, topicName <- v10, asked <- v11,
    last <- v12, used <- v13

Album == INSTANCE Attachments WITH Album <- 2, MaxSettles <- 1, MaxCrashes <- 0,
    MaxTrouble <- 1, Stops <- FALSE, update <- v1, at <- v2, leader <- v3, joinable <- v4,
    settles <- v5, members <- v6, told <- v7, job <- v8, flight <- v9, failed <- v10,
    saved <- v11, turn <- v12, workers <- v13, attempted <- v14, sent <- v15, stop <- v16,
    gone <- v17, crashes <- v18, trouble <- v19

Poll == INSTANCE SessionPoll WITH MaxSends <- 2, MaxReplies <- 1, MaxStops <- 0,
    MaxRebuilds <- 1, MaxSetbacks <- 1, row <- v1, intent <- v2, cycle <- v3, cursor <- v4,
    log <- v5, epoch <- v6, agent <- v7, open <- v8, sender <- v9, wire <- v10, stop <- v11,
    poll <- v12, shown <- v13, lapsed <- v14, count <- v15

Takeover == INSTANCE LocalTakeover WITH MaxRequests <- 3, MaxStops <- 0, MaxTrouble <- 0,
    MaxWorked <- 1, row <- v1, saga <- v2, taker <- v3, request <- v4, told <- v5, outbox <- v6,
    outcome <- v7, wire <- v8, first <- v9, taken <- v10, count <- v11, ran <- v12,
    fenced <- v13

Stages == INSTANCE LaneStages WITH Rotation <- <<"claude", "codex">>, MaxPushes <- 2,
    MaxForeign <- 0, MaxRejects <- 1, MaxReruns <- 1, MaxTrouble <- 0, MaxAges <- 0, run <- v1,
    work <- v2, review <- v3, finals <- v4, checks <- v5, proof <- v6, ctl <- v7, down <- v8,
    host <- v9, votes <- v10, greens <- v11, count <- v12

Delivery == INSTANCE LaneDelivery WITH Rotation <- <<"claude", "codex", "cursor">>,
    Author <- "claude", HasReview <- FALSE, MaxPushes <- 2, MaxChanges <- 1, MaxSessions <- 7,
    MaxTrouble <- 0, state <- v1, spaces <- v2, desk <- v3, posts <- v4, author <- v5,
    host <- v6, out <- v7, tick <- v8, count <- v9

Dispatch == INSTANCE LaneDispatch WITH Lanes <- <<"L1", "L2">>, Providers <- <<"claude">>,
    Wants <- LaneWants, After <- LaneAfter, MaxActive <- 1, MaxNudges <- 2, MaxTrouble <- 1,
    space <- v1, ledger <- v2, paused <- v3, tick <- v4, made <- v5, asked <- v6, trouble <- v7

-----------------------------------------------------------------------------
(* What the component that is picked leaves alone.                          *)

Rest19 == <<v20, v21, v22, v23, v24, v25>>
Unused19 == v20 = 0 /\ v21 = 0 /\ v22 = 0 /\ v23 = 0 /\ v24 = 0 /\ v25 = 0
Rest15 == <<v16, v17, v18, v19, Rest19>>
Unused15 == v16 = 0 /\ v17 = 0 /\ v18 = 0 /\ v19 = 0 /\ Unused19
Rest14 == <<v15, Rest15>>
Unused14 == v15 = 0 /\ Unused15
Rest13 == <<v14, Rest14>>
Unused13 == v14 = 0 /\ Unused14
Rest12 == <<v13, Rest13>>
Unused12 == v13 = 0 /\ Unused13
Rest11 == <<v12, Rest12>>
Unused11 == v12 = 0 /\ Unused12
Rest9 == <<v10, v11, Rest11>>
Unused9 == v10 = 0 /\ v11 = 0 /\ Unused11
Rest7 == <<v8, v9, Rest9>>
Unused7 == v8 = 0 /\ v9 = 0 /\ Unused9

Initially ==
  \/ picked = "queue" /\ Queue!Init /\ Unused15
  \/ picked = "turn" /\ Turn!Init
  \/ picked = "starts" /\ Starts!Init /\ Unused19
  \/ picked = "sleeps" /\ Sleeps!Init /\ Unused19
  \/ picked = "router" /\ Router!Init /\ Unused15
  \/ picked = "discovery" /\ Found!Init /\ Unused14
  \/ picked = "topics" /\ Topics!Init /\ Unused11
  \/ picked = "closed" /\ Closed!Init /\ Unused11
  \/ picked = "naming" /\ Naming!Init /\ Unused13
  \/ picked = "album" /\ Album!Init /\ Unused19
  \/ picked = "poll" /\ Poll!Init /\ Unused15
  \/ picked = "takeover" /\ Takeover!Init /\ Unused13
  \/ picked = "stages" /\ Stages!Init /\ Unused12
  \/ picked = "delivery" /\ Delivery!Init /\ Unused9
  \/ picked = "dispatch" /\ Dispatch!Init /\ Unused7

Step ==
    \/ picked = "queue" /\ Queue!Next /\ UNCHANGED <<picked, Rest15>>
    \/ picked = "turn" /\ Turn!Next /\ UNCHANGED picked
    \/ picked = "starts" /\ Starts!Next /\ UNCHANGED <<picked, Rest19>>
    \/ picked = "sleeps" /\ Sleeps!Next /\ UNCHANGED <<picked, Rest19>>
    \/ picked = "router" /\ Router!Next /\ UNCHANGED <<picked, Rest15>>
    \/ picked = "discovery" /\ Found!Next /\ UNCHANGED <<picked, Rest14>>
    \/ picked = "topics" /\ Topics!Next /\ UNCHANGED <<picked, Rest11>>
    \/ picked = "closed" /\ Closed!Next /\ UNCHANGED <<picked, Rest11>>
    \/ picked = "naming" /\ Naming!Next /\ UNCHANGED <<picked, Rest13>>
    \/ picked = "album" /\ Album!Next /\ UNCHANGED <<picked, Rest19>>
    \/ picked = "poll" /\ Poll!Next /\ UNCHANGED <<picked, Rest15>>
    \/ picked = "takeover" /\ Takeover!Next /\ UNCHANGED <<picked, Rest13>>
    \/ picked = "stages" /\ Stages!Next /\ UNCHANGED <<picked, Rest12>>
    \/ picked = "delivery" /\ Delivery!Next /\ UNCHANGED <<picked, Rest9>>
    \/ picked = "dispatch" /\ Dispatch!Next /\ UNCHANGED <<picked, Rest7>>

Behaviors == Initially /\ [][Step]_all

-----------------------------------------------------------------------------
(* Fairness: that of each module, where it is picked.                       *)

QueueFair ==
  /\ \A p \in {p1, p2} :
       /\ WF_(Queue!vars)(picked = "queue" /\ Queue!Fetch(p)) /\ WF_(Queue!vars)(picked = "queue" /\ Queue!Ingest(p))
       /\ WF_(Queue!vars)(picked = "queue" /\ Queue!ReportBlocked(p)) /\ WF_(Queue!vars)(picked = "queue" /\ Queue!Enqueue(p, reply))
       /\ \A k \in {"update", "cloud"} : WF_(Queue!vars)(picked = "queue" /\ Queue!Tick(p, k))
       /\ \A r \in {0, reply} : WF_(Queue!vars)(picked = "queue" /\ Queue!EndTask(p, r))
  /\ \A r \in {0, reply} : WF_(Queue!vars)(picked = "queue" /\ Queue!Elapse(r))

TurnFair ==
  /\ \A t \in {0, 1} : WF_(Turn!vars)(picked = "turn" /\ Turn!Handle(t)) /\ WF_(Turn!vars)(picked = "turn" /\ Turn!Conductor(t))
  /\ WF_(Turn!vars)(picked = "turn" /\ Turn!HandleLaunch) /\ WF_(Turn!vars)(picked = "turn" /\ Turn!HandleOrder)
  /\ WF_(Turn!vars)(picked = "turn" /\ Turn!Prepare)

StartsFair ==
  /\ WF_(Starts!vars)(picked = "starts" /\ Starts!Handler)
  /\ WF_(Starts!vars)(picked = "starts" /\ Starts!Visit)
  /\ WF_(Starts!vars)(picked = "starts" /\ Starts!Woken)
  /\ \A s \in Starts!Sessions :
       /\ SF_(Starts!vars)(picked = "starts" /\ Starts!VisitStarts(s))
       /\ WF_(Starts!vars)(picked = "starts" /\ Starts!StopCancels(s))
       /\ WF_(Starts!vars)(picked = "starts" /\ Starts!AgentTakes(s))
       /\ WF_(Starts!vars)(picked = "starts" /\ Starts!AgentFinishes(s))

SleepsFair ==
  /\ WF_(Sleeps!vars)(picked = "sleeps" /\ Sleeps!Handler)
  /\ WF_(Sleeps!vars)(picked = "sleeps" /\ Sleeps!Visit)
  /\ WF_(Sleeps!vars)(picked = "sleeps" /\ Sleeps!Woken)
  /\ \A s \in Sleeps!Sessions :
       /\ WF_(Sleeps!vars)(picked = "sleeps" /\ Sleeps!VisitStarts(s))
       /\ SF_(Sleeps!vars)(picked = "sleeps" /\ Sleeps!VisitWakes(s))
       /\ WF_(Sleeps!vars)(picked = "sleeps" /\ Sleeps!StopCancels(s))
       /\ WF_(Sleeps!vars)(picked = "sleeps" /\ Sleeps!AgentTakes(s))
       /\ WF_(Sleeps!vars)(picked = "sleeps" /\ Sleeps!AgentFinishes(s))

RouterFair ==
  WF_(Router!vars)(picked = "router" /\ Router!Handler) /\ \A n \in Router!Rows : WF_(Router!vars)(picked = "router" /\ Router!LimitPasses(n))

DiscoveryFair ==
  /\ WF_(Found!vars)(picked = "discovery" /\ Found!ScanLists) /\ WF_(Found!vars)(picked = "discovery" /\ Found!Job)
  /\ \A r \in Found!Launches :
       WF_(Found!vars)(picked = "discovery" /\ Found!Launch(r)) /\ WF_(Found!vars)(picked = "discovery" /\ Found!CreateTaken(r))
  /\ \A r \in Found!Records :
       WF_(Found!vars)(picked = "discovery" /\ Found!OrderRuns(r)) /\ WF_(Found!vars)(picked = "discovery" /\ Found!PollRetires(r))

TopicsFair ==
  /\ WF_(Topics!vars)(picked = "topics" /\ Topics!AnyTick)
  /\ WF_(Topics!vars)(picked = "topics" /\ (Topics!TakeCreate \/ Topics!TakeTopicChange \/ Topics!TakeSend \/ Topics!TakeEdit))
  /\ WF_(Topics!vars)(picked = "topics" /\ (Topics!AnswerOk \/ Topics!AnswerUnchanged \/ Topics!AnswerRefused \/ Topics!AnswerTopicGone))

ClosedFair ==
  /\ WF_(Closed!vars)(picked = "closed" /\ Closed!AnyTick)
  /\ WF_(Closed!vars)(picked = "closed" /\ (Closed!TakeCreate \/ Closed!TakeTopicChange \/ Closed!TakeSend \/ Closed!TakeEdit))
  /\ WF_(Closed!vars)(picked = "closed" /\ (Closed!AnswerOk \/ Closed!AnswerUnchanged \/ Closed!AnswerRefused \/ Closed!AnswerTopicGone))

NamingFair ==
  /\ WF_(Naming!vars)(picked = "naming" /\ (Naming!RenameCalls \/ Naming!RenameTaken \/ Naming!RenameAnswered))
  /\ WF_(Naming!vars)(picked = "naming" /\ (Naming!TitleLooks \/ Naming!TitleRepairs \/ Naming!TitleSees \/ Naming!TitleTaken \/ Naming!TitleAnswered \/ Naming!RepairAnswered))
  /\ WF_(Naming!vars)(picked = "naming" /\ (Naming!ScanReads \/ Naming!ScanMirrors))
  /\ WF_(Naming!vars)(picked = "naming" /\ (Naming!EditStarts \/ Naming!EditLands))

AlbumFair ==
  /\ \A f \in Album!Files : WF_(Album!vars)(picked = "album" /\ Album!Update(f)) /\ WF_(Album!vars)(picked = "album" /\ Album!Media(f))
  /\ \A w \in Album!Workers : WF_(Album!vars)(picked = "album" /\ Album!Turn(w))

PollFair ==
  /\ WF_(Poll!vars)(picked = "poll" /\ (Poll!AgentStarts \/ Poll!AgentEnds \/ Poll!AgentReplies))
  /\ WF_(Poll!vars)(picked = "poll" /\ Poll!AgentEnds) /\ WF_(Poll!vars)(picked = "poll" /\ Poll!Accepted)
  /\ WF_(Poll!vars)(picked = "poll" /\ Poll!Stopping) /\ WF_(Poll!vars)(picked = "poll" /\ Poll!Poller) /\ WF_(Poll!vars)(picked = "poll" /\ Poll!Ages)
  /\ WF_(Poll!vars)(picked = "poll" /\ (Poll!SendLook \/ Poll!SendPost \/ Poll!SendAnswered \/ Poll!LeaseExpires))

TakeoverFair ==
  /\ WF_(Takeover!vars)(picked = "takeover" /\ Takeover!Takes) /\ WF_(Takeover!vars)(picked = "takeover" /\ Takeover!Polls)
  /\ WF_(Takeover!vars)(picked = "takeover" /\ Takeover!Flushes)
  /\ \A r \in Takeover!Requests :
       WF_(Takeover!vars)(picked = "takeover" /\ Takeover!SendSpawns(r)) /\ WF_(Takeover!vars)(picked = "takeover" /\ Takeover!ForwardReports(r))

StagesFair ==
  /\ WF_(Stages!vars)(picked = "stages" /\ Stages!Controller) /\ WF_(Stages!vars)(picked = "stages" /\ Stages!Prompts)
  /\ WF_(Stages!vars)(picked = "stages" /\ Stages!Answers) /\ WF_(Stages!vars)(picked = "stages" /\ Stages!CiDecides)
  /\ WF_(Stages!vars)(picked = "stages" /\ Stages!SweepHead) /\ WF_(Stages!vars)(picked = "stages" /\ Stages!WindowEnds)
  /\ WF_(Stages!vars)(picked = "stages" /\ Stages!ProvidersRecover)
  /\ WF_(Stages!vars)(picked = "stages" /\ Stages!OwnerConfirms)

DeliveryFair ==
  /\ WF_(Delivery!vars)(picked = "delivery" /\ Delivery!Tick) /\ WF_(Delivery!vars)(picked = "delivery" /\ Delivery!ReviewerPosts)
  /\ WF_(Delivery!vars)(picked = "delivery" /\ Delivery!ValidatorReports) /\ WF_(Delivery!vars)(picked = "delivery" /\ Delivery!AuthorEnds)
  /\ WF_(Delivery!vars)(picked = "delivery" /\ Delivery!OwnerConfirms)
  /\ WF_(Delivery!vars)(picked = "delivery" /\ Delivery!MergedCiPasses) /\ WF_(Delivery!vars)(picked = "delivery" /\ Delivery!OutageEnds)

DispatchFair ==
  /\ SF_(Dispatch!vars)(picked = "dispatch" /\ Dispatch!TickBegins) /\ WF_(Dispatch!vars)(picked = "dispatch" /\ Dispatch!Tick)
  /\ WF_(Dispatch!vars)(picked = "dispatch" /\ Dispatch!TurnEnds) /\ WF_(Dispatch!vars)(picked = "dispatch" /\ Dispatch!GapElapses)

-----------------------------------------------------------------------------
(* Properties.                                                              *)

At(key, P) == picked = key => P

\* Every update the owner sent, and every row the gateway queued for Conductor,
\* is done or reported as blocked, if one process keeps the lease from some time
\* on; and so is every task of a workspace's lane, and its Stop.
QueuedWorkSettles ==
  /\ QueueFair /\ (\E p \in {p1, p2} : <>[]At("queue", Queue!Holds(p))) =>
       <>[]At("queue", \A r \in {0, reply} : Queue!Owed(r) => Queue!Answered(r))
  /\ TurnFair =>
       <>[]At("turn", Turn!AllSettled)

\* Every turn recorded in Cloud comes to an end the owner is told of, the poller
\* losing nothing between a transcript and a status; every message in words is
\* routed, or the owner is asked; a workspace that stays is followed, and the
\* records of one that is gone are retired.
CloudWorkSettles ==
  /\ StartsFair => <>[]At("starts", Starts!AllSettled)
  /\ SleepsFair => <>[]At("sleeps", Sleeps!AllSettled)
  /\ RouterFair => <>[]At("router", Router!Routed)
  /\ DiscoveryFair =>
       /\ <>[]At("discovery", Found!Stays(1)) => []<>At("discovery", Found!Shown(1))
       /\ <>[]At("discovery", Found!Gone(1) => Found!PutAside(1))

\* Every row of the outbox is delivered, dropped for a newer one or blocked; the
\* topics of a retired workspace are closed; its card ends on the newest text; the
\* owner, Conductor and the topic agree on a workspace's name; and every file of
\* an album is sent, answered for, or was left out by an action already frozen.
MessagesArrive ==
  /\ TopicsFair => <>[]At("topics", Topics!AllDone /\ Topics!CardTells)
  /\ ClosedFair => <>[]At("closed", Closed!AllDone /\ Closed!RetiredPutAway)
  /\ NamingFair => <>[]At("naming", Naming!Agreed /\ Naming!FirstStands)
  /\ AlbumFair =>
       <>[]At("album", \A i \in Album!Files :
                        Album!Delivered(i) => Album!Answered(i) \/ Album!Forgotten(i))

\* The bot on one machine reads every reply of a thread and frees it for the next
\* message; every request of a local run that failed is answered for, and the
\* takeover's launch ends, unless a local handler writes over its row.
LocalRunsSettle ==
  /\ PollFair => []<>At("poll", Poll!CaughtUp) /\ []<>At("poll", Poll!Free)
  /\ TakeoverFair =>
       []<>At("takeover", /\ \A r \in Takeover!Requests : Takeover!Joined(r) => Takeover!Answers(r)
                          /\ ~Takeover!Ongoing \/ Takeover!Overwritten)

\* A lane ends validated or in quarantine, unless its checks stay red or its pull
\* request is closed under it; the in-process pipeline ends too, unless somebody
\* merges before it asks; and a lane whose first prompt failed gets it again.
LanesSettle ==
  /\ StagesFair => <>[]At("stages", Stages!Ended) \/ <>[]At("stages", Stages!Stalled)
  /\ DeliveryFair => <>[]At("delivery", Delivery!Ended) \/ <>[]At("delivery", Delivery!MergedByHand)
  /\ DispatchFair /\ []<>At("dispatch", Dispatch!Unpaused) =>
       \A l \in {"L1", "L2"} :
         (picked = "dispatch" /\ Dispatch!FirstFailed(l)) ~> At("dispatch", Dispatch!Reached(l))
=============================================================================
