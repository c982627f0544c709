--------------------------- MODULE ComponentsProofs ---------------------------
(***************************************************************************)
(* What MCComponents promises of the instances whose modules have proofs,  *)
(* for every value of their parameters.  A behavior is that of one         *)
(* component, which `picked' names and nothing changes; the invariant of   *)
(* that component's own proof holds in it.                                 *)
(***************************************************************************)
EXTENDS MCComponents, LaneStagesProofs

behavior == <<picked, shared, lanes>>

\* A step of the behavior is one of the component that is picked, or leaves it alone.
LEMMA EachGoesOn ==
  ASSUME [Step]_behavior
  PROVE  /\ picked' = "workers" => picked = "workers" /\ [Workers!Next]_(Workers!vars)
         /\ picked' = "actions" => picked = "actions" /\ [Actions!Next]_(Actions!vars)
         /\ picked' = "delivery" => picked = "delivery" /\ [Actions!Lane!Next]_(Actions!Lane!vars)
         /\ picked' = "dispatch" => picked = "dispatch" /\ [Actions!Dispatch!Next]_(Actions!Dispatch!vars)
         /\ picked' = "topics" => picked = "topics" /\ [Workers!Sender!Next]_(Workers!Sender!vars)
         /\ picked' = "router" => picked = "router" /\ [Parts!Route!Next]_(Parts!Route!vars)
         /\ picked' = "discovery" => picked = "discovery" /\ [Parts!Found!Next]_(Parts!Found!vars)
         /\ picked' = "turns" => picked = "turns" /\ [Workers!Cloud!Next]_(Workers!Cloud!vars)
         /\ picked' = "album" => picked = "album" /\ [Workers!Photos!Next]_(Workers!Photos!vars)
         /\ picked' = "poll" => picked = "poll" /\ [Parts!Thread!Next]_(Parts!Thread!vars)
         /\ picked' = "takeover" => picked = "takeover" /\ [Parts!Next]_(Parts!vars)
         /\ picked' = "agents" => picked = "agents" /\ [Parts!Agent!Next]_(Parts!Agent!vars)
<1>1. CASE Step
  BY <1>1 DEF Step
<1>2. CASE UNCHANGED behavior
  BY <1>2 DEF behavior, shared, Workers!vars, Workers!process, Workers!table, Workers!keys,
              Workers!telegram, Actions!vars, Actions!leasing, Actions!worker, Actions!store,
              Actions!outside, Actions!Lane!vars, Actions!Dispatch!vars, Workers!Sender!vars,
              Parts!Route!vars, Parts!Found!vars, Workers!Cloud!vars, Workers!Photos!vars,
              Workers!Photos!queue, Workers!Photos!media, Workers!Photos!turns, Parts!Thread!vars,
              Parts!vars, Parts!Agent!vars
<1> QED
  BY <1>1, <1>2

-----------------------------------------------------------------------------
(* The gateway's workers.                                                  *)

WorkersInv == Of("workers", Workers!IInv /\ Workers!Bounded)

\* The queue's own proof applies: no starting process of the instance stalls.
LEMMA WorkersInit == Initially => WorkersInv
<1> SUFFICES ASSUME Initially, picked = "workers" PROVE Workers!IInv /\ Workers!Bounded
  BY DEF WorkersInv, Of
<1>1. Workers!Init
  BY DEF Initially
<1> QED
  BY <1>1, InstanceBounds, Workers!InductiveInit, Workers!BoundedInit

LEMMA WorkersStep == WorkersInv /\ [Step]_behavior => WorkersInv'
<1> SUFFICES ASSUME WorkersInv, [Step]_behavior, picked' = "workers"
             PROVE  Workers!IInv' /\ Workers!Bounded'
  BY DEF WorkersInv, Of
<1>1. picked = "workers" /\ [Workers!Next]_(Workers!vars)
  BY EachGoesOn
<1>2. Workers!IInv /\ Workers!Bounded
  BY <1>1 DEF WorkersInv, Of
<1>3. Workers!IInv'
  BY <1>1, <1>2, InstanceBounds, Workers!InductiveStep
<1>4. Workers!Bounded'
  BY <1>1, <1>2, InstanceBounds, Workers!BoundedStep
<1> QED
  BY <1>3, <1>4

\* No kind of gateway work runs more handlers than it has workers, for any rows, lanes, kinds, workers and
\* processes that start, lose the lease and die.
THEOREM GatewayWorkersStayBounded == Behaviors => []WorkersStayBounded
<1>1. WorkersInv => WorkersStayBounded
  BY InstanceBounds, Workers!BoundedMeans DEF WorkersInv, WorkersStayBounded, Of
<1>2. WorkersInv /\ [Step]_<<picked, shared, lanes>> => WorkersInv'
  BY WorkersStep DEF behavior
<1> QED
  BY <1>1, <1>2, WorkersInit, PTL DEF Behaviors

-----------------------------------------------------------------------------
(* The local runs.                                                         *)

LocalInv == Of("takeover", Parts!IInv) /\ Of("agents", Parts!AgentInv)

LEMMA LocalInit == Initially => LocalInv
<1> SUFFICES ASSUME Initially PROVE LocalInv
  OBVIOUS
<1>1. /\ picked = "takeover" => Parts!Init
      /\ picked = "agents" => Parts!Agent!Init
  BY DEF Initially
<1> QED
  BY <1>1, Parts!TakeoverInit, Parts!AgentInit DEF LocalInv, Of

LEMMA LocalStep == LocalInv /\ [Step]_behavior => LocalInv'
<1> SUFFICES ASSUME LocalInv, [Step]_behavior PROVE LocalInv'
  OBVIOUS
<1>1. ASSUME picked' = "takeover" PROVE Parts!IInv'
  <2>1. picked = "takeover" /\ [Parts!Next]_(Parts!vars)
    BY <1>1, EachGoesOn
  <2> QED
    BY <2>1, Parts!TakeoverStep DEF LocalInv, Of
<1>2. ASSUME picked' = "agents" PROVE Parts!AgentInv'
  <2>1. picked = "agents" /\ [Parts!Agent!Next]_(Parts!Agent!vars)
    BY <1>2, EachGoesOn
  <2> QED
    BY <2>1, Parts!AgentStep DEF LocalInv, Of
<1> QED
  BY <1>1, <1>2 DEF LocalInv, Of

\* A request of a failed local run reaches Cloud once, and not at all once Stop found it queued; two local
\* processes never resume one conversation: for any prompts, agents, presses of Stop and failures.
THEOREM LocalRunsStayOnce == Behaviors => []LocalRunsGoOnce
<1>1. LocalInv => LocalRunsGoOnce
  <2>1. Parts!IInv => Parts!ReplayedOnce /\ Parts!QueuedStopHolds
    BY DEF Parts!IInv, Parts!Fenced, Parts!QueuedStopHolds
  <2>2. Parts!AgentInv => Parts!Agent!OneResume
    BY Parts!TokensMeanOne
  <2> QED
    BY <2>1, <2>2 DEF LocalInv, LocalRunsGoOnce, Of
<1>2. LocalInv /\ [Step]_<<picked, shared, lanes>> => LocalInv'
  BY LocalStep DEF behavior
<1> QED
  BY <1>1, <1>2, LocalInit, PTL DEF Behaviors

-----------------------------------------------------------------------------
(* The discovery of workspaces.                                            *)

FoundInv == Of("discovery", Parts!DiscoveryInv)

LEMMA FoundInit == Initially => FoundInv
<1> SUFFICES ASSUME Initially, picked = "discovery" PROVE Parts!DiscoveryInv
  BY DEF FoundInv, Of
<1>1. Parts!Found!Init
  BY DEF Initially
<1> QED
  BY <1>1, InstanceBounds, Parts!DiscoveryInit

LEMMA FoundStep == FoundInv /\ [Step]_behavior => FoundInv'
<1> SUFFICES ASSUME FoundInv, [Step]_behavior, picked' = "discovery" PROVE Parts!DiscoveryInv'
  BY DEF FoundInv, Of
<1>1. picked = "discovery" /\ [Parts!Found!Next]_(Parts!Found!vars)
  BY EachGoesOn
<1> QED
  BY <1>1, InstanceBounds, Parts!DiscoveryStep DEF FoundInv, Of

\* No workspace is followed under two records, for any workspaces, launches and records, whatever is
\* renamed or refused and however often the gateway starts again.
THEOREM WorkspacesAreFollowedOnce == Behaviors => []FollowedOnce
<1>1. FoundInv => FollowedOnce
  BY Parts!OneEachMeans DEF FoundInv, FollowedOnce, Of
<1>2. FoundInv /\ [Step]_<<picked, shared, lanes>> => FoundInv'
  BY FoundStep DEF behavior
<1> QED
  BY <1>1, <1>2, FoundInit, PTL DEF Behaviors

-----------------------------------------------------------------------------
(* The merges of the durable lanes and of the in-process pipeline.         *)

PipelineInv == Of("delivery", Actions!DeliveryInv)

LEMMA PipelineInit == Initially => PipelineInv
<1> SUFFICES ASSUME Initially, picked = "delivery" PROVE Actions!DeliveryInv
  BY DEF PipelineInv, Of
<1>1. Actions!Lane!Init
  BY DEF Initially
<1> QED
  BY <1>1, InstanceBounds, Actions!DeliveryInit

LEMMA PipelineStep == PipelineInv /\ [Step]_behavior => PipelineInv'
<1> SUFFICES ASSUME PipelineInv, [Step]_behavior, picked' = "delivery" PROVE Actions!DeliveryInv'
  BY DEF PipelineInv, Of
<1>1. picked = "delivery" /\ [Actions!Lane!Next]_(Actions!Lane!vars)
  BY EachGoesOn
<1> QED
  BY <1>1, InstanceBounds, Actions!DeliveryStep DEF PipelineInv, Of

\* A behavior of any component is one of the durable lanes, which the others leave alone.
LEMMA StagesGoOn == Behaviors => Spec
<1>1. Initially => Init
  BY DEF Initially
<1>2. [Step]_<<picked, shared, lanes>> => [Next]_vars
  BY DEF Step, lanes, vars
<1> QED
  BY <1>1, <1>2, PTL DEF Behaviors, Spec

\* A head is merged, and a merge adopted, only when the reviewers of that head let it through; a run is
\* validated by somebody else on a green commit; no workspace is archived while its answer is awaited: for
\* any providers, pushes, reviews, lost or late answers, and deaths of the worker.
THEOREM MergesStayEarned == Behaviors => []MergesAreEarned
<1>1. PipelineInv => Of("delivery", Actions!Lane!MergeHasTwoFinals /\ Actions!Lane!AwaitedStays)
  <2>1. Actions!DeliveryInv => Actions!Lane!AwaitedStays
    BY DEF Actions!DeliveryInv
  <2> QED
    BY <2>1, InstanceBounds, Actions!TwoApprovals DEF PipelineInv, Of
<1>2. PipelineInv /\ [Step]_<<picked, shared, lanes>> => PipelineInv'
  BY PipelineStep DEF behavior
<1>3. MergeIsEarned /\ ValidationIsEarned
        /\ Of("delivery", Actions!Lane!MergeHasTwoFinals /\ Actions!Lane!AwaitedStays) => MergesAreEarned
  BY DEF MergesAreEarned
<1> QED
  BY <1>1, <1>2, <1>3, PipelineInit, StagesGoOn, MergesAreApproved, ValidationsAreProved, PTL DEF Behaviors

-----------------------------------------------------------------------------
(* The dispatch of the in-process lanes and the ledger of the durable ones. *)

GivingInv == Of("dispatch", Actions!DispatchInv) /\ Of("actions", Actions!Types /\ Actions!Fencing)

LEMMA GivingInit == Initially => GivingInv
<1> SUFFICES ASSUME Initially PROVE GivingInv
  OBVIOUS
<1>1. /\ picked = "dispatch" => Actions!Dispatch!Init
      /\ picked = "actions" => Actions!Init
  BY DEF Initially
<1> QED
  BY <1>1, InstanceBounds, Actions!DispatchInit, Actions!InitTypes, Actions!InitFencing DEF GivingInv, Of

LEMMA GivingStep == GivingInv /\ [Step]_behavior => GivingInv'
<1> SUFFICES ASSUME GivingInv, [Step]_behavior PROVE GivingInv'
  OBVIOUS
<1>1. ASSUME picked' = "dispatch" PROVE Actions!DispatchInv'
  <2>1. picked = "dispatch" /\ [Actions!Dispatch!Next]_(Actions!Dispatch!vars)
    BY <1>1, EachGoesOn
  <2> QED
    BY <2>1, InstanceBounds, Actions!DispatchStep DEF GivingInv, Of
<1>2. ASSUME picked' = "actions" PROVE Actions!Types' /\ Actions!Fencing'
  <2>1. picked = "actions" /\ [Actions!Next]_(Actions!vars)
    BY <1>2, EachGoesOn
  <2> QED
    BY <2>1, InstanceBounds, Actions!NextTypes, Actions!NextFencing DEF GivingInv, Of
<1> QED
  BY <1>1, <1>2 DEF GivingInv, Of

\* A lane gets one workspace and one first prompt, and the durable lanes' ledger never holds two unresolved
\* actions: for any lanes, providers, sites and runs, whatever answers are lost or cannot be read.
THEOREM LanesStayOneOfEach == Behaviors => []LanesGetOneOfEach
<1>1. GivingInv => LanesGetOneOfEach
  <2>1. Actions!DispatchInv => Actions!Dispatch!OneOfEach
    BY InstanceBounds, Actions!DispatchMeans
  <2> QED
    BY <2>1 DEF Actions!Fencing, GivingInv, LanesGetOneOfEach, Of
<1>2. GivingInv /\ [Step]_<<picked, shared, lanes>> => GivingInv'
  BY GivingStep DEF behavior
<1> QED
  BY <1>1, <1>2, GivingInit, PTL DEF Behaviors
-----------------------------------------------------------------------------
(* The files of an album.                                                  *)

PhotosInv == Of("album", Workers!AlbumInv)

LEMMA PhotosInit == Initially => PhotosInv
<1> SUFFICES ASSUME Initially, picked = "album" PROVE Workers!AlbumInv
  BY DEF PhotosInv, Of
<1>1. Workers!Photos!Init
  BY DEF Initially
<1> QED
  BY <1>1, InstanceBounds, Workers!AlbumInit

LEMMA PhotosStep == PhotosInv /\ [Step]_behavior => PhotosInv'
<1> SUFFICES ASSUME PhotosInv, [Step]_behavior, picked' = "album" PROVE Workers!AlbumInv'
  BY DEF PhotosInv, Of
<1>1. picked = "album" /\ [Workers!Photos!Next]_(Workers!Photos!vars)
  BY EachGoesOn
<1> QED
  BY <1>1, InstanceBounds, Workers!AlbumStep DEF PhotosInv, Of

\* Every file of an album is saved and submitted once, with all that were collected beside it, for any
\* number of files, waits, restarts and failures.
THEOREM FilesStaySentOnce == Behaviors => []FilesGoOnce
<1>1. PhotosInv => FilesGoOnce
  BY InstanceBounds, Workers!AlbumMeans DEF PhotosInv, FilesGoOnce, Of
<1>2. PhotosInv /\ [Step]_<<picked, shared, lanes>> => PhotosInv'
  BY PhotosStep DEF behavior
<1> QED
  BY <1>1, <1>2, PhotosInit, PTL DEF Behaviors
-----------------------------------------------------------------------------
(* The router of messages in words.                                        *)

RoutingInv == Of("router", Parts!RouterInv)

LEMMA RoutingInit == Initially => RoutingInv
<1> SUFFICES ASSUME Initially, picked = "router" PROVE Parts!RouterInv
  BY DEF RoutingInv, Of
<1>1. Parts!Route!Init
  BY DEF Initially
<1> QED
  BY <1>1, InstanceBounds, Parts!RouterInit

LEMMA RoutingStep == RoutingInv /\ [Step]_behavior => RoutingInv'
<1> SUFFICES ASSUME RoutingInv, [Step]_behavior, picked' = "router" PROVE Parts!RouterInv'
  BY DEF RoutingInv, Of
<1>1. picked = "router" /\ [Parts!Route!Next]_(Parts!Route!vars)
  BY EachGoesOn
<1> QED
  BY <1>1, InstanceBounds, Parts!RouterStep DEF RoutingInv, Of

\* A message in words is put to one router once, and is proposed the target that the finished answer to
\* that message names, for any messages, routers, sessions, removals and creations that happen late.
THEOREM MessagesStayRoutedOnce == Behaviors => []RoutedOnce
<1>1. RoutingInv => RoutedOnce
  BY InstanceBounds, Parts!RouterMeans DEF RoutingInv, RoutedOnce, Of
<1>2. RoutingInv /\ [Step]_<<picked, shared, lanes>> => RoutingInv'
  BY RoutingStep DEF behavior
<1> QED
  BY <1>1, <1>2, RoutingInit, PTL DEF Behaviors
-----------------------------------------------------------------------------
(* The thread that the bot follows.                                        *)

FollowingInv == Of("poll", Parts!ThreadInv)

LEMMA FollowingInit == Initially => FollowingInv
<1> SUFFICES ASSUME Initially, picked = "poll" PROVE Parts!ThreadInv
  BY DEF FollowingInv, Of
<1>1. Parts!Thread!Init
  BY DEF Initially
<1> QED
  BY <1>1, InstanceBounds, Parts!ThreadInit

LEMMA FollowingStep == FollowingInv /\ [Step]_behavior => FollowingInv'
<1> SUFFICES ASSUME FollowingInv, [Step]_behavior, picked' = "poll" PROVE Parts!ThreadInv'
  BY DEF FollowingInv, Of
<1>1. picked = "poll" /\ [Parts!Thread!Next]_(Parts!Thread!vars)
  BY EachGoesOn
<1> QED
  BY <1>1, InstanceBounds, Parts!ThreadStep DEF FollowingInv, Of

\* One turn is open in a thread at a time, and every reply behind its cursor was forwarded or passed over by
\* a cursor set anew, for any messages, replies, stops, rebuilt transcripts, failures and deaths.
THEOREM ThreadsStayFollowed == Behaviors => []ThreadsAreFollowed
<1>1. FollowingInv => ThreadsAreFollowed
  BY InstanceBounds, Parts!ThreadMeans DEF FollowingInv, ThreadsAreFollowed, Of
<1>2. FollowingInv /\ [Step]_<<picked, shared, lanes>> => FollowingInv'
  BY FollowingStep DEF behavior
<1> QED
  BY <1>1, <1>2, FollowingInit, PTL DEF Behaviors
-----------------------------------------------------------------------------
(* The sessions of a cloud workspace and the starts of local processes.    *)

SessionsInv == Of("turns", Workers!CloudInv)

LEMMA SessionsInit == Initially => SessionsInv
<1> SUFFICES ASSUME Initially, picked = "turns" PROVE Workers!CloudInv
  BY DEF SessionsInv, Of
<1>1. Workers!Cloud!Init
  BY DEF Initially
<1> QED
  BY <1>1, InstanceBounds, Workers!CloudInit

LEMMA SessionsStep ==
  ASSUME TurnErrorsClear = TRUE, SessionsInv, [Step]_behavior
  PROVE  SessionsInv'
<1> SUFFICES ASSUME picked' = "turns" PROVE Workers!CloudInv'
  BY DEF SessionsInv, Of
<1> QED
  BY EachGoesOn, InstanceBounds, Workers!CloudStep DEF SessionsInv, Of

\* A task goes on in one session at a time, for any sends, providers, page, faults, lost answers and Stops,
\* as long as Conductor drops the error of a session once a message waits in it.
THEOREM OneSessionStays ==
  ASSUME TurnErrorsClear = TRUE
  PROVE  Behaviors => []OneSessionWorks
<1>1. SessionsInv => OneSessionWorks
  BY InstanceBounds, Workers!CloudMeans DEF SessionsInv, OneSessionWorks, Of
<1>2. SessionsInv /\ [Step]_<<picked, shared, lanes>> => SessionsInv'
  BY SessionsStep DEF behavior
<1> QED
  BY <1>1, <1>2, SessionsInit, PTL DEF Behaviors

\* A session is replaced only for a turn that failed, nothing is continued after a stop, and no local
\* process is started once a Stop has canceled its start: for any of their parameters, under the same
\* condition on Conductor.
THEOREM RecoveryStaysFenced ==
  ASSUME TurnErrorsClear = TRUE
  PROVE  Behaviors => RecoveryIsFenced
<1>1. SessionsInv /\ LocalInv /\ [Step]_<<picked, shared, lanes>>
        => [/\ Of("turns", Workers!Cloud!ReplacesFailed /\ Workers!Cloud!LeavesStopped)
            /\ Of("agents", Parts!Agent!HoldsCanceled)]_<<picked, shared>>
  <2> SUFFICES ASSUME SessionsInv, LocalInv, Step
               PROVE  /\ Of("turns", Workers!Cloud!ReplacesFailed /\ Workers!Cloud!LeavesStopped)
                      /\ Of("agents", Parts!Agent!HoldsCanceled)
    BY DEF shared
  <2>1. ASSUME picked = "turns" PROVE Workers!Cloud!ReplacesFailed /\ Workers!Cloud!LeavesStopped
    <3>1. Workers!Cloud!Next /\ Workers!CloudInv
      BY <2>1 DEF Step, SessionsInv, Of
    <3> QED
      BY <3>1, InstanceBounds, Workers!CloudReplaces, Workers!CloudStops
  <2>2. ASSUME picked = "agents" PROVE Parts!Agent!HoldsCanceled
    <3>1. Parts!Agent!Next /\ Parts!AgentInv
      BY <2>2 DEF Step, LocalInv, Of
    <3> QED
      BY <3>1, InstanceBounds, Parts!StartsHold
  <2> QED
    BY <2>1, <2>2 DEF Of
<1>2. SessionsInv /\ LocalInv /\ [Step]_<<picked, shared, lanes>> => (SessionsInv /\ LocalInv)'
  BY SessionsStep, LocalStep DEF behavior
<1> QED
  BY <1>1, <1>2, SessionsInit, LocalInit, PTL DEF Behaviors, RecoveryIsFenced
-----------------------------------------------------------------------------
(* The delivery to Telegram's topics.                                      *)

TopicsInv == Of("topics", Workers!PostInv)

LEMMA TopicsInit == Initially => TopicsInv
<1> SUFFICES ASSUME Initially, picked = "topics" PROVE Workers!PostInv
  BY DEF TopicsInv, Of
<1>1. Workers!Sender!Init
  BY DEF Initially
<1> QED
  BY <1>1, InstanceBounds, Workers!PostInit

LEMMA TopicsStep == TopicsInv /\ [Step]_behavior => TopicsInv'
<1> SUFFICES ASSUME TopicsInv, [Step]_behavior, picked' = "topics" PROVE Workers!PostInv'
  BY DEF TopicsInv, Of
<1> QED
  BY EachGoesOn, InstanceBounds, Workers!PostStep DEF TopicsInv, Of

\* No message lands in a topic behind one of newer work that lives there, for any work, topics, messages,
\* updates of cards, lost answers, and topics that the owner closes or deletes.
THEOREM TopicsStayInTurn == Behaviors => TopicsSpeakInTurn
<1>1. TopicsInv /\ [Step]_<<picked, shared, lanes>>
        => [Of("topics", Workers!Sender!SpeaksInTurn)]_<<picked, shared>>
  <2> SUFFICES ASSUME TopicsInv, Step, picked = "topics"
               PROVE  Workers!Sender!SpeaksInTurn
    BY DEF shared, Of
  <2>1. Workers!Sender!Next /\ Workers!PostInv
    BY DEF Step, TopicsInv, Of
  <2> QED
    BY <2>1, InstanceBounds, Workers!PostSpeaks
<1>2. TopicsInv /\ [Step]_<<picked, shared, lanes>> => TopicsInv'
  BY TopicsStep DEF behavior
<1> QED
  BY <1>1, <1>2, TopicsInit, PTL DEF Behaviors, TopicsSpeakInTurn
-----------------------------------------------------------------------------
(* The types of every component: those of the workers and of the ledger are *)
(* part of their invariants, those of the delivery to topics and of the     *)
(* durable lanes follow from them, and the others need what is known        *)
(* besides, of counters, of numbers handed out and of what was given up.    *)

Typed ==
    /\ Of("takeover", Parts!TypeOK) /\ Of("agents", Parts!AgentTyped)
    /\ Of("discovery", Parts!FoundTyped) /\ Of("router", Parts!RouteTyped)
    /\ Of("poll", Parts!ThreadTyped) /\ Of("album", Workers!AlbumBounds)
    /\ Of("turns", Workers!ChatTyped)
    /\ Of("delivery", Actions!MergedKnown) /\ Of("dispatch", Actions!LostKnown)

AllInv == /\ WorkersInv /\ LocalInv /\ FoundInv /\ PipelineInv /\ GivingInv /\ PhotosInv
          /\ RoutingInv /\ FollowingInv /\ SessionsInv /\ TopicsInv

LEMMA AllInit == Initially => AllInv
  BY WorkersInit, LocalInit, FoundInit, PipelineInit, GivingInit, PhotosInit, RoutingInit, FollowingInit,
     SessionsInit, TopicsInit DEF AllInv

LEMMA AllStep == ASSUME TurnErrorsClear = TRUE, AllInv, [Step]_behavior PROVE AllInv'
  BY WorkersStep, LocalStep, FoundStep, PipelineStep, GivingStep, PhotosStep, RoutingStep, FollowingStep,
     SessionsStep, TopicsStep DEF AllInv

LEMMA TypedInit == Initially => Typed
<1> SUFFICES ASSUME Initially PROVE Typed
  OBVIOUS
<1>1. /\ picked = "takeover" => Parts!Init
      /\ picked = "agents" => Parts!Agent!Init
      /\ picked = "discovery" => Parts!Found!Init
      /\ picked = "router" => Parts!Route!Init
      /\ picked = "poll" => Parts!Thread!Init
      /\ picked = "album" => Workers!Photos!Init
      /\ picked = "turns" => Workers!Cloud!Init
      /\ picked = "delivery" => Actions!Lane!Init
      /\ picked = "dispatch" => Actions!Dispatch!Init
  BY DEF Initially
<1>2. /\ Of("takeover", Parts!TypeOK) /\ Of("agents", Parts!AgentTyped)
      /\ Of("discovery", Parts!FoundTyped) /\ Of("router", Parts!RouteTyped)
      /\ Of("poll", Parts!ThreadTyped)
  BY <1>1, InstanceBounds, Parts!TakeoverTypedInit, Parts!AgentTypedInit, Parts!FoundTypedInit,
     Parts!RouteTypedInit, Parts!ThreadTypedInit DEF Of
<1>3. Of("album", Workers!AlbumBounds) /\ Of("turns", Workers!ChatTyped)
  BY <1>1, InstanceBounds, Workers!AlbumBoundsInit, Workers!ChatTypedInit DEF Of
<1>4. Of("delivery", Actions!MergedKnown) /\ Of("dispatch", Actions!LostKnown)
  BY <1>1, InstanceBounds, Actions!MergedKnownInit, Actions!LostKnownInit DEF Of
<1> QED
  BY <1>2, <1>3, <1>4 DEF Typed

LEMMA TypedStep ==
  ASSUME TurnErrorsClear = TRUE, AllInv, AllInv', Typed, [Step]_behavior
  PROVE  Typed'
<1>1. ASSUME picked' = "takeover" PROVE Parts!TypeOK'
  <2>1. Parts!IInv /\ Parts!TypeOK /\ [Parts!Next]_(Parts!vars)
    BY <1>1, EachGoesOn DEF AllInv, LocalInv, Typed, Of
  <2> QED
    BY <2>1, InstanceBounds, Parts!TakeoverTypedStep
<1>2. ASSUME picked' = "agents" PROVE Parts!AgentTyped'
  <2>1. Parts!AgentInv /\ Parts!AgentTyped /\ [Parts!Agent!Next]_(Parts!Agent!vars)
    BY <1>2, EachGoesOn DEF AllInv, LocalInv, Typed, Of
  <2> QED
    BY <2>1, InstanceBounds, Parts!AgentTypedStep
<1>3. ASSUME picked' = "discovery" PROVE Parts!FoundTyped'
  <2>1. Parts!DiscoveryInv /\ Parts!FoundTyped /\ [Parts!Found!Next]_(Parts!Found!vars)
    BY <1>3, EachGoesOn DEF AllInv, FoundInv, Typed, Of
  <2> QED
    BY <2>1, InstanceBounds, Parts!FoundTypedStep
<1>4. ASSUME picked' = "router" PROVE Parts!RouteTyped'
  <2>1. Parts!RouterInv /\ Parts!RouteTyped /\ [Parts!Route!Next]_(Parts!Route!vars)
    BY <1>4, EachGoesOn DEF AllInv, RoutingInv, Typed, Of
  <2> QED
    BY <2>1, InstanceBounds, Parts!RouteTypedStep
<1>5. ASSUME picked' = "poll" PROVE Parts!ThreadTyped'
  <2>1. Parts!ThreadInv /\ Parts!ThreadTyped /\ [Parts!Thread!Next]_(Parts!Thread!vars)
    BY <1>5, EachGoesOn DEF AllInv, FollowingInv, Typed, Of
  <2> QED
    BY <2>1, InstanceBounds, Parts!ThreadTypedStep
<1>6. ASSUME picked' = "album" PROVE Workers!AlbumBounds'
  <2>1. Workers!AlbumInv /\ Workers!AlbumBounds /\ [Workers!Photos!Next]_(Workers!Photos!vars)
    BY <1>6, EachGoesOn DEF AllInv, PhotosInv, Typed, Of
  <2> QED
    BY <2>1, InstanceBounds, Workers!AlbumBoundsStep
<1>7. ASSUME picked' = "turns" PROVE Workers!ChatTyped'
  <2>1. Workers!CloudInv /\ Workers!ChatTyped /\ [Workers!Cloud!Next]_(Workers!Cloud!vars)
    BY <1>7, EachGoesOn DEF AllInv, SessionsInv, Typed, Of
  <2> QED
    BY <2>1, InstanceBounds, Workers!ChatTypedStep
<1>8. ASSUME picked' = "delivery" PROVE Actions!MergedKnown'
  <2>1. /\ Actions!DeliveryInv /\ Actions!DeliveryInv' /\ Actions!MergedKnown
        /\ [Actions!Lane!Next]_(Actions!Lane!vars)
    BY <1>8, EachGoesOn DEF AllInv, PipelineInv, Typed, Of
  <2> QED
    BY <2>1, InstanceBounds, Actions!MergedKnownStep
<1>9. ASSUME picked' = "dispatch" PROVE Actions!LostKnown'
  <2>1. Actions!LostKnown /\ [Actions!Dispatch!Next]_(Actions!Dispatch!vars)
    BY <1>9, EachGoesOn DEF Typed, Of
  <2> QED
    BY <2>1, InstanceBounds, Actions!LostKnownStep
<1> QED
  BY <1>1, <1>2, <1>3, <1>4, <1>5, <1>6, <1>7, <1>8, <1>9 DEF Typed, Of

LEMMA TypedMeans ==
  ASSUME AllInv, Typed, TypeOK
  PROVE  TypesHold
<1>1. Of("workers", Workers!TypeOK) /\ Of("actions", Actions!TypeOK)
  BY DEF AllInv, WorkersInv, GivingInv, Workers!IInv, Actions!Types, Of
<1>2. Of("delivery", Actions!Lane!TypeOK) /\ Of("dispatch", Actions!Dispatch!TypeOK)
  BY InstanceBounds, Actions!DeliveryTypes, Actions!DispatchTyped
  DEF AllInv, PipelineInv, GivingInv, Typed, Of
<1>3. Of("topics", Workers!Sender!TypeOK) /\ Of("album", Workers!Photos!TypeOK)
  BY InstanceBounds, Workers!PostTyped, Workers!AlbumTyped DEF AllInv, TopicsInv, PhotosInv, Typed, Of
<1>4. Of("turns", Workers!Cloud!TypeOK)
  BY InstanceBounds, Workers!ChatTypes DEF AllInv, SessionsInv, Typed, Of
<1>5. Of("router", Parts!Route!TypeOK) /\ Of("discovery", Parts!Found!TypeOK)
  BY InstanceBounds, Parts!RouteTypes, Parts!FoundTypes DEF AllInv, RoutingInv, FoundInv, Typed, Of
<1>6. Of("poll", Parts!Thread!TypeOK)
  BY InstanceBounds, Parts!ThreadTypes DEF AllInv, FollowingInv, Typed, Of
<1>7. Of("takeover", Parts!TypeOK) /\ Of("agents", Parts!Agent!TypeOK)
  BY DEF Typed, Parts!AgentTyped, Of
<1> QED
  BY <1>1, <1>2, <1>3, <1>4, <1>5, <1>6, <1>7 DEF TypesHold

\* Every variable of every component keeps its type, for any of their parameters: what is recorded speaks of
\* rows, turns, runs and messages that were handed out, and of providers, places and states that there are,
\* as long as Conductor drops the error of a session once a message waits in it.
THEOREM TypesStay ==
  ASSUME TurnErrorsClear = TRUE
  PROVE  Behaviors => []TypesHold
<1>1. AllInv /\ Typed /\ [Step]_<<picked, shared, lanes>> => (AllInv /\ Typed)'
  BY AllStep, TypedStep DEF behavior
<1>2. Initially => AllInv /\ Typed
  BY AllInit, TypedInit
<1>3. AllInv /\ Typed /\ TypeOK => TypesHold
  BY TypedMeans
<1>4. Behaviors => [](AllInv /\ Typed)
  BY <1>1, <1>2, PTL DEF Behaviors
<1> QED
  BY <1>3, <1>4, StagesGoOn, TypeCorrect, PTL
===============================================================================
