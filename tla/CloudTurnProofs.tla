-------------------------- MODULE CloudTurnProofs ---------------------------
(***************************************************************************)
(* What CloudTurn promises for any number of rows, threads and providers,  *)
(* and any number of crashes, timeouts and lost answers.                   *)
(***************************************************************************)
EXTENDS CloudTurn, TLAPS

LEMMA LaunchIsTask == Launch \in Tasks /\ Makers \subseteq Tasks
  BY TasksAssumption DEF Launch, Tasks, Makers

-----------------------------------------------------------------------------
(* Who leaves what alone.                                                  *)

LEMMA HandleFrame ==
  ASSUME NEW t \in Tasks, Handle(t)
  PROVE  /\ UNCHANGED <<remote, trouble, control, stop>>
         /\ ~ThreadMade(t) /\ ~Gone(t) => UNCHANGED <<binding, fence>>
  BY DEF Handle, ClaimStopped, ClaimUnavailable, Claim, ThreadMade, MatchFails, RateLimited, ProviderRejected,
         CreationRefused, Gone, Retire, StartSend, Found, Submit, Accepted, NotAccepted, Cancelled, fence

LEMMA LaunchFrame ==
  ASSUME HandleLaunch
  PROVE  /\ UNCHANGED <<remote, trouble, counts, submitted, target, fence, done, step, todo>>
         /\ ~Bind => UNCHANGED <<binding, orders>>
  BY DEF HandleLaunch, Resolve, WorkspaceMade, Preparing, Bind, intents, control

OrderSteps == HandleOrder \/ OrderGivesUp \/ PollRetires \/ \E c \in Controls : Order(c)

LEMMA OrderFrame ==
  ASSUME OrderSteps
  PROVE  UNCHANGED <<handlers, counts, intents, target, card, binding, makes, posts, lateMakes, latePosts>>
  BY DEF OrderSteps, HandleOrder, OrderUnbound, ListSessions, CancelSession, Confirm, OrderDone, ArchiveWorkspace,
         Archived, OrderGivesUp, PollRetires, Order, remote

ConductorSteps(t) == Conductor(t) \/ LandMake(t) \/ LandPost(t) \/ Finish(t) \/ Prepare \/ Remove

LEMMA ConductorFrame ==
  ASSUME NEW t \in Tasks, ConductorSteps(t)
  PROVE  UNCHANGED <<state, at, counts, intents, target, card, binding, fence, control>>
  BY DEF ConductorSteps, Conductor, Make, Accept, Refuse, Search, Cancel, LandMake, LandPost, Finish, Prepare,
         Remove, handlers

\* Every step is one of these.
LEMMA Steps ==
  ASSUME Next
  PROVE  \/ \E t \in Tasks : Queue(t) \/ Handle(t) \/ GiveUp(t) \/ ConductorSteps(t)
         \/ \E m \in Makers : Select(m)
         \/ HandleLaunch \/ OrderSteps \/ Crash
  BY LaunchIsTask DEF Next, OrderSteps, ConductorSteps

-----------------------------------------------------------------------------
(* Type correctness, by groups of variables.                               *)

LEMMA TypeInit == Init => TypeOK
<1>1. Init => QueueTypes
  BY DEF Init, QueueTypes
<1>2. Init => IntentTypes
  BY DEF Init, IntentTypes
<1>3. Init => ControlTypes
  <2>1. Init => orders \in Seq(Orders)
    BY DEF Init
  <2>2. Init => session \in Makers \cup {None} /\ selected \in Makers \cup {None} /\ stop \in BOOLEAN /\ archived \in BOOLEAN
    BY DEF Init
  <2>3. Init => done \in Nat /\ step \in {"-", "cancel", "confirm", "retire"} /\ todo \subseteq Makers
    BY DEF Init
  <2>4. QED
    BY <2>1, <2>2, <2>3 DEF ControlTypes
<1>4. Init => RemoteTypes
  BY DEF Init, RemoteTypes
<1>5. QED
  BY <1>1, <1>2, <1>3, <1>4 DEF TypeOK

\* A handler that waits, ends or fails keeps the types of its row.
LEMMA WaitTypes ==
  ASSUME QueueTypes, NEW t \in Tasks, Wait(t, "create") \/ Wait(t, "match") \/ Wait(t, "check") \/ Wait(t, "status")
                                       \/ Wait(t, "find") \/ Wait(t, "submit") \/ Wait(t, "cancel") \/ Wait(t, "resolve")
  PROVE  at' \in [Tasks -> {"-", "resolve", "create", "match", "check", "status", "find", "submit", "cancel"}]
         /\ call' \in [Tasks -> {"none", "asked", "ok", "missing", "busy", "refused", "provider"}]
  BY DEF Wait, QueueTypes

LEMMA EndTypes ==
  ASSUME QueueTypes, NEW t \in Tasks, End(t, "pending") \/ End(t, "done") \/ End(t, "blocked"), UNCHANGED counts
  PROVE  QueueTypes'
  BY DEF End, QueueTypes, counts

LEMMA FailTypes ==
  ASSUME QueueTypes, NEW t \in Tasks, Fails(t)
  PROVE  QueueTypes'
  BY DEF Fails, End, QueueTypes

LEMMA QueueTypesStep == TypeOK /\ [Next]_vars => QueueTypes'
<1> SUFFICES ASSUME TypeOK, [Next]_vars PROVE QueueTypes'
  OBVIOUS
<1> USE DEF TypeOK
<1>1. ASSUME NEW t \in Tasks, Queue(t) PROVE QueueTypes'
  BY <1>1 DEF Queue, QueueTypes, counts
<1>2. ASSUME NEW t \in Tasks, GiveUp(t) PROVE QueueTypes'
  BY <1>2, EndTypes, FailTypes DEF GiveUp
<1>3. ASSUME NEW t \in Tasks, Handle(t) PROVE QueueTypes'
  <2>1. CASE ClaimStopped(t) \/ ClaimUnavailable(t) \/ RateLimited(t) \/ CreationRefused(t) \/ Cancelled(t)
    BY <2>1, EndTypes DEF ClaimStopped, ClaimUnavailable, RateLimited, CreationRefused, Cancelled
  <2>2. CASE Claim(t)
    <3>1. Wait(t, "create") \/ Wait(t, "match") \/ Wait(t, "status") \/ Wait(t, "resolve")
      BY <2>2 DEF Claim, StartMaking
    <3>2. QED
      BY <2>2, <3>1, WaitTypes DEF Claim, QueueTypes, counts
  <2>3. CASE ThreadMade(t)
    BY <2>3, WaitTypes DEF ThreadMade, QueueTypes, counts
  <2>4. CASE MatchFails(t)
    BY <2>4, FailTypes DEF MatchFails
  <2>5. CASE ProviderRejected(t)
    BY <2>5 DEF ProviderRejected, End, QueueTypes
  <2>6. CASE Gone(t)
    BY <2>6, FailTypes, EndTypes DEF Gone
  <2>7. CASE StartSend(t)
    BY <2>7, WaitTypes DEF StartSend, QueueTypes, counts
  <2>8. CASE Found(t) \/ Accepted(t)
    BY <2>8, WaitTypes, EndTypes DEF Found, Accepted, QueueTypes, counts
  <2>9. CASE Submit(t)
    BY <2>9, WaitTypes, FailTypes DEF Submit, QueueTypes, counts
  <2>10. CASE NotAccepted(t)
    BY <2>10, EndTypes DEF NotAccepted
  <2>11. QED
    BY <1>3, <2>1, <2>2, <2>3, <2>4, <2>5, <2>6, <2>7, <2>8, <2>9, <2>10 DEF Handle
<1>4. CASE HandleLaunch
  <2> USE LaunchIsTask
  <2>1. CASE Resolve
    <3>1. \/ End(Launch, "blocked") \/ End(Launch, "done")
          \/ (Wait(Launch, "create") \/ Wait(Launch, "match") \/ Wait(Launch, "status")) /\ UNCHANGED state
      BY <2>1 DEF Resolve, StartMaking
    <3>2. UNCHANGED counts
      BY <1>4, LaunchFrame
    <3>3. QED
      BY <3>1, <3>2, EndTypes, WaitTypes DEF QueueTypes, counts
  <2>2. CASE WorkspaceMade
    BY <2>2, WaitTypes DEF WorkspaceMade, QueueTypes, counts
  <2>3. CASE Bind
    BY <2>3, WaitTypes, EndTypes DEF Bind, QueueTypes, counts
  <2>4. CASE Preparing
    BY <2>4, EndTypes DEF Preparing
  <2>5. QED
    BY <1>4, <2>1, <2>2, <2>3, <2>4 DEF HandleLaunch
<1>5. ASSUME NEW t \in Tasks, ConductorSteps(t) PROVE QueueTypes'
  <2>1. UNCHANGED <<state, at, counts>>
    BY <1>5, ConductorFrame
  <2>2. call' = call \/ \E answer \in {"ok", "missing", "busy", "refused", "provider"} : Answer(t, answer)
    BY <1>5 DEF ConductorSteps, Conductor, Make, Accept, Refuse, Search, Cancel, LandMake, LandPost, Finish, Prepare,
                Remove, handlers
  <2>3. QED
    BY <2>1, <2>2 DEF QueueTypes, counts, Answer
<1>6. CASE OrderSteps
  BY <1>6, OrderFrame DEF QueueTypes, handlers, counts
<1>7. CASE Crash
  BY <1>7 DEF Crash, QueueTypes, counts
<1>8. CASE \E m \in Makers : Select(m)
  BY <1>8 DEF Select, QueueTypes, handlers, counts
<1>9. CASE UNCHANGED vars
  BY <1>9 DEF vars, QueueTypes, handlers, counts
<1>10. QED
  BY <1>1, <1>2, <1>3, <1>4, <1>5, <1>6, <1>7, <1>8, <1>9, Steps

LEMMA IntentTypesStep == TypeOK /\ [Next]_vars => IntentTypes'
<1> SUFFICES ASSUME TypeOK, [Next]_vars PROVE IntentTypes'
  OBVIOUS
<1> USE DEF TypeOK
<1>1. ASSUME NEW t \in Tasks, Queue(t) PROVE IntentTypes'
  BY <1>1 DEF Queue, IntentTypes, ControlTypes, intents
<1>2. ASSUME NEW t \in Tasks, GiveUp(t) PROVE IntentTypes'
  BY <1>2 DEF GiveUp, IntentTypes, intents
<1>3. ASSUME NEW t \in Tasks, Handle(t) PROVE IntentTypes'
  <2>1. CASE ClaimStopped(t) \/ StartSend(t) \/ Found(t) \/ Accepted(t)
    BY <2>1 DEF ClaimStopped, StartSend, Found, Accepted, Says, IntentTypes, intents
  <2>2. CASE ClaimUnavailable(t) \/ MatchFails(t) \/ Gone(t) \/ Cancelled(t)
    BY <2>2 DEF ClaimUnavailable, MatchFails, Gone, Cancelled, IntentTypes, intents
  <2>3. CASE Claim(t)
    BY <2>3 DEF Claim, StartMaking, IntentTypes, ControlTypes
  <2>4. CASE ThreadMade(t) \/ RateLimited(t) \/ ProviderRejected(t) \/ CreationRefused(t)
    BY <2>4 DEF ThreadMade, RateLimited, ProviderRejected, CreationRefused, IntentTypes
  <2>5. CASE Submit(t) \/ NotAccepted(t)
    BY <2>5 DEF Submit, NotAccepted, Says, IntentTypes
  <2>6. QED
    BY <1>3, <2>1, <2>2, <2>3, <2>4, <2>5 DEF Handle
<1>4. CASE HandleLaunch
  <2>1. CASE Resolve \/ Bind
    BY <2>1, LaunchIsTask DEF Resolve, Bind, StartMaking, Says, IntentTypes
  <2>2. CASE WorkspaceMade \/ Preparing
    BY <2>2 DEF WorkspaceMade, Preparing, IntentTypes, intents
  <2>3. QED
    BY <1>4, <2>1, <2>2 DEF HandleLaunch
<1>5. ASSUME NEW t \in Tasks, ConductorSteps(t) PROVE IntentTypes'
  BY <1>5, ConductorFrame DEF IntentTypes, intents
<1>6. CASE OrderSteps
  BY <1>6, OrderFrame DEF IntentTypes, intents
<1>7. CASE Crash
  BY <1>7 DEF Crash, IntentTypes, intents
<1>8. CASE \E m \in Makers : Select(m)
  BY <1>8 DEF Select, IntentTypes, intents
<1>9. CASE UNCHANGED vars
  BY <1>9 DEF vars, IntentTypes, intents
<1>10. QED
  BY <1>1, <1>2, <1>3, <1>4, <1>5, <1>6, <1>7, <1>8, <1>9, Steps

LEMMA AppendOrder ==
  ASSUME orders \in Seq(Orders), NEW order \in Orders
  PROVE  Append(orders, order) \in Seq(Orders)
  OBVIOUS

LEMMA ControlTypesStep == TypeOK /\ [Next]_vars => ControlTypes'
<1> SUFFICES ASSUME TypeOK, [Next]_vars PROVE ControlTypes'
  OBVIOUS
<1> USE DEF TypeOK, ControlTypes, binding, fence, control
<1>1. ASSUME NEW t \in Tasks, Queue(t) PROVE ControlTypes'
  BY <1>1 DEF Queue
<1>2. ASSUME NEW t \in Tasks, GiveUp(t) PROVE ControlTypes'
  BY <1>2 DEF GiveUp
<1>3. ASSUME NEW t \in Tasks, Handle(t) PROVE ControlTypes'
  <2>1. CASE ThreadMade(t)
    BY <2>1 DEF ThreadMade, Makers
  <2>2. CASE Gone(t)
    BY <2>2 DEF Gone, Retire
  <2>3. CASE ~ThreadMade(t) /\ ~Gone(t)
    BY <1>3, <2>3, HandleFrame
  <2>4. QED
    BY <2>1, <2>2, <2>3
<1>4. CASE HandleLaunch
  <2>1. CASE Bind
    <3>1. orders' = orders \/ orders' = Append(orders, "stop-created")
      BY <2>1 DEF Bind
    <3>2. "stop-created" \in Orders
      BY DEF Orders
    <3>3. orders' \in Seq(Orders)
      BY <3>1, <3>2, AppendOrder
    <3>4. QED
      BY <2>1, <3>3 DEF Bind, Makers
  <2>2. CASE ~Bind
    BY <1>4, <2>2, LaunchFrame
  <2>3. QED
    BY <2>1, <2>2
<1>5. ASSUME NEW t \in Tasks, ConductorSteps(t) PROVE ControlTypes'
  BY <1>5, ConductorFrame
<1>6. CASE OrderSteps
  <2>1. ASSUME NEW c \in Controls, Order(c) PROVE ControlTypes'
    <3>1. c \in Orders /\ orders' = Append(orders, c)
      BY <2>1 DEF Order, Orders
    <3>2. orders' \in Seq(Orders)
      BY <3>1, AppendOrder
    <3>3. QED
      BY <2>1, <3>2 DEF Order
  <2>2. CASE PollRetires
    BY <2>2 DEF PollRetires, Retire
  <2>3. CASE OrderUnbound \/ OrderDone \/ Archived
    <3>1. Settle /\ UNCHANGED binding
      BY <2>3 DEF OrderUnbound, OrderDone, Archived
    <3>2. UNCHANGED fence \/ Retire
      BY <2>3 DEF OrderUnbound, OrderDone, Archived
    <3>3. stop' \in BOOLEAN /\ archived' \in BOOLEAN
      BY <3>2 DEF Retire
    <3>4. done' \in Nat /\ step' = "-" /\ todo' = {} /\ orders' = orders
      BY <3>1 DEF Settle
    <3>5. QED
      BY <3>1, <3>3, <3>4
  <2>4. CASE ListSessions \/ CancelSession \/ Confirm \/ ArchiveWorkspace \/ OrderGivesUp
    BY <2>4 DEF ListSessions, CancelSession, Confirm, ArchiveWorkspace, OrderGivesUp
  <2>5. QED
    BY <1>6, <2>1, <2>2, <2>3, <2>4 DEF OrderSteps, HandleOrder
<1>7. CASE Crash
  BY <1>7 DEF Crash
<1>8. CASE \E m \in Makers : Select(m)
  BY <1>8 DEF Select
<1>9. CASE UNCHANGED vars
  BY <1>9 DEF vars
<1>10. QED
  BY <1>1, <1>2, <1>3, <1>4, <1>5, <1>6, <1>7, <1>8, <1>9, Steps

LEMMA RemoteTypesStep == TypeOK /\ [Next]_vars => RemoteTypes'
<1> SUFFICES ASSUME TypeOK, [Next]_vars PROVE RemoteTypes'
  OBVIOUS
<1> USE DEF TypeOK, RemoteTypes, remote
<1>1. ASSUME NEW t \in Tasks, Queue(t) PROVE RemoteTypes'
  BY <1>1 DEF Queue
<1>2. ASSUME NEW t \in Tasks, GiveUp(t) PROVE RemoteTypes'
  BY <1>2 DEF GiveUp, Trouble
<1>3. ASSUME NEW t \in Tasks, Handle(t) PROVE RemoteTypes'
  BY <1>3, HandleFrame
<1>4. CASE HandleLaunch
  BY <1>4, LaunchFrame
<1>5. ASSUME NEW t \in Tasks, ConductorSteps(t) PROVE RemoteTypes'
  <2>1. CASE Make(t) \/ Accept(t) \/ Refuse(t)
    BY <2>1 DEF Make, Accept, Refuse, Trouble
  <2>2. CASE Search(t) \/ Cancel(t) \/ Finish(t) \/ Prepare \/ Remove
    BY <2>2 DEF Search, Cancel, Finish, Prepare, Remove
  <2>3. CASE LandMake(t) \/ LandPost(t)
    BY <2>3 DEF LandMake, LandPost
  <2>4. QED
    BY <1>5, <2>1, <2>2, <2>3 DEF ConductorSteps, Conductor
<1>6. CASE OrderSteps
  BY <1>6 DEF OrderSteps, HandleOrder, OrderUnbound, ListSessions, CancelSession, Confirm, OrderDone,
              ArchiveWorkspace, Archived, OrderGivesUp, PollRetires, Order, Trouble
<1>7. CASE Crash
  BY <1>7 DEF Crash, Trouble
<1>8. CASE \E m \in Makers : Select(m)
  BY <1>8 DEF Select
<1>9. CASE UNCHANGED vars
  BY <1>9 DEF vars
<1>10. QED
  BY <1>1, <1>2, <1>3, <1>4, <1>5, <1>6, <1>7, <1>8, <1>9, Steps

LEMMA TypeStep == TypeOK /\ [Next]_vars => TypeOK'
  BY QueueTypesStep, IntentTypesStep, ControlTypesStep, RemoteTypesStep DEF TypeOK

\* Every variable of a workspace's turn keeps its type, for any number of rows, threads and providers.
THEOREM TypeCorrect == Spec => []TypeOK
  BY TypeInit, TypeStep, PTL DEF Spec

-----------------------------------------------------------------------------
(* Nothing is asked of Conductor twice.                                    *)

\* The requests to make or submit something for a row that were ever taken to be under way, less those that
\* Conductor is known to have refused.
MakeCount(t) == makes[t] + lateMakes[t] + IF Creating(t) THEN 1 ELSE 0
PostCount(t) == posts[t] + latePosts[t] + IF Submitting(t) THEN 1 ELSE 0

\* The intent is on record for as long as a request may have, or may yet, come about, and a refusal that
\* has arrived proves that none will.
MakeRow(t) ==
    /\ MakeCount(t) <= 1
    /\ MakeCount(t) > 0 => attempted[t]
    /\ at[t] = "create" /\ call[t] \in {"busy", "refused", "provider"} => MakeCount(t) = 0

PostRow(t) ==
    /\ PostCount(t) <= 1
    /\ PostCount(t) > 0 => submitted[t]
    /\ at[t] = "submit" /\ call[t] \in {"busy", "refused"} => PostCount(t) = 0
    /\ at[t] \in {"find", "submit"} /\ call[t] = "ok" => posts[t] > 0
    /\ card[t] = "sent" => posts[t] > 0
    /\ card[t] = "stopped" => stop /\ ~submitted[t]

RequestInv == \A t \in Tasks : MakeRow(t) /\ PostRow(t)

RowSteps(t) == Queue(t) \/ Handle(t) \/ GiveUp(t) \/ ConductorSteps(t)

\* What a row's request invariants are about.
Row(t) == <<at[t], call[t], attempted[t], submitted[t], card[t], makes[t], posts[t], lateMakes[t], latePosts[t]>>

\* The steps of one row leave the others alone.
LEMMA OtherRows ==
  ASSUME TypeOK, NEW t \in Tasks, NEW u \in Tasks, u # t, RowSteps(t)
  PROVE  Row(u)' = Row(u) /\ stop' = stop
<1> USE DEF Row, TypeOK, QueueTypes, IntentTypes, RemoteTypes, handlers, intents, remote, Wait, End, Says, fence
<1>1. CASE Queue(t)
  BY <1>1 DEF Queue
<1>2. CASE GiveUp(t)
  BY <1>2 DEF GiveUp, Fails
<1>3. CASE ConductorSteps(t)
  <2>1. stop' = stop
    BY <1>3, ConductorFrame
  <2>2. CASE Make(t) \/ Accept(t) \/ Refuse(t)
    BY <2>1, <2>2 DEF Make, Accept, Refuse, Answer
  <2>3. CASE Search(t) \/ Cancel(t) \/ LandMake(t) \/ LandPost(t)
    BY <2>1, <2>3 DEF Search, Cancel, LandMake, LandPost, Answer
  <2>4. CASE Finish(t) \/ Prepare \/ Remove
    BY <2>1, <2>4 DEF Finish, Prepare, Remove
  <2>5. QED
    BY <1>3, <2>2, <2>3, <2>4 DEF ConductorSteps, Conductor
<1>4. CASE Handle(t)
  <2>1. CASE ClaimStopped(t) \/ ClaimUnavailable(t) \/ Claim(t)
    BY <2>1 DEF ClaimStopped, ClaimUnavailable, Claim, StartMaking
  <2>2. CASE ThreadMade(t) \/ MatchFails(t) \/ RateLimited(t) \/ ProviderRejected(t) \/ CreationRefused(t)
    BY <2>2 DEF ThreadMade, MatchFails, RateLimited, ProviderRejected, CreationRefused, Fails
  <2>3. CASE Gone(t) \/ StartSend(t) \/ Found(t)
    BY <2>3 DEF Gone, StartSend, Found, Fails, Retire
  <2>4. CASE Submit(t) \/ Accepted(t) \/ NotAccepted(t) \/ Cancelled(t)
    BY <2>4 DEF Submit, Accepted, NotAccepted, Cancelled, Fails
  <2>5. QED
    BY <1>4, <2>1, <2>2, <2>3, <2>4 DEF Handle
<1>5. QED
  BY <1>1, <1>2, <1>3, <1>4 DEF RowSteps

\* Steps that leave a row alone keep its invariants: the stop fence is never taken down.
LEMMA RowKept ==
  ASSUME TypeOK, NEW u \in Tasks, MakeRow(u), PostRow(u), Row(u)' = Row(u), stop => stop'
  PROVE  MakeRow(u)' /\ PostRow(u)'
  BY DEF Row, MakeRow, PostRow, MakeCount, PostCount, Creating, Submitting

LEMMA MakeRowStep ==
  ASSUME TypeOK, NEW t \in Tasks, MakeRow(t), RowSteps(t)
  PROVE  MakeRow(t)'
<1> USE DEF TypeOK, QueueTypes, IntentTypes, RemoteTypes, MakeRow, MakeCount, Creating, handlers, intents, remote,
            Wait, End
<1>1. CASE Queue(t)
  BY <1>1 DEF Queue
<1>2. CASE GiveUp(t)
  BY <1>2 DEF GiveUp, Fails
<1>3. CASE ConductorSteps(t)
  <2>1. UNCHANGED <<at, attempted>>
    BY <1>3, ConductorFrame
  <2>2. CASE Make(t) \/ Accept(t)
    BY <2>1, <2>2 DEF Make, Accept, Answer, Submitting
  <2>3. CASE Refuse(t)
    BY <2>1, <2>3 DEF Refuse, Answer, Submitting
  <2>4. CASE Search(t) \/ Cancel(t)
    BY <2>1, <2>4 DEF Search, Cancel, Answer
  <2>5. CASE LandMake(t) \/ LandPost(t)
    BY <2>1, <2>5 DEF LandMake, LandPost
  <2>6. CASE Finish(t) \/ Prepare \/ Remove
    BY <2>1, <2>6 DEF Finish, Prepare, Remove
  <2>7. QED
    BY <1>3, <2>2, <2>3, <2>4, <2>5, <2>6 DEF ConductorSteps, Conductor
<1>4. CASE Handle(t)
  <2>1. UNCHANGED remote
    BY <1>4, HandleFrame
  <2>2. CASE ClaimStopped(t) \/ ClaimUnavailable(t)
    <3>1. makes' = makes /\ lateMakes' = lateMakes /\ attempted' = attempted /\ at'[t] = "-"
      BY <2>1, <2>2 DEF ClaimStopped, ClaimUnavailable
    <3>2. QED
      BY <3>1
  <2>3. CASE Claim(t)
    BY <2>1, <2>3 DEF Claim, StartMaking
  <2>4. CASE ThreadMade(t) \/ MatchFails(t)
    BY <2>1, <2>4 DEF ThreadMade, MatchFails, Fails
  <2>5. CASE RateLimited(t) \/ ProviderRejected(t) \/ CreationRefused(t)
    BY <2>1, <2>5 DEF RateLimited, ProviderRejected, CreationRefused
  <2>6. CASE Gone(t) \/ StartSend(t) \/ Found(t)
    BY <2>1, <2>6 DEF Gone, StartSend, Found, Fails
  <2>7. CASE Submit(t) \/ Accepted(t) \/ NotAccepted(t) \/ Cancelled(t)
    BY <2>1, <2>7 DEF Submit, Accepted, NotAccepted, Cancelled, Fails
  <2>8. QED
    BY <1>4, <2>2, <2>3, <2>4, <2>5, <2>6, <2>7 DEF Handle
<1>5. QED
  BY <1>1, <1>2, <1>3, <1>4 DEF RowSteps

LEMMA PostRowStep ==
  ASSUME TypeOK, NEW t \in Tasks, PostRow(t), RowSteps(t)
  PROVE  PostRow(t)'
<1> USE DEF TypeOK, QueueTypes, IntentTypes, RemoteTypes, PostRow, PostCount, Submitting, handlers, intents, remote,
            Wait, End, fence
<1>1. CASE Queue(t)
  BY <1>1 DEF Queue
<1>2. CASE GiveUp(t)
  BY <1>2 DEF GiveUp, Fails
<1>3. CASE ConductorSteps(t)
  <2>1. UNCHANGED <<at, submitted, card, stop>>
    BY <1>3, ConductorFrame DEF intents, fence
  <2>2. CASE Make(t) \/ Accept(t)
    BY <2>1, <2>2 DEF Make, Accept, Answer, Creating
  <2>3. CASE Refuse(t)
    BY <2>1, <2>3 DEF Refuse, Answer, Creating
  <2>4. CASE Search(t) \/ Cancel(t)
    BY <2>1, <2>4 DEF Search, Cancel, Answer
  <2>5. CASE LandMake(t) \/ LandPost(t)
    BY <2>1, <2>5 DEF LandMake, LandPost
  <2>6. CASE Finish(t) \/ Prepare \/ Remove
    BY <2>1, <2>6 DEF Finish, Prepare, Remove
  <2>7. QED
    BY <1>3, <2>2, <2>3, <2>4, <2>5, <2>6 DEF ConductorSteps, Conductor
<1>4. CASE Handle(t)
  <2>1. UNCHANGED remote /\ stop' = stop
    BY <1>4, HandleFrame
  <2>2. CASE ClaimStopped(t) \/ ClaimUnavailable(t)
    BY <2>1, <2>2 DEF ClaimStopped, ClaimUnavailable, Says
  <2>3. CASE Claim(t)
    BY <2>1, <2>3 DEF Claim, StartMaking
  <2>4. CASE ThreadMade(t) \/ MatchFails(t)
    BY <2>1, <2>4 DEF ThreadMade, MatchFails, Fails
  <2>5. CASE RateLimited(t) \/ ProviderRejected(t) \/ CreationRefused(t)
    BY <2>1, <2>5 DEF RateLimited, ProviderRejected, CreationRefused
  <2>6. CASE Gone(t) \/ StartSend(t)
    BY <2>1, <2>6 DEF Gone, StartSend, Fails, Says
  <2>7. CASE Found(t) \/ Accepted(t)
    BY <2>1, <2>7 DEF Found, Accepted, Says
  <2>8. CASE Submit(t)
    BY <2>1, <2>8 DEF Submit, Fails, Says
  <2>9. CASE NotAccepted(t) \/ Cancelled(t)
    BY <2>1, <2>9 DEF NotAccepted, Cancelled
  <2>10. QED
    BY <1>4, <2>2, <2>3, <2>4, <2>5, <2>6, <2>7, <2>8, <2>9 DEF Handle
<1>5. QED
  BY <1>1, <1>2, <1>3, <1>4 DEF RowSteps

LEMMA RequestInit == Init => RequestInv
  BY DEF Init, RequestInv, MakeRow, PostRow, MakeCount, PostCount, Creating, Submitting

LEMMA RequestStep == TypeOK /\ RequestInv /\ [Next]_vars => RequestInv'
<1> SUFFICES ASSUME TypeOK, RequestInv, [Next]_vars, NEW u \in Tasks
             PROVE  MakeRow(u)' /\ PostRow(u)'
  BY DEF RequestInv
<1>1. MakeRow(u) /\ PostRow(u)
  BY DEF RequestInv
<1>2. ASSUME NEW t \in Tasks, RowSteps(t) PROVE MakeRow(u)' /\ PostRow(u)'
  <2>1. CASE u = t
    BY <1>1, <1>2, <2>1, MakeRowStep, PostRowStep
  <2>2. CASE u # t
    BY <1>1, <1>2, <2>2, OtherRows, RowKept
  <2>3. QED
    BY <2>1, <2>2
<1>3. CASE HandleLaunch
  <2>1. UNCHANGED <<remote, submitted, stop>>
    BY <1>3, LaunchFrame DEF fence
  <2>2. CASE u = Launch
    <3>1. MakeRow(u)'
      <4> USE <1>1, <2>1, <2>2 DEF Wait, End, MakeRow, MakeCount, Creating, TypeOK, QueueTypes, IntentTypes,
              RemoteTypes, remote, intents
      <4>1. CASE Resolve
        <5>1. makes' = makes /\ lateMakes' = lateMakes
          OBVIOUS
        <5>2. \/ at'[u] # "create" /\ attempted' = attempted
              \/ StartMaking(u)
          BY <4>1, LaunchIsTask DEF Resolve
        <5>3. CASE at'[u] # "create" /\ attempted' = attempted
          BY <5>1, <5>3
        <5>4. CASE StartMaking(u)
          BY <5>1, <5>4 DEF StartMaking
        <5>5. QED
          BY <5>2, <5>3, <5>4
      <4>2. CASE WorkspaceMade \/ Bind \/ Preparing
        BY <4>2 DEF WorkspaceMade, Bind, Preparing
      <4>3. QED
        BY <1>3, <4>1, <4>2 DEF HandleLaunch
    <3>2. PostRow(u)'
      BY <1>1, <1>3, <2>1, <2>2 DEF HandleLaunch, Resolve, StartMaking, WorkspaceMade, Bind, Preparing, Wait, End,
         Says, PostRow, PostCount, Submitting, TypeOK, QueueTypes, IntentTypes, RemoteTypes, remote, intents
    <3>3. QED
      BY <3>1, <3>2
  <2>3. CASE u # Launch
    <3>1. Row(u)' = Row(u)
      BY <1>3, <2>1, <2>3, LaunchIsTask DEF HandleLaunch, Resolve, StartMaking, WorkspaceMade, Bind, Preparing,
         Wait, End, Says, Row, TypeOK, QueueTypes, IntentTypes, RemoteTypes, remote, intents
    <3>2. QED
      BY <1>1, <2>1, <3>1, RowKept
  <2>4. QED
    BY <2>2, <2>3
<1>4. CASE OrderSteps
  <2>1. Row(u)' = Row(u)
    BY <1>4, OrderFrame DEF Row, handlers, intents
  <2>2. stop => stop'
    BY <1>4 DEF OrderSteps, HandleOrder, OrderUnbound, ListSessions, CancelSession, Confirm, OrderDone,
       ArchiveWorkspace, Archived, OrderGivesUp, PollRetires, Order, Retire, fence
  <2>3. QED
    BY <1>1, <2>1, <2>2, RowKept
<1>5. CASE Crash
  BY <1>1, <1>5 DEF Crash, MakeRow, PostRow, MakeCount, PostCount, Creating, Submitting, TypeOK, QueueTypes,
     RemoteTypes, intents, fence
<1>6. CASE \E m \in Makers : Select(m)
  BY <1>1, <1>6, RowKept DEF Select, Row, handlers, intents, remote, fence
<1>7. CASE UNCHANGED vars
  BY <1>1, <1>7, RowKept DEF vars, Row, handlers, intents, remote, fence
<1>8. QED
  BY <1>2, <1>3, <1>4, <1>5, <1>6, <1>7, Steps DEF RowSteps

LEMMA Requests == Spec => [](TypeOK /\ RequestInv)
  BY TypeInit, TypeStep, RequestInit, RequestStep, PTL DEF Spec

\* Whatever answers are lost and however late calls land, Conductor makes one workspace for a launch at most,
\* and one thread for a row that opens one: a creation is only asked for while none may have come about.
THEOREM MadeAtMostOnce == Spec => []MadeOnce
<1>1. TypeOK /\ RequestInv => MadeOnce
  BY LaunchIsTask DEF RequestInv, MakeRow, MakeCount, MadeOnce, TypeOK, RemoteTypes
<1>2. QED
  BY <1>1, Requests, PTL

\* No message is accepted twice.
THEOREM SubmittedAtMostOnce == Spec => []SubmittedOnce
<1>1. TypeOK /\ RequestInv => SubmittedOnce
  BY DEF RequestInv, PostRow, PostCount, SubmittedOnce, TypeOK, RemoteTypes
<1>2. QED
  BY <1>1, Requests, PTL

\* The two together: what the owner asks for happens at most once.
THEOREM RequestsHappenOnce == Spec => []RequestsAreMadeOnce
<1>1. MadeOnce /\ SubmittedOnce => RequestsAreMadeOnce
  BY DEF RequestsAreMadeOnce
<1>2. QED
  BY <1>1, MadeAtMostOnce, SubmittedAtMostOnce, PTL

\* The card of a row never says that a message was stopped when Conductor has it or may yet get it, nor that
\* it was sent when it was not.
THEOREM CardsAreTrue == Spec => []CardIsTrue
<1>1. ASSUME TypeOK, RequestInv, NEW t \in Tasks
      PROVE  /\ card[t] = "stopped" => posts[t] = 0 /\ latePosts[t] = 0 /\ ~Submitting(t)
             /\ card[t] = "sent" => posts[t] > 0
  <2>1. PostRow(t) /\ posts[t] \in Nat /\ latePosts[t] \in Nat
    BY <1>1 DEF RequestInv, TypeOK, RemoteTypes
  <2>2. card[t] = "stopped" => ~(PostCount(t) > 0)
    BY <2>1 DEF PostRow
  <2>3. ~(PostCount(t) > 0) => posts[t] = 0 /\ latePosts[t] = 0 /\ ~Submitting(t)
    BY <2>1 DEF PostCount
  <2>4. QED
    BY <2>1, <2>2, <2>3 DEF PostRow
<1>2. TypeOK /\ RequestInv => CardIsTrue
  BY <1>1 DEF CardIsTrue
<1>3. QED
  BY <1>2, Requests, PTL

-----------------------------------------------------------------------------
(* The fence of a stop.                                                    *)

LEMMA FenceStep ==
  ASSUME TypeOK, [Next]_vars, stop, NEW u \in Tasks
  PROVE  /\ Creating(u)' => Creating(u)
         /\ Submitting(u)' => Submitting(u)
<1> USE DEF Creating, Submitting, TypeOK, QueueTypes, handlers, Wait, End
<1>1. ASSUME NEW t \in Tasks, RowSteps(t), u # t
      PROVE  at'[u] = at[u] /\ call'[u] = call[u]
  BY <1>1, OtherRows DEF Row
<1>2. CASE RowSteps(u)
  <2>1. CASE Queue(u) \/ GiveUp(u)
    BY <2>1 DEF Queue, GiveUp, Fails
  <2>2. CASE ConductorSteps(u)
    <3>1. at' = at
      BY <2>2, ConductorFrame
    <3>2. call' = call \/ \E answer \in {"ok", "missing", "busy", "refused", "provider"} : Answer(u, answer)
      BY <2>2 DEF ConductorSteps, Conductor, Make, Accept, Refuse, Search, Cancel, LandMake, LandPost, Finish,
                  Prepare, Remove
    <3>3. QED
      BY <3>1, <3>2 DEF Answer
  <2>3. CASE Handle(u)
    <3>1. CASE ClaimStopped(u) \/ ClaimUnavailable(u) \/ Claim(u)
      BY <3>1 DEF ClaimStopped, ClaimUnavailable, Claim
    <3>2. CASE ThreadMade(u) \/ MatchFails(u) \/ RateLimited(u) \/ ProviderRejected(u) \/ CreationRefused(u)
      BY <3>2 DEF ThreadMade, MatchFails, RateLimited, ProviderRejected, CreationRefused, Fails
    <3>3. CASE Gone(u) \/ StartSend(u) \/ Found(u)
      BY <3>3 DEF Gone, StartSend, Found, Fails
    <3>4. CASE Submit(u) \/ Accepted(u) \/ NotAccepted(u) \/ Cancelled(u)
      BY <3>4 DEF Submit, Accepted, NotAccepted, Cancelled, Fails
    <3>5. QED
      BY <2>3, <3>1, <3>2, <3>3, <3>4 DEF Handle
  <2>4. QED
    BY <1>2, <2>1, <2>2, <2>3 DEF RowSteps
<1>3. CASE HandleLaunch
  BY <1>3, LaunchIsTask DEF HandleLaunch, Resolve, WorkspaceMade, Bind, Preparing
<1>4. CASE OrderSteps
  BY <1>4, OrderFrame
<1>5. CASE Crash
  BY <1>5 DEF Crash
<1>6. CASE (\E m \in Makers : Select(m)) \/ UNCHANGED vars
  BY <1>6 DEF Select, vars
<1>7. QED
  BY <1>1, <1>2, <1>3, <1>4, <1>5, <1>6, Steps DEF RowSteps

\* From the step that queues a stop on, no step asks Conductor for a workspace, a thread or a message.
THEOREM StopFences == Spec => StopIsAFence
<1>1. TypeOK /\ [Next]_vars => [\A t \in Tasks : stop => /\ Creating(t)' => Creating(t)
                                                         /\ Submitting(t)' => Submitting(t)]_vars
  BY FenceStep
<1>2. QED
  BY <1>1, TypeCorrect, PTL DEF Spec, StopIsAFence

-----------------------------------------------------------------------------
(* Orders that are carried out.                                            *)

\* The row's message has a thread to go to.
Aimed(t) == target[t] \in Makers /\ makes[target[t]] > 0

\* Where a row stands: what its handler waits for tells what has been made and bound, and its card is
\* written before the row is done.
Stand(t) ==
    /\ (state[t] = "running") <=> (at[t] # "-")
    /\ at[t] \in {"resolve", "check"} => t = Launch
    /\ at[t] \in {"create", "match"} => t \in Makers
    /\ at[t] # "-" => t = Launch \/ Bound
    /\ at[t] \in {"status", "find", "submit", "cancel"} => Bound /\ Aimed(t)
    /\ posts[t] + latePosts[t] > 0 => Bound /\ Aimed(t)
    /\ at[t] = "check" \/ created[t] \/ (at[t] \in {"create", "match"} /\ call[t] = "ok") => makes[t] > 0
    /\ IF t \in Makers THEN target[t] = t ELSE target[t] = None \/ Aimed(t)
    /\ created[t] => t \in Makers
    /\ card[t] = "sent" => state[t] = "done"
    /\ state[t] = "done" \/ at[t] = "cancel" => card[t] # "none"
    /\ t \in works => posts[t] > 0

\* The workspace has threads to select from once it is bound, and works only while it is ready.
Place ==
    /\ Bound => session # None
    /\ session # None => makes[session] > 0
    /\ selected # None => makes[selected] > 0
    /\ lifecycle # "ready" => works = {}

\* Orders fence, and a workspace that is archived before it is bound never will be.
Ordered ==
    /\ orders # <<>> => stop /\ state[Launch] # "none"
    /\ done > 0 => stop
    /\ step # "-" => stop /\ Bound
    /\ step = "retire" => lifecycle = "gone"
    /\ archived => IF Bound THEN lifecycle = "gone" ELSE Settled(Launch)

\* What the order has yet to cancel of the messages that were sent before it.
Sent == {t \in works : card[t] = "sent"}
Left ==
    /\ done > 0 => Sent = {}
    /\ step \in {"cancel", "confirm"} => \A t \in Sent : target[t] \in todo

OrderInv == (\A t \in Tasks : Stand(t)) /\ Place /\ Ordered /\ Left

\* What the steps of one row leave of another.
Apart(t, u) ==
    /\ UNCHANGED <<state[u], at[u], call[u], created[u], target[u], card[u], posts[u], latePosts[u]>>
    /\ u \in works' => u \in works

\* What is made stays made, and what is bound stays bound.
Grows == /\ \A m \in Tasks : makes[m] > 0 => makes'[m] > 0
         /\ Bound => Bound'

\* Every step of a row leaves the others where they are.
LEMMA RowsApart ==
  ASSUME TypeOK, NEW t \in Tasks, NEW u \in Tasks, u # t, RowSteps(t)
  PROVE  Apart(t, u)
<1> USE DEF Apart, TypeOK, QueueTypes, IntentTypes, RemoteTypes, Wait, End, Says
<1>0. UNCHANGED <<at[u], call[u], card[u], posts[u], latePosts[u]>>
  BY OtherRows DEF Row
<1>1. CASE Queue(t)
  BY <1>0, <1>1 DEF Queue, intents, remote
<1>2. CASE GiveUp(t)
  BY <1>0, <1>2 DEF GiveUp, Fails, intents
<1>3. CASE ConductorSteps(t)
  <2>1. UNCHANGED <<state, created, target>>
    BY <1>3, ConductorFrame DEF intents
  <2>2. u \in works' => u \in works
    BY <1>3 DEF ConductorSteps, Conductor, Make, Accept, Refuse, Search, Cancel, LandMake, LandPost, Finish,
                Prepare, Remove, remote
  <2> QED
    BY <1>0, <2>1, <2>2
<1>4. CASE Handle(t)
  <2>1. works' = works
    BY <1>4, HandleFrame DEF remote
  <2>2. CASE ClaimStopped(t) \/ ClaimUnavailable(t) \/ Claim(t)
    BY <1>0, <2>1, <2>2 DEF ClaimStopped, ClaimUnavailable, Claim, intents
  <2>3. CASE ThreadMade(t) \/ MatchFails(t) \/ RateLimited(t) \/ ProviderRejected(t) \/ CreationRefused(t)
    BY <1>0, <2>1, <2>3 DEF ThreadMade, MatchFails, RateLimited, ProviderRejected, CreationRefused, Fails, intents
  <2>4. CASE Gone(t) \/ StartSend(t) \/ Found(t)
    BY <1>0, <2>1, <2>4 DEF Gone, StartSend, Found, Fails, intents
  <2>5. CASE Submit(t) \/ Accepted(t) \/ NotAccepted(t) \/ Cancelled(t)
    BY <1>0, <2>1, <2>5 DEF Submit, Accepted, NotAccepted, Cancelled, Fails, intents
  <2> QED
    BY <1>4, <2>2, <2>3, <2>4, <2>5 DEF Handle
<1> QED
  BY <1>1, <1>2, <1>3, <1>4 DEF RowSteps

\* Nothing is unmade or unbound.
LEMMA GrowsBy ==
  ASSUME TypeOK, [Next]_vars
  PROVE  Grows
<1> USE LaunchIsTask DEF Grows, Bound, TypeOK, IntentTypes, RemoteTypes
<1>1. ASSUME NEW t \in Tasks, Handle(t) PROVE Grows
  <2>1. makes' = makes
    BY <1>1, HandleFrame DEF remote
  <2>2. created' = created \/ created' = [created EXCEPT ![t] = TRUE]
    BY <1>1 DEF Handle, ClaimStopped, ClaimUnavailable, Claim, ThreadMade, MatchFails, RateLimited, ProviderRejected,
         CreationRefused, Gone, StartSend, Found, Submit, Accepted, NotAccepted, Cancelled, intents
  <2> QED
    BY <2>1, <2>2
<1>2. ASSUME NEW t \in Tasks, ConductorSteps(t) PROVE Grows
  <2>1. created' = created
    BY <1>2, ConductorFrame DEF intents
  <2>2. makes' = makes \/ makes' = [makes EXCEPT ![t] = @ + 1]
    BY <1>2 DEF ConductorSteps, Conductor, Make, Accept, Refuse, Search, Cancel, LandMake, LandPost, Finish,
                Prepare, Remove, remote
  <2> QED
    BY <2>1, <2>2
<1>3. ASSUME NEW t \in Tasks, Queue(t) \/ GiveUp(t) PROVE Grows
  BY <1>3 DEF Queue, GiveUp, intents, remote
<1>4. CASE HandleLaunch
  <2>1. makes' = makes
    BY <1>4, LaunchFrame DEF remote
  <2>2. created' = created \/ created' = [created EXCEPT ![Launch] = TRUE]
    BY <1>4 DEF HandleLaunch, Resolve, WorkspaceMade, Preparing, Bind, intents
  <2> QED
    BY <2>1, <2>2
<1>5. CASE OrderSteps
  BY <1>5, OrderFrame DEF intents
<1>6. CASE Crash
  BY <1>6 DEF Crash, intents
<1>7. CASE (\E m \in Makers : Select(m)) \/ UNCHANGED vars
  BY <1>7 DEF Select, vars, intents, remote
<1> QED
  BY <1>1, <1>2, <1>3, <1>4, <1>5, <1>6, <1>7, Steps

\* A row that is left alone stands where it stood.
LEMMA StandKept ==
  ASSUME TypeOK, NEW u \in Tasks, Stand(u), Grows, Apart(u, u) \/ \E t \in Tasks : Apart(t, u)
  PROVE  Stand(u)'
<1>1. /\ UNCHANGED <<state[u], at[u], call[u], created[u], target[u], card[u], posts[u], latePosts[u]>>
      /\ u \in works' => u \in works
  BY DEF Apart
<1>2. Aimed(u) => Aimed(u)'
  BY <1>1, LaunchIsTask DEF Aimed, Grows
<1> QED
  BY <1>1, <1>2 DEF Stand, Grows

\* What an own step of a row has to leave of it, and what it has to bring about.
LEMMA StandMoves ==
  ASSUME TypeOK, TypeOK', NEW t \in Tasks, Stand(t), Grows,
         created'[t] = created[t], target'[t] = target[t], posts'[t] = posts[t], latePosts'[t] = latePosts[t],
         works' = works
  PROVE  /\ Aimed(t) => Aimed(t)'
         /\ posts'[t] + latePosts'[t] > 0 => Bound' /\ Aimed(t)'
         /\ created'[t] => makes'[t] > 0 /\ t \in Makers
         /\ IF t \in Makers THEN target'[t] = t ELSE target'[t] = None \/ Aimed(t)'
         /\ t \in works' => posts'[t] > 0
<1>1. Aimed(t) => Aimed(t)'
  BY LaunchIsTask DEF Aimed, Grows
<1> QED
  BY <1>1 DEF Stand, Grows

\* A row that ends keeps the rest.
LEMMA StandEnds ==
  ASSUME TypeOK, TypeOK', NEW t \in Tasks, Stand(t), Grows,
         created'[t] = created[t], target'[t] = target[t], posts'[t] = posts[t], latePosts'[t] = latePosts[t],
         works' = works, at'[t] = "-", state'[t] # "running",
         card[t] # "sent" \/ state'[t] = "done", card'[t] = "sent" => card[t] = "sent" \/ state'[t] = "done",
         card'[t] = card[t] \/ card'[t] # "none", state'[t] = "done" => card'[t] # "none"
  PROVE  Stand(t)'
<1>1. /\ posts'[t] + latePosts'[t] > 0 => Bound' /\ Aimed(t)'
      /\ created'[t] => makes'[t] > 0 /\ t \in Makers
      /\ IF t \in Makers THEN target'[t] = t ELSE target'[t] = None \/ Aimed(t)'
      /\ t \in works' => posts'[t] > 0
  BY StandMoves
<1> QED
  BY <1>1 DEF Stand

\* A row that goes on keeps the rest, if what it waits for is there.
LEMMA StandWaits ==
  ASSUME TypeOK, TypeOK', NEW t \in Tasks, Stand(t), Grows,
         created'[t] = created[t], target'[t] = target[t], posts'[t] = posts[t], latePosts'[t] = latePosts[t],
         works' = works, state'[t] = "running", call'[t] = "asked", card[t] # "sent",
         card'[t] \in {card[t], "maybe", "stopped"}, 
         \/ at'[t] = "resolve" /\ t = Launch
         \/ at'[t] = "check" /\ t = Launch /\ makes'[t] > 0
         \/ at'[t] \in {"create", "match"} /\ t \in Makers /\ (t = Launch \/ Bound)
         \/ at'[t] \in {"status", "find", "submit"} /\ Bound' /\ Aimed(t)'
         \/ at'[t] = "cancel" /\ Bound' /\ Aimed(t)' /\ card'[t] # "none"
  PROVE  Stand(t)'
<1>1. /\ posts'[t] + latePosts'[t] > 0 => Bound' /\ Aimed(t)'
      /\ created'[t] => makes'[t] > 0 /\ t \in Makers
      /\ IF t \in Makers THEN target'[t] = t ELSE target'[t] = None \/ Aimed(t)'
      /\ t \in works' => posts'[t] > 0
  BY StandMoves
<1> QED
  BY <1>1 DEF Stand, Grows

\* A handler's own step.
LEMMA HandleStands ==
  ASSUME TypeOK, TypeOK', NEW t \in Tasks, Stand(t), Place, Grows, Handle(t)
  PROVE  Stand(t)'
<1> USE DEF QueueTypes, IntentTypes
<1>1. UNCHANGED remote
  BY HandleFrame
<1>2. UNCHANGED <<makes, posts, latePosts, works>>
  BY <1>1 DEF remote
<1>3. CASE ClaimStopped(t) \/ ClaimUnavailable(t) \/ RateLimited(t) \/ ProviderRejected(t) \/ CreationRefused(t)
  <2>1. state[t] \in {"pending", "running"}
    BY <1>3 DEF ClaimStopped, ClaimUnavailable, RateLimited, ProviderRejected, CreationRefused, Claims, Stand
  <2>2. /\ created'[t] = created[t] /\ target'[t] = target[t] /\ at'[t] = "-"
        /\ state'[t] \in {"pending", "done", "blocked"}
        /\ \/ card' = card /\ state'[t] # "done"
           \/ card'[t] \in {card[t], "maybe", "stopped"} \ {"none"}
    <3>1. CASE ClaimStopped(t)
      BY <3>1 DEF ClaimStopped, End, Says, intents, TypeOK
    <3>2. CASE ClaimUnavailable(t) \/ RateLimited(t) \/ ProviderRejected(t) \/ CreationRefused(t)
      BY <3>2 DEF ClaimUnavailable, RateLimited, ProviderRejected, CreationRefused, End, intents, TypeOK
    <3> QED
      BY <1>3, <3>1, <3>2
  <2>3. card[t] # "sent"
    BY <2>1 DEF Stand
  <2> QED
    BY <1>2, <2>2, <2>3, StandEnds
<1>4. CASE MatchFails(t) \/ NotAccepted(t) \/ (Gone(t) /\ t \notin Threads) \/ (Gone(t) /\ t \in Threads)
  <2>1. state[t] = "running" /\ card[t] # "sent"
    BY <1>4 DEF MatchFails, NotAccepted, Gone, Stand
  <2>2. /\ created'[t] = created[t] /\ target'[t] = target[t] /\ at'[t] = "-" /\ card' = card
        /\ state'[t] \in {"pending", "blocked"}
    BY <1>4 DEF MatchFails, NotAccepted, Gone, Fails, End, intents, TypeOK
  <2> QED
    BY <1>2, <2>1, <2>2, StandEnds
<1>5. CASE Cancelled(t)
  <2>1. state[t] = "running" /\ card[t] \notin {"sent", "none"}
    BY <1>5 DEF Cancelled, Stand
  <2>2. /\ created'[t] = created[t] /\ target'[t] = target[t] /\ at'[t] = "-" /\ card' = card
        /\ state'[t] = "done"
    BY <1>5 DEF Cancelled, End, intents, TypeOK
  <2> QED
    BY <1>2, <2>1, <2>2, StandEnds
<1>6. CASE Claim(t)
  <2>1. state[t] = "pending" /\ at[t] = "-" /\ card[t] # "sent" /\ card' = card /\ state'[t] = "running"
        /\ created' = created /\ call'[t] = "asked"
    BY <1>6 DEF Claim, Claims, Stand, Wait, StartMaking, TypeOK
  <2>2. CASE t = Launch /\ Wait(t, "resolve") /\ UNCHANGED <<attempted, target>>
    <3>1. at'[t] = "resolve"
      BY <2>2 DEF Wait, TypeOK
    <3> QED
      BY <1>2, <2>1, <2>2, <3>1, StandWaits
  <2>3. CASE t \in Threads /\ Bound /\ ~created[t] /\ StartMaking(t) /\ UNCHANGED target
    <3>1. at'[t] \in {"create", "match"} /\ t \in Makers
      BY <2>3 DEF StartMaking, Wait, TypeOK, Makers
    <3> QED
      BY <1>2, <2>1, <2>3, <3>1, StandWaits
  <2>4. CASE t \in Threads /\ Bound /\ created[t] /\ Wait(t, "status") /\ UNCHANGED <<attempted, target>>
    <3>1. at'[t] = "status" /\ t \in Makers
      BY <2>4 DEF Wait, TypeOK, Makers
    <3>2. Bound' /\ Aimed(t)'
      BY <1>2, <2>4, <3>1 DEF Grows, Aimed, Stand
    <3> QED
      BY <1>2, <2>1, <2>4, <3>1, <3>2, StandWaits
  <2>5. CASE /\ t \notin Makers /\ Bound
             /\ target' = [target EXCEPT ![t] = IF @ = None THEN session ELSE @]
             /\ Wait(t, "status") /\ UNCHANGED attempted
    <3>1. at'[t] = "status" /\ target'[t] = IF target[t] = None THEN session ELSE target[t]
      BY <2>5 DEF Wait, TypeOK
    <3>2. session \in Makers /\ makes[session] > 0
      BY <2>5 DEF Place, TypeOK, ControlTypes
    <3>3. Bound' /\ Aimed(t)'
      <4>1. Aimed(t)'
        BY <1>2, <2>5, <3>1, <3>2 DEF Aimed, Stand
      <4> QED
        BY <4>1, <2>5 DEF Grows
    <3>4. t # Launch
      BY <2>5 DEF Makers
    <3> QED
      BY <1>2, <2>1, <2>5, <3>1, <3>3, <3>4 DEF Stand
  <2> QED
    BY <1>6, <2>2, <2>3, <2>4, <2>5 DEF Claim
<1>7. CASE ThreadMade(t)
  <2>1. /\ t \in Makers /\ makes[t] > 0 /\ state'[t] = state[t] /\ state[t] = "running" /\ card' = card
        /\ t # Launch
    BY <1>7, TasksAssumption DEF ThreadMade, Stand, Makers, Launch
  <2>2. at'[t] = "status" /\ created'[t] = TRUE /\ target'[t] = t /\ card[t] # "sent"
    BY <1>7, <2>1 DEF ThreadMade, Wait, Stand, TypeOK
  <2>3. Aimed(t)'
    BY <1>2, <2>1, <2>2 DEF Aimed
  <2>4. Bound'
    BY <1>7, <2>1 DEF Stand, Grows, ThreadMade
  <2> QED
    BY <1>2, <2>1, <2>2, <2>3, <2>4 DEF Stand
<1>8. CASE StartSend(t) \/ Submit(t) \/ Found(t) \/ Accepted(t)
  <2>1. state[t] = "running" /\ card[t] # "sent" /\ Bound /\ Aimed(t)
    BY <1>8 DEF StartSend, Submit, Found, Accepted, Stand
  <2>2. created'[t] = created[t] /\ target'[t] = target[t]
    BY <1>8 DEF StartSend, Submit, Found, Accepted, intents
  <2>3. Bound' /\ Aimed(t)'
    BY <1>2, <2>1, <2>2, StandMoves DEF Grows
  <2>4. \/ /\ state'[t] = "running" /\ call'[t] = "asked"
           /\ \/ at'[t] \in {"find", "submit"} /\ card' = card
              \/ at'[t] = "cancel" /\ card'[t] \in {card[t], "maybe", "stopped"} \ {"none"}
        \/ at'[t] = "-" /\ state'[t] = "done" /\ card'[t] = "sent"
        \/ at'[t] = "-" /\ state'[t] \in {"pending", "blocked"} /\ card' = card
    <3>1. CASE StartSend(t)
      BY <2>1, <3>1 DEF StartSend, Wait, Says, TypeOK
    <3>2. CASE Submit(t)
      BY <2>1, <3>2 DEF Submit, Wait, End, Fails, Says, TypeOK
    <3>3. CASE Found(t) \/ Accepted(t)
      BY <2>1, <3>3 DEF Found, Accepted, Wait, End, Says, TypeOK
    <3> QED
      BY <1>8, <3>1, <3>2, <3>3
  <2>6. CASE at'[t] = "-"
    BY <1>2, <2>1, <2>2, <2>4, <2>6, StandEnds
  <2>7. CASE at'[t] # "-"
    BY <1>2, <2>1, <2>2, <2>3, <2>4, <2>7, StandWaits
  <2> QED
    BY <2>6, <2>7
<1> QED
  BY <1>3, <1>4, <1>5, <1>6, <1>7, <1>8 DEF Handle

\* A step of the launch's handler, for the launch and for another row.
LEMMA LaunchStands ==
  ASSUME TypeOK, TypeOK', NEW u \in Tasks, Stand(u), Stand(Launch), Place, Grows, HandleLaunch
  PROVE  Stand(u)'
<1> USE LaunchIsTask DEF QueueTypes, IntentTypes
<1>1. UNCHANGED <<makes, posts, latePosts, works, target>>
  BY LaunchFrame DEF remote
<1>2. CASE u # Launch
  <2>1. UNCHANGED <<state[u], at[u], call[u], created[u], card[u]>>
    <3>1. CASE Resolve
      BY <1>2, <3>1 DEF Resolve, StartMaking, Wait, End, Says, TypeOK
    <3>2. CASE WorkspaceMade \/ Preparing
      BY <1>2, <3>2 DEF WorkspaceMade, Preparing, Wait, End, intents, TypeOK
    <3>3. CASE Bind
      BY <1>2, <3>3 DEF Bind, Wait, End, Says, TypeOK
    <3> QED
      BY <3>1, <3>2, <3>3 DEF HandleLaunch
  <2> QED
    BY <1>1, <2>1, StandKept DEF Apart
<1>3. CASE u = Launch
  <2> USE <1>3
  <2>1. state[u] = "running" /\ card[u] # "sent" /\ u \in Makers
    BY DEF HandleLaunch, Resolve, WorkspaceMade, Preparing, Bind, Stand, Makers
  <2>2. CASE Resolve
    <3>1. created' = created
      BY <2>2 DEF Resolve
    <3>2. \/ at'[u] = "-" /\ state'[u] = "blocked" /\ card' = card
          \/ /\ at'[u] = "-" /\ state'[u] = "done"
             /\ card'[u] \in {card[u], "maybe", "stopped"} \ {"none"}
          \/ at'[u] \in {"create", "match"} /\ state' = state /\ card' = card /\ call'[u] = "asked"
          \/ Bound /\ at'[u] = "status" /\ state' = state /\ card' = card /\ call'[u] = "asked"
      BY <2>2 DEF Resolve, StartMaking, Wait, End, Says, TypeOK
    <3>3. Bound => Aimed(u)'
      BY <1>1, <2>1 DEF Aimed, Stand, Bound
    <3>4. CASE at'[u] = "-"
      BY <1>1, <2>1, <3>1, <3>2, <3>4, StandEnds
    <3>5. CASE at'[u] \in {"create", "match"}
      BY <1>1, <2>1, <3>1, <3>2, <3>5, StandWaits
    <3>6. CASE at'[u] = "status" /\ Bound
      BY <1>1, <2>1, <3>1, <3>2, <3>3, <3>6, StandWaits DEF Bound
    <3> QED
      BY <3>2, <3>4, <3>5, <3>6
  <2>3. CASE WorkspaceMade
    <3>1. makes[u] > 0 /\ at'[u] = "check" /\ call'[u] = "asked" /\ UNCHANGED <<created, card, state>>
      BY <2>3 DEF WorkspaceMade, Stand, Wait, intents, TypeOK
    <3> QED
      BY <1>1, <2>1, <3>1, StandWaits
  <2>4. CASE Preparing
    <3>1. at'[u] = "-" /\ state'[u] = "pending" /\ UNCHANGED <<created, card>>
      BY <2>4 DEF Preparing, End, intents, TypeOK
    <3> QED
      BY <1>1, <2>1, <3>1, StandEnds
  <2>5. CASE Bind
    <3>1. makes[u] > 0 /\ created'[u] = TRUE
      BY <2>5 DEF Bind, Stand, TypeOK
    <3>2. Aimed(u)' /\ Bound'
      BY <1>1, <2>1, <3>1 DEF Aimed, Stand, Bound
    <3>3. \/ at'[u] = "-" /\ state'[u] = "done" /\ card'[u] \in {card[u], "maybe", "stopped"} \ {"none"}
          \/ at'[u] = "status" /\ call'[u] = "asked" /\ UNCHANGED <<card, state>>
      BY <2>5 DEF Bind, Wait, End, Says, TypeOK
    <3> QED
      BY <1>1, <2>1, <3>1, <3>2, <3>3 DEF Stand
  <2> QED
    BY <2>2, <2>3, <2>4, <2>5 DEF HandleLaunch
<1> QED
  BY <1>2, <1>3

\* A row that is queued, given up on or answered.
LEMMA RowStands ==
  ASSUME TypeOK, TypeOK', NEW t \in Tasks, Stand(t), MakeRow(t), Place, Grows,
         Queue(t) \/ GiveUp(t) \/ ConductorSteps(t)
  PROVE  Stand(t)'
<1> USE LaunchIsTask DEF QueueTypes, IntentTypes, RemoteTypes
<1>1. CASE Queue(t)
  <2>1. /\ at[t] = "-" /\ card[t] # "sent" /\ state'[t] = "pending"
        /\ UNCHANGED <<at, call, created, card, makes, posts, latePosts, works>>
    BY <1>1 DEF Queue, Stand, intents, remote, TypeOK
  <2>2. \/ target'[t] = target[t]
        \/ t \notin Makers /\ target'[t] = selected /\ selected # None
    BY <1>1 DEF Queue, TypeOK
  <2>3. IF t \in Makers THEN target'[t] = t ELSE target'[t] = None \/ Aimed(t)'
    BY <2>1, <2>2 DEF Stand, Aimed, Place, TypeOK, ControlTypes
  <2>4. Aimed(t) => Aimed(t)'
    BY <2>1, <2>2 DEF Aimed, Place, TypeOK, ControlTypes
  <2> QED
    BY <2>1, <2>3, <2>4 DEF Stand, Bound
<1>2. CASE GiveUp(t)
  <2>1. /\ at'[t] = "-" /\ state[t] = "running" /\ card[t] # "sent" /\ state'[t] \in {"pending", "blocked"}
        /\ UNCHANGED <<created, target, card, makes, posts, works>>
    BY <1>2 DEF GiveUp, Stand, End, Fails, intents, TypeOK
  <2>2. latePosts'[t] > latePosts[t] => at[t] = "submit"
    BY <1>2 DEF GiveUp, Submitting, TypeOK
  <2>3. posts'[t] + latePosts'[t] > 0 => Bound /\ Aimed(t)
    BY <2>1, <2>2 DEF Stand, TypeOK
  <2>4. Aimed(t) => Aimed(t)'
    BY <2>1 DEF Aimed
  <2> QED
    BY <2>1, <2>3, <2>4 DEF Stand, Bound
<1>3. CASE ConductorSteps(t)
  <2>1. UNCHANGED <<state, at, created, target, card>>
    BY <1>3, ConductorFrame DEF intents
  <2>2. Aimed(t) => Aimed(t)'
    BY <2>1 DEF Aimed, Grows, TypeOK
  <2>3. Bound' = Bound
    BY <2>1 DEF Bound
  <2>4. posts'[t] + latePosts'[t] > 0 => Bound /\ Aimed(t)
    BY <1>3 DEF ConductorSteps, Conductor, Make, Accept, Refuse, Search, Cancel, LandMake, LandPost, Finish,
                Prepare, Remove, remote, Submitting, Stand, TypeOK
  <2>5. t \in works' => posts'[t] > 0
    BY <1>3 DEF ConductorSteps, Conductor, Make, Accept, Refuse, Search, Cancel, LandMake, LandPost, Finish,
                Prepare, Remove, remote, Stand, TypeOK
  <2>6. at[t] \in {"create", "match"} /\ call'[t] = "ok" => makes'[t] > 0
    BY <1>3 DEF ConductorSteps, Conductor, Make, Accept, Refuse, Search, Cancel, LandMake, LandPost, Finish,
                Prepare, Remove, remote, handlers, Creating, Submitting, Answer, Stand, TypeOK
  <2> QED
    BY <2>1, <2>2, <2>3, <2>4, <2>5, <2>6 DEF Stand, Grows
<1> QED
  BY <1>1, <1>2, <1>3

\* Every row keeps its stand in every step.
LEMMA StandStep ==
  ASSUME TypeOK, TypeOK', RequestInv, \A t \in Tasks : Stand(t), Place, [Next]_vars
  PROVE  \A t \in Tasks : Stand(t)'
<1> SUFFICES ASSUME NEW u \in Tasks PROVE Stand(u)'
  OBVIOUS
<1>0. Grows
  BY GrowsBy
<1>1. ASSUME NEW t \in Tasks, RowSteps(t) PROVE Stand(u)'
  <2>1. CASE u = t
    BY <1>0, <1>1, <2>1, HandleStands, RowStands DEF RowSteps, RequestInv
  <2>2. CASE u # t
    BY <1>0, <1>1, <2>2, RowsApart, StandKept
  <2> QED
    BY <2>1, <2>2
<1>2. CASE HandleLaunch
  BY <1>0, <1>2, LaunchStands, LaunchIsTask
<1>3. CASE OrderSteps
  <2>1. UNCHANGED <<handlers, intents, target, card, posts, latePosts>>
    BY <1>3, OrderFrame
  <2>2. works' \subseteq works
    BY <1>3 DEF OrderSteps, HandleOrder, OrderUnbound, ListSessions, CancelSession, Confirm, OrderDone,
         ArchiveWorkspace, Archived, OrderGivesUp, PollRetires, Order, remote
  <2> QED
    BY <1>0, <2>1, <2>2, StandKept DEF Apart, handlers, intents
<1>4. CASE Crash
  <2>1. /\ at'[u] = "-" /\ UNCHANGED <<created, target, card, makes, posts, works>>
        /\ state'[u] = IF state[u] = "running" THEN "pending" ELSE state[u]
    BY <1>4 DEF Crash, intents
  <2>2. latePosts'[u] > latePosts[u] => at[u] = "submit"
    BY <1>4 DEF Crash, Submitting, TypeOK, RemoteTypes
  <2>3. posts'[u] + latePosts'[u] > 0 => Bound /\ Aimed(u)
    BY <2>1, <2>2 DEF Stand, TypeOK, RemoteTypes
  <2>4. Aimed(u) => Aimed(u)'
    BY <2>1 DEF Aimed
  <2> QED
    BY <2>1, <2>3, <2>4 DEF Stand, Bound
<1>5. CASE (\E m \in Makers : Select(m)) \/ UNCHANGED vars
  BY <1>0, <1>5, StandKept DEF Select, vars, Apart, handlers, intents, remote
<1> QED
  BY <1>1, <1>2, <1>3, <1>4, <1>5, Steps DEF RowSteps

\* The threads the owner may select are there in every step, and a workspace that is not ready rests.
LEMMA PlaceStep ==
  ASSUME TypeOK, TypeOK', \A t \in Tasks : Stand(t), Place, [Next]_vars
  PROVE  Place'
<1> USE LaunchIsTask
<1>0. Grows
  BY GrowsBy
<1> DEFINE Same == UNCHANGED binding /\ Bound' = Bound
           Rest == works' = works /\ lifecycle' = lifecycle
<1>1. ASSUME Same, lifecycle' # "ready" => works' = {} PROVE Place'
  BY <1>0, <1>1 DEF Place, Grows, binding, TypeOK, ControlTypes
<1>2. ASSUME NEW t \in Tasks, Handle(t) PROVE Place'
  <2>1. Rest /\ makes' = makes
    BY <1>2, HandleFrame DEF remote
  <2>2. CASE ThreadMade(t)
    <3>1. session' = t /\ selected' = t /\ t # None /\ makes[t] > 0
      BY <2>2, NamesAssumption DEF ThreadMade, Stand
    <3> QED
      BY <2>1, <3>1 DEF Place
  <2>3. CASE ~ThreadMade(t)
    <3>1. session' = session /\ selected' = selected
      BY <1>2, <2>3, HandleFrame DEF Handle, Gone, binding
    <3>2. created' = created
      BY <1>2, <2>3 DEF Handle, ClaimStopped, ClaimUnavailable, Claim, MatchFails, RateLimited, ProviderRejected,
         CreationRefused, Gone, StartSend, Found, Submit, Accepted, NotAccepted, Cancelled, intents
    <3> QED
      BY <2>1, <3>1, <3>2, <1>1 DEF Place, Bound, binding
  <2> QED
    BY <2>2, <2>3
<1>3. ASSUME NEW t \in Tasks, Queue(t) \/ GiveUp(t) PROVE Place'
  BY <1>1, <1>3 DEF Queue, GiveUp, intents, remote, Place, Bound
<1>4. ASSUME NEW t \in Tasks, ConductorSteps(t) PROVE Place'
  <2>1. UNCHANGED binding /\ Bound' = Bound
    BY <1>4, ConductorFrame DEF intents, Bound
  <2>2. lifecycle' # "ready" => works' = {}
    BY <1>4 DEF ConductorSteps, Conductor, Make, Accept, Refuse, Search, Cancel, LandMake, LandPost, Finish,
                Prepare, Remove, remote, Place
  <2> QED
    BY <1>1, <2>1, <2>2
<1>5. CASE HandleLaunch
  <2>1. Rest /\ makes' = makes
    BY <1>5, LaunchFrame DEF remote
  <2>2. CASE Bind
    <3>1. session' = Launch /\ selected' = selected /\ Launch # None /\ makes[Launch] > 0
      BY <2>2, NamesAssumption DEF Bind, Stand
    <3> QED
      BY <2>1, <3>1 DEF Place
  <2>3. CASE ~Bind
    <3>1. UNCHANGED binding /\ created' = created
      BY <1>5, <2>3, LaunchFrame DEF HandleLaunch, Resolve, WorkspaceMade, Preparing, intents
    <3> QED
      BY <1>1, <2>1, <3>1 DEF Place, Bound
  <2> QED
    BY <2>2, <2>3
<1>6. CASE OrderSteps
  <2>1. Same
    BY <1>6, OrderFrame DEF intents, Bound
  <2>2. lifecycle' # "ready" => works' = {}
    BY <1>6 DEF OrderSteps, HandleOrder, OrderUnbound, ListSessions, CancelSession, Confirm, OrderDone,
         ArchiveWorkspace, Archived, OrderGivesUp, PollRetires, Order, remote, Place
  <2> QED
    BY <1>1, <2>1, <2>2
<1>7. CASE Crash
  BY <1>1, <1>7 DEF Crash, intents, Place, Bound
<1>8. ASSUME NEW m \in Makers, Select(m) PROVE Place'
  <2>1. /\ session' = m /\ selected' = m /\ makes[m] > 0 /\ m # None
        /\ makes' = makes /\ Rest
    BY <1>8, NamesAssumption DEF Select, remote
  <2> QED
    BY <2>1 DEF Place
<1>9. CASE UNCHANGED vars
  BY <1>1, <1>9 DEF vars, intents, remote, Place, Bound
<1> QED
  BY <1>2, <1>3, <1>4, <1>5, <1>6, <1>7, <1>8, <1>9, Steps

\* A launch that is settled stays so and binds nothing, and what is gone stays gone.
LEMMA OnlyForward ==
  ASSUME TypeOK, \A t \in Tasks : Stand(t), [Next]_vars
  PROVE  /\ stop => stop'
         /\ lifecycle = "gone" => lifecycle' = "gone"
         /\ state[Launch] # "none" => state'[Launch] # "none"
         /\ Settled(Launch) => Settled(Launch)' /\ Bound' = Bound
<1> USE LaunchIsTask DEF TypeOK, QueueTypes, IntentTypes, Settled, Bound
<1>1. ASSUME NEW t \in Tasks, Handle(t)
      PROVE  /\ UNCHANGED <<stop, lifecycle>> /\ state[t] \in {"pending", "running"}
             /\ state'[t] # "none" /\ \A u \in Tasks \ {t} : state'[u] = state[u]
             /\ Bound' = Bound
  <2>1. UNCHANGED <<stop, lifecycle>>
    BY <1>1, HandleFrame DEF remote
  <2>0. at[t] # "-" => state[t] = "running"
    BY DEF Stand
  <2>2. CASE ClaimStopped(t) \/ ClaimUnavailable(t) \/ Claim(t)
    BY <2>1, <2>2 DEF ClaimStopped, ClaimUnavailable, Claim, Claims, End, intents
  <2>3. CASE ThreadMade(t)
    <3>1. t # Launch /\ state' = state /\ created' = [created EXCEPT ![t] = TRUE]
      BY <2>3, TasksAssumption DEF ThreadMade, Launch
    <3> QED
      BY <2>0, <2>1, <2>3, <3>1 DEF ThreadMade
  <2>4. CASE MatchFails(t) \/ RateLimited(t) \/ ProviderRejected(t) \/ CreationRefused(t)
    BY <2>0, <2>1, <2>4 DEF MatchFails, RateLimited, ProviderRejected, CreationRefused, Fails, Wait, End, intents
  <2>5. CASE Gone(t) \/ StartSend(t) \/ Found(t)
    BY <2>0, <2>1, <2>5 DEF Gone, StartSend, Found, Fails, Wait, End, intents
  <2>6. CASE Submit(t) \/ Accepted(t) \/ NotAccepted(t) \/ Cancelled(t)
    BY <2>0, <2>1, <2>6 DEF Submit, Accepted, NotAccepted, Cancelled, Fails, Wait, End, intents
  <2> QED
    BY <1>1, <2>2, <2>3, <2>4, <2>5, <2>6 DEF Handle
<1>2. ASSUME NEW t \in Tasks, ConductorSteps(t) PROVE UNCHANGED <<stop, state, created>>
  BY <1>2, ConductorFrame DEF intents, fence
<1>3. ASSUME NEW t \in Tasks, ConductorSteps(t) PROVE lifecycle = "gone" => lifecycle' = "gone"
  BY <1>3 DEF ConductorSteps, Conductor, Make, Accept, Refuse, Search, Cancel, LandMake, LandPost, Finish,
              Prepare, Remove, remote
<1>4. ASSUME NEW t \in Tasks, Queue(t) \/ GiveUp(t)
      PROVE  /\ UNCHANGED <<stop, lifecycle, created>> /\ state[t] \in {"none", "running"}
             /\ state'[t] # "none" /\ \A u \in Tasks \ {t} : state'[u] = state[u]
  BY <1>4 DEF Queue, GiveUp, Fails, End, intents, remote, fence, Stand
<1>5. CASE HandleLaunch
  <2>1. UNCHANGED <<stop, lifecycle>>
    BY <1>5, LaunchFrame DEF remote, fence
  <2>2. state[Launch] = "running"
    BY <1>5 DEF HandleLaunch, Resolve, WorkspaceMade, Preparing, Bind, Stand
  <2>3. state'[Launch] # "none"
    BY <1>5, <2>2 DEF HandleLaunch, Resolve, StartMaking, WorkspaceMade, Preparing, Bind, Wait, End
  <2> QED
    BY <2>1, <2>2, <2>3
<1>6. CASE OrderSteps
  <2>1. UNCHANGED <<state, created>>
    BY <1>6, OrderFrame DEF handlers, intents
  <2>2. (stop => stop') /\ (lifecycle = "gone" => lifecycle' = "gone")
    BY <1>6 DEF OrderSteps, HandleOrder, OrderUnbound, ListSessions, CancelSession, Confirm, OrderDone,
       ArchiveWorkspace, Archived, OrderGivesUp, PollRetires, Order, Retire, fence, remote
  <2> QED
    BY <2>1, <2>2
<1>7. CASE Crash
  BY <1>7 DEF Crash, intents, fence
<1>8. CASE (\E m \in Makers : Select(m)) \/ UNCHANGED vars
  BY <1>8 DEF Select, vars, handlers, intents, fence, remote
<1>9. ASSUME NEW t \in Tasks, RowSteps(t)
      PROVE  /\ stop => stop'
             /\ lifecycle = "gone" => lifecycle' = "gone"
             /\ state[Launch] # "none" => state'[Launch] # "none"
             /\ Settled(Launch) => Settled(Launch)' /\ Bound' = Bound
  <2>1. CASE t = Launch
    BY <1>1, <1>2, <1>3, <1>4, <1>9, <2>1 DEF RowSteps
  <2>2. CASE t # Launch
    BY <1>1, <1>2, <1>3, <1>4, <1>9, <2>2 DEF RowSteps
  <2> QED
    BY <2>1, <2>2
<1> QED
  BY <1>5, <1>6, <1>7, <1>8, <1>9, Steps DEF RowSteps

\* A message that was sent is not on its way a second time.
LEMMA SentOnce ==
  ASSUME NEW t \in Tasks, PostRow(t), RemoteTypes, card[t] = "sent"
  PROVE  latePosts[t] = 0 /\ ~Submitting(t)
<1>1. posts[t] \in Nat /\ latePosts[t] \in Nat /\ posts[t] > 0 /\ PostCount(t) <= 1
  BY DEF PostRow, RemoteTypes
<1>2. CASE Submitting(t)
  BY <1>1, <1>2 DEF PostCount
<1>3. CASE ~Submitting(t)
  BY <1>1, <1>3 DEF PostCount
<1> QED
  BY <1>2, <1>3

\* The control lane moves by its own steps and by a launch that is stopped before it binds; the workspace is
\* retired by those that saw it gone, or by an archive.
LEMMA OrdersMoveBy ==
  ASSUME TypeOK, \A t \in Tasks : Stand(t), [Next]_vars
  PROVE  \/ UNCHANGED control /\ (archived' = archived \/ (archived' /\ Bound /\ lifecycle = "gone"))
         \/ HandleOrder \/ OrderGivesUp \/ \E c \in Controls : Order(c)
         \/ Crash
         \/ /\ UNCHANGED <<done, step, todo, fence>> /\ state[Launch] = "running"
            /\ orders' = orders \/ (stop /\ orders' = Append(orders, "stop-created"))
<1> USE LaunchIsTask
<1>1. ASSUME NEW t \in Tasks, Handle(t)
      PROVE  UNCHANGED control /\ (archived' = archived \/ (archived' /\ Bound /\ lifecycle = "gone"))
  <2>1. UNCHANGED control
    BY <1>1, HandleFrame
  <2>2. CASE ~Gone(t)
    BY <1>1, <2>1, <2>2, HandleFrame DEF Handle, ThreadMade, fence
  <2>3. CASE Gone(t)
    BY <2>1, <2>3 DEF Gone, Retire, fence, Stand
  <2> QED
    BY <2>2, <2>3
<1>2. ASSUME NEW t \in Tasks, ConductorSteps(t) \/ Queue(t) \/ GiveUp(t)
      PROVE  UNCHANGED control /\ archived' = archived
  BY <1>2, ConductorFrame DEF Queue, GiveUp, fence
<1>3. CASE HandleLaunch
  <2>1. UNCHANGED <<done, step, todo, fence>> /\ (~Bind => orders' = orders)
    BY <1>3, LaunchFrame
  <2>2. state[Launch] = "running"
    BY <1>3 DEF HandleLaunch, Resolve, WorkspaceMade, Preparing, Bind, Stand
  <2>3. Bind => orders' = orders \/ (stop /\ orders' = Append(orders, "stop-created"))
    BY DEF Bind
  <2> QED
    BY <2>1, <2>2, <2>3
<1>4. CASE PollRetires
  BY <1>4 DEF PollRetires, Retire
<1>5. CASE (\E m \in Makers : Select(m)) \/ UNCHANGED vars
  BY <1>5 DEF Select, vars, fence
<1> QED
  BY <1>1, <1>2, <1>3, <1>4, <1>5, Steps DEF OrderSteps

\* Orders keep their fence; an archive before the binding leaves nothing to bind.
LEMMA OrderedStep ==
  ASSUME TypeOK, TypeOK', \A t \in Tasks : Stand(t), Ordered, [Next]_vars
  PROVE  Ordered'
<1>0. /\ stop => stop'
      /\ lifecycle = "gone" => lifecycle' = "gone"
      /\ state[Launch] # "none" => state'[Launch] # "none"
      /\ Settled(Launch) => Settled(Launch)' /\ Bound' = Bound
      /\ Bound => Bound'
  BY OnlyForward, GrowsBy DEF Grows
<1>2. CASE UNCHANGED control /\ (archived' = archived \/ (archived' /\ Bound /\ lifecycle = "gone"))
  BY <1>0, <1>2 DEF Ordered, control, Settled
<1>3. CASE /\ UNCHANGED <<done, step, todo, fence>> /\ state[Launch] = "running"
           /\ orders' = orders \/ (stop /\ orders' = Append(orders, "stop-created"))
  BY <1>0, <1>3 DEF Ordered, Settled, fence
<1>4. ASSUME NEW c \in Controls, Order(c) PROVE Ordered'
  <2>1. /\ stop' = TRUE /\ state[Launch] # "none" /\ UNCHANGED <<archived, done, step>>
    BY <1>4 DEF Order
  <2> QED
    BY <1>0, <2>1 DEF Ordered, Settled
<1>5. CASE HandleOrder \/ OrderGivesUp
  <2>1. CASE OrderUnbound
    <3>1. done < Len(orders) /\ ~Bound /\ ~Launching /\ UNCHANGED <<stop, state, created, orders, lifecycle>> /\ step' = "-"
      BY <2>1 DEF OrderUnbound, Settle, Retire, handlers, intents, fence, remote
    <3>2. orders # <<>>
      BY <3>1 DEF TypeOK, ControlTypes
    <3>3. Settled(Launch) /\ stop
      BY <3>1, <3>2, LaunchIsTask DEF Ordered, Launching, Settled, TypeOK, QueueTypes
    <3> QED
      BY <1>0, <3>1, <3>2, <3>3 DEF Ordered
  <2>2. CASE ListSessions
    <3>1. /\ done < Len(orders) /\ Bound /\ step' = "cancel" /\ UNCHANGED <<stop, archived, done, orders>>
      BY <2>2 DEF ListSessions, fence
    <3>2. orders # <<>>
      BY <3>1 DEF TypeOK, ControlTypes
    <3> QED
      BY <1>0, <3>1, <3>2 DEF Ordered
  <2>3. CASE CancelSession \/ Confirm \/ OrderGivesUp
    BY <1>0, <2>3 DEF CancelSession, Confirm, OrderGivesUp, Ordered, fence
  <2>4. CASE OrderDone
    BY <1>0, <2>4 DEF OrderDone, Settle, Ordered, fence
  <2>5. CASE ArchiveWorkspace
    BY <1>0, <2>5 DEF ArchiveWorkspace, Ordered, fence
  <2>6. CASE Archived
    BY <1>0, <2>6 DEF Archived, Settle, Retire, Ordered
  <2> QED
    BY <1>5, <2>1, <2>2, <2>3, <2>4, <2>5, <2>6 DEF HandleOrder
<1>6. CASE Crash
  BY <1>0, <1>6 DEF Crash, Ordered, fence
<1> QED
  BY <1>2, <1>3, <1>4, <1>5, <1>6, OrdersMoveBy

\* Under a stop, what is at work and called sent was so before.
LEMMA SentMovesBy ==
  ASSUME TypeOK, TypeOK', RequestInv, \A t \in Tasks : Stand(t), [Next]_vars, stop, NEW u \in Sent'
  PROVE  u \in Sent /\ target'[u] = target[u]
<1> USE LaunchIsTask DEF Sent, TypeOK, QueueTypes, IntentTypes, RemoteTypes
<1>0. /\ u \in Tasks /\ u \in works' /\ card'[u] = "sent"
      /\ card[u] = "sent" => state[u] = "done" /\ at[u] = "-"
      /\ card[u] = "sent" => latePosts[u] = 0
  <2>1. u \in Tasks /\ u \in works' /\ card'[u] = "sent"
    OBVIOUS
  <2>2. card[u] = "sent" => state[u] = "done" /\ at[u] = "-"
    BY <2>1 DEF Stand
  <2>3. card[u] = "sent" => latePosts[u] = 0
    <3>1. PostRow(u)
      BY <2>1 DEF RequestInv
    <3> QED
      BY <2>1, <3>1, SentOnce
  <2> QED
    BY <2>1, <2>2, <2>3
<1>1. ASSUME NEW t \in Tasks, RowSteps(t), t # u PROVE u \in Sent /\ target'[u] = target[u]
  BY <1>0, <1>1, RowsApart DEF Apart
<1>2. CASE Queue(u) \/ GiveUp(u)
  BY <1>0, <1>2 DEF Queue, GiveUp, intents
<1>3. CASE Handle(u)
  <2>1. card[u] # "sent"
    BY <1>0, <1>3 DEF Handle, ClaimStopped, ClaimUnavailable, Claim, Claims, ThreadMade, MatchFails, RateLimited,
         ProviderRejected, CreationRefused, Gone, StartSend, Found, Submit, Accepted, NotAccepted, Cancelled
  <2>2. card' = card \/ card'[u] \in {card[u], "maybe", "stopped"}
    <3>1. CASE ClaimStopped(u) \/ StartSend(u) \/ Found(u) \/ Submit(u) \/ Accepted(u)
      BY <3>1 DEF ClaimStopped, StartSend, Found, Submit, Accepted, Says
    <3>2. CASE ~(ClaimStopped(u) \/ StartSend(u) \/ Found(u) \/ Submit(u) \/ Accepted(u))
      BY <1>3, <3>2 DEF Handle, ClaimUnavailable, Claim, ThreadMade, MatchFails, RateLimited,
         ProviderRejected, CreationRefused, Gone, NotAccepted, Cancelled
    <3> QED
      BY <3>1, <3>2
  <2> QED
    BY <1>0, <2>1, <2>2
<1>4. CASE ConductorSteps(u)
  <2>1. UNCHANGED <<card, target>>
    BY <1>4, ConductorFrame
  <2>2. u \in works
    BY <1>0, <1>4, <2>1 DEF ConductorSteps, Conductor, Make, Accept, Refuse, Search, Cancel, LandMake, LandPost,
         Finish, Prepare, Remove, remote, Submitting
  <2> QED
    BY <1>0, <2>1, <2>2
<1>5. CASE HandleLaunch
  <2>1. UNCHANGED <<works, target>>
    BY <1>5, LaunchFrame DEF remote
  <2>2. card'[u] = "sent" => card[u] = "sent"
    <3>1. card' = card \/ Says(Launch, FALSE)
      BY <1>5 DEF HandleLaunch, Resolve, WorkspaceMade, Preparing, Bind
    <3> QED
      BY <1>0, <3>1 DEF Says
  <2> QED
    BY <1>0, <2>1, <2>2
<1>6. CASE OrderSteps
  <2>1. UNCHANGED <<card, target>>
    BY <1>6, OrderFrame
  <2>2. works' \subseteq works
    BY <1>6 DEF OrderSteps, HandleOrder, OrderUnbound, ListSessions, CancelSession, Confirm, OrderDone,
         ArchiveWorkspace, Archived, OrderGivesUp, PollRetires, Order, remote
  <2> QED
    BY <1>0, <2>1, <2>2
<1>7. CASE Crash \/ (\E m \in Makers : Select(m)) \/ UNCHANGED vars
  BY <1>0, <1>7 DEF Crash, Select, vars, remote
<1> QED
  BY <1>1, <1>2, <1>3, <1>4, <1>5, <1>6, <1>7, Steps DEF RowSteps

\* An order goes on as long as the messages that were sent before it are at work.
LEMMA LeftStep ==
  ASSUME TypeOK, TypeOK', RequestInv, OrderInv, [Next]_vars
  PROVE  Left'
<1> USE DEF OrderInv
<1>1. stop => Sent' \subseteq Sent /\ \A t \in Sent' : target'[t] = target[t]
  BY SentMovesBy
<1>2. (done > 0 => stop) /\ (step # "-" => stop)
  BY DEF Ordered
<1>3. CASE UNCHANGED <<done, step, todo>>
  BY <1>1, <1>2, <1>3 DEF Left, TypeOK, ControlTypes
<1>4. CASE Crash \/ OrderGivesUp
  BY <1>1, <1>2, <1>4 DEF Crash, OrderGivesUp, Left
<1>5. CASE OrderUnbound
  <2>1. works = {}
    <3> SUFFICES ASSUME NEW t \in works PROVE FALSE
      OBVIOUS
    <3>1. t \in Tasks /\ posts[t] + latePosts[t] > 0
      BY DEF Stand, TypeOK, RemoteTypes
    <3> QED
      BY <1>5, <3>1 DEF Stand, OrderUnbound
  <2> QED
    BY <1>5, <2>1 DEF OrderUnbound, Settle, Left, Sent, remote
<1>6. CASE ListSessions
  <2>1. UNCHANGED <<done, target, card, works>> /\ step' = "cancel" /\ Bound
    BY <1>6 DEF ListSessions, remote
  <2>2. ASSUME NEW t \in Sent' PROVE target'[t] \in todo'
    <3>1. t \in Tasks /\ t \in works /\ Aimed(t) /\ lifecycle # "gone"
      BY <2>1 DEF Sent, Stand, Place, TypeOK, RemoteTypes
    <3> QED
      BY <1>6, <2>1, <3>1 DEF ListSessions, Aimed
  <2>3. Sent' = Sent
    BY <2>1 DEF Sent
  <2> QED
    BY <2>1, <2>2, <2>3 DEF Left
<1>7. CASE CancelSession
  BY <1>1, <1>2, <1>7 DEF CancelSession, Left
<1>8. CASE Confirm
  <2>1. UNCHANGED <<done, target, card, works>> /\ step = "confirm"
    BY <1>8 DEF Confirm, remote
  <2>2. Sent' = Sent
    BY <2>1 DEF Sent
  <2>3. CASE \E t \in works : target[t] = First
    BY <1>8, <2>1, <2>2, <2>3 DEF Confirm, Left
  <2>4. CASE ~\E t \in works : target[t] = First
    BY <1>8, <2>1, <2>2, <2>4 DEF Confirm, Left, Sent
  <2> QED
    BY <2>3, <2>4
<1>9. CASE OrderDone
  <2>1. Sent = {} /\ step' = "-" /\ UNCHANGED <<card, works>>
    BY <1>9 DEF OrderDone, Settle, Left, remote
  <2> QED
    BY <2>1 DEF Left, Sent
<1>10. CASE ArchiveWorkspace
  BY <1>10 DEF ArchiveWorkspace, Left, Sent
<1>11. CASE Archived
  <2>1. works = {} /\ step' = "-" /\ works' = works
    BY <1>11 DEF Archived, Settle, Ordered, Place, remote
  <2> QED
    BY <2>1 DEF Left, Sent
<1>12. ASSUME NEW c \in Controls, Order(c) PROVE UNCHANGED <<done, step, todo>>
  BY <1>12 DEF Order
<1> QED
  BY <1>3, <1>4, <1>5, <1>6, <1>7, <1>8, <1>9, <1>10, <1>11, <1>12, OrdersMoveBy DEF HandleOrder, control

\* Together they are inductive.
LEMMA OrdersHold == Spec => [](TypeOK /\ RequestInv /\ OrderInv)
<1>1. Init => OrderInv
  BY TasksAssumption DEF Init, OrderInv, Stand, Place, Ordered, Left, Sent, Bound, Aimed, Tasks, Launch, Makers
<1>2. TypeOK /\ TypeOK' /\ RequestInv /\ OrderInv /\ [Next]_vars => OrderInv'
  BY StandStep, PlaceStep, OrderedStep, LeftStep DEF OrderInv
<1> QED
  BY <1>1, <1>2, Requests, PTL DEF Spec

\* A stop that is reported has left no message at work but those whose card says that they may have been sent,
\* and an archive that is reported has left no workspace: for any threads, late calls and crashes.
THEOREM OrdersStayHonest == Spec => []OrdersAreHonest
<1>1. ASSUME TypeOK, RequestInv, OrderInv, NEW t \in works, done > 0, state[t] = "done"
      PROVE  card[t] = "maybe"
  <2>1. t \in Tasks /\ posts[t] > 0 /\ card[t] # "none"
    BY <1>1 DEF OrderInv, Stand, TypeOK, RemoteTypes
  <2>2. card[t] # "sent"
    BY <1>1 DEF OrderInv, Left, Sent
  <2>3. card[t] # "stopped"
    BY <1>1, <2>1 DEF RequestInv, PostRow, PostCount, TypeOK, RemoteTypes
  <2> QED
    BY <1>1, <2>1, <2>2, <2>3 DEF TypeOK, IntentTypes
<1>2. TypeOK /\ RequestInv /\ OrderInv => OrdersAreHonest
  BY <1>1 DEF OrdersAreHonest, StopIsHonest, ArchivedMeansGone, OrderInv, Ordered
<1> QED
  BY <1>2, OrdersHold, PTL
=============================================================================
