----------------------------- MODULE CloudTurn ------------------------------
(***************************************************************************)
(* The work of one workspace between the gateway's queue and Conductor     *)
(* (src/cloud/engine.ts): the launch that creates the workspace, the       *)
(* messages and threads behind it in the workspace's lane, and the stop    *)
(* and archive rows in its control lane.  Every call of the Conductor API  *)
(* may be refused, may time out before or after it took effect, may take   *)
(* effect long after its caller gave up, or may outlive the gateway that   *)
(* made it.  None of them can be repeated blindly.                         *)
(*                                                                         *)
(* Task rows are numbered in their lane's order and row 0 is the launch.   *)
(* GatewayQueue shows what is taken from the queue here: a lane is worked  *)
(* in order, one row at a time, and a crash puts running rows back.  A     *)
(* handler runs from one await to the next in one step; at[t] names the    *)
(* await and call[t] is what became of the call it waits for.  A thread    *)
(* and its message are named by the row that makes them.                   *)
(***************************************************************************)
EXTENDS Integers, FiniteSets, Sequences

CONSTANTS
    NumTasks,      \* rows of the workspace's lane
    Threads,       \* those that open a thread of their own (/run in a topic, recovery); the others send
    Controls,      \* what the owner asks in the control lane: "stop", "archive"
    None,          \* no thread
    Providers,     \* how many providers are enabled
    FailureLimit,  \* an unexplained failure blocks its row at this count (5)
    MaxTrouble     \* bound: crashes, timeouts, rate limits and lost answers in a run

Launch == 0
Tasks  == 0 .. NumTasks - 1
Makers == {Launch} \cup Threads
Orders == Controls \cup {"stop-created"}

ASSUME TasksAssumption  == NumTasks \in Nat \ {0} /\ Threads \subseteq 1 .. NumTasks - 1
ASSUME LimitsAssumption == Providers \in Nat \ {0} /\ FailureLimit \in Nat \ {0} /\ MaxTrouble \in Nat
ASSUME NamesAssumption  == Controls \subseteq {"stop", "archive"} /\ None \notin Tasks

VARIABLES
    state,      \* gateway_queue state of each task row
    at,         \* the await its handler is at, "-" when it has none
    call,       \* the call it awaits: asked, or answered
    tries,      \* 'queue-failures:<row>'
    refusals,   \* providers that refused the row, 'recovery-providers:<episode>'
    attempted,  \* 'create-attempt:<row>' or 'session-attempt:<row>'
    created,    \* the workspace's binding exists, or 'created-session:<row>' does
    submitted,  \* 'send-attempted:<row>'
    target,     \* the session the row's message goes to, action.sessionId once it is frozen
    card,       \* what the row's card last said of its submission
    session,    \* binding.sessionId
    selected,   \* 'selected-thread:<workspace>'
    stop,       \* 'stop:<workspace>'
    archived,   \* workspaces.archived_at
    orders,     \* the rows of the control lane, in order
    done,       \* how many of them are settled
    step,       \* the await the first unsettled one is at
    todo,       \* the sessions it has still to cancel
    makes,      \* Conductor: workspaces or sessions made for a row
    posts,      \* Conductor: times it accepted a row's message
    lateMakes,  \* Conductor: creations whose caller gave up, still to land
    latePosts,  \* Conductor: submissions whose caller gave up, still to land
    works,      \* Conductor: the messages its sessions work on
    lifecycle,  \* Conductor: the workspace's status
    trouble     \* how much of MaxTrouble is used

handlers == <<state, at, call>>
counts   == <<tries, refusals>>
intents  == <<attempted, created, submitted>>
binding  == <<session, selected>>
fence    == <<stop, archived>>
control  == <<orders, done, step, todo>>
remote   == <<makes, posts, lateMakes, latePosts, works, lifecycle>>
vars     == <<handlers, counts, intents, target, card, binding, fence, control, remote, trouble>>

-----------------------------------------------------------------------------
Bound      == created[Launch]
Settled(t) == state[t] \in {"done", "blocked"}
Trouble    == trouble < MaxTrouble /\ trouble' = trouble + 1

\* Mutant: a launch that was given up counts as one that still runs.
LaunchingForever == state[Launch] # "done"

\* launching(): the launch is still queued or running.
Launching == state[Launch] \in {"pending", "running"}

Creating(t)   == at[t] = "create" /\ call[t] = "asked"
Submitting(t) == at[t] = "submit" /\ call[t] = "asked"

\* The handler awaits its next call.
Wait(t, where) == at' = [at EXCEPT ![t] = where] /\ call' = [call EXCEPT ![t] = "asked"]

\* The handler ends and leaves its row in state `next'.
End(t, next) == /\ state' = [state EXCEPT ![t] = next]
                /\ at'    = [at EXCEPT ![t] = "-"]
                /\ call'  = [call EXCEPT ![t] = "none"]

\* Mutant: a row given up gets a state that no query knows.
FailsAsFailed(t) ==
    /\ tries' = [tries EXCEPT ![t] = @ + 1]
    /\ refusals' = refusals
    /\ End(t, IF tries[t] + 1 >= FailureLimit THEN "failed" ELSE "pending")

\* A plain Error: counted, and given up at the limit.
Fails(t) == /\ tries' = [tries EXCEPT ![t] = @ + 1]
            /\ refusals' = refusals
            /\ End(t, IF tries[t] + 1 >= FailureLimit THEN "blocked" ELSE "pending")

\* Mutant: the card goes by what was answered, not by what was asked.
SaysAnswered(t, sent) ==
    card' = [card EXCEPT ![t] = IF @ # "none" THEN @ ELSE IF sent THEN "maybe" ELSE "stopped"]

\* What stopped() writes on the row's card, once.
Says(t, sent) ==
    card' = [card EXCEPT ![t] = IF @ # "none" THEN @
                                ELSE IF sent \/ submitted[t] THEN "maybe" ELSE "stopped"]

-----------------------------------------------------------------------------
Init ==
    /\ state = [t \in Tasks |-> "none"]
    /\ at = [t \in Tasks |-> "-"]
    /\ call = [t \in Tasks |-> "none"]
    /\ tries = [t \in Tasks |-> 0]
    /\ refusals = [t \in Tasks |-> 0]
    /\ attempted = [t \in Tasks |-> FALSE]
    /\ created = [t \in Tasks |-> FALSE]
    /\ submitted = [t \in Tasks |-> FALSE]
    /\ target = [t \in Tasks |-> IF t \in Makers THEN t ELSE None]
    /\ card = [t \in Tasks |-> "none"]
    /\ session = None /\ selected = None
    /\ stop = FALSE /\ archived = FALSE
    /\ orders = <<>> /\ done = 0 /\ step = "-" /\ todo = {}
    /\ makes = [t \in Tasks |-> 0]
    /\ posts = [t \in Tasks |-> 0]
    /\ lateMakes = [t \in Tasks |-> 0]
    /\ latePosts = [t \in Tasks |-> 0]
    /\ works = {} /\ lifecycle = "initializing"
    /\ trouble = 0

-----------------------------------------------------------------------------
(* The workspace's lane.                                                   *)

\* queue() of the next row.  A message keeps the thread the owner has selected by then.
Queue(t) ==
    /\ state[t] = "none"
    /\ \A s \in 0 .. t - 1 : state[s] # "none"
    /\ state' = [state EXCEPT ![t] = "pending"]
    /\ target' = [target EXCEPT ![t] =
                    IF t \notin Makers /\ selected # None /\ selected = session THEN selected ELSE @]
    /\ UNCHANGED <<at, call, counts, intents, card, binding, fence, control, remote, trouble>>

\* A button of /threads, which lists what Conductor has: messages to come go to that thread.
Select(m) ==
    /\ Bound /\ makes[m] > 0 /\ lifecycle # "gone" /\ ~stop /\ ~archived
    /\ session' = m /\ selected' = m
    /\ UNCHANGED <<handlers, counts, intents, target, card, fence, control, remote, trouble>>

\* The first row of the lane is claimed and its handler started.
Claims(t) == state[t] = "pending" /\ \A s \in 0 .. t - 1 : Settled(s)

\* action(): work that is stopped is done, without a call.
ClaimStopped(t) ==
    /\ Claims(t)
    /\ stop
    /\ End(t, "done")
    /\ Says(t, FALSE)
    /\ UNCHANGED <<counts, intents, target, binding, fence, control, remote, trouble>>

\* The workspace was retired, or its launch failed and left no binding.
ClaimUnavailable(t) ==
    /\ Claims(t)
    /\ ~stop
    /\ archived \/ (t # Launch /\ ~Bound)
    /\ End(t, "blocked")
    /\ UNCHANGED <<counts, intents, target, card, binding, fence, control, remote, trouble>>

\* A workspace or thread is looked for if its creation was ever attempted, and created otherwise.
StartMaking(t) ==
    IF attempted[t]
    THEN attempted' = attempted /\ Wait(t, "match")
    ELSE attempted' = [attempted EXCEPT ![t] = TRUE] /\ Wait(t, "create")

\* launch() asks the catalog; newSession() resumes its thread or makes one; a message freezes its thread.
Claim(t) ==
    /\ Claims(t)
    /\ ~stop /\ ~archived
    /\ state' = [state EXCEPT ![t] = "running"]
    /\ \/ t = Launch /\ Wait(t, "resolve") /\ UNCHANGED <<attempted, target>>
       \/ t \in Threads /\ Bound /\ ~created[t] /\ StartMaking(t) /\ UNCHANGED target
       \/ t \in Threads /\ Bound /\ created[t] /\ Wait(t, "status") /\ UNCHANGED <<attempted, target>>
       \/ /\ t \notin Makers /\ Bound
          /\ target' = [target EXCEPT ![t] = IF @ = None THEN session ELSE @]
          /\ Wait(t, "status") /\ UNCHANGED attempted
    /\ UNCHANGED <<counts, created, submitted, card, binding, fence, control, remote, trouble>>

\* launch(), once the project is known, or is known to be unknown.
Resolve ==
    /\ at[Launch] = "resolve"
    /\ \/ End(Launch, "blocked") /\ UNCHANGED <<card, attempted>>
       \/ stop /\ End(Launch, "done") /\ Says(Launch, FALSE) /\ UNCHANGED attempted
       \/ ~stop /\ ~Bound /\ StartMaking(Launch) /\ UNCHANGED <<state, card>>
       \/ ~stop /\ Bound /\ Wait(Launch, "status") /\ UNCHANGED <<state, card, attempted>>
    /\ UNCHANGED <<counts, created, submitted, target, binding, fence, control, remote, trouble>>

\* createSession answered, or the thread was found under its name.
ThreadMade(t) ==
    /\ t \in Threads
    /\ at[t] \in {"create", "match"} /\ call[t] = "ok"
    /\ created' = [created EXCEPT ![t] = TRUE]
    /\ session' = t /\ selected' = t
    /\ Wait(t, "status")
    /\ UNCHANGED <<state, counts, attempted, submitted, target, card, fence, control, remote, trouble>>

\* createWorkspace answered, or the workspace was found by its key: its identity is checked next.
WorkspaceMade ==
    /\ at[Launch] \in {"create", "match"} /\ call[Launch] = "ok"
    /\ Wait(Launch, "check")
    /\ UNCHANGED <<state, counts, intents, target, card, binding, fence, control, remote, trouble>>

\* The transaction that binds it.  A launch stopped meanwhile leaves the workspace to a stop of its own.
Bind ==
    /\ at[Launch] = "check"
    /\ created' = [created EXCEPT ![Launch] = TRUE]
    /\ session' = Launch /\ selected' = selected
    /\ IF stop
       THEN /\ End(Launch, "done") /\ Says(Launch, FALSE)
            /\ orders' = IF \E i \in 1 .. Len(orders) : orders[i] = "stop-created" THEN orders
                         ELSE Append(orders, "stop-created")
       ELSE Wait(Launch, "status") /\ UNCHANGED <<state, card, orders>>
    /\ UNCHANGED <<counts, attempted, submitted, target, fence, done, step, todo, remote, trouble>>

\* The search found nothing, or too much: the receipt is uncertain and creation is not replayed.
MatchFails(t) ==
    /\ at[t] = "match" /\ call[t] = "missing"
    /\ Fails(t)
    /\ UNCHANGED <<intents, target, card, binding, fence, control, remote, trouble>>

\* Mutant: a server error counts as a refusal, so the creation is tried again.
RateLimitedOrLost(t) ==
    /\ at[t] = "create" /\ call[t] \in {"busy", "asked"}
    /\ attempted' = [attempted EXCEPT ![t] = FALSE]
    /\ lateMakes' = [lateMakes EXCEPT ![t] = @ + IF call[t] = "asked" THEN 1 ELSE 0]
    /\ End(t, "pending")
    /\ UNCHANGED <<counts, created, submitted, target, card, binding, fence, control,
                   makes, posts, latePosts, works, lifecycle, trouble>>

\* A 429 created nothing; the row waits for its turn.
RateLimited(t) ==
    /\ at[t] = "create" /\ call[t] = "busy"
    /\ attempted' = [attempted EXCEPT ![t] = FALSE]
    /\ End(t, "pending")
    /\ UNCHANGED <<counts, created, submitted, target, card, binding, fence, control, remote, trouble>>

\* providerRejected(): the next enabled provider is tried, or there is none.
ProviderRejected(t) ==
    /\ at[t] = "create" /\ call[t] = "provider"
    /\ attempted' = [attempted EXCEPT ![t] = FALSE]
    /\ refusals' = [refusals EXCEPT ![t] = @ + 1]
    /\ End(t, IF refusals[t] + 1 < Providers THEN "pending" ELSE "blocked")
    /\ UNCHANGED <<tries, created, submitted, target, card, binding, fence, control, remote, trouble>>

\* Any other refusal is the same on every attempt.
CreationRefused(t) ==
    /\ at[t] = "create" /\ call[t] = "refused"
    /\ attempted' = [attempted EXCEPT ![t] = FALSE]
    /\ End(t, "blocked")
    /\ UNCHANGED <<counts, created, submitted, target, card, binding, fence, control, remote, trouble>>

\* retire(): the workspace is gone, for everyone.
Retire == archived' = TRUE /\ stop' = stop

\* Conductor still prepares the workspace; the launch asks again later.
Preparing ==
    /\ at[Launch] = "status" /\ lifecycle = "initializing"
    /\ End(Launch, "pending")
    /\ UNCHANGED <<counts, intents, target, card, binding, fence, control, remote, trouble>>

\* The workspace is gone.  Its launch retires it; a message has no thread to go to; a thread is not found.
Gone(t) ==
    /\ at[t] = "status" /\ lifecycle = "gone"
    /\ IF t \in Threads THEN Fails(t) ELSE End(t, "blocked") /\ UNCHANGED counts
    /\ IF t = Launch THEN Retire ELSE UNCHANGED fence
    /\ UNCHANGED <<intents, target, card, binding, control, remote, trouble>>

\* send(), up to its first await: the fence, the topic, the payload.
StartSend(t) ==
    /\ at[t] = "status" /\ lifecycle = "ready"
    /\ IF stop THEN Says(t, FALSE) /\ Wait(t, "cancel") ELSE card' = card /\ Wait(t, "find")
    /\ UNCHANGED <<state, counts, intents, target, binding, fence, control, remote, trouble>>

\* The message is already at Conductor: it was sent, unless it is to be stopped.
Found(t) ==
    /\ at[t] = "find" /\ call[t] = "ok"
    /\ IF stop THEN Says(t, TRUE) /\ Wait(t, "cancel") /\ state' = state
       ELSE card' = [card EXCEPT ![t] = "sent"] /\ End(t, "done")
    /\ UNCHANGED <<counts, intents, target, binding, fence, control, remote, trouble>>

\* Mutant: the stop fence is not looked at again after the search.
SubmitUnfenced(t) ==
    /\ at[t] = "find" /\ call[t] = "missing"
    /\ IF submitted[t] THEN Fails(t) /\ UNCHANGED submitted
       ELSE /\ submitted' = [submitted EXCEPT ![t] = TRUE]
            /\ Wait(t, "submit") /\ UNCHANGED <<state, counts>>
    /\ UNCHANGED <<attempted, created, target, card, binding, fence, control, remote, trouble>>

\* Mutant: what was submitted is remembered once it is answered.
SubmitUnrecorded(t) ==
    /\ at[t] = "find" /\ call[t] = "missing"
    /\ IF stop THEN Says(t, FALSE) /\ Wait(t, "cancel") /\ UNCHANGED state
       ELSE Wait(t, "submit") /\ UNCHANGED <<state, card>>
    /\ UNCHANGED <<counts, intents, target, binding, fence, control, remote, trouble>>

\* It is not there.  If it was ever submitted, nothing is replayed; else it is submitted now.
Submit(t) ==
    /\ at[t] = "find" /\ call[t] = "missing"
    /\ \/ /\ stop
          /\ Says(t, FALSE) /\ Wait(t, "cancel") /\ UNCHANGED <<state, counts, submitted>>
       \/ /\ ~stop /\ submitted[t]
          /\ Fails(t) /\ UNCHANGED <<submitted, card>>
       \/ /\ ~stop /\ ~submitted[t]
          /\ submitted' = [submitted EXCEPT ![t] = TRUE]
          /\ Wait(t, "submit") /\ UNCHANGED <<state, counts, card>>
    /\ UNCHANGED <<attempted, created, target, binding, fence, control, remote, trouble>>

\* Mutant: the fence is not looked at once the message was accepted.
AcceptedUnfenced(t) ==
    /\ at[t] = "submit" /\ call[t] = "ok"
    /\ card' = [card EXCEPT ![t] = "sent"] /\ End(t, "done")
    /\ UNCHANGED <<counts, intents, target, binding, fence, control, remote, trouble>>

\* sendMessage answered: the turn is recorded and the row is done.  A stop that came in between cancels it.
Accepted(t) ==
    /\ at[t] = "submit" /\ call[t] = "ok"
    /\ IF stop THEN Says(t, TRUE) /\ Wait(t, "cancel") /\ state' = state
       ELSE card' = [card EXCEPT ![t] = "sent"] /\ End(t, "done")
    /\ UNCHANGED <<counts, intents, target, binding, fence, control, remote, trouble>>

\* A 429, or a refusal that is final: nothing was submitted.
NotAccepted(t) ==
    /\ at[t] = "submit" /\ call[t] \in {"busy", "refused"}
    /\ submitted' = [submitted EXCEPT ![t] = FALSE]
    /\ End(t, IF call[t] = "busy" THEN "pending" ELSE "blocked")
    /\ UNCHANGED <<counts, attempted, created, target, card, binding, fence, control, remote, trouble>>

\* cancelSession answered.
Cancelled(t) ==
    /\ at[t] = "cancel" /\ call[t] = "ok"
    /\ End(t, "done")
    /\ UNCHANGED <<counts, intents, target, card, binding, fence, control, remote, trouble>>

\* The call times out, fails on the way, or answers what the client does not know: the intents stay as they
\* are and the row is tried again, or given up when that counts as a failure.  The call may yet land.
GiveUp(t) ==
    /\ at[t] # "-" /\ Trouble
    /\ \/ End(t, "pending") /\ UNCHANGED counts
       \/ Fails(t)
    /\ lateMakes' = [lateMakes EXCEPT ![t] = @ + IF Creating(t) THEN 1 ELSE 0]
    /\ latePosts' = [latePosts EXCEPT ![t] = @ + IF Submitting(t) THEN 1 ELSE 0]
    /\ UNCHANGED <<intents, target, card, binding, fence, control, makes, posts, works, lifecycle>>

\* The gateway dies and its successor recovers: running rows are pending again, calls are on their own.
Crash ==
    /\ Trouble
    /\ state' = [t \in Tasks |-> IF state[t] = "running" THEN "pending" ELSE state[t]]
    /\ at' = [t \in Tasks |-> "-"]
    /\ call' = [t \in Tasks |-> "none"]
    /\ step' = "-" /\ todo' = {}
    /\ lateMakes' = [t \in Tasks |-> lateMakes[t] + IF Creating(t) THEN 1 ELSE 0]
    /\ latePosts' = [t \in Tasks |-> latePosts[t] + IF Submitting(t) THEN 1 ELSE 0]
    /\ UNCHANGED <<counts, intents, target, card, binding, fence, orders, done, makes, posts, works, lifecycle>>

\* The poller finds the workspace gone.  While its launch is still under way that is the launch's to report.
PollRetires ==
    /\ Bound /\ lifecycle = "gone" /\ ~Launching /\ ~archived
    /\ Retire
    /\ UNCHANGED <<handlers, counts, intents, target, card, binding, control, remote, trouble>>

-----------------------------------------------------------------------------
(* The control lane.                                                       *)

\* queue() of a stop or archive: the fence is set at once, ahead of any call already under way.
Order(c) ==
    /\ state[Launch] # "none"
    /\ \A i \in 1 .. Len(orders) : orders[i] # c
    /\ stop' = TRUE /\ archived' = archived
    /\ orders' = Append(orders, c)
    /\ UNCHANGED <<handlers, counts, intents, target, card, binding, done, step, todo, remote, trouble>>

Current == orders[done + 1]

\* The first order of the lane is settled.
Settle == done' = done + 1 /\ step' = "-" /\ todo' = {} /\ orders' = orders

\* Without a binding there is nothing to cancel once no launch is under way; until then the row waits.
OrderUnbound ==
    /\ done < Len(orders) /\ step = "-"
    /\ ~Bound /\ ~Launching
    /\ Settle
    /\ IF Current = "archive" THEN Retire ELSE UNCHANGED fence
    /\ UNCHANGED <<handlers, counts, intents, target, card, binding, remote, trouble>>

\* listWorkspaceSessions: recorded here or not, and none of a workspace that is gone.
ListSessions ==
    /\ done < Len(orders) /\ step = "-" /\ Bound
    /\ todo' = IF lifecycle = "gone" THEN {} ELSE {m \in Makers : makes[m] > 0}
    /\ step' = "cancel"
    /\ UNCHANGED <<handlers, counts, intents, target, card, binding, fence, orders, done, remote, trouble>>

\* The session it is at.
First == CHOOSE m \in todo : \A n \in todo : m <= n

CancelSession ==
    /\ step = "cancel" /\ todo # {}
    /\ works' = {t \in works : target[t] # First}
    /\ step' = "confirm"
    /\ UNCHANGED <<handlers, counts, intents, target, card, binding, fence, orders, done, todo,
                   makes, posts, lateMakes, latePosts, lifecycle, trouble>>

\* A session still at work sends the row back to the queue.
Confirm ==
    /\ step = "confirm"
    /\ IF \E t \in works : target[t] = First
       THEN step' = "-" /\ todo' = {}
       ELSE step' = "cancel" /\ todo' = todo \ {First}
    /\ UNCHANGED <<handlers, counts, intents, target, card, binding, fence, orders, done, remote, trouble>>

\* Mutant: an archive is done once every session is stopped.
OrderDoneEarly ==
    /\ step = "cancel" /\ todo = {}
    /\ Settle
    /\ IF Current = "archive" THEN Retire ELSE UNCHANGED fence
    /\ UNCHANGED <<handlers, counts, intents, target, card, binding, remote, trouble>>

\* Every session is stopped; an archive goes on to the workspace.
OrderDone ==
    /\ step = "cancel" /\ todo = {} /\ Current # "archive"
    /\ Settle
    /\ UNCHANGED <<handlers, counts, intents, target, card, binding, fence, remote, trouble>>

ArchiveWorkspace ==
    /\ step = "cancel" /\ todo = {} /\ Current = "archive"
    /\ lifecycle' = "gone" /\ works' = {}
    /\ step' = "retire"
    /\ UNCHANGED <<handlers, counts, intents, target, card, binding, fence, orders, done, todo,
                   makes, posts, lateMakes, latePosts, trouble>>

Archived ==
    /\ step = "retire"
    /\ Retire /\ Settle
    /\ UNCHANGED <<handlers, counts, intents, target, card, binding, remote, trouble>>

\* A call of the order fails; it starts over.
OrderGivesUp ==
    /\ step # "-" /\ Trouble
    /\ step' = "-" /\ todo' = {}
    /\ UNCHANGED <<handlers, counts, intents, target, card, binding, fence, orders, done, remote>>

-----------------------------------------------------------------------------
(* Conductor.                                                              *)

Answer(t, answer) == call' = [call EXCEPT ![t] = answer]

\* A workspace, or a thread of one, is made.
Make(t) ==
    /\ Creating(t) /\ lifecycle # "gone"
    /\ makes' = [makes EXCEPT ![t] = @ + 1] /\ Answer(t, "ok")
    /\ UNCHANGED <<state, at, counts, intents, target, card, binding, fence, control,
                   posts, lateMakes, latePosts, works, lifecycle, trouble>>

\* A message is accepted by its session, which works on it now or next.
Accept(t) ==
    /\ Submitting(t) /\ lifecycle = "ready"
    /\ posts' = [posts EXCEPT ![t] = @ + 1] /\ works' = works \cup {t} /\ Answer(t, "ok")
    /\ UNCHANGED <<state, at, counts, intents, target, card, binding, fence, control,
                   makes, lateMakes, latePosts, lifecycle, trouble>>

\* Nothing is made or accepted.
Refuse(t) ==
    /\ Creating(t) \/ Submitting(t)
    /\ \/ Answer(t, "refused") /\ trouble' = trouble
       \/ Answer(t, "busy") /\ Trouble
       \/ Creating(t) /\ Answer(t, "provider") /\ trouble' = trouble
    /\ UNCHANGED <<state, at, counts, intents, target, card, binding, fence, control, remote>>

\* listProjectWorkspaces, listWorkspaceSessions: exactly one bears the row's name, or not.
\* findSubmittedMessage: the transcript has the row's message, or not.
Search(t) ==
    /\ call[t] = "asked"
    /\ \/ at[t] = "match" /\ Answer(t, IF makes[t] = 1 THEN "ok" ELSE "missing")
       \/ at[t] = "find" /\ Answer(t, IF posts[t] > 0 THEN "ok" ELSE "missing")
    /\ UNCHANGED <<state, at, counts, intents, target, card, binding, fence, control, remote, trouble>>

\* The session drops its work.
Cancel(t) ==
    /\ at[t] = "cancel" /\ call[t] = "asked"
    /\ works' = {u \in works : target[u] # target[t]} /\ Answer(t, "ok")
    /\ UNCHANGED <<state, at, counts, intents, target, card, binding, fence, control,
                   makes, posts, lateMakes, latePosts, lifecycle, trouble>>

\* A call lands after its caller gave up.
LandMake(t) ==
    /\ lateMakes[t] > 0 /\ lifecycle # "gone"
    /\ lateMakes' = [lateMakes EXCEPT ![t] = @ - 1]
    /\ makes' = [makes EXCEPT ![t] = @ + 1]
    /\ UNCHANGED <<handlers, counts, intents, target, card, binding, fence, control,
                   posts, latePosts, works, lifecycle, trouble>>

LandPost(t) ==
    /\ latePosts[t] > 0 /\ lifecycle = "ready"
    /\ latePosts' = [latePosts EXCEPT ![t] = @ - 1]
    /\ posts' = [posts EXCEPT ![t] = @ + 1] /\ works' = works \cup {t}
    /\ UNCHANGED <<handlers, counts, intents, target, card, binding, fence, control,
                   makes, lateMakes, lifecycle, trouble>>

\* A workspace in preparation is ready, or could not be made ready.
Prepare ==
    /\ makes[Launch] > 0 /\ lifecycle = "initializing"
    /\ lifecycle' \in {"ready", "gone"}
    /\ UNCHANGED <<handlers, counts, intents, target, card, binding, fence, control,
                   makes, posts, lateMakes, latePosts, works, trouble>>

\* Its owner removes it in Conductor.
Remove ==
    /\ lifecycle = "ready"
    /\ lifecycle' = "gone" /\ works' = {}
    /\ UNCHANGED <<handlers, counts, intents, target, card, binding, fence, control,
                   makes, posts, lateMakes, latePosts, trouble>>

\* A turn ends.
Finish(t) ==
    /\ t \in works
    /\ works' = works \ {t}
    /\ UNCHANGED <<handlers, counts, intents, target, card, binding, fence, control,
                   makes, posts, lateMakes, latePosts, lifecycle, trouble>>

-----------------------------------------------------------------------------
Handle(t) == \/ ClaimStopped(t) \/ ClaimUnavailable(t) \/ Claim(t)
             \/ ThreadMade(t) \/ MatchFails(t) \/ RateLimited(t) \/ ProviderRejected(t) \/ CreationRefused(t)
             \/ Gone(t) \/ StartSend(t) \/ Found(t) \/ Submit(t) \/ Accepted(t) \/ NotAccepted(t) \/ Cancelled(t)

HandleLaunch == Resolve \/ WorkspaceMade \/ Bind \/ Preparing

HandleOrder == OrderUnbound \/ ListSessions \/ CancelSession \/ Confirm \/ OrderDone \/ ArchiveWorkspace \/ Archived

Conductor(t) == Make(t) \/ Accept(t) \/ Refuse(t) \/ Search(t) \/ Cancel(t)

Next ==
    \/ \E t \in Tasks : Queue(t) \/ Handle(t) \/ GiveUp(t)
    \/ \E m \in Makers : Select(m)
    \/ HandleLaunch \/ PollRetires
    \/ \E c \in Controls : Order(c)
    \/ HandleOrder \/ OrderGivesUp
    \/ Crash
    \/ \E t \in Tasks : Conductor(t) \/ LandMake(t) \/ LandPost(t) \/ Finish(t)
    \/ Prepare \/ Remove

Spec == Init /\ [][Next]_vars

\* The dispatcher comes back to both lanes, every call is answered or times out, and Conductor gets its
\* workspaces ready or gives them up.  Nothing is assumed of the owner, of crashes or of late calls.
Fairness ==
    /\ \A t \in Tasks : WF_vars(Handle(t)) /\ WF_vars(Conductor(t))
    /\ WF_vars(HandleLaunch) /\ WF_vars(HandleOrder) /\ WF_vars(Prepare)

FairSpec == Spec /\ Fairness

-----------------------------------------------------------------------------
(* What must hold.                                                         *)

QueueTypes ==
    /\ state \in [Tasks -> {"none", "pending", "running", "done", "blocked"}]
    /\ at \in [Tasks -> {"-", "resolve", "create", "match", "check", "status", "find", "submit", "cancel"}]
    /\ call \in [Tasks -> {"none", "asked", "ok", "missing", "busy", "refused", "provider"}]
    /\ tries \in [Tasks -> Nat] /\ refusals \in [Tasks -> Nat]

IntentTypes ==
    /\ attempted \in [Tasks -> BOOLEAN] /\ created \in [Tasks -> BOOLEAN] /\ submitted \in [Tasks -> BOOLEAN]
    /\ target \in [Tasks -> Makers \cup {None}]
    /\ card \in [Tasks -> {"none", "stopped", "maybe", "sent"}]

ControlTypes ==
    /\ session \in Makers \cup {None} /\ selected \in Makers \cup {None}
    /\ stop \in BOOLEAN /\ archived \in BOOLEAN
    /\ orders \in Seq(Orders) /\ done \in Nat
    /\ step \in {"-", "cancel", "confirm", "retire"} /\ todo \subseteq Makers

RemoteTypes ==
    /\ makes \in [Tasks -> Nat] /\ posts \in [Tasks -> Nat]
    /\ lateMakes \in [Tasks -> Nat] /\ latePosts \in [Tasks -> Nat]
    /\ works \subseteq Tasks /\ lifecycle \in {"initializing", "ready", "gone"}
    /\ trouble \in Nat

\* Every variable keeps the shape its table, key or remote object has.
TypeOK == QueueTypes /\ IntentTypes /\ ControlTypes /\ RemoteTypes

\* Through lost answers, rate limits, refusals, crashes and late arrivals, Conductor never makes a second
\* workspace for a launch, nor a second thread for a row that opens one.
MadeOnce == \A m \in Makers : makes[m] <= 1

\* Nor does it accept a row's message a second time.
SubmittedOnce == \A t \in Tasks : posts[t] <= 1

\* Whatever the owner asks for happens once at Conductor: one workspace, one thread, one message.
RequestsAreMadeOnce == MadeOnce /\ SubmittedOnce

\* The owner is told that a message was stopped before it was sent only if it never reaches Conductor, and
\* that it was sent only if it did.
CardIsTrue ==
    \A t \in Tasks : /\ card[t] = "stopped" => posts[t] = 0 /\ latePosts[t] = 0 /\ ~Submitting(t)
                     /\ card[t] = "sent" => posts[t] > 0

\* Once the owner is told that all threads are stopped, work that still goes on is that of a row which says
\* it may have been submitted, or which its handler is about to cancel, or which was given up as uncertain.
StopIsHonest ==
    \A t \in works : done > 0 /\ state[t] = "done" => card[t] = "maybe"

\* From the moment the owner asks for a stop, no workspace, thread or message is asked for any more: the
\* fence is looked at after every await.
StopIsAFence ==
    [][\A t \in Tasks : stop => /\ Creating(t)' => Creating(t)
                                /\ Submitting(t)' => Submitting(t)]_vars

\* A workspace the gateway knows of and calls archived is gone at Conductor too: it works for nobody.
ArchivedMeansGone == archived /\ Bound => lifecycle = "gone"

\* A report that an order was carried out is true of Conductor: nothing unaccounted for works behind a stop,
\* and no workspace lives on behind an archive.
OrdersAreHonest == StopIsHonest /\ ArchivedMeansGone

\* The comments on discovery and on stops: a launch that is over has bound the workspace it created, even
\* after a lost answer, so that a stop or an archive reaches it.
LaunchBindsItsWorkspace == state[Launch] = "done" /\ makes[Launch] > 0 => Bound

\* Every row is settled in the end, and so is every order of the owner, whatever was lost on the way.
AllSettled == (\A t \in Tasks : state[t] # "pending") /\ done = Len(orders)
EveryRowSettles == <>[]AllSettled
=============================================================================
