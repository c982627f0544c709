----------------------------- MODULE Attachments -----------------------------
(***************************************************************************)
(* An album on its way from Telegram to a workspace, src/cloud/commands.ts:  *)
(* the first update handled leads, absorbs those still waiting in its lane   *)
(* and reserves the turn; a media job fetches the files and releases the     *)
(* turn; what Telegram delivers later joins the work by a turn of its own.   *)
(* Rows are of module GatewayQueue; here they are numbered by their file.    *)
(***************************************************************************)
EXTENDS Naturals, FiniteSets

CONSTANTS
  Album,      \* files of the album
  MaxSettles, \* waits of a leader (ALBUM_MAX_SETTLES)
  MaxCrashes, \* restarts of the gateway
  MaxTrouble, \* failed downloads and requests, and answers lost
  Stops       \* whether the owner may stop or move on from the work

\* What an instance assumes of its constants.
AttachmentsAssumption ==
  Album \in Nat \ {0} /\ {MaxSettles, MaxCrashes, MaxTrouble} \subseteq Nat /\ Stops \in BOOLEAN

Files == 1..Album
Workers == 1..2

VARIABLES
  update,   \* the update of each file: none, pending, running, done, blocked
  at,       \* the running update: where its handler waits
  leader,   \* the album's leader, 0 before there is one
  joinable, \* the album can still be joined (ALBUM_JOIN_MS)
  settles,  \* waits of the leader so far
  members,  \* album-members of the leader
  told,     \* files the owner was asked to send again
  job,      \* the media job of each update: state and files
  flight,   \* files being fetched by the running job
  failed,   \* a fetch of the running job failed
  saved,    \* times each file was saved
  turn,     \* the action of each update: state, mediaPending and fileIds
  workers,  \* handlers at work on an action
  attempted, \* send-attempted: of the actions
  sent,     \* requests that carried each file
  stop, gone, \* the work was stopped, or is no longer the topic's
  crashes, trouble

queue == <<update, at, leader, joinable, settles, members, told>>
media == <<job, flight, failed, saved>>
turns == <<turn, workers, attempted, sent>>
vars == <<update, at, leader, joinable, settles, members, told, job, flight, failed, saved,
          turn, workers, attempted, sent, stop, gone, crashes, trouble>>

Open == {"pending", "running"}
NoJob == [state |-> "none", files |-> {}]
NoTurn == [state |-> "none", waits |-> FALSE, files |-> {}]
Idle == [row |-> 0, at |-> "idle", found |-> FALSE]

Init ==
  /\ update = [f \in Files |-> "none"] /\ at = "rest"
  /\ leader = 0 /\ joinable = TRUE /\ settles = 0 /\ members = {} /\ told = {}
  /\ job = [f \in Files |-> NoJob] /\ flight = {} /\ failed = FALSE /\ saved = [f \in Files |-> 0]
  /\ turn = [f \in Files |-> NoTurn] /\ workers = [w \in Workers |-> Idle]
  /\ attempted = {} /\ sent = [f \in Files |-> 0]
  /\ stop = FALSE /\ gone = FALSE /\ crashes = 0 /\ trouble = 0

Trouble == trouble < MaxTrouble /\ trouble' = trouble + 1

\* The first of its lane that is not finished.
FirstOf(states, f) == states[f] \in Open /\ \A g \in 1..(f - 1) : states[g] \notin Open

-----------------------------------------------------------------------------
(* The updates of the album, one at a time in their lane. *)

Arrives(f) ==
  /\ update[f] = "none" /\ \A g \in 1..(f - 1) : update[g] # "none"
  /\ update' = [update EXCEPT ![f] = "pending"]
  /\ UNCHANGED <<at, leader, joinable, settles, members, told, media, turns, stop, gone, crashes, trouble>>

Claims(f) ==
  /\ update[f] = "pending" /\ FirstOf(update, f)
  /\ update' = [update EXCEPT ![f] = "running"]
  /\ at' = "collect"
  /\ UNCHANGED <<leader, joinable, settles, members, told, media, turns, stop, gone, crashes, trouble>>

\* enqueueTurn: rows that exist already are left as they are.
EnqueueTurn(f, files) ==
  /\ turn' = [turn EXCEPT ![f] = IF @.state = "none" THEN [state |-> "pending", waits |-> TRUE, files |-> {}] ELSE @]
  /\ job' = [job EXCEPT ![f] = IF @.state = "none" THEN [state |-> "pending", files |-> files] ELSE @]

\* The siblings waiting in the lane.
Absorbed(f) == {g \in (f + 1)..Album : update[g] = "pending"}

\* Mutant: the members are kept by the handler only.
NotedByHandler(f) == Absorbed(f)

\* album-members: what every attempt of the leader has absorbed.
Noted(f) == members \cup Absorbed(f)

\* The leader closes the rows it absorbs, and waits while more may come.
Collects(f) ==
  /\ update[f] = "running" /\ at = "collect"
  /\ leader \in {0, f}
  /\ leader' = f
  /\ members' = Noted(f)
  /\ LET taken == Absorbed(f) IN
       \/ /\ taken # {} \/ members' = {}
          /\ settles < MaxSettles /\ settles' = settles + 1
          /\ at' = "rest"
          /\ update' = [g \in Files |-> IF g \in taken THEN "done" ELSE IF g = f THEN "pending" ELSE update[g]]
       \/ /\ at' = "handle"
          /\ update' = [g \in Files |-> IF g \in taken THEN "done" ELSE update[g]]
          /\ UNCHANGED settles
  /\ UNCHANGED <<joinable, told, media, turns, stop, gone, crashes, trouble>>

\* Once its target is known, the leader's turn and its media job commit together.
Leads(f) ==
  /\ update[f] = "running" /\ at = "handle"
  /\ EnqueueTurn(f, {f} \cup members)
  /\ at' = "finish"
  /\ UNCHANGED <<update, leader, joinable, settles, members, told, flight, failed, saved,
                 workers, attempted, sent, stop, gone, crashes, trouble>>

\* The album has no target: the owner is asked to choose one and send it again.
Refuses(f) ==
  /\ update[f] = "running" /\ at = "handle" /\ turn[f].state = "none"
  /\ Trouble
  /\ told' = told \cup {f} \cup members
  /\ at' = "finish"
  /\ UNCHANGED <<update, leader, joinable, settles, members, media, turns, stop, gone, crashes>>

\* A file joins work that was not refused and that the topic still follows.
Joins == joinable /\ turn[leader].state \notin {"none", "blocked"} /\ ~gone

\* A file delivered after the album was handled.
Late(f) ==
  /\ update[f] = "running" /\ at = "collect"
  /\ leader \notin {0, f}
  /\ at' = "finish"
  /\ \/ Joins /\ EnqueueTurn(f, {f}) /\ UNCHANGED told
     \/ ~Joins /\ told' = told \cup {f} /\ UNCHANGED <<turn, job>>
  /\ UNCHANGED <<update, leader, joinable, settles, members, flight, failed, saved,
                 workers, attempted, sent, stop, gone, crashes, trouble>>

Finishes(f) ==
  /\ update[f] = "running" /\ at = "finish"
  /\ update' = [update EXCEPT ![f] = "done"] /\ at' = "rest"
  /\ UNCHANGED <<leader, joinable, settles, members, told, media, turns, stop, gone, crashes, trouble>>

\* A request of the handler fails: the row is tried again, or given up and reported.
UpdateFails(f) ==
  /\ update[f] = "running" /\ at = "handle"
  /\ Trouble
  /\ \E state \in {"pending", "blocked"} : update' = [update EXCEPT ![f] = state]
  /\ at' = "rest"
  /\ UNCHANGED <<leader, joinable, settles, members, told, media, turns, stop, gone, crashes>>

\* Ten minutes after the last file the album takes no more.
Expires ==
  /\ joinable /\ leader # 0
  /\ joinable' = FALSE
  /\ UNCHANGED <<update, at, leader, settles, members, told, media, turns, stop, gone, crashes, trouble>>

-----------------------------------------------------------------------------
(* The media worker: one job at a time, two fetches at a time. *)

JobStates == [f \in Files |-> job[f].state]

JobClaims(f) ==
  /\ job[f].state = "pending" /\ FirstOf(JobStates, f)
  /\ job' = [job EXCEPT ![f].state = IF stop THEN "done" ELSE "running"]
  /\ flight' = {} /\ failed' = FALSE
  /\ UNCHANGED <<queue, saved, turns, stop, gone, crashes, trouble>>

\* Mutant: a file is fetched again by every attempt.
FetchesAgain(f, i) == i \in job[f].files

\* A file is fetched unless it was saved before.
Fetches(f, i) == i \in job[f].files /\ saved[i] = 0

FetchStarts(f, i) ==
  /\ job[f].state = "running" /\ ~failed /\ Cardinality(flight) < 2
  /\ Fetches(f, i) /\ i \notin flight
  /\ flight' = flight \cup {i}
  /\ UNCHANGED <<queue, job, failed, saved, turns, stop, gone, crashes, trouble>>

FetchSaves(f, i) ==
  /\ job[f].state = "running" /\ i \in flight
  /\ saved' = [saved EXCEPT ![i] = @ + 1]
  /\ flight' = flight \ {i}
  /\ UNCHANGED <<queue, job, failed, turns, stop, gone, crashes, trouble>>

FetchFails(f, i) ==
  /\ job[f].state = "running" /\ i \in flight
  /\ Trouble
  /\ flight' = flight \ {i} /\ failed' = TRUE
  /\ UNCHANGED <<queue, job, saved, turns, stop, gone, crashes>>

\* The attempt fails once every fetch has settled.
JobFails(f) ==
  /\ job[f].state = "running" /\ failed /\ flight = {}
  /\ \E state \in {"pending", "blocked"} : job' = [job EXCEPT ![f].state = state]
  /\ UNCHANGED <<queue, flight, failed, saved, turns, stop, gone, crashes, trouble>>

\* Mutant: the turn is released before its last file is there.
ReadyEarly(f) == \E i \in job[f].files : saved[i] > 0

Ready(f) == \A i \in job[f].files : saved[i] > 0

\* The reserved turn is released with its files; it runs again even if at work.
Releases(f) ==
  /\ job[f].state = "running" /\ ~failed /\ flight = {} /\ Ready(f)
  /\ turn' = [turn EXCEPT ![f] = IF @.state \in Open
                THEN [state |-> "pending", waits |-> FALSE, files |-> {i \in job[f].files : saved[i] > 0}] ELSE @]
  /\ job' = [job EXCEPT ![f].state = "released"]
  /\ UNCHANGED <<queue, flight, failed, saved, workers, attempted, sent, stop, gone, crashes, trouble>>

JobFinishes(f) ==
  /\ job[f].state = "released"
  /\ job' = [job EXCEPT ![f].state = "done"]
  /\ UNCHANGED <<queue, flight, failed, saved, turns, stop, gone, crashes, trouble>>

-----------------------------------------------------------------------------
(* The workspace's actions. *)

TurnStates == [f \in Files |-> turn[f].state]

\* A turn that waits for its files steps back, or ends with them.
TurnClaims(f, w) ==
  /\ turn[f].state = "pending" /\ FirstOf(TurnStates, f) /\ workers[w].at = "idle"
  /\ \/ /\ stop
        /\ turn' = [turn EXCEPT ![f].state = "done"] /\ UNCHANGED workers
     \/ /\ ~stop /\ (gone \/ (turn[f].waits /\ job[f].state = "blocked"))
        /\ turn' = [turn EXCEPT ![f].state = "blocked"] /\ UNCHANGED workers
     \/ /\ ~stop /\ ~gone /\ ~turn[f].waits
        /\ turn' = [turn EXCEPT ![f].state = "running"]
        /\ workers' = [workers EXCEPT ![w] = [row |-> f, at |-> "find", found |-> FALSE]]
  /\ UNCHANGED <<queue, media, attempted, sent, stop, gone, crashes, trouble>>

\* The handler looks for the message among those the session has.
Finds(w) ==
  /\ workers[w].at = "find"
  /\ LET seen == \E i \in turn[workers[w].row].files : sent[i] > 0
     IN  workers' = [workers EXCEPT ![w] = [row |-> @.row, at |-> "post", found |-> seen]]
  /\ UNCHANGED <<queue, media, turn, attempted, sent, stop, gone, crashes, trouble>>

\* Mutant: a message that was not found is sent, whatever was attempted.
MaySendUnfound(f) == TRUE

MaySend(f) == f \notin attempted

Leaves(w) == workers' = [workers EXCEPT ![w] = Idle]
ReTry(f) == turn' = [turn EXCEPT ![f].state = "pending"]

Posts(w) ==
  LET f == workers[w].row IN
    /\ workers[w].at = "post"
    /\ \/ /\ stop \/ workers[w].found
          /\ workers' = [workers EXCEPT ![w].at = "end"] /\ UNCHANGED <<turn, attempted, sent>>
       \/ /\ ~stop /\ ~workers[w].found /\ MaySend(f)
          /\ attempted' = attempted \cup {f}
          /\ sent' = [i \in Files |-> sent[i] + (IF i \in turn[f].files THEN 1 ELSE 0)]
          /\ workers' = [workers EXCEPT ![w].at = "end"] /\ UNCHANGED turn
       \/ /\ ~stop /\ ~workers[w].found /\ ~MaySend(f)
          /\ ReTry(f) /\ Leaves(w) /\ UNCHANGED <<attempted, sent>>
    /\ UNCHANGED <<queue, media, stop, gone, crashes, trouble>>

\* A row that is no longer running is not finished by its handler.
TurnEnds(w) ==
  LET f == workers[w].row IN
    /\ workers[w].at = "end"
    /\ turn' = [turn EXCEPT ![f].state = IF @ = "running" THEN "done" ELSE @]
    /\ Leaves(w)
    /\ UNCHANGED <<queue, media, attempted, sent, stop, gone, crashes, trouble>>

\* The request is refused, or its answer is lost.
TurnFails(w) ==
  LET f == workers[w].row IN
    /\ workers[w].at \in {"find", "end"}
    /\ Trouble
    /\ \E state \in {"pending", "blocked"} :
         turn' = [turn EXCEPT ![f].state = IF workers[w].at = "end" THEN "pending" ELSE state]
    /\ Leaves(w)
    /\ UNCHANGED <<queue, media, attempted, sent, stop, gone, crashes>>

-----------------------------------------------------------------------------

OwnerStops ==
  /\ Stops /\ ~stop
  /\ stop' = TRUE
  /\ UNCHANGED <<queue, media, turns, gone, crashes, trouble>>

\* The workspace is archived, or its topic follows another.
MovesOn ==
  /\ Stops /\ ~gone
  /\ gone' = TRUE
  /\ UNCHANGED <<queue, media, turns, stop, crashes, trouble>>

\* A restart: rows at work are pending again.
Crashes ==
  /\ crashes < MaxCrashes /\ crashes' = crashes + 1
  /\ update' = [f \in Files |-> IF update[f] = "running" THEN "pending" ELSE update[f]]
  /\ job' = [f \in Files |-> IF job[f].state \in {"running", "released"} THEN [job[f] EXCEPT !.state = "pending"] ELSE job[f]]
  /\ turn' = [f \in Files |-> IF turn[f].state = "running" THEN [turn[f] EXCEPT !.state = "pending"] ELSE turn[f]]
  /\ at' = "rest" /\ flight' = {} /\ failed' = FALSE
  /\ workers' = [w \in Workers |-> Idle]
  /\ UNCHANGED <<leader, joinable, settles, members, told, saved, attempted, sent, stop, gone, trouble>>

Update(f) == Claims(f) \/ Collects(f) \/ Leads(f) \/ Late(f) \/ Finishes(f)
Media(f) ==
  \/ JobClaims(f) \/ JobFails(f) \/ Releases(f) \/ JobFinishes(f)
  \/ \E i \in Files : FetchStarts(f, i) \/ FetchSaves(f, i)
Turn(w) == Finds(w) \/ Posts(w) \/ TurnEnds(w) \/ \E f \in Files : TurnClaims(f, w)

Next ==
  \/ \E f \in Files : \/ Arrives(f) \/ Update(f) \/ Refuses(f) \/ UpdateFails(f) \/ Media(f)
                      \/ \E i \in Files : FetchFails(f, i)
  \/ \E w \in Workers : Turn(w) \/ TurnFails(w)
  \/ Expires \/ OwnerStops \/ MovesOn \/ Crashes

\* The dispatchers of the gateway keep claiming, and their handlers go on.
Fairness ==
  /\ \A f \in Files : WF_vars(Update(f)) /\ WF_vars(Media(f))
  /\ \A w \in Workers : WF_vars(Turn(w))

Spec == Init /\ [][Next]_vars
FairSpec == Spec /\ Fairness

-----------------------------------------------------------------------------
(* Properties. *)

TypeOK ==
  /\ \A f \in Files : /\ update[f] \in Open \cup {"none", "done", "blocked"}
                      /\ job[f].state \in Open \cup {"none", "released", "done", "blocked"}
                      /\ job[f].files \subseteq Files
                      /\ turn[f].state \in Open \cup {"none", "done", "blocked"}
                      /\ turn[f].files \subseteq Files
  /\ at \in {"rest", "collect", "handle", "finish"} /\ leader \in Files \cup {0}
  /\ members \cup told \cup flight \cup attempted \subseteq Files
  /\ settles <= MaxSettles /\ Cardinality(flight) <= 2

\* Every file is saved once and submitted once, though jobs are tried again, a
\* restart has a job released again, and a release puts a turn at work back.
FilesOnce == \A i \in Files : saved[i] <= 1 /\ sent[i] <= 1

\* A turn that was submitted carried every file of its album that was collected.
SentWhole == \A f \in attempted : \A i \in job[f].files : sent[i] > 0

\* Absorbed after its leader's turn was queued: the rows of the turn exist.
Forgotten(i) == leader # 0 /\ i \in members /\ turn[leader].state # "none" /\ i \notin job[leader].files

Reported(f) == f # 0 /\ "blocked" \in {update[f], job[f].state, turn[f].state}

Answered(i) ==
  \/ update[i] = "none" \/ sent[i] > 0 \/ stop \/ i \in told \/ Reported(i)
  \/ i \in members /\ Reported(leader)

\* Every file Telegram delivered reaches the work, or the owner hears that it
\* did not, unless it was absorbed after the turn was queued.
Delivered(i) == update[i] # "none"
FilesArrive == \A i \in Files : Delivered(i) ~> (Answered(i) \/ Forgotten(i))

\* "A file delivered after the album was handled joins whatever work the album
\* started": none is absorbed into a turn that was queued without it.
NoneForgotten == \A i \in Files : ~Forgotten(i)
=============================================================================
