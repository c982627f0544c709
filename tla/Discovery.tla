------------------------------ MODULE Discovery ------------------------------
(***************************************************************************)
(* Discovery of Conductor workspaces (src/cloud/sync.ts) beside the rest of  *)
(* the gateway that makes, binds and retires them.  A scan lists Conductor,  *)
(* and its jobs then read and write one workspace each, four at a time,      *)
(* while launches bind their own workspaces, the poller retires what is      *)
(* gone, the owner stops and archives, and Conductor goes on.                *)
(***************************************************************************)
EXTENDS Naturals, FiniteSets

CONSTANTS
  MaxWorks,    \* workspaces Conductor comes to hold
  MaxLaunches, \* launches the owner asks for: records 1..MaxLaunches
  MaxRecords,  \* records altogether
  MaxFails,    \* failures after which a launch row is blocked (5 in the code)
  MaxRenames,  \* workspaces somebody renames, key and all
  MaxTrouble   \* calls without an answer, refusals, restarts of the gateway

\* What an instance assumes of its constants.
DiscoveryAssumption ==
  /\ {MaxWorks, MaxRecords, MaxFails} \subseteq Nat \ {0}
  /\ {MaxLaunches, MaxRenames, MaxTrouble} \subseteq Nat
  /\ MaxLaunches <= MaxRecords

Works == 1..MaxWorks
Launches == 1..MaxLaunches
Records == 1..MaxRecords

VARIABLES
  \* The gateway's records and launch rows.
  bound,    \* the workspace each record is bound to, 0 for none
  known,    \* the records there are
  archived, \* the records retired
  synced,   \* cloud-synced:<id>
  topic,    \* topic-required:<id>, a topic asked for
  stop,     \* stop:<id>
  order,    \* the stop or archive row of a record: none, archive, stop
  launch,   \* [at, tried, fails, found] of each launch row
  \* The scan: its jobs, each with what the listing said of its workspace.
  jobs,     \* set of [work, phase, key, state]
  checks,   \* the records whose workspace the listing did not show
  \* Conductor.
  state,    \* none, initializing, ready, gone
  key,      \* the record whose creation key is in the name, 0 for none
  early,    \* workspaces renamed before their launch bound them
  used      \* renames and trouble so far

rows == <<bound, known, archived, synced, topic, stop, order, launch>>
scan == <<jobs, checks>>
conductor == <<state, key, early>>
vars == <<bound, known, archived, synced, topic, stop, order, launch, jobs, checks,
          state, key, early, used>>

Init ==
  /\ bound = [r \in Records |-> 0]
  /\ known = {} /\ archived = {} /\ synced = {} /\ topic = {} /\ stop = {}
  /\ order = [r \in Records |-> "none"]
  /\ launch = [r \in Launches |-> [at |-> "none", tried |-> FALSE, fails |-> 0, found |-> 0]]
  /\ jobs = {} /\ checks = {}
  /\ state = [w \in Works |-> "none"]
  /\ key = [w \in Works |-> 0]
  /\ early = {}
  /\ used = [renames |-> 0, trouble |-> 0]

Trouble == used.trouble < MaxTrouble /\ used' = [used EXCEPT !.trouble = @ + 1]

\* Mutant: a launch that gave up counts as one still on its way.
LaunchingTried(r) == r \in Launches /\ launch[r].at # "none"

\* A launch row that is queued or running.
Launching(r) == r \in Launches /\ launch[r].at \notin {"none", "ended"}

Matches(w) == {r \in Records : bound[r] = w}

NewWork(w) == state[w] = "none" /\ \A v \in 1..(w - 1) : state[v] # "none"

-----------------------------------------------------------------------------
(* Launches. *)

Asked(r) ==
  /\ launch[r].at = "none" /\ r \notin known
  /\ known' = known \cup {r}
  /\ launch' = [launch EXCEPT ![r].at = "queued"]
  /\ UNCHANGED <<bound, archived, synced, topic, stop, order, scan, conductor, used>>

Ends(r) == launch' = [launch EXCEPT ![r] = [@ EXCEPT !.at = "ended", !.found = 0]]

\* A handler fails with no answer: the row is retried, and blocked in the end.
Fails(r) ==
  LET at == IF launch[r].fails + 1 >= MaxFails THEN "ended" ELSE "queued" IN
  launch' = [launch EXCEPT ![r] = [@ EXCEPT !.at = at, !.fails = launch[r].fails + 1, !.found = 0]]

\* The row before its binding: a creation, once, or the search for it.
LaunchStarts(r) ==
  /\ launch[r].at = "queued" /\ bound[r] = 0
  /\ \/ /\ r \in stop /\ Ends(r)
     \/ /\ r \notin stop /\ ~launch[r].tried
        /\ launch' = [launch EXCEPT ![r] = [@ EXCEPT !.at = "calling", !.tried = TRUE]]
     \/ /\ r \notin stop /\ launch[r].tried
        /\ LET found == {w \in Works : key[w] = r} IN
           \/ Cardinality(found) # 1 /\ Fails(r)
           \/ \E w \in found : /\ found = {w}
                               /\ launch' = [launch EXCEPT ![r] = [@ EXCEPT !.at = "binding", !.found = w]]
  /\ UNCHANGED <<bound, known, archived, synced, topic, stop, order, scan, conductor, used>>

\* Conductor makes the workspace, perhaps after the gateway gave up on the call.
CreateTaken(r) ==
  /\ launch[r].tried /\ launch[r].at # "binding" /\ bound[r] = 0
  /\ \A w \in Works : key[w] # r /\ w \notin early
  /\ \E w \in Works :
       /\ NewWork(w)
       /\ state' = [state EXCEPT ![w] = "initializing"]
       /\ key' = [key EXCEPT ![w] = r]
       /\ launch' = IF launch[r].at = "calling" THEN [launch EXCEPT ![r].found = w] ELSE launch
  /\ UNCHANGED <<bound, known, archived, synced, topic, stop, order, scan, early, used>>

CreateAnswered(r) ==
  /\ launch[r].at = "calling" /\ launch[r].found # 0
  /\ launch' = [launch EXCEPT ![r].at = "binding"]
  /\ UNCHANGED <<bound, known, archived, synced, topic, stop, order, scan, conductor, used>>

CreateRefused(r) ==
  /\ launch[r].at = "calling" /\ launch[r].found = 0
  /\ Trouble
  /\ launch' = [launch EXCEPT ![r] = [@ EXCEPT !.at = "ended", !.tried = FALSE]]
  /\ UNCHANGED <<bound, known, archived, synced, topic, stop, order, scan, conductor>>

Binds(r) ==
  /\ launch[r].at = "binding"
  /\ bound' = [bound EXCEPT ![r] = launch[r].found]
  /\ launch' = [launch EXCEPT ![r] = [@ EXCEPT !.at = "queued", !.found = 0]]
  /\ UNCHANGED <<known, archived, synced, topic, stop, order, scan, conductor, used>>

\* retire: the record is archived, and nothing waits for its topic any more.
Retire(r) == archived' = archived \cup {r} /\ topic' = topic \ {r}

\* The row once it is bound: it waits, gives the workspace up, or sends.
LaunchGoesOn(r) ==
  /\ launch[r].at = "queued" /\ bound[r] # 0
  /\ \/ /\ r \in stop \cup archived /\ Ends(r) /\ UNCHANGED <<archived, topic>>
     \/ /\ r \notin stop \cup archived /\ state[bound[r]] = "gone"
        /\ Ends(r) /\ Retire(r)
     \/ /\ r \notin stop \cup archived /\ state[bound[r]] = "ready"
        /\ launch' = [launch EXCEPT ![r].at = "sending"] /\ UNCHANGED <<archived, topic>>
  /\ UNCHANGED <<bound, known, synced, stop, order, scan, conductor, used>>

\* openTopic: work that is being sent to has a topic, unless it was retired
\* since its status was read.
LaunchSends(r) ==
  /\ launch[r].at = "sending"
  /\ Ends(r)
  /\ topic' = IF r \in stop \cup archived THEN topic ELSE topic \cup {r}
  /\ UNCHANGED <<bound, known, archived, synced, stop, order, scan, conductor, used>>

LaunchFails(r) ==
  /\ Launching(r)
  /\ Trouble
  /\ Fails(r)
  /\ UNCHANGED <<bound, known, archived, synced, topic, stop, order, scan, conductor>>

-----------------------------------------------------------------------------
(* The owner's stop and archive, and the poller. *)

Orders(r, type) ==
  /\ r \in known \ archived /\ order[r] = "none" /\ r \notin stop
  /\ stop' = stop \cup {r}
  /\ order' = [order EXCEPT ![r] = type]
  /\ UNCHANGED <<bound, known, archived, synced, topic, launch, scan, conductor, used>>

OrderRuns(r) ==
  /\ order[r] # "none"
  /\ bound[r] # 0 \/ ~Launching(r)
  /\ order' = [order EXCEPT ![r] = "none"]
  /\ IF order[r] = "stop"
     THEN UNCHANGED <<archived, topic, state>>
     ELSE /\ IF r \in archived THEN UNCHANGED <<archived, topic>> ELSE Retire(r)
          /\ state' = IF bound[r] = 0 THEN state ELSE [state EXCEPT ![bound[r]] = "gone"]
  /\ UNCHANGED <<bound, known, synced, stop, launch, scan, key, early, used>>

PollRetires(r) ==
  /\ bound[r] # 0 /\ r \notin archived
  /\ state[bound[r]] = "gone" /\ ~Launching(r)
  /\ Retire(r)
  /\ UNCHANGED <<bound, known, synced, stop, order, launch, scan, conductor, used>>

-----------------------------------------------------------------------------
(* The scan. *)

\* One listing; then a job for each active workspace in it, and a check of each
\* synced record whose workspace it does not show.
ScanLists ==
  /\ jobs = {} /\ checks = {}
  /\ LET active == {w \in Works : state[w] \in {"initializing", "ready"}} IN
     /\ jobs' = {[work |-> w, phase |-> "start", key |-> key[w], state |-> state[w]] : w \in active}
     /\ checks' = {r \in synced \ archived : bound[r] \notin active}
  /\ UNCHANGED <<rows, conductor, used>>

Started == {j \in jobs : j.phase = "start"}
Reading == {j \in jobs : j.phase = "reading"}

\* Mutant: a workspace is looked after on the first scan that knows it only.
FollowedOnce(r, j) == IF r \in synced \/ j.state = "initializing" \/ Launching(r) THEN topic ELSE topic \cup {r}

\* The topic waits for a workspace in the making, or for the end of its launch.
Followed(r, j) == IF j.state = "initializing" \/ Launching(r) THEN topic ELSE topic \cup {r}

\* Known under one record: it is followed from now on, and gets its topic once
\* its launch is over.
Follows(j) ==
  /\ j \in Started
  /\ \E r \in Matches(j.work) :
       /\ Matches(j.work) = {r}
       /\ IF r \in stop \cup archived THEN UNCHANGED <<synced, topic>>
          ELSE /\ synced' = synced \cup {r}
               /\ topic' = Followed(r, j)
  /\ jobs' = jobs \ {j}
  /\ UNCHANGED <<bound, known, archived, stop, order, launch, checks, conductor, used>>

\* Several bindings are an error that stands until somebody reconciles them.
Refuses(j) ==
  /\ j \in Started
  /\ Cardinality(Matches(j.work)) > 1
  /\ jobs' = jobs \ {j}
  /\ UNCHANGED <<rows, checks, conductor, used>>

\* Mutant: a workspace under the key of a launch is taken for somebody else's.
ForeignAlways(j) == TRUE

\* A workspace this gateway created is left to its launch.
Foreign(j) == j.key = 0 \/ j.key \notin known

Reads(j) == Matches(j.work) = {} /\ Foreign(j) /\ j.state # "initializing"

Considers(j) ==
  /\ j \in Started
  /\ Matches(j.work) = {}
  /\ jobs' = (jobs \ {j}) \cup (IF Reads(j) THEN {[j EXCEPT !.phase = "reading"]} ELSE {})
  /\ UNCHANGED <<rows, checks, conductor, used>>

\* After the reads the binding is checked again, and the record inserted.
Attaches(j) ==
  /\ j \in Reading
  /\ jobs' = jobs \ {j}
  /\ IF Matches(j.work) # {} THEN UNCHANGED <<bound, known, synced, topic>>
     ELSE \E r \in Records \ (Launches \cup known) :
            /\ \A q \in 1..(r - 1) : q \in Launches \cup known
            /\ known' = known \cup {r}
            /\ bound' = [bound EXCEPT ![r] = j.work]
            /\ synced' = synced \cup {r}
            /\ topic' = topic \cup {r}
  /\ UNCHANGED <<archived, stop, order, launch, checks, conductor, used>>

\* The check of a record whose workspace the listing did not show.
Checks(r) ==
  /\ r \in checks
  /\ checks' = checks \ {r}
  /\ IF state[bound[r]] = "gone" /\ r \notin archived \cup stop /\ ~Launching(r)
     THEN Retire(r) ELSE UNCHANGED <<archived, topic>>
  /\ UNCHANGED <<bound, known, synced, stop, order, launch, jobs, conductor, used>>

\* A job fails: the workspace waits for the next scan.
JobFails ==
  /\ jobs # {} \/ checks # {}
  /\ Trouble
  /\ \/ \E j \in jobs : jobs' = jobs \ {j} /\ UNCHANGED checks
     \/ \E r \in checks : checks' = checks \ {r} /\ UNCHANGED jobs
  /\ UNCHANGED <<rows, conductor>>

\* The gateway restarts: the scan is gone and every running row is queued.
Restarts ==
  /\ Trouble
  /\ jobs' = {} /\ checks' = {}
  /\ launch' = [r \in Launches |-> IF Launching(r) THEN [launch[r] EXCEPT !.at = "queued", !.found = 0] ELSE launch[r]]
  /\ UNCHANGED <<bound, known, archived, synced, topic, stop, order, conductor>>

-----------------------------------------------------------------------------
(* Conductor. *)

MadeOutside ==
  /\ \E w \in Works : NewWork(w) /\ state' = [state EXCEPT ![w] = "initializing"]
  /\ UNCHANGED <<rows, scan, key, early, used>>

Provisioned(w) ==
  /\ state[w] = "initializing"
  /\ state' = [state EXCEPT ![w] = "ready"]
  /\ UNCHANGED <<rows, scan, key, early, used>>

Destroyed(w) ==
  /\ state[w] \in {"initializing", "ready"}
  /\ state' = [state EXCEPT ![w] = "gone"]
  /\ UNCHANGED <<rows, scan, key, early, used>>

\* The name loses the creation key: an outside rename, or the title the gateway
\* gives it once it is bound.
Renamed(w) ==
  /\ key[w] # 0 /\ state[w] # "gone"
  /\ IF bound[key[w]] = w THEN UNCHANGED <<early, used>>
     ELSE /\ used.renames < MaxRenames /\ used' = [used EXCEPT !.renames = @ + 1]
          /\ early' = early \cup {w}
  /\ key' = [key EXCEPT ![w] = 0]
  /\ UNCHANGED <<rows, scan, state>>

Launch(r) ==
  LaunchStarts(r) \/ CreateAnswered(r) \/ Binds(r) \/ LaunchGoesOn(r) \/ LaunchSends(r)

Job ==
  \/ \E j \in jobs : Follows(j) \/ Refuses(j) \/ Considers(j) \/ Attaches(j)
  \/ \E r \in checks : Checks(r)

Next ==
  \/ \E r \in Launches : Asked(r) \/ Launch(r) \/ CreateTaken(r) \/ CreateRefused(r) \/ LaunchFails(r)
  \/ \E r \in Records : OrderRuns(r) \/ PollRetires(r) \/ \E type \in {"stop", "archive"} : Orders(r, type)
  \/ ScanLists \/ Job \/ JobFails \/ Restarts \/ MadeOutside
  \/ \E w \in Works : Provisioned(w) \/ Destroyed(w) \/ Renamed(w)

\* The loops of the gateway run, and Conductor answers a creation.
Fairness ==
  /\ WF_vars(ScanLists) /\ WF_vars(Job)
  /\ \A r \in Launches : WF_vars(Launch(r)) /\ WF_vars(CreateTaken(r))
  /\ \A r \in Records : WF_vars(OrderRuns(r)) /\ WF_vars(PollRetires(r))

Spec == Init /\ [][Next]_vars
FairSpec == Spec /\ Fairness

-----------------------------------------------------------------------------
(* Properties. *)

TypeOK ==
  /\ bound \in [Records -> Works \cup {0}]
  /\ archived \cup synced \cup topic \cup stop \subseteq known /\ known \subseteq Records
  /\ order \in [Records -> {"none", "stop", "archive"}]
  /\ launch \in [Launches -> [at : {"none", "queued", "calling", "binding", "sending", "ended"}, tried : BOOLEAN,
                              fails : 0..MaxFails, found : Works \cup {0}]]
  /\ jobs \subseteq [work : Works, phase : {"start", "reading"}, key : Records \cup {0},
                     state : {"initializing", "ready"}]
  /\ checks \subseteq known
  /\ state \in [Works -> {"none", "initializing", "ready", "gone"}]
  /\ key \in [Works -> Launches \cup {0}] /\ early \subseteq Works

\* No workspace is followed under two records, however a scan's reads overlap
\* its creation, its launch's retries and its renaming, unless somebody renames
\* it in Conductor before its launch has bound it.
OneRecord == \A w \in Works \ early : Cardinality(Matches(w)) <= 1

\* A workspace somebody else made is found, and every followed workspace comes
\* to have a topic, unless it goes or is stopped.
Stays(w) == state[w] = "ready" /\ (key[w] = 0 \/ Matches(w) # {})
Shown(w) == \E r \in Matches(w) : r \in topic \cup stop
IsFollowed == \A w \in Works : <>[]Stays(w) => <>Shown(w)

\* The record of a workspace that is gone is retired, whoever finds out, and
\* asks for no topic afterwards.
PutAside(w) == Matches(w) \subseteq archived /\ Matches(w) \cap topic = {}
Gone(w) == state[w] = "gone"
GoneIsRetired == \A w \in Works : [](Gone(w) => <>[]PutAside(w))
=============================================================================
