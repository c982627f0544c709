------------------------------ MODULE PartsProofs ------------------------------
(***************************************************************************)
(* Proofs about components that MCComponents takes: the local runs of a    *)
(* workspace, which are their takeover by Conductor Cloud (LocalTakeover)  *)
(* and the processes (LocalAgents); the discovery of workspaces beside     *)
(* those that make them (Discovery); the router of messages in words       *)
(* (RouterTurn) and the thread that the bot follows (SessionPoll).  For    *)
(* any number of prompts, agents, workspaces, rounds, messages, turns and  *)
(* failures.                                                               *)
(***************************************************************************)
EXTENDS LocalTakeover, Sequences, FiniteSetTheorems, NaturalsInduction, TLAPS

-----------------------------------------------------------------------------
(***************************************************************************)
(* The takeover.  That a request reaches Cloud once is not inductive: it   *)
(* is carried by the first prompt or by the outbox, and what keeps the two *)
(* apart is the bookkeeping of the handlers in memory (`durable',          *)
(* `included').  A request is fresh until it fails locally; from then on   *)
(* it is pending in the takeover, durable (the outbox had it) or included  *)
(* (the first prompt has it), and never both.                              *)
(***************************************************************************)
Phases == {"new", "sending", "local", "owns", "waits", "flush", "done"}
Statuses == {"starting", "running", "failed", "stopped"}
Places == {"idle", "branch", "backend", "creating", "status", "validate", "posted", "naming",
           "archiving", "report"}
Results == {"none", "skipped", "canceled", "failed", "recovered", "uncertain"}
Taker == [pc : Places, owner : {0} \cup Requests, pend : SUBSET Requests, included : SUBSET Requests,
          durable : SUBSET Requests, persisted : BOOLEAN, result : Results]

Shape ==
    /\ row \in [status : Statuses, bound : BOOLEAN]
    /\ taker \in Taker
    /\ request \in [Requests -> Phases]
    /\ ran \in [Requests -> Nat]
    /\ fenced \in [Requests -> {"no", "held", "raced"}]
    /\ outbox \subseteq Requests

\* A request that has not failed locally is nowhere else.
Fresh == \A r \in Requests : request[r] \in {"new", "sending", "local"} =>
             ran[r] = 0 /\ r \notin outbox \cup taken \cup taker.pend

\* Those that own or wait for a takeover are the ones it has pending.
Pending == \A r \in Requests : /\ request[r] \in {"owns", "waits"} <=> r \in taker.pend
                               /\ request[r] = "owns" => r = taker.owner

\* What the outbox never had is not in it, and has not been accepted unless the first prompt carries it.
Apart == \A r \in taker.pend :
             /\ r \in taker.included => r \notin taker.durable
             /\ r \notin taker.durable => r \notin outbox \cup taken
             /\ r \notin taker.durable \cup taker.included => ran[r] = 0

\* There is no first prompt before it is composed, and none of what nobody waits for.
Unmade == {"idle", "branch", "backend", "creating"}
Early == Unmade \cup {"status"}
Composed == /\ taker.included \subseteq taker.pend /\ taker.pend \subseteq Requests
            /\ taker.pc \in Early => taker.included = {}
            /\ taker.pc \in Unmade => ~taker.persisted
            /\ ~taker.persisted => taker.durable = {}

\* The first prompt that has not been accepted carries what no message has carried.
Unsent == row.bound /\ first = {} => \A r \in taker.included : ran[r] = 0

\* A launch is that of a bound row.
Bound == saga # "none" => row.bound

\* Nor has anything carried a request that waits in the outbox for its turn.
Queued == \A r \in outbox \ taken : ran[r] = 0

\* While the fence of a Stop stands the row is settled: it takes no request and has no prompt composed.
Fenced == \A r \in Requests : fenced[r] = "held" =>
              /\ ran[r] = 0 /\ r \notin taker.included
              /\ row.status \in {"stopped", "failed"}

IInv == /\ Shape /\ Fresh /\ Pending /\ Apart /\ Composed /\ Unsent /\ Bound /\ Queued
        /\ ReplayedOnce /\ Fenced

-----------------------------------------------------------------------------
(* The steps, by what they do to the requests.                             *)

\* Most steps move the launch, the handler or the row on, and requests only out of the outbox.
Calm ==
    /\ UNCHANGED <<request, ran, taken, fenced>>
    /\ outbox' \subseteq outbox
    /\ row' \in [status : Statuses, bound : BOOLEAN] /\ taker' \in Taker
    /\ taker'.pend = taker.pend /\ taker'.included = taker.included
    /\ taker'.durable = taker.durable /\ taker'.owner = taker.owner
    /\ taker'.persisted = taker.persisted
    /\ taker'.pc \in Early => taker.pc \in Early
    /\ taker'.pc \in Unmade => taker.pc \in Unmade
    /\ saga' # "none" => row'.bound
    /\ row'.bound /\ first' = {} => row.bound /\ first = {}
    /\ row.status \in {"stopped", "failed"} => row'.status \in {"stopped", "failed"}

\* They keep the invariant: a row that was unbound is not bound again, a settled one stays settled.
LEMMA CalmStep == ASSUME IInv, Calm PROVE IInv'
<1> USE DEF IInv, Calm
<1>1. Shape' /\ Bound'
  BY DEF Shape, Bound
<1>2. Fresh' /\ Pending' /\ Apart' /\ Composed'
  BY DEF Fresh, Pending, Apart, Composed
<1>3. Unsent' /\ Queued' /\ ReplayedOnce' /\ Fenced'
  BY DEF Unsent, Queued, ReplayedOnce, Fenced
<1> QED
  BY <1>1, <1>2, <1>3

\* The handler of the takeover goes on to `pc', with the same requests.
Moves(pc) == /\ taker' \in Taker /\ taker'.pc = pc
             /\ taker'.pend = taker.pend /\ taker'.included = taker.included
             /\ taker'.durable = taker.durable /\ taker'.owner = taker.owner
             /\ taker'.persisted = taker.persisted

\* It reports.
LEMMA ResultMoves == ASSUME IInv PROVE \A what \in Results : Result(what) => Moves("report")
<1> SUFFICES ASSUME NEW what \in Results, Result(what) PROVE Moves("report")
  OBVIOUS
<1> DEFINE t == [taker EXCEPT !.pc = "report"]
<1>1. taker' = [t EXCEPT !.result = what]
  BY DEF Result
<1>2. t \in Taker /\ t.pend = taker.pend /\ t.included = taker.included
      /\ t.durable = taker.durable /\ t.owner = taker.owner
      /\ t.persisted = taker.persisted /\ t.pc = "report"
  BY DEF IInv, Shape, Taker, Places
<1> HIDE DEF t
<1> QED
  BY <1>1, <1>2 DEF Taker, Moves

\* It takes a step.
LEMMA StepMoves == ASSUME IInv PROVE \A pc \in Places : Step(pc) => Moves(pc)
  BY DEF Step, IInv, Shape, Taker, Moves

\* However a launch fails, the handler archives its workspace or reports.
LEMMA FailsCalmly == ASSUME IInv, LaunchFails PROVE Calm
<1> USE DEF IInv
<1>1. UNCHANGED <<row, request, first, taken, ran, fenced>>
  BY DEF LaunchFails
<1>2. \/ UNCHANGED <<saga, outbox>> /\ Moves("report")
      \/ saga # "none" /\ outbox' \subseteq outbox /\ Moves("archiving")
  <2>1. CASE Finalized
    BY <2>1, ResultMoves DEF LaunchFails, Settled, Results
  <2>2. CASE ~Finalized /\ row.status = "stopped" /\ saga # "none"
    BY <2>2, StepMoves DEF LaunchFails, Places
  <2>3. CASE ~Finalized /\ ~(row.status = "stopped" /\ saga # "none")
    <3>1. CASE saga \in {"provisioned", "send", "cleanup"}
      BY <2>3, <3>1, StepMoves DEF LaunchFails, Places
    <3>2. CASE saga \notin {"provisioned", "send", "cleanup"}
      BY <2>3, <3>2, ResultMoves DEF LaunchFails, Results
    <3> QED
      BY <3>1, <3>2
  <2> QED
    BY <2>1, <2>2, <2>3
<1> QED
  BY <1>1, <1>2 DEF Calm, Moves, Early, Unmade, Shape, Bound

\* The steps of the takeover that only move it on.
LEMMA TakesCalmly ==
    ASSUME IInv,
           \/ BranchRefused \/ BackendRefused \/ CreateFails \/ CallFails \/ CheckoutMoved \/ ArchiveFails
           \/ BranchChecked \/ BackendChecked \/ Posts \/ Answered \/ Finalizes \/ LaunchRefused \/ Archived
    PROVE  Calm
<1> USE DEF IInv, Shape, Bound, Early, Unmade, Statuses, Results, Places
<1>1. CASE BranchRefused \/ BackendRefused
  BY <1>1, ResultMoves DEF BranchRefused, BackendRefused, NotHandled, Calm, Moves
<1>2. CASE CreateFails
  BY <1>2, ResultMoves DEF CreateFails, Calm, Moves
<1>3. CASE CallFails \/ CheckoutMoved \/ LaunchRefused
  BY <1>3, FailsCalmly DEF CallFails, CheckoutMoved, LaunchRefused
<1>4. CASE ArchiveFails
  BY <1>4, ResultMoves DEF ArchiveFails, Calm, Moves
<1>5. CASE BranchChecked
  BY <1>5, StepMoves DEF BranchChecked, Calm, Moves
<1>6. CASE BackendChecked
  BY <1>6, StepMoves, ResultMoves DEF BackendChecked, Calm, Moves
<1>7. CASE Posts
  BY <1>7, StepMoves DEF Posts, Calm, Moves
<1>8. CASE Answered
  BY <1>8, StepMoves DEF Answered, Finalized, Calm, Moves
<1>9. CASE Finalizes
  <2>1. Moves("report")
    BY <1>9, ResultMoves DEF Finalizes, Settled
  <2>2. /\ UNCHANGED <<request, ran, taken, fenced, outbox, first>>
        /\ saga' = "none" \/ saga' = saga
        /\ row' = row \/ (row.status = "starting" /\ row' = [row EXCEPT !.status = "running"])
    BY <1>9 DEF Finalizes
  <2> QED
    BY <2>1, <2>2 DEF Calm, Moves
<1>10. CASE Archived
  <2>1. Moves("report")
    BY <1>10, ResultMoves DEF Archived
  <2>2. CASE Restores
    BY <1>10, <2>1, <2>2 DEF Archived, Restores, Calm, Moves
  <2>3. CASE UNCHANGED <<row, saga, outbox, first>>
    BY <1>10, <2>1, <2>3 DEF Archived, Calm, Moves
  <2> QED
    BY <1>10, <2>2, <2>3 DEF Archived
<1> QED
  BY <1>1, <1>2, <1>3, <1>4, <1>5, <1>6, <1>7, <1>8, <1>9, <1>10

\* The steps of the poller that send nothing, and those of the flush.
LEMMA PollsCalmly ==
    ASSUME IInv, \/ PollerMarks \/ PollerFinalizes \/ PollerTurns \/ PollerCleans \/ FlushSuppresses
                 \/ \E r \in Requests : FlushCompletes(r)
    PROVE  Calm
<1> USE DEF IInv, Shape, Bound, Early, Unmade, Statuses
<1>1. CASE PollerMarks \/ PollerTurns
  BY <1>1 DEF PollerMarks, PollerTurns, Calm
<1>2. CASE PollerFinalizes
  BY <1>2 DEF PollerFinalizes, Calm
<1>3. CASE PollerCleans
  BY <1>3 DEF PollerCleans, Restores, Calm
<1>4. CASE FlushSuppresses
  BY <1>4 DEF FlushSuppresses, Calm
<1>5. ASSUME NEW r \in Requests, FlushCompletes(r) PROVE Calm
  BY <1>5 DEF FlushCompletes, CanFlush, Calm
<1> QED
  BY <1>1, <1>2, <1>3, <1>4, <1>5

\* A local run goes on, ends or fails: it has not been taken over.  New work lifts every fence.
LEMMA LocalStep ==
    ASSUME IInv, NEW r \in Requests, SendBegins(r) \/ SendSpawns(r) \/ LocalEnds(r) \/ LocalFails(r)
    PROVE  IInv'
<1> USE DEF IInv, Shape, Statuses, Phases
<1>1. /\ UNCHANGED <<saga, taker, outbox, first, taken, ran>> /\ row'.bound = row.bound
      /\ row' \in [status : Statuses, bound : BOOLEAN]
      /\ request[r] \in {"new", "sending", "local"}
      /\ request' \in [Requests -> Phases]
      /\ request'[r] \in {"sending", "local", "done"}
      /\ \A q \in Requests : q # r => request'[q] = request[q]
  BY DEF SendBegins, SendSpawns, LocalEnds, LocalFails
<1>2. \/ fenced' = [q \in Requests |-> "no"]
      \/ fenced' = fenced /\ row'.status \in {row.status, "failed"}
  BY DEF SendBegins, SendSpawns, LocalEnds, LocalFails
<1>3. Shape' /\ Fresh' /\ Pending'
  BY <1>1, <1>2 DEF Fresh, Pending
<1>4. Apart' /\ Composed' /\ Unsent' /\ Bound' /\ Queued' /\ ReplayedOnce'
  BY <1>1 DEF Apart, Composed, Unsent, Bound, Queued, ReplayedOnce
<1>5. Fenced'
  BY <1>1, <1>2 DEF Fenced
<1> QED
  BY <1>3, <1>4, <1>5

\* The first failed request begins a takeover, with nothing included yet.
LEMMA BeginStep == ASSUME IInv, NEW r \in Requests, TakeoverBegins(r) PROVE IInv'
<1> USE DEF IInv, Shape, Phases
<1> DEFINE t == [NoTaker EXCEPT !.pc = "branch"]
           u == [t EXCEPT !.owner = r]
<1>1. /\ taker' \in Taker /\ taker'.pc = "branch" /\ taker'.pend = {r}
      /\ taker'.included = {} /\ taker'.durable = {}
      /\ taker'.owner = r /\ ~taker'.persisted
  <2>1. taker' = [u EXCEPT !.pend = {r}]
    BY DEF TakeoverBegins
  <2>2. /\ u \in Taker /\ u.pc = "branch" /\ u.included = {} /\ u.durable = {}
        /\ u.owner = r /\ ~u.persisted
    BY DEF NoTaker, Taker, Places, Results
  <2> HIDE DEF u
  <2> QED
    BY <2>1, <2>2 DEF Taker
<1>2. /\ UNCHANGED <<row, saga, outbox, first, taken, ran, fenced>>
      /\ request[r] = "local" /\ request' = [request EXCEPT ![r] = "owns"]
      /\ taker.pend = {}
  BY DEF TakeoverBegins, NoTaker
<1>3. Shape' /\ Fresh' /\ Pending'
  BY <1>1, <1>2 DEF Fresh, Pending
<1>4. Apart' /\ Composed' /\ Unsent' /\ Bound' /\ Queued' /\ ReplayedOnce'
  BY <1>1, <1>2 DEF Apart, Composed, Unsent, Bound, Queued, ReplayedOnce, Fresh
<1>5. Fenced'
  BY <1>1, <1>2 DEF Fenced
<1> QED
  BY <1>3, <1>4, <1>5

\* A later one joins it, and the outbox has it at once or not at all.
LEMMA JoinStep == ASSUME IInv, NEW r \in Requests, TakeoverJoined(r) PROVE IInv'
<1> USE DEF IInv, Shape, Phases
<1>1. /\ UNCHANGED <<row, saga, first, taken, ran, fenced>>
      /\ request[r] = "local" /\ request' = [request EXCEPT ![r] = "waits"]
  BY DEF TakeoverJoined
<1>2. /\ taker' \in Taker /\ taker'.pc = taker.pc /\ taker'.included = taker.included
      /\ taker'.pend = taker.pend \cup {r} /\ taker'.owner = taker.owner
      /\ taker'.persisted = taker.persisted
      /\ \/ outbox' = outbox \cup {r} /\ taker'.durable = taker.durable \cup {r}
            /\ taker.persisted
         \/ outbox' = outbox /\ taker'.durable = taker.durable
  <2>1. CASE Joins(r)
    <3> DEFINE t == [taker EXCEPT !.pend = taker.pend \cup {r}]
    <3>1. /\ taker' = [t EXCEPT !.durable = taker.durable \cup {r}]
          /\ outbox' = outbox \cup {r} /\ taker.persisted
      BY <2>1 DEF Joins
    <3>2. /\ t \in Taker /\ t.pend = taker.pend \cup {r}
          /\ t.included = taker.included /\ t.pc = taker.pc
          /\ t.owner = taker.owner /\ t.persisted = taker.persisted
      BY DEF Taker
    <3> HIDE DEF t
    <3> QED
      BY <3>1, <3>2 DEF Taker
  <2>2. CASE taker' = [taker EXCEPT !.pend = @ \cup {r}] /\ UNCHANGED outbox
    BY <2>2 DEF Taker
  <2> QED
    BY <2>1, <2>2 DEF TakeoverJoined
<1>3. ran[r] = 0 /\ r \notin outbox \cup taken \cup taker.pend
  BY <1>1 DEF Fresh
<1>4. r \notin taker.included
  BY <1>3 DEF Composed
<1>5. Shape' /\ Fresh' /\ Pending'
  BY <1>1, <1>2 DEF Fresh, Pending
<1>6. Apart'
  BY <1>1, <1>2, <1>3, <1>4 DEF Apart
<1>7. Composed' /\ Unsent' /\ Bound' /\ Queued' /\ ReplayedOnce'
  BY <1>1, <1>2, <1>3 DEF Composed, Unsent, Bound, Queued, ReplayedOnce
<1>8. Fenced'
  BY <1>1, <1>2 DEF Fenced
<1> QED
  BY <1>5, <1>6, <1>7, <1>8

\* One that fails after the takeover takes the outbox, if that takes it.
LEMMA LateStep == ASSUME IInv, NEW r \in Requests, LateRequest(r) PROVE IInv'
<1> USE DEF IInv, Shape, Phases
<1>1. /\ UNCHANGED <<row, saga, taker, first, taken, ran, fenced>>
      /\ request[r] = "local" /\ outbox' \in {outbox, outbox \cup {r}}
      /\ request' \in [Requests -> Phases] /\ request'[r] \in {"flush", "done"}
      /\ \A q \in Requests : q # r => request'[q] = request[q]
  BY DEF LateRequest
<1>2. ran[r] = 0 /\ r \notin outbox \cup taken \cup taker.pend
  BY <1>1 DEF Fresh
<1>3. Shape' /\ Fresh' /\ Pending'
  BY <1>1, <1>2 DEF Fresh, Pending
<1>4. Apart' /\ Composed' /\ Unsent' /\ Bound' /\ Queued' /\ ReplayedOnce' /\ Fenced'
  BY <1>1, <1>2 DEF Apart, Composed, Unsent, Bound, Queued, ReplayedOnce, Fenced
<1> QED
  BY <1>3, <1>4

\* A request that was forwarded is reported.
LEMMA ForwardStep == ASSUME IInv, NEW r \in Requests, ForwardReports(r) PROVE IInv'
<1> USE DEF IInv, Shape, Phases
<1>1. /\ UNCHANGED <<row, saga, taker, outbox, first, taken, ran, fenced>>
      /\ request[r] = "flush" /\ request' = [request EXCEPT ![r] = "done"]
  BY DEF ForwardReports
<1>2. Shape' /\ Fresh' /\ Pending'
  BY <1>1 DEF Fresh, Pending
<1>3. Apart' /\ Composed' /\ Unsent' /\ Bound' /\ Queued' /\ ReplayedOnce' /\ Fenced'
  BY <1>1 DEF Apart, Composed, Unsent, Bound, Queued, ReplayedOnce, Fenced
<1> QED
  BY <1>2, <1>3

\* The launch is persisted: the outbox takes those who wait, and they are durable from then on.
LEMMA CreatedStep == ASSUME IInv, Created PROVE IInv'
<1> USE DEF IInv, Shape
<1> DEFINE joins == IF PersistedPhase(row.status) = "provisioned" THEN Waiting ELSE {}
           t == [taker EXCEPT !.pc = "status"]
           u == [t EXCEPT !.persisted = TRUE]
<1>1. /\ UNCHANGED <<request, taken, ran, fenced>>
      /\ taker.pc = "creating" /\ outbox' = outbox \cup joins /\ first' = {}
      /\ row' = [status |-> IF PersistedPhase(row.status) = "provisioned" THEN "starting"
                            ELSE row.status, bound |-> TRUE]
  BY DEF Created
<1>2. joins \subseteq taker.pend /\ taker.included = {} /\ taker.durable = {}
  BY <1>1 DEF Waiting, Pending, Composed, Early, Unmade
<1>3. /\ taker' \in Taker /\ taker'.pc = "status" /\ taker'.pend = taker.pend
      /\ taker'.included = {} /\ taker'.durable = joins /\ taker'.owner = taker.owner
      /\ taker'.persisted
  <2>1. taker' = [u EXCEPT !.durable = taker.durable \cup joins]
    BY DEF Created
  <2>2. /\ u \in Taker /\ u.pc = "status" /\ u.pend = taker.pend /\ u.included = {}
        /\ u.owner = taker.owner /\ u.persisted
    BY <1>2 DEF Taker, Places
  <2>3. joins \subseteq Requests
    BY DEF Waiting
  <2> HIDE DEF u, joins
  <2> QED
    BY <1>2, <2>1, <2>2, <2>3 DEF Taker
<1>4. row.status \in {"stopped", "failed"} => joins = {} /\ row'.status = row.status
  BY <1>1 DEF PersistedPhase
<1> HIDE DEF joins
<1>5. Shape'
  BY <1>1, <1>2, <1>3 DEF Statuses, Taker
<1>6. Fresh' /\ Pending' /\ Composed' /\ Unsent' /\ Bound'
  BY <1>1, <1>2, <1>3 DEF Fresh, Pending, Composed, Early, Unmade, Unsent, Bound
<1>7. Apart' /\ Queued' /\ ReplayedOnce'
  BY <1>1, <1>2, <1>3 DEF Apart, Queued, ReplayedOnce
<1>8. Fenced'
  BY <1>1, <1>3, <1>4 DEF Fenced
<1> QED
  BY <1>5, <1>6, <1>7, <1>8

\* The first prompt is composed of what the outbox never had; no fence stands, for the row is starting.
LEMMA ComposeStep == ASSUME IInv, Composes PROVE IInv'
<1> USE DEF IInv, Shape
<1> DEFINE t == [taker EXCEPT !.pc = "validate"]
<1>1. /\ UNCHANGED <<row, request, outbox, first, taken, ran, fenced>>
      /\ taker.pc = "status" /\ row.status = "starting" /\ row.bound
  BY DEF Composes, Bound
<1>2. /\ taker' \in Taker /\ taker'.pc = "validate" /\ taker'.pend = taker.pend
      /\ taker'.included = taker.pend \ taker.durable /\ taker'.durable = taker.durable
      /\ taker'.owner = taker.owner /\ taker'.persisted = taker.persisted
  <2>1. taker' = [t EXCEPT !.included = taker.pend \ taker.durable]
    BY DEF Composes, Included
  <2>2. /\ t \in Taker /\ t.pc = "validate" /\ t.pend = taker.pend /\ t.durable = taker.durable
        /\ t.owner = taker.owner /\ t.persisted = taker.persisted
    BY DEF Taker, Places
  <2> HIDE DEF t
  <2> QED
    BY <2>1, <2>2 DEF Taker
<1>3. taker.included = {}
  BY <1>1 DEF Composed, Early
<1>4. Shape' /\ Fresh' /\ Pending' /\ Composed' /\ Bound'
  BY <1>1, <1>2 DEF Fresh, Pending, Composed, Early, Unmade, Bound
<1>5. Apart' /\ Unsent' /\ Queued' /\ ReplayedOnce'
  BY <1>1, <1>2, <1>3 DEF Apart, Unsent, Queued, ReplayedOnce
<1>6. Fenced'
  BY <1>1 DEF Fenced
<1> QED
  BY <1>4, <1>5, <1>6

\* Conductor takes the first prompt, from the handler or from the poller.
LEMMA AcceptStep == ASSUME IInv, FirstAccepted \/ PollerSends PROVE IInv'
<1> USE DEF IInv, Shape
<1>1. /\ UNCHANGED <<row, saga, taker, request, outbox, taken, fenced>>
      /\ row.bound /\ first = {} /\ first' = taker.included
      /\ ran' = [r \in Requests |-> IF r \in taker.included THEN ran[r] + 1 ELSE ran[r]]
  BY DEF FirstAccepted, PollerSends, Accept, Bound
<1>2. \A r \in taker.included : ran[r] = 0
  BY <1>1 DEF Unsent
<1>3. \A r \in Requests : ran'[r] = IF r \in taker.included THEN 1 ELSE ran[r]
  BY <1>1, <1>2
<1>4. ran' \in [Requests -> Nat]
  BY <1>1
<1>5. Shape' /\ Pending' /\ Composed' /\ Bound'
  BY <1>1, <1>4 DEF Pending, Composed, Bound
<1>6. Fresh' /\ Queued' /\ ReplayedOnce' /\ Fenced'
  BY <1>1, <1>3 DEF Fresh, Apart, Composed, Queued, ReplayedOnce, Fenced
<1>7. Apart' /\ Unsent'
  BY <1>1, <1>3 DEF Apart, Unsent, Composed
<1> QED
  BY <1>5, <1>6, <1>7

\* A message of the outbox is accepted: the row is not settled, so no fence stands.
LEMMA FlushStep == ASSUME IInv, NEW r \in Requests, FlushPosts(r) PROVE IInv'
<1> USE DEF IInv, Shape
<1>1. /\ UNCHANGED <<row, saga, taker, request, outbox, first, fenced>>
      /\ r \in outbox \ taken /\ taken' = taken \cup {r}
      /\ row.status \notin {"stopped", "failed"}
      /\ ran' = [q \in Requests |-> IF q \in {r} THEN ran[q] + 1 ELSE ran[q]]
  BY DEF FlushPosts, Accept
<1>2. ran[r] = 0 /\ r \notin taker.pend \ taker.durable
  BY <1>1 DEF Queued, Apart
<1>3. \A q \in Requests : ran'[q] = IF q = r THEN 1 ELSE ran[q]
  BY <1>1, <1>2
<1>4. ran' \in [Requests -> Nat]
  BY <1>1
<1>5. Shape' /\ Pending' /\ Composed' /\ Bound'
  BY <1>1, <1>4 DEF Pending, Composed, Bound
<1>6. Fresh' /\ Apart'
  BY <1>1, <1>2, <1>3 DEF Fresh, Apart, Composed
<1>7. Unsent' /\ Queued' /\ ReplayedOnce' /\ Fenced'
  BY <1>1, <1>2, <1>3 DEF Unsent, Apart, Composed, Queued, ReplayedOnce, Fenced
<1> QED
  BY <1>5, <1>6, <1>7

\* A Stop calls off what is in the outbox, and what waits for a prompt that is not composed.
LEMMA StopStep == ASSUME IInv, Stop PROVE IInv'
<1> USE DEF IInv, Shape
<1>1. /\ UNCHANGED <<taker, request, first, taken, ran>>
      /\ row' = [row EXCEPT !.status = "stopped"] /\ outbox' = {}
      /\ saga' = IF saga = "none" THEN saga ELSE "cancel"
  BY DEF Stop
<1>2. fenced' \in [Requests -> {"no", "held", "raced"}]
  BY DEF Stop
<1>3. \A r \in Requests : fenced'[r] = "held" => ran[r] = 0 /\ r \notin taker.included
  BY DEF Stop
<1>4. Shape' /\ Fresh' /\ Pending' /\ Composed' /\ Bound'
  BY <1>1, <1>2 DEF Fresh, Pending, Composed, Bound, Statuses
<1>5. Apart' /\ Unsent' /\ Queued' /\ ReplayedOnce' /\ Fenced'
  BY <1>1, <1>3 DEF Apart, Unsent, Queued, ReplayedOnce, Fenced
<1> QED
  BY <1>4, <1>5

\* The takeover's promise resolves: what the first prompt did not carry and the outbox never had is
\* queued, or its owner is told.
LEMMA ReportStep == ASSUME IInv, Reports PROVE IInv'
<1> USE DEF IInv, Shape
<1> DEFINE queue == (Waiting \ taker.included) \ taker.durable
<1>1. /\ UNCHANGED <<row, saga, first, taken, ran, fenced>> /\ taker' = NoTaker
      /\ outbox' \subseteq outbox \cup queue
      /\ row.status \in {"stopped", "failed"} => outbox' \subseteq outbox
  BY DEF Reports, EndsFor, CanEnqueue
<1>2. /\ request' \in [Requests -> Phases]
      /\ \A r \in Requests : \/ /\ request'[r] = request[r]
                                 /\ r # taker.owner /\ r \notin Waiting
                              \/ request'[r] \in {"flush", "done"}
  BY DEF Reports, EndsFor, Phases
<1>3. \A r \in queue : ran[r] = 0 /\ r \notin taken /\ r \in Requests /\ r \in taker.pend
  BY DEF Waiting, Pending, Apart
<1>4. NoTaker \in Taker /\ NoTaker.pend = {} /\ NoTaker.included = {} /\ NoTaker.durable = {}
      /\ ~NoTaker.persisted
  BY DEF NoTaker, Taker, Places, Results
<1>5. Pending'
  BY <1>1, <1>2, <1>4 DEF Pending, Waiting
<1> HIDE DEF queue
<1>6. Shape' /\ Composed' /\ Bound'
  BY <1>1, <1>2, <1>3, <1>4 DEF Composed, Bound
<1>7. Fresh'
  BY <1>1, <1>2, <1>3, <1>4 DEF Fresh, Pending
<1>8. Apart' /\ Unsent' /\ Queued' /\ ReplayedOnce' /\ Fenced'
  BY <1>1, <1>3, <1>4 DEF Apart, Unsent, Queued, ReplayedOnce, Fenced
<1> QED
  BY <1>5, <1>6, <1>7, <1>8

LEMMA TakeoverInit == Init => IInv
<1> SUFFICES ASSUME Init PROVE IInv
  OBVIOUS
<1>1. NoTaker \in Taker /\ NoTaker.pend = {} /\ NoTaker.included = {} /\ NoTaker.durable = {}
      /\ ~NoTaker.persisted
  BY DEF NoTaker, Taker, Places, Results
<1>2. Shape /\ Fresh /\ Pending /\ Apart
  BY <1>1 DEF Init, Shape, Phases, Statuses, Fresh, Pending, Apart
<1>3. Composed /\ Unsent /\ Bound /\ Queued /\ ReplayedOnce /\ Fenced
  BY <1>1 DEF Init, Composed, Unsent, Bound, Queued, ReplayedOnce, Fenced
<1> QED
  BY <1>2, <1>3 DEF IInv

LEMMA TakeoverStep == IInv /\ [Next]_vars => IInv'
<1> SUFFICES ASSUME IInv, [Next]_vars PROVE IInv'
  OBVIOUS
<1>1. ASSUME NEW r \in Requests,
             \/ SendBegins(r) \/ SendSpawns(r) \/ LocalEnds(r) \/ LocalFails(r)
             \/ TakeoverBegins(r) \/ TakeoverJoined(r) \/ LateRequest(r) \/ ForwardReports(r)
      PROVE  IInv'
  BY <1>1, LocalStep, BeginStep, JoinStep, LateStep, ForwardStep
<1>2. CASE \/ BranchRefused \/ BackendRefused \/ CreateFails \/ CallFails \/ CheckoutMoved
           \/ ArchiveFails \/ Takes
  BY <1>2, TakesCalmly, CalmStep, CreatedStep, ComposeStep, AcceptStep, ReportStep DEF Takes
<1>3. CASE Polls \/ Flushes
  BY <1>3, PollsCalmly, CalmStep, AcceptStep, FlushStep DEF Polls, Flushes
<1>4. CASE Stop
  BY <1>4, StopStep
<1>5. CASE UNCHANGED vars
  BY <1>5, CalmStep DEF vars, IInv, Shape, Bound, Calm
<1> QED
  BY <1>1, <1>2, <1>3, <1>4, <1>5 DEF Next

\* A request of the owner's that a local agent never started reaches Cloud once, in the first prompt or
\* through the outbox, however many fail before, during and after a takeover, and however it ends.
THEOREM LocalRequestsReplayOnce == Spec => []ReplayedOnce
<1>1. IInv => ReplayedOnce
  BY DEF IInv
<1> QED
  BY <1>1, TakeoverInit, TakeoverStep, PTL DEF Spec

\* One that a Stop finds in the outbox, or before its prompt is composed, never reaches Cloud unless the
\* owner sends new work, which lifts the fence.
THEOREM QueuedStopsHold == Spec => []QueuedStopHolds
<1>1. IInv => QueuedStopHolds
  BY DEF IInv, Fenced, QueuedStopHolds
<1> QED
  BY <1>1, TakeoverInit, TakeoverStep, PTL DEF Spec

-----------------------------------------------------------------------------
Sagas == {"none", "provisioned", "send", "sent", "cleanup", "cancel"}

\* Whatever a step does, the launch has a phase, an answered request is one of the owner's, and what the
\* takeover knows to be in the outbox is what it has pending.
TakeoverKept == /\ saga' \in Sagas /\ taken' \cup first' \subseteq Requests
        /\ taker'.durable \subseteq taker'.pend

LEMMA FailsKept == ASSUME IInv, TypeOK, LaunchFails PROVE TakeoverKept
<1>1. Calm
  BY FailsCalmly
<1>2. saga' \in Sagas /\ UNCHANGED <<first, taken>>
  BY DEF LaunchFails, Sagas, TypeOK
<1> QED
  BY <1>1, <1>2 DEF TakeoverKept, Calm, TypeOK

\* The steps of the local runs.
LEMMA RequestsKept ==
  ASSUME IInv, TypeOK, NEW r \in Requests,
         \/ SendBegins(r) \/ SendSpawns(r) \/ LocalEnds(r) \/ LocalFails(r)
         \/ TakeoverBegins(r) \/ TakeoverJoined(r) \/ LateRequest(r) \/ ForwardReports(r)
  PROVE  TakeoverKept
<1>1. UNCHANGED <<saga, first, taken>>
  BY DEF SendBegins, SendSpawns, LocalEnds, LocalFails, TakeoverBegins, TakeoverJoined, LateRequest, ForwardReports
<1>2. taker'.durable \subseteq taker'.pend
  <2>1. CASE SendBegins(r) \/ SendSpawns(r) \/ LocalEnds(r) \/ LocalFails(r) \/ LateRequest(r) \/ ForwardReports(r)
    BY <2>1 DEF SendBegins, SendSpawns, LocalEnds, LocalFails, LateRequest, ForwardReports, TypeOK
  <2>2. CASE TakeoverBegins(r)
    <3>1. taker'.durable = {}
      BY <2>2 DEF TakeoverBegins, NoTaker
    <3> QED
      BY <3>1
  <2>3. CASE Joins(r)
    <3>1. taker'.durable = taker.durable \cup {r} /\ taker'.pend = taker.pend \cup {r}
      BY <2>3 DEF Joins, IInv, Shape, Taker
    <3> QED
      BY <3>1 DEF TypeOK
  <2>4. CASE taker' = [taker EXCEPT !.pend = @ \cup {r}]
    <3>1. taker'.durable = taker.durable /\ taker'.pend = taker.pend \cup {r}
      BY <2>4 DEF IInv, Shape, Taker
    <3> QED
      BY <3>1 DEF TypeOK
  <2> QED
    BY <2>1, <2>2, <2>3, <2>4 DEF TakeoverJoined
<1> QED
  BY <1>1, <1>2 DEF TakeoverKept, TypeOK, Sagas

\* The steps of the takeover, of the poller, of the owner and of the outbox.
LEMMA LaunchKept ==
  ASSUME IInv, TypeOK,
         \/ BranchRefused \/ BackendRefused \/ CreateFails \/ CallFails \/ CheckoutMoved \/ ArchiveFails
         \/ BranchChecked \/ BackendChecked \/ Posts \/ Answered \/ Finalizes \/ LaunchRefused \/ Archived
  PROVE  TakeoverKept
<1>1. CASE CallFails \/ CheckoutMoved \/ LaunchRefused
  BY <1>1, FailsKept DEF CallFails, CheckoutMoved, LaunchRefused
<1>2. ASSUME ~(CallFails \/ CheckoutMoved \/ LaunchRefused) PROVE TakeoverKept
  <2>1. Calm
    BY TakesCalmly
  <2>2. CASE BranchRefused \/ BackendRefused \/ CreateFails \/ ArchiveFails \/ BranchChecked \/ BackendChecked \/ Posts
    <3>1. saga' \in {saga, "none"} /\ UNCHANGED <<first, taken>>
      BY <2>2 DEF BranchRefused, BackendRefused, NotHandled, CreateFails, ArchiveFails, BranchChecked, BackendChecked, Posts
    <3> QED
      BY <2>1, <3>1 DEF TakeoverKept, Calm, TypeOK, Sagas
  <2>3. CASE Answered \/ Finalizes \/ Archived
    <3>1. saga' \in {saga, "none", "sent"} /\ first' \in {first, {}} /\ taken' = taken
      BY <2>3 DEF Answered, Finalizes, Archived, Restores
    <3> QED
      BY <2>1, <3>1 DEF TakeoverKept, Calm, TypeOK, Sagas
  <2> QED
    BY <1>2, <2>2, <2>3
<1> QED
  BY <1>1, <1>2

LEMMA PollsKept ==
  ASSUME IInv, TypeOK, \/ PollerMarks \/ PollerFinalizes \/ PollerTurns \/ PollerCleans \/ FlushSuppresses
                       \/ \E r \in Requests : FlushCompletes(r)
  PROVE  TakeoverKept
<1>1. Calm
  BY PollsCalmly
<1>2. saga' \in Sagas /\ first' \in {first, {}} /\ taken' = taken
  BY DEF PollerMarks, PollerFinalizes, PollerTurns, PollerCleans, Restores, FlushSuppresses, FlushCompletes,
         Sagas, TypeOK
<1> QED
  BY <1>1, <1>2 DEF TakeoverKept, Calm, TypeOK

LEMMA PromptKept ==
  ASSUME IInv, TypeOK, Created \/ Composes \/ FirstAccepted \/ PollerSends \/ Reports \/ Stop
                         \/ \E r \in Requests : FlushPosts(r)
  PROVE  TakeoverKept
<1> USE DEF TakeoverKept, Sagas, TypeOK
<1>1. CASE Created
  <2> DEFINE joins == IF PersistedPhase(row.status) = "provisioned" THEN Waiting ELSE {}
             t == [taker EXCEPT !.pc = "status"]
             u == [t EXCEPT !.persisted = TRUE]
  <2>1. joins \subseteq taker.pend
    BY DEF Waiting, IInv, Pending
  <2>2. u.pend = taker.pend /\ u.durable = taker.durable /\ u \in Taker
    BY DEF IInv, Shape, Taker, Places
  <2>3. taker' = [u EXCEPT !.durable = taker.durable \cup joins]
    BY <1>1 DEF Created
  <2>4. saga' \in {"provisioned", "cancel", "cleanup"} /\ first' = {} /\ taken' = taken
    BY <1>1 DEF Created, PersistedPhase, IInv, Shape
  <2> HIDE DEF u, joins
  <2>5. taker'.pend = taker.pend /\ taker'.durable = taker.durable \cup joins
    BY <2>2, <2>3 DEF Taker
  <2> QED
    BY <2>1, <2>4, <2>5
<1>2. CASE Composes
  <2> DEFINE t == [taker EXCEPT !.pc = "validate"]
  <2>1. taker' = [t EXCEPT !.included = taker.pend \ taker.durable] /\ saga' = "send"
        /\ UNCHANGED <<first, taken>>
    BY <1>2 DEF Composes, Included
  <2>2. t.pend = taker.pend /\ t.durable = taker.durable
    BY DEF IInv, Shape, Taker, Places
  <2> HIDE DEF t
  <2>3. taker'.pend = taker.pend /\ taker'.durable = taker.durable
    BY <2>1, <2>2
  <2> QED
    BY <2>1, <2>3
<1>3. CASE FirstAccepted \/ PollerSends
  <2>1. first' = taker.included /\ UNCHANGED <<saga, taker, taken>>
    BY <1>3 DEF FirstAccepted, PollerSends
  <2>2. taker.included \subseteq Requests
    BY DEF IInv, Shape, Taker
  <2> QED
    BY <2>1, <2>2
<1>4. CASE Reports
  <2>1. taker'.durable = {} /\ UNCHANGED <<saga, first, taken>>
    BY <1>4 DEF Reports, EndsFor, NoTaker
  <2> QED
    BY <2>1
<1>5. CASE Stop
  BY <1>5 DEF Stop
<1>6. ASSUME NEW r \in Requests, FlushPosts(r) PROVE TakeoverKept
  BY <1>6 DEF FlushPosts
<1> QED
  BY <1>1, <1>2, <1>3, <1>4, <1>5, <1>6

\* The types follow: no request waits but for a takeover that has it pending.
LEMMA TakeoverTypedStep == ASSUME IInv, TypeOK, [Next]_vars PROVE TypeOK'
<1>1. TakeoverKept
  <2>1. CASE UNCHANGED vars
    BY <2>1 DEF vars, TakeoverKept, TypeOK, Sagas
  <2> QED
    BY <2>1, RequestsKept, LaunchKept, PollsKept, PromptKept DEF Next, Takes, Polls, Flushes
<1>2. IInv'
  BY TakeoverStep
<1>3. Waiting' # {} => taker' # NoTaker
  BY <1>2 DEF Waiting, NoTaker, IInv, Pending
<1>4. /\ row'.status \in {"starting", "running", "failed", "stopped"} /\ row'.bound \in BOOLEAN
      /\ saga' # "none" => row'.bound
      /\ taker'.included \subseteq taker'.pend /\ outbox' \subseteq Requests
  BY <1>2 DEF IInv, Shape, Statuses, Bound, Composed
<1> QED
  BY <1>1, <1>3, <1>4 DEF TypeOK, TakeoverKept, Sagas

LEMMA TakeoverTypedInit == Init => TypeOK
BY DEF Init, TypeOK, NoTaker, Waiting

-----------------------------------------------------------------------------
(***************************************************************************)
(* The processes.  That two of them never resume one conversation is not   *)
(* inductive: it rests on the start tokens.  At most one is in the set,    *)
(* since a start is refused while there is one, and whoever is on the way  *)
(* to resuming the conversation, or is at it, holds it.  The process the   *)
(* workspace's key holds is a running one, so a Stop never takes a token   *)
(* along.                                                                  *)
(***************************************************************************)
CONSTANTS
    MaxAgents,    \* agents started in the workspace
    MaxPresses,   \* presses of Stop
    MaxAsks       \* questions the agents ask

VARIABLES main, agent, entry, starts, canceled, session, agentRow, stdin, asked, heard, presses

Agent == INSTANCE LocalAgents WITH MaxStops <- MaxPresses, row <- agentRow, count <- presses

AgentProcess == [cli : {"none", "claude", "codex", "review"},
            pc : {"new", "preflight", "running", "stopping", "ended"},
            killed : BOOLEAN, timer : BOOLEAN]

AgentShape == /\ agent \in [Agent!Agents -> AgentProcess]
         /\ entry \in {0} \cup Agent!Agents
         /\ starts \subseteq Agent!Agents /\ canceled \subseteq Agent!Agents

\* The process the key holds runs, and nobody has stopped it.
Held == entry \in Agent!Agents => agent[entry].pc = "running"

\* No second token is given while one is out.
OneToken == \A a, b \in starts : a = b

\* A process of the own Claude thread holds the token, from its preflight to its end.
Resuming(a) == \/ agent[a].pc = "preflight"
               \/ agent[a].cli = "claude" /\ agent[a].pc \in {"running", "stopping"}
Tokens == \A a \in Agent!Agents : Resuming(a) => a \in starts

AgentInv == AgentShape /\ Held /\ OneToken /\ Tokens

LEMMA NoneIsNoAgent == 0 \notin Agent!Agents
BY DEF Agent!Agents

LEMMA AgentInit == Agent!Init => AgentInv
<1> SUFFICES ASSUME Agent!Init PROVE AgentInv
  OBVIOUS
<1>1. Agent!None \in AgentProcess
  BY DEF Agent!None, AgentProcess
<1> QED
  BY <1>1, NoneIsNoAgent DEF Agent!Init, AgentInv, AgentShape, Held, OneToken, Tokens, Resuming, Agent!None

\* A start is made with no token out: the new process is the only one that may take it.
LEMMA StartStep ==
  ASSUME AgentInv, NEW a \in Agent!Agents,
         Agent!StartsClaude(a) \/ Agent!StartsCodex(a) \/ Agent!StartsReview(a)
  PROVE  AgentInv'
<1> USE DEF AgentInv, AgentShape, AgentProcess
<1>1. starts = {} /\ agent[a].pc = "new"
  BY DEF Agent!StartsClaude, Agent!StartsCodex, Agent!StartsReview, Agent!MayStart
<1>2. CASE Agent!StartsClaude(a)
  <2>1. AgentShape' /\ Held'
    <3>1. AgentShape'
      BY <1>2 DEF Agent!StartsClaude
    <3>2. Held'
      BY <1>1, <1>2 DEF Agent!StartsClaude, Held
    <3> QED
      BY <3>1, <3>2
  <2>2. OneToken'
    BY <1>1, <1>2 DEF Agent!StartsClaude, OneToken
  <2>3. Tokens'
    BY <1>1, <1>2 DEF Agent!StartsClaude, Tokens, Resuming
  <2> QED
    BY <2>1, <2>2, <2>3
<1>3. CASE Agent!StartsCodex(a) \/ Agent!StartsReview(a)
  <2>1. AgentShape' /\ starts' = starts
    <3>1. PICK cli \in {"codex", "review"} : Agent!Spawns(a, cli)
      BY <1>3 DEF Agent!StartsCodex, Agent!StartsReview
    <3> DEFINE new == [agent[a] EXCEPT !.cli = cli, !.pc = "running"]
    <3>4. new \in AgentProcess
      BY <3>1
    <3>5. agent' = [agent EXCEPT ![a] = new] /\ entry' = a /\ canceled' = canceled
      BY <1>3, <3>1 DEF Agent!Spawns, Agent!StartsCodex, Agent!StartsReview
    <3> HIDE DEF new
    <3>2. AgentShape'
      BY <1>3, <3>4, <3>5 DEF Agent!StartsCodex, Agent!StartsReview
    <3>3. starts' = starts
      BY <1>3 DEF Agent!StartsCodex, Agent!StartsReview
    <3> QED
      BY <3>2, <3>3
  <2>2. Tokens'
    BY <1>1, <1>3 DEF Agent!StartsCodex, Agent!StartsReview, Agent!Spawns, Tokens, Resuming
  <2>3. Held'
    BY <1>3 DEF Agent!StartsCodex, Agent!StartsReview, Agent!Spawns, Held
  <2> QED
    BY <2>1, <2>2, <2>3 DEF OneToken
<1> QED
  BY <1>2, <1>3

LEMMA PreflightStep ==
  ASSUME AgentInv, NEW a \in Agent!Agents,
         Agent!PreflightPasses(a) \/ Agent!PreflightCanceled(a) \/ Agent!PreflightFails(a)
  PROVE  AgentInv'
<1> USE DEF AgentInv, AgentShape, AgentProcess
<1>1. CASE Agent!PreflightPasses(a)
  <2>1. AgentShape' /\ starts' = starts
    BY <1>1 DEF Agent!PreflightPasses, Agent!Spawns, Agent!TokenKept
  <2>2. Tokens'
    BY <1>1, <2>1 DEF Agent!PreflightPasses, Agent!Spawns, Tokens, Resuming
  <2>3. Held'
    BY <1>1 DEF Agent!PreflightPasses, Agent!Spawns, Held
  <2> QED
    BY <2>1, <2>2, <2>3 DEF OneToken
<1>2. CASE Agent!PreflightCanceled(a) \/ Agent!PreflightFails(a)
  <2>1. AgentShape' /\ starts' = starts \ {a}
    BY <1>2 DEF Agent!PreflightCanceled, Agent!PreflightFails, Agent!EndsIn
  <2>2. Tokens'
    BY <1>2, <2>1 DEF Agent!PreflightCanceled, Agent!PreflightFails, Agent!EndsIn, Tokens, Resuming
  <2>3. Held'
    BY <1>2 DEF Agent!PreflightCanceled, Agent!PreflightFails, Agent!EndsIn, Held
  <2> QED
    BY <2>1, <2>2, <2>3 DEF OneToken
<1> QED
  BY <1>1, <1>2

LEMMA EndStep ==
  ASSUME AgentInv, NEW a \in Agent!Agents,
         Agent!Exits(a, TRUE) \/ Agent!Exits(a, FALSE) \/ Agent!ForceKills(a)
  PROVE  AgentInv'
<1> USE DEF AgentInv, AgentShape, AgentProcess
<1>1. CASE Agent!Exits(a, TRUE) \/ Agent!Exits(a, FALSE)
  <2>1. AgentShape' /\ starts' = starts \ {a}
    BY <1>1 DEF Agent!Exits, Agent!EndsIn
  <2>2. Tokens'
    BY <1>1, <2>1 DEF Agent!Exits, Agent!EndsIn, Tokens, Resuming
  <2>3. Held'
    BY <1>1, NoneIsNoAgent DEF Agent!Exits, Held
  <2> QED
    BY <2>1, <2>2, <2>3 DEF OneToken
<1>2. CASE Agent!ForceKills(a)
  <2>0. agent' \in [Agent!Agents -> AgentProcess]
    <3>1. CASE agent[a].pc = "stopping" /\ ~agent[a].killed
      BY <1>2, <3>1 DEF Agent!ForceKills
    <3>2. CASE ~(agent[a].pc = "stopping" /\ ~agent[a].killed)
      BY <1>2, <3>2 DEF Agent!ForceKills
    <3> QED
      BY <3>1, <3>2
  <2>1. AgentShape' /\ starts' = starts
    BY <1>2, <2>0 DEF Agent!ForceKills
  <2>2. \A b \in Agent!Agents : agent'[b].cli = agent[b].cli /\ agent'[b].pc \in {agent[b].pc, "ended"}
    BY <1>2 DEF Agent!ForceKills
  <2>3. Tokens'
    BY <2>1, <2>2 DEF Tokens, Resuming
  <2>4. Held'
    BY <1>2 DEF Agent!ForceKills, Held
  <2> QED
    BY <2>1, <2>3, <2>4 DEF OneToken
<1> QED
  BY <1>1, <1>2

LEMMA AgentStopStep == ASSUME AgentInv, Agent!Stop PROVE AgentInv'
<1> USE DEF AgentInv, AgentShape, AgentProcess
<1>1. AgentShape' /\ starts' = starts
  <2>1. CASE entry = 0
    BY <2>1 DEF Agent!Stop
  <2>2. CASE entry \in Agent!Agents
    BY <2>2, NoneIsNoAgent DEF Agent!Stop
  <2> QED
    BY <2>1, <2>2
<1>2. Tokens'
  <2>1. CASE entry = 0
    BY <1>1, <2>1 DEF Agent!Stop, Tokens, Resuming
  <2>2. CASE entry \in Agent!Agents
    \* The process the key holds was running: it held its token before, if it is of the own thread.
    <3>1. \A b \in Agent!Agents : agent'[b].cli = agent[b].cli
                             /\ (agent'[b].pc = agent[b].pc \/ b = entry)
      BY <2>2 DEF Agent!Stop
    <3>2. agent[entry].pc = "running" /\ agent'[entry].pc = "stopping"
      BY <2>2, NoneIsNoAgent DEF Agent!Stop, Held
    <3>3. \A b \in Agent!Agents : Resuming(b)' => Resuming(b)
      BY <3>1, <3>2 DEF Resuming
    <3> QED
      BY <1>1, <3>3 DEF Tokens
  <2> QED
    BY <2>1, <2>2
<1>3. Held'
  BY NoneIsNoAgent DEF Agent!Stop, Held
<1> QED
  BY <1>1, <1>2, <1>3 DEF OneToken

LEMMA AgentStep == AgentInv /\ [Agent!Next]_(Agent!vars) => AgentInv'
<1> SUFFICES ASSUME AgentInv, [Agent!Next]_(Agent!vars) PROVE AgentInv'
  OBVIOUS
<1>1. CASE Agent!Stop
  BY <1>1, AgentStopStep
<1>2. ASSUME NEW a \in Agent!Agents,
             Agent!StartsClaude(a) \/ Agent!StartsCodex(a) \/ Agent!StartsReview(a)
      PROVE  AgentInv'
  BY <1>2, StartStep
<1>3. ASSUME NEW a \in Agent!Agents,
             Agent!PreflightPasses(a) \/ Agent!PreflightCanceled(a) \/ Agent!PreflightFails(a)
      PROVE  AgentInv'
  BY <1>3, PreflightStep
<1>4. ASSUME NEW a \in Agent!Agents,
             Agent!Exits(a, TRUE) \/ Agent!Exits(a, FALSE) \/ Agent!ForceKills(a)
      PROVE  AgentInv'
  BY <1>4, EndStep
<1>5. ASSUME NEW a \in Agent!Agents, Agent!Asks(a) \/ Agent!Answers(a) PROVE AgentInv'
  BY <1>5 DEF Agent!Asks, Agent!Answers, AgentInv, AgentShape, Held, OneToken, Tokens, Resuming
<1>6. CASE UNCHANGED Agent!vars
  BY <1>6 DEF Agent!vars, AgentInv, AgentShape, Held, OneToken, Tokens, Resuming
<1> QED
  BY <1>1, <1>2, <1>3, <1>4, <1>5, <1>6 DEF Agent!Next

\* Two living processes of the own thread would hold two tokens.
LEMMA TokensMeanOne == AgentInv => Agent!OneResume
  BY DEF AgentInv, OneToken, Tokens, Resuming, Agent!OneResume, Agent!Alive

\* Two processes never resume one Claude conversation at a time, whatever is started, stopped, answered or
\* exits: the token is taken before the preflight and given back when the process has ended.
THEOREM NeverTwoResume == Agent!Spec => []Agent!OneResume
<1>1. QED
  BY TokensMeanOne, AgentInit, AgentStep, PTL DEF Agent!Spec

\* Nothing makes a process of such a start.
LEMMA StartsHold == ASSUME AgentInv, [Agent!Next]_(Agent!vars) PROVE Agent!HoldsCanceled
<1>1. ASSUME NEW c \in canceled \cap Agent!Agents,
             agent[c].pc = "preflight"
      PROVE  agent'[c].pc # "running"
  <2> USE <1>1 DEF AgentInv, AgentShape, AgentProcess
  <2>1. CASE Agent!Stop
    <3>1. CASE entry = 0
      BY <2>1, <3>1 DEF Agent!Stop
    <3>2. CASE entry \in Agent!Agents
      BY <2>1, <3>2 DEF Agent!Stop
    <3> QED
      BY <3>1, <3>2
  <2>2. ASSUME NEW a \in Agent!Agents,
               Agent!StartsClaude(a) \/ Agent!StartsCodex(a) \/ Agent!StartsReview(a)
        PROVE  agent'[c].pc # "running"
    BY <2>2 DEF Agent!StartsClaude, Agent!StartsCodex, Agent!StartsReview, Agent!MayStart, Agent!Spawns
  <2>3. ASSUME NEW a \in Agent!Agents,
               Agent!PreflightPasses(a) \/ Agent!PreflightCanceled(a) \/ Agent!PreflightFails(a)
        PROVE  agent'[c].pc # "running"
    BY <2>3 DEF Agent!PreflightPasses, Agent!PreflightCanceled, Agent!PreflightFails,
                Agent!MayGoAhead, Agent!Spawns, Agent!EndsIn
  <2>4. ASSUME NEW a \in Agent!Agents, Agent!Exits(a, TRUE) \/ Agent!Exits(a, FALSE) \/ Agent!ForceKills(a)
        PROVE  agent'[c].pc # "running"
    BY <2>4 DEF Agent!Exits, Agent!EndsIn, Agent!ForceKills
  <2>5. ASSUME NEW a \in Agent!Agents, Agent!Asks(a) \/ Agent!Answers(a) PROVE agent'[c].pc # "running"
    BY <2>5 DEF Agent!Asks, Agent!Answers
  <2>6. CASE UNCHANGED Agent!vars
    BY <2>6 DEF Agent!vars
  <2> QED
    BY <2>1, <2>2, <2>3, <2>4, <2>5, <2>6 DEF Agent!Next
<1>2. canceled \subseteq Agent!Agents
  BY DEF AgentInv, AgentShape
<1> QED
  BY <1>1, <1>2 DEF Agent!HoldsCanceled

\* A start that a Stop met in its preflight is never made a process by any step.
THEOREM CanceledStartsStayDown == Agent!Spec => Agent!CanceledStaysDown
<1>1. AgentInv /\ [Agent!Next]_(Agent!vars) => [Agent!HoldsCanceled]_(Agent!vars)
  BY StartsHold
<1> QED
  BY <1>1, AgentInit, AgentStep, PTL DEF Agent!Spec, Agent!CanceledStaysDown

-----------------------------------------------------------------------------
\* Stop marks the handle of the process it signals, so the timer behind it ends no process.
Signaled == \A a \in Agent!Agents : agent[a].pc = "stopping" => agent[a].killed

AgentTyped == Agent!TypeOK /\ Signaled

LEMMA AgentTypedInit == Agent!Init => AgentTyped
BY DEF Agent!Init, Agent!None, Agent!TypeOK, AgentTyped, Signaled

\* A process of the workspace changes, and the others do not.
AgentMoves(a) == \A b \in Agent!Agents : b # a => agent'[b] = agent[b]

\* The types of what the bot remembers of the processes, whatever the steps: a token is that of a start in
\* its preflight or of a process of the own thread that has not ended.
LEMMA AgentTypedStep ==
  ASSUME AgentInv, AgentTyped, [Agent!Next]_(Agent!vars)
  PROVE  AgentTyped'
<1> USE DEF AgentInv, AgentShape, AgentTyped
<1>1. ASSUME NEW a \in Agent!Agents, Agent!StartsClaude(a) PROVE AgentTyped'
  <2> DEFINE new == [agent[a] EXCEPT !.cli = "claude", !.pc = "preflight"]
  <2>1. new.cli = "claude" /\ new.pc = "preflight"
    BY DEF AgentProcess
  <2>2. agent' = [agent EXCEPT ![a] = new] /\ starts' = {a} /\ session' = [session EXCEPT !["own"] = "working"]
        /\ agentRow' = "running" /\ UNCHANGED <<entry, stdin, asked>>
    BY <1>1 DEF Agent!StartsClaude, Agent!MayStart
  <2> HIDE DEF new
  <2>3. Signaled'
    BY <2>1, <2>2 DEF Signaled
  <2>4. Agent!TypeOK'
    BY <2>1, <2>2 DEF Agent!TypeOK
  <2> QED
    BY <2>3, <2>4
<1>2. ASSUME NEW a \in Agent!Agents, NEW cli \in {"claude", "codex", "review"}, Agent!Spawns(a, cli),
             starts' = starts, a \in starts => cli = "claude", agentRow' \in {"running", agentRow},
             UNCHANGED <<stdin, asked>>
      PROVE  AgentTyped'
  <2> DEFINE new == [agent[a] EXCEPT !.cli = cli, !.pc = "running"]
  <2>1. new.cli = cli /\ new.pc = "running"
    BY DEF AgentProcess
  <2>2. agent' = [agent EXCEPT ![a] = new] /\ entry' = a
        /\ session' = [session EXCEPT ![Agent!Thread(cli)] = "working"]
    BY <1>2 DEF Agent!Spawns
  <2> HIDE DEF new
  <2>3. Signaled'
    BY <2>1, <2>2 DEF Signaled
  <2>4. \A b \in starts' : agent'[b].cli = "claude" /\ agent'[b].pc \in {"preflight", "running", "stopping"}
    BY <1>2, <2>1, <2>2 DEF Agent!TypeOK
  <2>5. session' \in [{"own", "review"} -> {"idle", "working"}]
    BY <2>2 DEF Agent!TypeOK, Agent!Thread
  <2>6. Agent!TypeOK'
    BY <1>2, <2>2, <2>4, <2>5 DEF Agent!TypeOK
  <2> QED
    BY <2>3, <2>6
<1>3. ASSUME NEW a \in Agent!Agents, Agent!EndsIn(a), starts' = starts \ {a}, entry' \in {0, entry},
             agentRow' \in {"failed", agentRow}, UNCHANGED <<stdin, asked>>
      PROVE  AgentTyped'
  <2> DEFINE new == [agent[a] EXCEPT !.pc = "ended"]
  <2>1. new.pc = "ended"
    BY DEF AgentProcess
  <2>2. agent' = [agent EXCEPT ![a] = new]
        /\ session' = [session EXCEPT ![Agent!Thread(agent[a].cli)] = "idle"]
    BY <1>3 DEF Agent!EndsIn
  <2> HIDE DEF new
  <2>3. Signaled'
    BY <2>1, <2>2 DEF Signaled
  <2>4. \A b \in starts' : agent'[b].cli = "claude" /\ agent'[b].pc \in {"preflight", "running", "stopping"}
    BY <1>3, <2>2 DEF Agent!TypeOK
  <2>5. session' \in [{"own", "review"} -> {"idle", "working"}]
    BY <2>2 DEF Agent!TypeOK, Agent!Thread
  <2>6. Agent!TypeOK'
    BY <1>3, <2>4, <2>5 DEF Agent!TypeOK
  <2> QED
    BY <2>3, <2>6
<1>4. ASSUME Agent!Stop PROVE AgentTyped'
  <2>1. session' \in [{"own", "review"} -> {"idle", "working"}] /\ entry' = 0 /\ agentRow' = "stopped"
        /\ starts' = starts /\ UNCHANGED <<stdin, asked>>
    BY <1>4 DEF Agent!Stop, Agent!TypeOK
  <2>2. CASE entry = 0
    BY <1>4, <2>1, <2>2 DEF Agent!Stop, Agent!TypeOK, Signaled
  <2>3. CASE entry # 0
    <3> DEFINE new == [agent[entry] EXCEPT !.pc = "stopping", !.killed = TRUE, !.timer = TRUE]
    <3>1. entry \in Agent!Agents /\ new.cli = agent[entry].cli /\ new.pc = "stopping" /\ new.killed
      BY <2>3 DEF AgentProcess
    <3>2. agent' = [agent EXCEPT ![entry] = new]
      BY <1>4, <2>3 DEF Agent!Stop
    <3> HIDE DEF new
    <3>3. Signaled'
      BY <3>1, <3>2 DEF Signaled
    <3>4. \A b \in starts' : agent'[b].cli = "claude" /\ agent'[b].pc \in {"preflight", "running", "stopping"}
      BY <2>1, <3>1, <3>2 DEF Agent!TypeOK
    <3>5. Agent!TypeOK'
      BY <2>1, <3>4 DEF Agent!TypeOK
    <3> QED
      BY <3>3, <3>5
  <2> QED
    BY <2>2, <2>3
<1>5. ASSUME NEW a \in Agent!Agents, Agent!ForceKills(a) PROVE AgentTyped'
  <2> DEFINE pc == IF agent[a].pc = "stopping" /\ ~agent[a].killed THEN "ended" ELSE agent[a].pc
  <2> DEFINE new == [agent[a] EXCEPT !.pc = pc, !.timer = FALSE]
  <2>1. pc = agent[a].pc
    BY DEF Signaled
  <2>2. agent' = [agent EXCEPT ![a] = new] /\ UNCHANGED <<entry, starts, session, agentRow, stdin, asked>>
    BY <1>5 DEF Agent!ForceKills
  <2> HIDE DEF pc
  <2>3. new.cli = agent[a].cli /\ new.pc = agent[a].pc /\ new.killed = agent[a].killed
    BY <2>1 DEF AgentProcess
  <2> HIDE DEF new
  <2>4. Signaled'
    BY <2>2, <2>3 DEF Signaled
  <2>5. \A b \in starts' : agent'[b].cli = "claude" /\ agent'[b].pc \in {"preflight", "running", "stopping"}
    BY <2>2, <2>3 DEF Agent!TypeOK
  <2>6. Agent!TypeOK'
    BY <2>2, <2>5 DEF Agent!TypeOK
  <2> QED
    BY <2>4, <2>6
<1>6. ASSUME UNCHANGED <<agent, entry, starts, session, agentRow>>,
             asked \subseteq asked', stdin' \subseteq stdin \cup (asked' \ asked)
      PROVE  AgentTyped'
  BY <1>6 DEF Agent!TypeOK, Signaled
<1>7. ASSUME NEW a \in Agent!Agents, Agent!StartsCodex(a) \/ Agent!StartsReview(a) PROVE AgentTyped'
  BY <1>2, <1>7 DEF Agent!StartsCodex, Agent!StartsReview, Agent!MayStart
<1>8. ASSUME NEW a \in Agent!Agents, Agent!PreflightPasses(a) PROVE AgentTyped'
  BY <1>2, <1>8 DEF Agent!PreflightPasses, Agent!TokenKept
<1>9. ASSUME NEW a \in Agent!Agents,
             Agent!PreflightCanceled(a) \/ Agent!PreflightFails(a) \/ Agent!Exits(a, TRUE) \/ Agent!Exits(a, FALSE)
      PROVE  AgentTyped'
  <2>1. Agent!EndsIn(a) /\ starts' = starts \ {a} /\ entry' \in {0, entry}
        /\ agentRow' \in {"failed", agentRow} /\ UNCHANGED <<stdin, asked>>
    BY <1>9 DEF Agent!PreflightCanceled, Agent!PreflightFails, Agent!Exits
  <2> QED
    BY <1>3, <2>1
<1>10. ASSUME NEW a \in Agent!Agents, Agent!Asks(a) \/ Agent!Answers(a) PROVE AgentTyped'
  BY <1>6, <1>10 DEF Agent!Asks, Agent!Answers
<1>11. CASE UNCHANGED Agent!vars
  BY <1>6, <1>11 DEF Agent!vars
<1> QED
  BY <1>1, <1>4, <1>5, <1>7, <1>8, <1>9, <1>10, <1>11 DEF Agent!Next

-----------------------------------------------------------------------------
(***************************************************************************)
(* The discovery.  That no workspace has two records is not inductive: it  *)
(* rests on the creation keys.  A launch binds the workspace it made, or   *)
(* finds again by the key in its name; a scan attaches only a workspace    *)
(* without a key, or with the key of a record whose launch has ended.      *)
(***************************************************************************)
CONSTANTS
    MaxWorks,     \* workspaces Conductor comes to hold
    MaxLaunches,  \* launches the owner asks for
    MaxRecords,   \* records altogether
    MaxFails,     \* failures after which a launch row is blocked
    MaxRenames,   \* workspaces somebody renames
    MaxRefusals   \* calls without an answer, refusals, restarts of the gateway

VARIABLES bound, known, archived, synced, topic, stop, order, launch, jobs, checks, works, key,
    early, used

Found == INSTANCE Discovery WITH MaxTrouble <- MaxRefusals, state <- works

FoundLaunch == [at : {"none", "queued", "calling", "binding", "sending", "ended"}, tried : BOOLEAN,
                fails : Nat, found : Found!Works \cup {0}]
FoundJob == [work : Found!Works, phase : {"start", "reading"}, key : Found!Records \cup {0},
                 state : {"initializing", "ready"}]

DiscoveryShape ==
    /\ bound \in [Found!Records -> Found!Works \cup {0}] /\ known \subseteq Found!Records
    /\ launch \in [Found!Launches -> FoundLaunch]
    /\ jobs \subseteq FoundJob
    /\ works \in [Found!Works -> {"none", "initializing", "ready", "gone"}]
    /\ key \in [Found!Works -> Found!Launches \cup {0}] /\ early \subseteq Found!Works

\* What is bound, asked for or made for a record is so for one there is.
Recorded ==
    /\ \A r \in Found!Records : bound[r] # 0 => r \in known
    /\ \A r \in Found!Launches : launch[r].at # "none" \/ launch[r].tried => r \in known
    /\ \A w \in Found!Works : key[w] # 0 => key[w] \in known

\* A launch is about to bind what bears its key, or what was renamed too early.
Aims(r) ==
    /\ launch[r].at \in {"calling", "binding"} => bound[r] = 0
    /\ launch[r].at = "binding" => launch[r].found # 0
    /\ launch[r].found # 0 => /\ launch[r].at \in {"calling", "binding"}
                              /\ key[launch[r].found] = r \/ launch[r].found \in early

\* No record but its own is bound to a workspace that bears a key.
Keyed == \A w \in Found!Works \ early, r \in Found!Records : key[w] # 0 /\ bound[r] = w => key[w] = r

\* A job that reads a workspace reads one without a key.
Listed(j) ==
    /\ works[j.work] # "none"
    /\ key[j.work] \in {0, j.key}
    /\ j.phase = "reading" => key[j.work] = 0

\* What Conductor has not made has no key, no record and no name to change.
NotMade == \A w \in Found!Works : works[w] = "none" =>
              key[w] = 0 /\ w \notin early /\ \A r \in Found!Records : bound[r] # w

OneEach == \A w \in Found!Works \ early, r, s \in Found!Records : bound[r] = w /\ bound[s] = w => r = s

DiscoveryInv == /\ DiscoveryShape /\ Recorded /\ \A r \in Found!Launches : Aims(r)
                /\ Keyed /\ \A j \in jobs : Listed(j)
                /\ NotMade /\ OneEach

LEMMA WorksArePositive == 0 \notin Found!Works /\ Found!Works \subseteq Nat
BY DEF Found!Works

LEMMA LaunchesAreRecords ==
  ASSUME Found!DiscoveryAssumption
  PROVE  Found!Launches \subseteq Found!Records /\ 0 \notin Found!Records
BY DEF Found!Launches, Found!Records, Found!DiscoveryAssumption

LEMMA DiscoveryInit == ASSUME Found!DiscoveryAssumption PROVE Found!Init => DiscoveryInv
<1> SUFFICES ASSUME Found!Init PROVE DiscoveryInv
  OBVIOUS
<1> USE WorksArePositive, LaunchesAreRecords DEF Found!Init
<1>1. [at |-> "none", tried |-> FALSE, fails |-> 0, found |-> 0] \in FoundLaunch
  BY DEF FoundLaunch
<1>2. DiscoveryShape
  BY <1>1 DEF DiscoveryShape
<1>3. Recorded /\ \A r \in Found!Launches : Aims(r)
  BY DEF Recorded, Aims
<1>4. Keyed /\ NotMade /\ OneEach /\ \A j \in jobs : Listed(j)
  BY DEF Keyed, NotMade, OneEach
<1> QED
  BY <1>2, <1>3, <1>4 DEF DiscoveryInv

-----------------------------------------------------------------------------
\* The row of one launch changes, and the others do not.
LaunchMoves(r) == launch' \in [Found!Launches -> FoundLaunch] /\ \A q \in Found!Launches \ {r} : launch'[q] = launch[q]

LEMMA EndsMoves ==
  ASSUME DiscoveryShape, NEW r \in Found!Launches, Found!Ends(r)
  PROVE  LaunchMoves(r) /\ launch'[r].at = "ended" /\ launch'[r].found = 0
BY DEF DiscoveryShape, Found!Ends, LaunchMoves, FoundLaunch

LEMMA FailsMoves ==
  ASSUME DiscoveryShape, NEW r \in Found!Launches, Found!Fails(r)
  PROVE  LaunchMoves(r) /\ launch'[r].at \in {"ended", "queued"} /\ launch'[r].found = 0
<1> DEFINE at == IF launch[r].fails + 1 >= MaxFails THEN "ended" ELSE "queued"
<1>1. launch' = [launch EXCEPT ![r] = [@ EXCEPT !.at = at, !.fails = launch[r].fails + 1, !.found = 0]]
  BY DEF Found!Fails
<1>2. at \in {"ended", "queued"}
  OBVIOUS
<1> HIDE DEF at
<1>3. launch \in [Found!Launches -> FoundLaunch] /\ launch[r] \in FoundLaunch
  BY DEF DiscoveryShape
<1> DEFINE lapses == launch[r].fails + 1
<1>6. lapses \in Nat
  BY <1>3 DEF FoundLaunch
<1> DEFINE new == [launch[r] EXCEPT !.at = at, !.fails = lapses, !.found = 0]
<1>5. launch' = [launch EXCEPT ![r] = new]
  BY <1>1
<1> HIDE DEF lapses
<1>4. new \in FoundLaunch /\ new.at = at /\ new.found = 0
  BY <1>2, <1>3, <1>6 DEF FoundLaunch
<1> HIDE DEF new
<1> QED
  BY <1>2, <1>3, <1>4, <1>5 DEF LaunchMoves

\* What a step may do to the launch rows when nothing else but the scan changes.
LEMMA RowStep ==
  ASSUME DiscoveryInv, launch' \in [Found!Launches -> FoundLaunch],
         known \subseteq known', known' \subseteq Found!Records, jobs' \subseteq jobs,
         UNCHANGED <<bound, works, key, early>>,
         \A r \in Found!Launches : (launch'[r].at # "none" \/ launch'[r].tried => r \in known') /\ Aims(r)'
  PROVE  DiscoveryInv'
<1>1. DiscoveryShape' /\ Recorded'
  BY DEF DiscoveryInv, DiscoveryShape, Recorded
<1>2. \A j \in jobs' : Listed(j)'
  BY DEF DiscoveryInv, Listed
<1>3. Keyed' /\ NotMade' /\ OneEach'
  BY DEF DiscoveryInv, Keyed, NotMade, OneEach
<1> QED
  BY <1>1, <1>2, <1>3 DEF DiscoveryInv

\* One row moves, and aims at nothing afterwards.
LEMMA RestStep ==
  ASSUME DiscoveryInv, NEW r \in Found!Launches, LaunchMoves(r), launch'[r].found = 0,
         launch'[r].at \notin {"binding"}, launch'[r].at = "calling" => bound[r] = 0,
         r \in known', known \subseteq known', known' \subseteq Found!Records,
         jobs' \subseteq jobs, UNCHANGED <<bound, works, key, early>>
  PROVE  DiscoveryInv'
<1>1. ASSUME NEW q \in Found!Launches
      PROVE  (launch'[q].at # "none" \/ launch'[q].tried => q \in known') /\ Aims(q)'
  <2>1. CASE q = r
    BY <2>1 DEF Aims
  <2>2. CASE q # r
    BY <2>2 DEF DiscoveryInv, Recorded, Aims, LaunchMoves
  <2> QED
    BY <2>1, <2>2
<1> QED
  BY <1>1, RowStep DEF LaunchMoves

LEMMA AskedStep ==
  ASSUME Found!DiscoveryAssumption, DiscoveryInv, NEW r \in Found!Launches, Found!Asked(r)
  PROVE  DiscoveryInv'
<1>1. LaunchMoves(r) /\ launch'[r].at = "queued" /\ launch'[r].found = launch[r].found
  BY DEF DiscoveryInv, DiscoveryShape, Found!Asked, LaunchMoves, FoundLaunch
<1>2. launch[r].found = 0
  BY DEF DiscoveryInv, Found!Asked, Aims
<1>3. /\ r \in known' /\ known \subseteq known' /\ known' \subseteq Found!Records /\ jobs' = jobs
      /\ UNCHANGED <<bound, works, key, early>>
  BY LaunchesAreRecords DEF DiscoveryInv, DiscoveryShape, Found!Asked, Found!scan, Found!conductor
<1> QED
  BY <1>1, <1>2, <1>3, RestStep

LEMMA StartsStep == ASSUME DiscoveryInv, NEW r \in Found!Launches, Found!LaunchStarts(r) PROVE DiscoveryInv'
<1>1. /\ known' = known /\ jobs' = jobs /\ UNCHANGED <<bound, works, key, early>> /\ bound[r] = 0
      /\ r \in known /\ known \subseteq Found!Records /\ launch[r].at = "queued" /\ DiscoveryShape
  BY DEF DiscoveryInv, DiscoveryShape, Found!LaunchStarts, Found!scan, Found!conductor, Recorded
<1>2. launch[r].found = 0
  BY <1>1 DEF DiscoveryInv, Aims
<1>3. CASE Found!Ends(r) \/ Found!Fails(r)
  BY <1>1, <1>3, EndsMoves, FailsMoves, RestStep
<1>4. CASE launch' = [launch EXCEPT ![r] = [@ EXCEPT !.at = "calling", !.tried = TRUE]]
  <2>1. LaunchMoves(r) /\ launch'[r].at = "calling" /\ launch'[r].found = 0
    BY <1>1, <1>2, <1>4 DEF DiscoveryShape, LaunchMoves, FoundLaunch
  <2> QED
    BY <1>1, <2>1, RestStep
<1>5. ASSUME NEW w \in Found!Works, key[w] = r,
             launch' = [launch EXCEPT ![r] = [@ EXCEPT !.at = "binding", !.found = w]]
      PROVE  DiscoveryInv'
  <2> DEFINE new == [launch[r] EXCEPT !.at = "binding", !.found = w]
  <2>1. launch \in [Found!Launches -> FoundLaunch] /\ launch[r] \in FoundLaunch
    BY <1>1 DEF DiscoveryShape
  <2>2. new \in FoundLaunch /\ new.at = "binding" /\ new.found = w
    BY <2>1 DEF FoundLaunch
  <2>5. launch' = [launch EXCEPT ![r] = new]
    BY <1>5
  <2> HIDE DEF new
  <2>3. LaunchMoves(r) /\ launch'[r].at = "binding" /\ launch'[r].found = w
    BY <2>1, <2>2, <2>5 DEF LaunchMoves
  <2>4. ASSUME NEW q \in Found!Launches
        PROVE  (launch'[q].at # "none" \/ launch'[q].tried => q \in known') /\ Aims(q)'
    <3>1. CASE q = r
      BY <1>1, <1>5, <2>3, <3>1, WorksArePositive DEF Aims
    <3>2. CASE q # r
      BY <1>1, <2>3, <3>2 DEF DiscoveryInv, Recorded, Aims, LaunchMoves
    <3> QED
      BY <3>1, <3>2
  <2> QED
    BY <1>1, <2>3, <2>4, RowStep DEF LaunchMoves
<1> QED
  BY <1>3, <1>4, <1>5 DEF Found!LaunchStarts

LEMMA AnsweredStep ==
  ASSUME DiscoveryInv, NEW r \in Found!Launches, Found!CreateAnswered(r)
  PROVE  DiscoveryInv'
<1>1. /\ known' = known /\ jobs' = jobs /\ UNCHANGED <<bound, works, key, early>>
      /\ known \subseteq Found!Records /\ DiscoveryShape
  BY DEF DiscoveryInv, DiscoveryShape, Found!CreateAnswered, Found!scan, Found!conductor
<1>2. /\ LaunchMoves(r) /\ launch'[r].at = "binding" /\ launch'[r].found = launch[r].found
      /\ launch[r].at = "calling" /\ launch[r].found # 0
  BY <1>1 DEF DiscoveryShape, Found!CreateAnswered, LaunchMoves, FoundLaunch
<1>3. ASSUME NEW q \in Found!Launches
      PROVE  (launch'[q].at # "none" \/ launch'[q].tried => q \in known') /\ Aims(q)'
  <2>1. CASE q = r
    BY <1>1, <1>2, <2>1 DEF DiscoveryInv, Recorded, Aims
  <2>2. CASE q # r
    BY <1>1, <1>2, <2>2 DEF DiscoveryInv, Recorded, Aims, LaunchMoves
  <2> QED
    BY <2>1, <2>2
<1> QED
  BY <1>1, <1>2, <1>3, RowStep DEF LaunchMoves

LEMMA RefusedStep ==
  ASSUME DiscoveryInv, NEW r \in Found!Launches, Found!CreateRefused(r)
  PROVE  DiscoveryInv'
<1>1. /\ known' = known /\ jobs' = jobs /\ UNCHANGED <<bound, works, key, early>>
      /\ known \subseteq Found!Records /\ DiscoveryShape /\ r \in known /\ launch[r].found = 0
  BY DEF DiscoveryInv, DiscoveryShape, Found!CreateRefused, Found!scan, Found!conductor, Recorded
<1>2. LaunchMoves(r) /\ launch'[r].at = "ended" /\ launch'[r].found = 0
  BY <1>1 DEF DiscoveryShape, Found!CreateRefused, LaunchMoves, FoundLaunch
<1> QED
  BY <1>1, <1>2, RestStep

LEMMA GoesOnStep ==
  ASSUME DiscoveryInv, NEW r \in Found!Launches,
         Found!LaunchGoesOn(r) \/ Found!LaunchSends(r) \/ Found!LaunchFails(r)
  PROVE  DiscoveryInv'
<1>1. /\ known' = known /\ jobs' = jobs /\ UNCHANGED <<bound, works, key, early>>
      /\ known \subseteq Found!Records /\ DiscoveryShape /\ r \in known
  BY DEF DiscoveryInv, DiscoveryShape, Found!LaunchGoesOn, Found!LaunchSends, Found!LaunchFails,
         Found!scan, Found!conductor, Recorded,
         Found!Launching
<1>2. CASE Found!Ends(r) \/ Found!Fails(r)
  BY <1>1, <1>2, EndsMoves, FailsMoves, RestStep
<1>3. CASE launch[r].at = "queued" /\ launch' = [launch EXCEPT ![r].at = "sending"]
  <2>1. launch[r].found = 0
    BY <1>3 DEF DiscoveryInv, Aims
  <2>2. LaunchMoves(r) /\ launch'[r].at = "sending" /\ launch'[r].found = 0
    BY <1>1, <1>3, <2>1 DEF DiscoveryShape, LaunchMoves, FoundLaunch
  <2> QED
    BY <1>1, <2>2, RestStep
<1> QED
  BY <1>2, <1>3 DEF Found!LaunchGoesOn, Found!LaunchSends, Found!LaunchFails

LEMMA RestartsStep == ASSUME DiscoveryInv, Found!Restarts PROVE DiscoveryInv'
<1>1. /\ known' = known /\ jobs' \subseteq jobs /\ UNCHANGED <<bound, works, key, early>>
      /\ known \subseteq Found!Records /\ DiscoveryShape
  BY DEF DiscoveryInv, DiscoveryShape, Found!Restarts, Found!conductor
<1>2. ASSUME NEW r \in Found!Launches
      PROVE  /\ launch'[r] \in FoundLaunch /\ launch'[r].tried = launch[r].tried
             /\ \/ launch'[r] = launch[r] /\ ~Found!Launching(r)
                \/ launch'[r].at = "queued" /\ launch'[r].found = 0 /\ launch[r].at # "none"
  <2> DEFINE a == [launch[r] EXCEPT !.at = "queued"]
  <2>1. a \in FoundLaunch /\ a.at = "queued" /\ a.tried = launch[r].tried /\ launch[r] \in FoundLaunch
    BY <1>1 DEF DiscoveryShape, FoundLaunch
  <2>2. launch'[r] = IF Found!Launching(r) THEN [a EXCEPT !.found = 0] ELSE launch[r]
    BY DEF Found!Restarts
  <2> HIDE DEF a
  <2>3. CASE Found!Launching(r)
    BY <2>1, <2>2, <2>3 DEF FoundLaunch, Found!Launching
  <2>4. CASE ~Found!Launching(r)
    BY <2>1, <2>2, <2>4
  <2> QED
    BY <2>3, <2>4
<1>3. launch' \in [Found!Launches -> FoundLaunch]
  <2>1. \E f : launch' = [r \in Found!Launches |-> f[r]]
    <3>1. launch' = [r \in Found!Launches |-> launch'[r]]
      BY DEF Found!Restarts
    <3> QED
      BY <3>1
  <2> QED
    BY <1>2, <2>1
<1>4. ASSUME NEW q \in Found!Launches
      PROVE  (launch'[q].at # "none" \/ launch'[q].tried => q \in known') /\ Aims(q)'
  BY <1>1, <1>2 DEF DiscoveryInv, Recorded, Aims
<1> QED
  BY <1>1, <1>3, <1>4, RowStep

-----------------------------------------------------------------------------
LEMMA BindsStep ==
  ASSUME Found!DiscoveryAssumption, DiscoveryInv, NEW r \in Found!Launches, Found!Binds(r)
  PROVE  DiscoveryInv'
<1> DEFINE f == launch[r].found
<1>1. /\ known' = known /\ jobs' = jobs /\ UNCHANGED <<works, key, early>>
      /\ DiscoveryShape /\ r \in known /\ r \in Found!Records /\ bound[r] = 0
      /\ f \in Found!Works /\ (key[f] = r \/ f \in early)
  BY LaunchesAreRecords DEF DiscoveryInv, DiscoveryShape, Found!Binds, Found!scan, Found!conductor,
      Recorded, Aims, FoundLaunch
<1>2. /\ bound' \in [Found!Records -> Found!Works \cup {0}] /\ bound'[r] = f
      /\ \A q \in Found!Records \ {r} : bound'[q] = bound[q]
  BY <1>1 DEF Found!Binds, DiscoveryShape
<1>3. LaunchMoves(r) /\ launch'[r].at = "queued" /\ launch'[r].found = 0
  BY <1>1 DEF DiscoveryShape, Found!Binds, LaunchMoves, FoundLaunch
<1> HIDE DEF f
<1>4. DiscoveryShape'
  BY <1>1, <1>2, <1>3 DEF DiscoveryShape, LaunchMoves
<1>5. Recorded'
  BY <1>1, <1>2, <1>3 DEF DiscoveryInv, Recorded, LaunchMoves
<1>6. \A q \in Found!Launches : Aims(q)'
  BY <1>1, <1>2, <1>3, LaunchesAreRecords DEF DiscoveryInv, Aims, LaunchMoves
<1>7. Keyed' /\ OneEach'
  BY <1>1, <1>2, WorksArePositive, LaunchesAreRecords DEF DiscoveryInv, Keyed, OneEach
<1>8. NotMade'
  BY <1>1, <1>2, WorksArePositive, LaunchesAreRecords DEF DiscoveryInv, NotMade
<1>9. \A j \in jobs' : Listed(j)'
  BY <1>1 DEF DiscoveryInv, Listed
<1> QED
  BY <1>4, <1>5, <1>6, <1>7, <1>8, <1>9 DEF DiscoveryInv

LEMMA TakenStep ==
  ASSUME Found!DiscoveryAssumption, DiscoveryInv, NEW r \in Found!Launches, Found!CreateTaken(r)
  PROVE  DiscoveryInv'
<1>1. PICK w \in Found!Works : /\ Found!NewWork(w)
                               /\ works' = [works EXCEPT ![w] = "initializing"]
                               /\ key' = [key EXCEPT ![w] = r]
                               /\ launch' = IF launch[r].at = "calling" THEN [launch EXCEPT ![r].found = w] ELSE launch
  BY DEF Found!CreateTaken
<1>2. /\ known' = known /\ jobs' = jobs /\ UNCHANGED <<bound, early>>
      /\ DiscoveryShape /\ r \in known /\ r # 0 /\ bound[r] = 0 /\ launch[r].at # "binding"
      /\ \A v \in Found!Works : key[v] # r
  BY LaunchesAreRecords DEF DiscoveryInv, DiscoveryShape, Found!CreateTaken, Found!scan, Recorded
<1>3. /\ works[w] = "none" /\ key[w] = 0 /\ w \notin early /\ \A q \in Found!Records : bound[q] # w
  BY <1>1 DEF Found!NewWork, DiscoveryInv, NotMade
<1>4. /\ works' \in [Found!Works -> {"none", "initializing", "ready", "gone"}]
      /\ key' \in [Found!Works -> Found!Launches \cup {0}]
      /\ works'[w] # "none" /\ key'[w] = r
      /\ \A v \in Found!Works \ {w} : works'[v] = works[v] /\ key'[v] = key[v]
  BY <1>1, <1>2 DEF DiscoveryShape
<1>5. /\ LaunchMoves(r) /\ launch'[r].at = launch[r].at /\ launch'[r].tried = launch[r].tried
      /\ launch'[r].found = IF launch[r].at = "calling" THEN w ELSE launch[r].found
  BY <1>1, <1>2 DEF DiscoveryShape, LaunchMoves, FoundLaunch
<1>6. DiscoveryShape'
  BY <1>2, <1>4, <1>5 DEF DiscoveryShape, LaunchMoves
<1>7. Recorded'
  BY <1>2, <1>4, <1>5 DEF DiscoveryInv, Recorded, LaunchMoves
<1>8. ASSUME NEW q \in Found!Launches PROVE Aims(q)'
  <2>1. CASE q = r
    BY <1>2, <1>4, <1>5, <2>1, WorksArePositive DEF DiscoveryInv, Aims
  <2>2. CASE q # r
    <3>1. launch[q].found \in Found!Works \cup {0}
      BY <1>2 DEF DiscoveryShape, FoundLaunch
    <3>2. launch[q].found # w
      BY <1>3, LaunchesAreRecords, WorksArePositive DEF DiscoveryInv, Aims
    <3> QED
      BY <1>2, <1>4, <1>5, <2>2, <3>1, <3>2 DEF DiscoveryInv, Aims, LaunchMoves
  <2> QED
    BY <2>1, <2>2
<1>9. Keyed' /\ OneEach' /\ NotMade'
  BY <1>2, <1>3, <1>4 DEF DiscoveryInv, Keyed, OneEach, NotMade
<1>10. ASSUME NEW j \in jobs' PROVE Listed(j)'
  <2>1. j.work \in Found!Works /\ j.work # w
    BY <1>2, <1>3 DEF DiscoveryInv, DiscoveryShape, FoundJob, Listed
  <2> QED
    BY <1>2, <1>4, <2>1 DEF DiscoveryInv, Listed
<1> QED
  BY <1>6, <1>7, <1>8, <1>9, <1>10 DEF DiscoveryInv

-----------------------------------------------------------------------------
\* Conductor goes on: workspaces come and go.
LEMMA WorldStep ==
  ASSUME DiscoveryInv, UNCHANGED <<bound, known, launch, key, early>>, jobs' \subseteq jobs,
         works' \in [Found!Works -> {"none", "initializing", "ready", "gone"}],
         \A w \in Found!Works : works'[w] = "none" => works[w] = "none"
  PROVE  DiscoveryInv'
<1>1. DiscoveryShape' /\ Recorded'
  BY DEF DiscoveryInv, DiscoveryShape, Recorded
<1>2. \A r \in Found!Launches : Aims(r)'
  BY DEF DiscoveryInv, Aims
<1>3. Keyed' /\ NotMade' /\ OneEach'
  BY DEF DiscoveryInv, Keyed, NotMade, OneEach
<1>4. \A j \in jobs' : Listed(j)'
  BY DEF DiscoveryInv, DiscoveryShape, FoundJob, Listed
<1> QED
  BY <1>1, <1>2, <1>3, <1>4 DEF DiscoveryInv

LEMMA OrderRunsStep == ASSUME DiscoveryInv, NEW r \in Found!Records, Found!OrderRuns(r) PROVE DiscoveryInv'
<1>1. /\ UNCHANGED <<bound, known, launch, key, early>> /\ jobs' = jobs
      /\ works' \in {works, [works EXCEPT ![bound[r]] = "gone"]}
  BY DEF Found!OrderRuns, Found!scan
<1>2. DiscoveryShape
  BY DEF DiscoveryInv
<1>3. /\ works' \in [Found!Works -> {"none", "initializing", "ready", "gone"}]
      /\ \A w \in Found!Works : works'[w] = "none" => works[w] = "none"
  BY <1>1, <1>2 DEF DiscoveryShape
<1> QED
  BY <1>1, <1>3, WorldStep

LEMMA WorldGoesStep ==
  ASSUME DiscoveryInv,
         Found!MadeOutside \/ \E w \in Found!Works : Found!Provisioned(w) \/ Found!Destroyed(w)
  PROVE  DiscoveryInv'
<1>1. UNCHANGED <<bound, known, launch, key, early>> /\ jobs' = jobs
  BY DEF Found!MadeOutside, Found!Provisioned, Found!Destroyed, Found!rows, Found!scan
<1>2. PICK w \in Found!Works, s \in {"initializing", "ready", "gone"} : works' = [works EXCEPT ![w] = s]
  BY DEF Found!MadeOutside, Found!Provisioned, Found!Destroyed
<1>3. /\ works' \in [Found!Works -> {"none", "initializing", "ready", "gone"}]
      /\ \A v \in Found!Works : works'[v] = "none" => works[v] = "none"
  BY <1>2 DEF DiscoveryInv, DiscoveryShape
<1> QED
  BY <1>1, <1>3, WorldStep

LEMMA RenamedStep == ASSUME DiscoveryInv, NEW w \in Found!Works, Found!Renamed(w) PROVE DiscoveryInv'
<1>1. /\ UNCHANGED <<bound, known, launch, jobs, works>> /\ DiscoveryShape
      /\ key' = [key EXCEPT ![w] = 0] /\ key[w] # 0 /\ key[w] \in Found!Launches
  BY DEF DiscoveryInv, DiscoveryShape, Found!Renamed, Found!rows, Found!scan
<1>2. /\ early \subseteq early' /\ early' \subseteq early \cup {w}
      /\ bound[key[w]] # w => w \in early'
  BY DEF Found!Renamed
<1>3. /\ key' \in [Found!Works -> Found!Launches \cup {0}] /\ key'[w] = 0
      /\ \A v \in Found!Works \ {w} : key'[v] = key[v]
  BY <1>1 DEF DiscoveryShape
<1>4. DiscoveryShape'
  BY <1>1, <1>2, <1>3 DEF DiscoveryShape
<1>5. Recorded'
  BY <1>1, <1>3 DEF DiscoveryInv, Recorded
<1>6. ASSUME NEW q \in Found!Launches PROVE Aims(q)'
  <2>1. launch[q].found \in Found!Works \cup {0}
    BY <1>1 DEF DiscoveryShape, FoundLaunch
  <2>2. CASE launch[q].found # w
    BY <1>1, <1>2, <1>3, <2>1, <2>2 DEF DiscoveryInv, Aims
  <2>3. CASE launch[q].found = w
    BY <1>1, <1>2, <1>3, <2>3, WorksArePositive DEF DiscoveryInv, Aims
  <2> QED
    BY <2>2, <2>3
<1>7. Keyed' /\ OneEach'
  BY <1>1, <1>2, <1>3 DEF DiscoveryInv, Keyed, OneEach
<1>8. NotMade'
  BY <1>1, <1>2, <1>3 DEF DiscoveryInv, NotMade
<1>9. \A j \in jobs' : Listed(j)'
  BY <1>1, <1>3 DEF DiscoveryInv, DiscoveryShape, FoundJob, Listed
<1> QED
  BY <1>4, <1>5, <1>6, <1>7, <1>8, <1>9 DEF DiscoveryInv

-----------------------------------------------------------------------------
LEMMA ScanListsStep ==
  ASSUME Found!DiscoveryAssumption, DiscoveryInv, Found!ScanLists
  PROVE  DiscoveryInv'
<1>1. UNCHANGED <<bound, known, launch, works, key, early>>
  BY DEF Found!ScanLists, Found!rows, Found!conductor
<1>2. ASSUME NEW j \in jobs'
      PROVE  \E w \in Found!Works : /\ works[w] \in {"initializing", "ready"}
                                    /\ j = [work |-> w, phase |-> "start", key |-> key[w], state |-> works[w]]
  BY DEF Found!ScanLists
<1>3. DiscoveryShape'
  BY <1>1, <1>2, LaunchesAreRecords DEF DiscoveryInv, DiscoveryShape, FoundJob
<1>4. \A j \in jobs' : Listed(j)'
  BY <1>1, <1>2 DEF Listed
<1>5. Recorded' /\ \A r \in Found!Launches : Aims(r)'
  BY <1>1 DEF DiscoveryInv, Recorded, Aims
<1>6. Keyed' /\ NotMade' /\ OneEach'
  BY <1>1 DEF DiscoveryInv, Keyed, NotMade, OneEach
<1> QED
  BY <1>3, <1>4, <1>5, <1>6 DEF DiscoveryInv

LEMMA ConsidersStep == ASSUME DiscoveryInv, NEW j \in jobs, Found!Considers(j) PROVE DiscoveryInv'
<1>1. UNCHANGED <<bound, known, launch, works, key, early>>
  BY DEF Found!Considers, Found!rows, Found!conductor
<1> DEFINE k == [j EXCEPT !.phase = "reading"]
<1>2. j \in FoundJob /\ k \in FoundJob /\ k.work = j.work /\ k.key = j.key
  BY DEF DiscoveryInv, DiscoveryShape, FoundJob
<1>3. jobs' \subseteq jobs \cup {k} /\ (k \in jobs' => k \in jobs \/ Found!Foreign(j))
  BY DEF Found!Considers, Found!Reads
<1> HIDE DEF k
<1>4. DiscoveryShape'
  BY <1>1, <1>2, <1>3 DEF DiscoveryInv, DiscoveryShape
<1>5. ASSUME NEW i \in jobs' PROVE Listed(i)'
  <2>1. CASE i \in jobs
    BY <1>1, <2>1 DEF DiscoveryInv, Listed
  <2>2. CASE i = k /\ Found!Foreign(j)
    <3>1. Listed(j) /\ j.work \in Found!Works
      BY <1>2 DEF DiscoveryInv, FoundJob
    <3>2. key[j.work] = 0
      BY <2>2, <3>1 DEF Found!Foreign, Listed, DiscoveryInv, Recorded
    <3> QED
      BY <1>1, <1>2, <2>2, <3>1, <3>2 DEF Listed
  <2> QED
    BY <1>3, <2>1, <2>2
<1>6. Recorded' /\ \A r \in Found!Launches : Aims(r)'
  BY <1>1 DEF DiscoveryInv, Recorded, Aims
<1>7. Keyed' /\ NotMade' /\ OneEach'
  BY <1>1 DEF DiscoveryInv, Keyed, NotMade, OneEach
<1> QED
  BY <1>4, <1>5, <1>6, <1>7 DEF DiscoveryInv

LEMMA AttachesStep ==
  ASSUME Found!DiscoveryAssumption, DiscoveryInv, NEW j \in jobs, Found!Attaches(j)
  PROVE  DiscoveryInv'
<1>1. UNCHANGED <<launch, works, key, early>> /\ jobs' \subseteq jobs
  BY DEF Found!Attaches, Found!conductor
<1>2. CASE UNCHANGED <<bound, known>>
  BY <1>1, <1>2, WorldStep DEF DiscoveryInv, DiscoveryShape
<1>3. CASE Found!Matches(j.work) = {} /\ ~UNCHANGED <<bound, known>>
  <2>1. PICK r \in Found!Records \ (Found!Launches \cup known) :
           known' = known \cup {r} /\ bound' = [bound EXCEPT ![r] = j.work]
    BY <1>3 DEF Found!Attaches
  <2>2. /\ j \in FoundJob /\ j.work \in Found!Works /\ key[j.work] = 0 /\ works[j.work] # "none"
        /\ \A q \in Found!Records : bound[q] # j.work
    BY <1>3 DEF Found!Attaches, Found!Reading, DiscoveryInv, DiscoveryShape, Listed, FoundJob, Found!Matches
  <2>3. /\ bound' \in [Found!Records -> Found!Works \cup {0}] /\ bound'[r] = j.work
        /\ \A q \in Found!Records \ {r} : bound'[q] = bound[q]
    BY <2>1, <2>2 DEF DiscoveryInv, DiscoveryShape
  <2>4. DiscoveryShape' /\ Recorded'
    BY <1>1, <2>1, <2>3 DEF DiscoveryInv, DiscoveryShape, Recorded
  <2>5. \A q \in Found!Launches : Aims(q)'
    BY <1>1, <2>1, <2>3, LaunchesAreRecords DEF DiscoveryInv, Aims
  <2>6. Keyed' /\ NotMade' /\ OneEach'
    BY <1>1, <2>2, <2>3 DEF DiscoveryInv, Keyed, NotMade, OneEach
  <2>7. \A i \in jobs' : Listed(i)'
    BY <1>1 DEF DiscoveryInv, Listed
  <2> QED
    BY <2>4, <2>5, <2>6, <2>7 DEF DiscoveryInv
<1> QED
  BY <1>2, <1>3 DEF Found!Attaches

\* What concerns the retirement and the topics of records only.
LEMMA QuietStep ==
  ASSUME DiscoveryInv, UNCHANGED <<bound, known, launch, works, key, early>>, jobs' \subseteq jobs
  PROVE  DiscoveryInv'
BY WorldStep DEF DiscoveryInv, DiscoveryShape

LEMMA DiscoveryStep ==
  ASSUME Found!DiscoveryAssumption
  PROVE  DiscoveryInv /\ [Found!Next]_(Found!vars) => DiscoveryInv'
<1> SUFFICES ASSUME DiscoveryInv, [Found!Next]_(Found!vars) PROVE DiscoveryInv'
  OBVIOUS
<1>1. ASSUME NEW r \in Found!Launches,
             Found!Asked(r) \/ Found!Launch(r) \/ Found!CreateTaken(r) \/ Found!CreateRefused(r) \/ Found!LaunchFails(r)
      PROVE  DiscoveryInv'
  BY <1>1, AskedStep, StartsStep, AnsweredStep, BindsStep, GoesOnStep, TakenStep, RefusedStep DEF
      Found!Launch
<1>2. ASSUME NEW r \in Found!Records, Found!OrderRuns(r) PROVE DiscoveryInv'
  BY <1>2, OrderRunsStep
<1>3. ASSUME NEW r \in Found!Records,
             Found!PollRetires(r) \/ \E type \in {"stop", "archive"} : Found!Orders(r, type)
      PROVE  DiscoveryInv'
  BY <1>3, QuietStep DEF Found!PollRetires, Found!Orders, Found!scan, Found!conductor
<1>4. CASE Found!ScanLists
  BY <1>4, ScanListsStep
<1>5. CASE Found!Job
  <2>1. ASSUME NEW j \in jobs, Found!Follows(j) \/ Found!Refuses(j) PROVE DiscoveryInv'
    BY <2>1, QuietStep DEF Found!Follows, Found!Refuses, Found!rows, Found!conductor
  <2>2. ASSUME NEW r \in checks, Found!Checks(r) PROVE DiscoveryInv'
    BY <2>2, QuietStep DEF Found!Checks, Found!conductor
  <2> QED
    BY <1>5, <2>1, <2>2, ConsidersStep, AttachesStep DEF Found!Job
<1>6. CASE Found!JobFails
  BY <1>6, QuietStep DEF Found!JobFails, Found!rows, Found!conductor
<1>7. CASE Found!Restarts
  BY <1>7, RestartsStep
<1>8. CASE Found!MadeOutside \/ \E w \in Found!Works : Found!Provisioned(w) \/ Found!Destroyed(w)
  BY <1>8, WorldGoesStep
<1>9. ASSUME NEW w \in Found!Works, Found!Renamed(w) PROVE DiscoveryInv'
  BY <1>9, RenamedStep
<1>10. CASE UNCHANGED Found!vars
  BY <1>10, QuietStep DEF Found!vars
<1> QED
  BY <1>1, <1>2, <1>3, <1>4, <1>5, <1>6, <1>7, <1>8, <1>9, <1>10 DEF Found!Next

\* The instance counts as the library does.
LEMMA FoundCounts == ASSUME NEW S PROVE Found!Cardinality(S) = Cardinality(S)
BY DEF Found!Cardinality, Cardinality

LEMMA OneEachMeans == DiscoveryInv => Found!OneRecord
<1> SUFFICES ASSUME DiscoveryInv, NEW w \in Found!Works \ early PROVE Cardinality(Found!Matches(w)) <= 1
  BY FoundCounts DEF Found!OneRecord
<1>1. CASE Found!Matches(w) = {}
  BY <1>1, FS_EmptySet
<1>2. ASSUME NEW r \in Found!Matches(w) PROVE Cardinality(Found!Matches(w)) <= 1
  <2>1. Found!Matches(w) = {r}
    BY <1>2 DEF Found!Matches, DiscoveryInv, OneEach
  <2> QED
    BY <2>1, FS_Singleton
<1> QED
  BY <1>1, <1>2

THEOREM OneRecordEach == ASSUME Found!DiscoveryAssumption PROVE Found!Spec => []Found!OneRecord
<1> QED
  BY DiscoveryInit, DiscoveryStep, OneEachMeans, PTL DEF Found!Spec

-----------------------------------------------------------------------------

\* The order of the places in a rotation, as a relation.
Before == {ss \in Nat \X Nat : ss[1] < ss[2]}

\* A set of places that is not empty has a first one.
LEMMA LeastOf ==
  ASSUME NEW places, places \subseteq Nat, places # {}
  PROVE  \E x \in places : \A y \in places : x <= y
<1>1. OpToRel(<, Nat) = Before
  BY DEF OpToRel, Before
<1>2. IsWellFoundedOn(Before, Nat)
  BY <1>1, NatLessThanWellFounded, Zenon
<1>3. PICK x \in places : \A y \in places : ~(<<y, x>> \in Before)
  BY <1>2, WFMin
<1>4. \A y, z \in Nat : y < z => <<y, z>> \in Before
  BY DEF Before
<1>5. ASSUME NEW y \in places PROVE x <= y
  <2>1. y \in Nat /\ x \in Nat
    BY <1>3
  <2>2. ~(y < x)
    BY <1>3, <1>4, <2>1
  <2> QED
    BY <2>1, <2>2
<1> QED
  BY <1>5

-----------------------------------------------------------------------------
\* A launch row fails at most MaxFails times: the last failure ends it.
Lapses(v) == v.fails <= MaxFails /\ (v.at # "ended" => v.fails < MaxFails)

\* What is kept of a record is kept of one there is, and an order is one that the record's stop stands for.
RecordsKept == /\ archived \cup synced \cup topic \cup stop \cup checks \subseteq known
        /\ order \in [Found!Records -> {"none", "stop", "archive"}]
        /\ \A r \in Found!Records : order[r] # "none" => r \in stop

FoundTyped == RecordsKept /\ \A r \in Found!Launches : Lapses(launch[r])

LEMMA FoundTypes ==
  ASSUME DiscoveryInv, FoundTyped, Found!DiscoveryAssumption
  PROVE  Found!TypeOK
<1>1. ASSUME NEW r \in Found!Launches
      PROVE  launch[r] \in [at : {"none", "queued", "calling", "binding", "sending", "ended"}, tried : BOOLEAN,
                            fails : 0..MaxFails, found : Found!Works \cup {0}]
  <2>1. launch[r] \in FoundLaunch /\ launch[r].fails <= MaxFails /\ MaxFails \in Nat
    BY DEF DiscoveryInv, DiscoveryShape, FoundTyped, Lapses, Found!DiscoveryAssumption
  <2>2. launch[r].fails \in 0..MaxFails
    BY <2>1 DEF FoundLaunch
  <2> QED
    BY <2>1, <2>2 DEF FoundLaunch
<1>2. launch \in [Found!Launches -> [at : {"none", "queued", "calling", "binding", "sending", "ended"},
                                     tried : BOOLEAN, fails : 0..MaxFails, found : Found!Works \cup {0}]]
  <2>1. launch \in [Found!Launches -> FoundLaunch]
    BY DEF DiscoveryInv, DiscoveryShape
  <2> QED
    BY <1>1, <2>1
<1> QED
  BY <1>2 DEF Found!TypeOK, FoundTyped, RecordsKept, DiscoveryInv, DiscoveryShape, FoundJob

LEMMA FoundTypedInit == ASSUME Found!DiscoveryAssumption, Found!Init PROVE FoundTyped
<1>1. MaxFails \in Nat \ {0}
  BY DEF Found!DiscoveryAssumption
<1> QED
  BY <1>1 DEF Found!Init, FoundTyped, RecordsKept, Lapses

-----------------------------------------------------------------------------
\* One launch row changes.
LEMMA RowLapses ==
  ASSUME DiscoveryShape, \A q \in Found!Launches : Lapses(launch[q]),
         NEW r \in Found!Launches, NEW v, launch' = [launch EXCEPT ![r] = v], Lapses(v)
  PROVE  \A q \in Found!Launches : Lapses(launch'[q])
<1>1. \A q \in Found!Launches : launch'[q] = IF q = r THEN v ELSE launch[q]
  BY DEF DiscoveryShape
<1> QED
  BY <1>1

LEMMA EndsLapses ==
  ASSUME DiscoveryShape, \A q \in Found!Launches : Lapses(launch[q]),
         NEW r \in Found!Launches, Found!Ends(r)
  PROVE  \A q \in Found!Launches : Lapses(launch'[q])
<1> DEFINE v == [launch[r] EXCEPT !.at = "ended", !.found = 0]
<1>1. launch[r] \in FoundLaunch
  BY DEF DiscoveryShape
<1>2. v.at = "ended" /\ v.fails = launch[r].fails
  BY <1>1 DEF FoundLaunch
<1>3. launch' = [launch EXCEPT ![r] = v]
  BY DEF Found!Ends
<1> HIDE DEF v
<1>4. Lapses(v)
  BY <1>2 DEF Lapses
<1> QED
  BY <1>3, <1>4, RowLapses

LEMMA FailsLapses ==
  ASSUME DiscoveryShape, \A q \in Found!Launches : Lapses(launch[q]), MaxFails \in Nat,
         NEW r \in Found!Launches, launch[r].at # "ended", Found!Fails(r)
  PROVE  \A q \in Found!Launches : Lapses(launch'[q])
<1> DEFINE at == IF launch[r].fails + 1 >= MaxFails THEN "ended" ELSE "queued"
<1> DEFINE lapses == launch[r].fails + 1
<1> DEFINE v == [launch[r] EXCEPT !.at = at, !.fails = lapses, !.found = 0]
<1>1. launch[r] \in FoundLaunch /\ Lapses(launch[r])
  BY DEF DiscoveryShape
<1>2. launch' = [launch EXCEPT ![r] = v]
  BY DEF Found!Fails
<1>3. lapses <= MaxFails /\ (at # "ended" => lapses < MaxFails)
  BY <1>1 DEF FoundLaunch, Lapses
<1> HIDE DEF lapses, at
<1>4. v.at = at /\ v.fails = lapses
  BY <1>1 DEF FoundLaunch
<1> HIDE DEF v
<1>5. Lapses(v)
  BY <1>3, <1>4 DEF Lapses
<1> QED
  BY <1>2, <1>5, RowLapses

\* The row goes on without a failure.
LEMMA GoesLapses ==
  ASSUME DiscoveryShape, \A q \in Found!Launches : Lapses(launch[q]),
         NEW r \in Found!Launches, launch[r].at # "ended", NEW v,
         v.fails = launch[r].fails, launch' = [launch EXCEPT ![r] = v]
  PROVE  \A q \in Found!Launches : Lapses(launch'[q])
<1>1. Lapses(v)
  BY DEF Lapses
<1> QED
  BY <1>1, RowLapses

LEMMA LapsesStep ==
  ASSUME Found!DiscoveryAssumption, DiscoveryInv, \A q \in Found!Launches : Lapses(launch[q]),
         [Found!Next]_(Found!vars)
  PROVE  \A q \in Found!Launches : Lapses(launch'[q])
<1>1. DiscoveryShape /\ MaxFails \in Nat
  BY DEF DiscoveryInv, Found!DiscoveryAssumption
<1>2. ASSUME NEW r \in Found!Launches PROVE launch[r] \in FoundLaunch
  BY <1>1 DEF DiscoveryShape
<1>3. ASSUME NEW r \in Found!Launches, Found!Asked(r)
      PROVE  \A q \in Found!Launches : Lapses(launch'[q])
  <2> DEFINE v == [launch[r] EXCEPT !.at = "queued"]
  <2>1. launch[r].at # "ended" /\ launch' = [launch EXCEPT ![r] = v]
    BY <1>3 DEF Found!Asked
  <2>2. v.fails = launch[r].fails
    BY <1>2 DEF FoundLaunch
  <2> HIDE DEF v
  <2> QED
    BY <1>1, <2>1, <2>2, GoesLapses
<1>4. ASSUME NEW r \in Found!Launches, Found!LaunchStarts(r)
      PROVE  \A q \in Found!Launches : Lapses(launch'[q])
  <2>1. launch[r].at = "queued" /\ (launch[r].at = "queued" => launch[r].at # "ended")
    BY <1>4 DEF Found!LaunchStarts
  <2>2. CASE Found!Ends(r)
    BY <1>1, <2>2, EndsLapses
  <2>3. CASE Found!Fails(r)
    BY <1>1, <2>1, <2>3, FailsLapses
  <2>4. CASE launch' = [launch EXCEPT ![r] = [@ EXCEPT !.at = "calling", !.tried = TRUE]]
    <3> DEFINE v == [launch[r] EXCEPT !.at = "calling", !.tried = TRUE]
    <3>1. launch' = [launch EXCEPT ![r] = v]
      BY <2>4
    <3>2. v.fails = launch[r].fails
      BY <1>2 DEF FoundLaunch
    <3> HIDE DEF v
    <3> QED
      BY <1>1, <2>1, <3>1, <3>2, GoesLapses
  <2>5. ASSUME NEW w \in Found!Works, launch' = [launch EXCEPT ![r] = [@ EXCEPT !.at = "binding", !.found = w]]
        PROVE  \A q \in Found!Launches : Lapses(launch'[q])
    <3> DEFINE v == [launch[r] EXCEPT !.at = "binding", !.found = w]
    <3>1. launch' = [launch EXCEPT ![r] = v]
      BY <2>5
    <3>2. v.fails = launch[r].fails
      BY <1>2 DEF FoundLaunch
    <3> HIDE DEF v
    <3> QED
      BY <1>1, <2>1, <3>1, <3>2, GoesLapses
  <2> QED
    BY <1>4, <2>2, <2>3, <2>4, <2>5 DEF Found!LaunchStarts
<1>5. ASSUME NEW r \in Found!Launches, Found!CreateAnswered(r)
      PROVE  \A q \in Found!Launches : Lapses(launch'[q])
  <2> DEFINE v == [launch[r] EXCEPT !.at = "binding"]
  <2>1. launch[r].at = "calling" /\ launch' = [launch EXCEPT ![r] = v]
    BY <1>5 DEF Found!CreateAnswered
  <2>2. v.fails = launch[r].fails
    BY <1>2 DEF FoundLaunch
  <2> HIDE DEF v
  <2> QED
    BY <1>1, <2>1, <2>2, GoesLapses
<1>6. ASSUME NEW r \in Found!Launches, Found!Binds(r)
      PROVE  \A q \in Found!Launches : Lapses(launch'[q])
  <2> DEFINE v == [launch[r] EXCEPT !.at = "queued", !.found = 0]
  <2>1. launch[r].at = "binding" /\ launch' = [launch EXCEPT ![r] = v]
    BY <1>6 DEF Found!Binds
  <2>2. v.fails = launch[r].fails
    BY <1>2 DEF FoundLaunch
  <2> HIDE DEF v
  <2> QED
    BY <1>1, <2>1, <2>2, GoesLapses
<1>7. ASSUME NEW r \in Found!Launches, Found!LaunchGoesOn(r) \/ Found!LaunchSends(r)
      PROVE  \A q \in Found!Launches : Lapses(launch'[q])
  <2>1. CASE Found!Ends(r)
    BY <1>1, <2>1, EndsLapses
  <2>2. CASE launch[r].at = "queued" /\ launch' = [launch EXCEPT ![r].at = "sending"]
    <3> DEFINE v == [launch[r] EXCEPT !.at = "sending"]
    <3>1. launch' = [launch EXCEPT ![r] = v]
      BY <2>2
    <3>2. v.fails = launch[r].fails
      BY <1>2 DEF FoundLaunch
    <3> HIDE DEF v
    <3> QED
      BY <1>1, <2>2, <3>1, <3>2, GoesLapses
  <2> QED
    BY <1>7, <2>1, <2>2 DEF Found!LaunchGoesOn, Found!LaunchSends
<1>8. ASSUME NEW r \in Found!Launches, Found!CreateTaken(r)
      PROVE  \A q \in Found!Launches : Lapses(launch'[q])
  <2>1. CASE launch' = launch
    BY <2>1
  <2>2. ASSUME launch[r].at = "calling", NEW w \in Found!Works, launch' = [launch EXCEPT ![r].found = w]
        PROVE  \A q \in Found!Launches : Lapses(launch'[q])
    <3> DEFINE v == [launch[r] EXCEPT !.found = w]
    <3>1. launch' = [launch EXCEPT ![r] = v]
      BY <2>2
    <3>2. v.fails = launch[r].fails
      BY <1>2 DEF FoundLaunch
    <3> HIDE DEF v
    <3> QED
      BY <1>1, <2>2, <3>1, <3>2, GoesLapses
  <2> QED
    BY <1>8, <2>1, <2>2 DEF Found!CreateTaken
<1>9. ASSUME NEW r \in Found!Launches, Found!CreateRefused(r)
      PROVE  \A q \in Found!Launches : Lapses(launch'[q])
  <2> DEFINE v == [launch[r] EXCEPT !.at = "ended", !.tried = FALSE]
  <2>1. launch[r].at = "calling" /\ launch' = [launch EXCEPT ![r] = v]
    BY <1>9 DEF Found!CreateRefused
  <2>2. v.fails = launch[r].fails
    BY <1>2 DEF FoundLaunch
  <2> HIDE DEF v
  <2> QED
    BY <1>1, <2>1, <2>2, GoesLapses
<1>10. ASSUME NEW r \in Found!Launches, Found!LaunchFails(r)
       PROVE  \A q \in Found!Launches : Lapses(launch'[q])
  <2>1. launch[r].at # "ended" /\ Found!Fails(r)
    BY <1>10 DEF Found!LaunchFails, Found!Launching
  <2> QED
    BY <1>1, <2>1, FailsLapses
<1>11. ASSUME Found!Restarts, NEW q \in Found!Launches PROVE Lapses(launch'[q])
  <2>1. launch'[q] = IF Found!Launching(q) THEN [launch[q] EXCEPT !.at = "queued", !.found = 0] ELSE launch[q]
    BY <1>11 DEF Found!Restarts
  <2>2. CASE ~Found!Launching(q)
    BY <2>1, <2>2
  <2>3. CASE Found!Launching(q)
    <3>1. launch'[q].fails = launch[q].fails
      BY <1>2, <2>1, <2>3 DEF FoundLaunch
    <3> QED
      BY <2>3, <3>1 DEF Lapses, Found!Launching
  <2> QED
    BY <2>2, <2>3
<1>12. CASE launch' = launch
  BY <1>12
<1>13. ASSUME NEW r \in Found!Launches,
              Found!Asked(r) \/ Found!Launch(r) \/ Found!CreateTaken(r) \/ Found!CreateRefused(r) \/ Found!LaunchFails(r)
       PROVE  \A q \in Found!Launches : Lapses(launch'[q])
  BY <1>3, <1>4, <1>5, <1>6, <1>7, <1>8, <1>9, <1>10, <1>13 DEF Found!Launch
<1>14. ASSUME Found!ScanLists \/ Found!Job \/ Found!JobFails \/ Found!MadeOutside \/ UNCHANGED Found!vars
       PROVE  launch' = launch
  BY <1>14 DEF Found!ScanLists, Found!Job, Found!Follows, Found!Refuses, Found!Considers, Found!Attaches,
               Found!Checks, Found!JobFails, Found!MadeOutside, Found!rows, Found!vars
<1>15. ASSUME NEW r \in Found!Records,
              Found!OrderRuns(r) \/ Found!PollRetires(r) \/ \E type \in {"stop", "archive"} : Found!Orders(r, type)
       PROVE  launch' = launch
  BY <1>15 DEF Found!OrderRuns, Found!PollRetires, Found!Orders
<1>16. ASSUME NEW w \in Found!Works, Found!Provisioned(w) \/ Found!Destroyed(w) \/ Found!Renamed(w)
       PROVE  launch' = launch
  BY <1>16 DEF Found!Provisioned, Found!Destroyed, Found!Renamed, Found!rows
<1> QED
  BY <1>11, <1>12, <1>13, <1>14, <1>15, <1>16 DEF Found!Next

-----------------------------------------------------------------------------
LEMMA KeptStep ==
  ASSUME Found!DiscoveryAssumption, DiscoveryInv, RecordsKept, [Found!Next]_(Found!vars)
  PROVE  RecordsKept'
<1>1. Recorded /\ DiscoveryShape
  BY DEF DiscoveryInv
<1>2. ASSUME NEW r \in Found!Launches,
             Found!Asked(r) \/ Found!Launch(r) \/ Found!CreateTaken(r) \/ Found!CreateRefused(r) \/ Found!LaunchFails(r)
      PROVE  RecordsKept'
  <2>1. CASE Found!Asked(r)
    BY <2>1 DEF Found!Asked, Found!scan, RecordsKept
  <2>2. CASE Found!LaunchStarts(r) \/ Found!CreateAnswered(r) \/ Found!Binds(r) \/ Found!CreateTaken(r)
               \/ Found!CreateRefused(r) \/ Found!LaunchFails(r)
    <3>1. UNCHANGED <<known, archived, synced, topic, stop, order, checks>>
      BY <2>2 DEF Found!LaunchStarts, Found!CreateAnswered, Found!Binds, Found!CreateTaken, Found!CreateRefused,
                  Found!LaunchFails, Found!scan
    <3> QED
      BY <3>1 DEF RecordsKept
  <2>3. CASE Found!LaunchGoesOn(r) \/ Found!LaunchSends(r)
    <3>1. r \in known
      BY <1>1, <2>3 DEF Found!LaunchGoesOn, Found!LaunchSends, Recorded
    <3>2. /\ archived' \subseteq archived \cup {r} /\ topic' \subseteq topic \cup {r}
          /\ UNCHANGED <<known, synced, stop, order, checks>>
      BY <2>3 DEF Found!LaunchGoesOn, Found!LaunchSends, Found!Retire, Found!scan
    <3> QED
      BY <3>1, <3>2 DEF RecordsKept
  <2> QED
    BY <1>2, <2>1, <2>2, <2>3 DEF Found!Launch
<1>3. ASSUME NEW r \in Found!Records, Found!OrderRuns(r) PROVE RecordsKept'
  <2>1. r \in known
    BY <1>3 DEF Found!OrderRuns, RecordsKept
  <2>2. /\ archived' \subseteq archived \cup {r} /\ topic' \subseteq topic
        /\ order' = [order EXCEPT ![r] = "none"] /\ UNCHANGED <<known, synced, stop, checks>>
    BY <1>3 DEF Found!OrderRuns, Found!Retire, Found!scan
  <2> QED
    BY <2>1, <2>2 DEF RecordsKept
<1>4. ASSUME NEW r \in Found!Records, Found!PollRetires(r) PROVE RecordsKept'
  BY <1>1, <1>4 DEF Found!PollRetires, Found!Retire, Found!scan, Recorded, RecordsKept
<1>5. ASSUME NEW r \in Found!Records, NEW type \in {"stop", "archive"}, Found!Orders(r, type) PROVE RecordsKept'
  BY <1>5 DEF Found!Orders, Found!scan, RecordsKept
<1>6. CASE Found!ScanLists
  BY <1>6 DEF Found!ScanLists, Found!rows, RecordsKept
<1>7. ASSUME NEW j \in jobs, Found!Follows(j) PROVE RecordsKept'
  <2>1. PICK r \in Found!Matches(j.work) : /\ synced' \subseteq synced \cup {r} /\ topic' \subseteq topic \cup {r}
                                           /\ UNCHANGED <<known, archived, stop, order, checks>>
    BY <1>7 DEF Found!Follows, Found!Followed
  <2>2. bound[r] \in Found!Works /\ r \in Found!Records
    BY <1>1, <1>7 DEF Found!Matches, DiscoveryShape, FoundJob
  <2>3. r \in known
    BY <1>1, <2>2, WorksArePositive DEF Recorded
  <2> QED
    BY <2>1, <2>3 DEF RecordsKept
<1>8. ASSUME NEW j \in jobs, Found!Refuses(j) \/ Found!Considers(j) PROVE RecordsKept'
  BY <1>8 DEF Found!Refuses, Found!Considers, Found!rows, RecordsKept
<1>9. ASSUME NEW j \in jobs, Found!Attaches(j) PROVE RecordsKept'
  BY <1>9 DEF Found!Attaches, RecordsKept
<1>10. ASSUME NEW r \in checks, Found!Checks(r) PROVE RecordsKept'
  BY <1>10 DEF Found!Checks, Found!Retire, RecordsKept
<1>11. CASE Found!JobFails
  BY <1>11 DEF Found!JobFails, Found!rows, RecordsKept
<1>12. CASE Found!Restarts
  BY <1>12 DEF Found!Restarts, RecordsKept
<1>13. CASE Found!MadeOutside
  BY <1>13 DEF Found!MadeOutside, Found!rows, Found!scan, RecordsKept
<1>14. ASSUME NEW w \in Found!Works, Found!Provisioned(w) \/ Found!Destroyed(w) \/ Found!Renamed(w) PROVE RecordsKept'
  BY <1>14 DEF Found!Provisioned, Found!Destroyed, Found!Renamed, Found!rows, Found!scan, RecordsKept
<1>15. CASE UNCHANGED Found!vars
  BY <1>15 DEF Found!vars, RecordsKept
<1>16. CASE Found!Job
  BY <1>7, <1>8, <1>9, <1>10, <1>16 DEF Found!Job
<1> QED
  BY <1>2, <1>3, <1>4, <1>5, <1>6, <1>11, <1>12, <1>13, <1>14, <1>15, <1>16 DEF Found!Next

LEMMA FoundTypedStep ==
  ASSUME Found!DiscoveryAssumption, DiscoveryInv, FoundTyped, [Found!Next]_(Found!vars)
  PROVE  FoundTyped'
<1>1. RecordsKept' /\ \A q \in Found!Launches : Lapses(launch'[q])
  BY KeptStep, LapsesStep DEF FoundTyped
<1> QED
  BY <1>1 DEF FoundTyped

-----------------------------------------------------------------------------
(***************************************************************************)
(* The natural-language router.  Its workspaces and sessions are kept      *)
(* apart from its messages: nothing is created while something that was    *)
(* created, or may still be, is known, and a message is put to a session   *)
(* by the row at the head of the lane, which makes the rows of every       *)
(* transcript increase.                                                    *)
(***************************************************************************)
CONSTANTS
    MaxMessages,     \* messages to route
    MaxRouters,      \* router workspaces there may come to be
    RouterSessions,  \* sessions there may come to be in them
    MaxRouteFails,   \* failures after which a message is blocked
    MaxRemoved,      \* routers and sessions removed by somebody
    MaxUnanswered    \* calls without an answer, refusals, restarts of the gateway

VARIABLES ask, proposal, binding, spawned, opened, retired, healed, late, step, home, alive, loose,
    transcript, working, wear

Route == INSTANCE RouterTurn WITH MaxRows <- MaxMessages, MaxSessions <- RouterSessions,
    MaxFails <- MaxRouteFails, MaxGone <- MaxRemoved, MaxTrouble <- MaxUnanswered, row <- ask,
    made <- spawned, pc <- step, used <- wear

Asking == [state : {"queued", "done", "blocked"}, prompted : BOOLEAN, attempted : BOOLEAN,
           sent : BOOLEAN, fails : Nat]
Line == [kind : {"prompt", "text"}, row : Route!Rows, final : BOOLEAN]
RouteStep == [at : {"rest", "bind", "making", "opening", "session", "prompt", "find", "posting",
                    "status", "read"},
              taken : Route!Sessions \cup {0}, into : Route!Routers \cup {0}]

RouteShape ==
    /\ ask \in [Route!Rows -> Asking] /\ proposal \in [Route!Rows -> [row : Nat, final : BOOLEAN]]
    /\ binding \in [router : Route!Routers \cup {0}, session : Route!Sessions \cup {0}]
    /\ retired \subseteq Route!Routers /\ alive \subseteq Route!Routers
    /\ step \in RouteStep /\ loose \in RouteStep
    /\ home \in [Route!Sessions -> Route!Routers \cup {0}]
    /\ transcript \in [Route!Sessions -> Seq(Line)]
    /\ working \in [Route!Sessions -> Route!Rows \cup {0}]

\* A call that creates something and was not taken yet.
Makes(c) == c.at = "making" /\ c.taken = 0
Opens(c) == c.at = "opening" /\ c.taken = 0

\* A router that was not retired and is there, was there, or has a session opened in it.
Seen(r) == /\ r \in Route!Routers \ retired
           /\ \/ r \in alive
              \/ \E s \in Route!Sessions : home[s] = r
              \/ Opens(step) /\ r = step.into
              \/ Opens(loose) /\ r = loose.into

\* There is one at most, it is the bound one, and it is none while one may be made.
SeenOnce == \A q, r \in Route!Routers : Seen(q) /\ Seen(r) => q = r
BoundSeen == /\ binding # Route!NoBinding =>
                    /\ binding.router \in Route!Routers \ retired
                    /\ \A r \in Route!Routers : Seen(r) => r = binding.router
             /\ binding = Route!NoBinding /\ ~spawned => \A r \in Route!Routers : ~Seen(r)
             /\ step.at \in {"bind", "making"} => binding = Route!NoBinding
             /\ alive \cap retired = {}
MadeAlone(c) == Makes(c) => /\ spawned /\ binding = Route!NoBinding
                            /\ \A r \in Route!Routers : ~Seen(r)

\* The handler and a creation it gave up on are not both under way, in the same router.
CallsApart ==
    /\ Makes(loose) => step.at \notin Route!Making
    /\ loose.at \in Route!Making => loose.taken = 0
    /\ step.at = "opening" => step.into \in Route!Routers
    /\ loose.at = "opening" => loose.into \in Route!Routers
    /\ Opens(step) => /\ opened
                      /\ step.into \in alive => Route!SessionsOf(step.into) = {}
    /\ Opens(loose) /\ loose.into \in alive => /\ Route!SessionsOf(loose.into) = {} /\ opened
                                               /\ step.at \notin Route!Making

\* What was made for the handler is still there, and nobody has spoken in it.
Untold == step.at \in Route!Making /\ step.taken # 0 =>
              /\ home[step.taken] \in Route!Routers \ retired
              /\ transcript[step.taken] = << >>
Quiet == \A s \in Route!Sessions : working[s] # 0 => transcript[s] # << >>

SessionOnce == \A s, t \in Route!Sessions : home[s] \in alive /\ home[t] = home[s] => s = t

\* The handler works on the row at the head of the lane.
HeadStands == step.at # "rest" => Route!Open # {}

PlacesInv == /\ SeenOnce /\ BoundSeen /\ MadeAlone(step) /\ MadeAlone(loose) /\ CallsApart
             /\ Untold /\ SessionOnce

LEMMA RouterNumbers ==
  ASSUME Route!RouterAssumption
  PROVE  /\ Route!Rows \subseteq Nat \ {0} /\ Route!Routers \subseteq Nat \ {0}
         /\ Route!Sessions \subseteq Nat \ {0} /\ 1 \in Route!Sessions
BY DEF Route!RouterAssumption, Route!Rows, Route!Routers, Route!Sessions

LEMMA RouteInit ==
  ASSUME Route!RouterAssumption, Route!Init
  PROVE  RouteShape /\ PlacesInv /\ Quiet
<1> USE RouterNumbers DEF Route!Init, Route!Rest, Route!NoBinding, Route!NoText
<1>1. RouteShape
  <2>1. << >> \in Seq(Line)
    OBVIOUS
  <2> QED
    BY <2>1 DEF RouteShape, Asking, RouteStep
<1>2. PlacesInv /\ Quiet
  BY DEF PlacesInv, Quiet, SeenOnce, BoundSeen, MadeAlone, CallsApart, Untold, SessionOnce, Seen, Makes,
         Opens, Route!Making, Route!SessionsOf
<1> QED
  BY <1>1, <1>2

\* The row at the head of the lane is the first one that is open.
LEMMA HeadIs ==
  ASSUME Route!RouterAssumption, Route!Open # {}
  PROVE  /\ Route!Current \in Route!Rows /\ ask[Route!Current].state = "queued"
         /\ \A m \in Route!Rows : ask[m].state = "queued" => Route!Current <= m
<1>1. Route!Open \subseteq Nat
  BY RouterNumbers DEF Route!Open
<1>2. \E n \in Route!Open : \A m \in Route!Open : n <= m
  BY <1>1, LeastOf
<1>3. Route!Current \in Route!Open /\ \A m \in Route!Open : Route!Current <= m
  BY <1>2 DEF Route!Current
<1> QED
  BY <1>3 DEF Route!Open

\* What the handler may do to the messages.
LEMMA AskMoves ==
  ASSUME RouteShape, NEW n \in Route!Rows
  PROVE  /\ Route!Failed(n) \in [Route!Rows -> Asking] /\ Route!Blocked(n) \in [Route!Rows -> Asking]
         /\ \A k \in Route!Rows : k # n => Route!Failed(n)[k] = ask[k] /\ Route!Blocked(n)[k] = ask[k]
         /\ Route!Failed(n)[n].state \in {"queued", "blocked"}
         /\ Route!Failed(n)[n].attempted = ask[n].attempted
         /\ Route!Blocked(n)[n].state = "blocked"
         /\ Route!Blocked(n)[n].attempted = ask[n].attempted
<1>0. ask \in [Route!Rows -> Asking]
  BY DEF RouteShape
<1>1. Route!Blocked(n) = [ask EXCEPT ![n].state = "blocked"]
  BY DEF Route!Blocked
<1>2. /\ Route!Blocked(n) \in [Route!Rows -> Asking]
      /\ \A k \in Route!Rows : k # n => Route!Blocked(n)[k] = ask[k]
      /\ Route!Blocked(n)[n].state = "blocked" /\ Route!Blocked(n)[n].attempted = ask[n].attempted
  BY <1>0, <1>1 DEF Asking
<1> DEFINE to == IF ask[n].fails + 1 >= MaxRouteFails THEN "blocked" ELSE "queued"
<1>3. Route!Failed(n) = [ask EXCEPT ![n] = [@ EXCEPT !.state = to, !.fails = ask[n].fails + 1]]
  BY DEF Route!Failed
<1>4. to \in {"queued", "blocked"}
  OBVIOUS
<1> HIDE DEF to
<1> DEFINE lapses == ask[n].fails + 1
<1>8. ask[n] \in Asking /\ lapses \in Nat
  BY <1>0 DEF Asking
<1> DEFINE new == [ask[n] EXCEPT !.state = to, !.fails = lapses]
<1>7. Route!Failed(n) = [ask EXCEPT ![n] = new]
  BY <1>3
<1> HIDE DEF lapses
<1>6. new \in Asking /\ new.state = to /\ new.attempted = ask[n].attempted
  BY <1>4, <1>8 DEF Asking
<1> HIDE DEF new
<1>5. /\ Route!Failed(n) \in [Route!Rows -> Asking]
      /\ \A k \in Route!Rows : k # n => Route!Failed(n)[k] = ask[k]
      /\ Route!Failed(n)[n].state = to /\ Route!Failed(n)[n].attempted = ask[n].attempted
  BY <1>0, <1>6, <1>7
<1> QED
  BY <1>2, <1>4, <1>5

\* Where a step goes.
RoutePlaces == {"rest", "bind", "making", "opening", "session", "prompt", "find", "posting", "status",
                "read"}

LEMMA StepsTo ==
  /\ Route!Rest \in RouteStep /\ Route!Rest.at = "rest" /\ Route!Rest.taken = 0
  /\ \A p \in RoutePlaces : /\ [Route!Rest EXCEPT !.at = p] \in RouteStep
                            /\ [Route!Rest EXCEPT !.at = p].at = p
                            /\ [Route!Rest EXCEPT !.at = p].taken = 0
BY DEF Route!Rest, RouteStep, RoutePlaces

\* What the messages may become: one of them moves, and none is opened again.
AskGoes == /\ ask' \in [Route!Rows -> Asking]
           /\ \A k \in Route!Rows : /\ ask'[k].state = "queued" => ask[k].state = "queued"
                                    /\ ask'[k].state = "done" => ask[k].state = "done"

\* A session of the router is opened, or it may not be.
LEMMA OpensOne ==
  ASSUME Route!RouterAssumption, RouteShape, Route!Open # {}, NEW r \in Route!Routers,
         Route!OpenSession(r)
  PROVE  /\ AskGoes /\ step' \in RouteStep
         /\ \A k \in Route!Rows : ask'[k].attempted = ask[k].attempted
         /\ \/ /\ ~opened /\ opened' = TRUE /\ step' = [at |-> "opening", taken |-> 0, into |-> r]
            \/ UNCHANGED opened /\ step' = Route!Rest
<1>0. ask \in [Route!Rows -> Asking]
  BY DEF RouteShape
<1>1. CASE ~opened /\ opened' = TRUE /\ step' = [at |-> "opening", taken |-> 0, into |-> r] /\ UNCHANGED ask
  BY <1>0, <1>1 DEF AskGoes, RouteStep
<1>2. CASE ask' = Route!Failed(Route!Current) /\ step' = Route!Rest /\ UNCHANGED opened
  BY <1>0, <1>2, HeadIs, AskMoves, StepsTo DEF AskGoes
<1> QED
  BY <1>1, <1>2 DEF Route!OpenSession, Route!MayOpen, Route!Return

\* Every call that makes something makes one session, in a router of its own or in the one it was for.
MadeIn(c, s) ==
  /\ s \in Route!Sessions /\ home[s] = 0 /\ transcript[s] = << >>
  /\ \/ /\ c.at = "making"
        /\ \E r \in Route!Routers : /\ r \notin alive \cup retired /\ alive' = alive \cup {r}
                                    /\ home' = [home EXCEPT ![s] = r]
     \/ /\ c.at = "opening" /\ c.into \in alive /\ alive' = alive
        /\ home' = [home EXCEPT ![s] = c.into]

LEMMA MadeShape ==
  ASSUME RouteShape, NEW c \in RouteStep, NEW s \in Route!Sessions, Route!Made(c, s)
  PROVE  /\ MadeIn(c, s) /\ alive' \subseteq Route!Routers
         /\ home' \in [Route!Sessions -> Route!Routers \cup {0}]
<1>1. MadeIn(c, s)
  BY DEF Route!Made, MadeIn
<1>2. /\ alive \subseteq Route!Routers /\ home \in [Route!Sessions -> Route!Routers \cup {0}]
      /\ c.into \in Route!Routers \cup {0}
  BY DEF RouteShape, RouteStep
<1>4. CASE \E r \in Route!Routers : alive' = alive \cup {r} /\ home' = [home EXCEPT ![s] = r]
  BY <1>1, <1>2, <1>4
<1>5. CASE c.into \in alive /\ alive' = alive /\ home' = [home EXCEPT ![s] = c.into]
  BY <1>1, <1>2, <1>5
<1> QED
  BY <1>1, <1>4, <1>5 DEF MadeIn

LEMMA PlaceShape ==
  ASSUME Route!RouterAssumption, RouteShape, BoundSeen
  PROVE  /\ Route!MakeTaken => RouteShape'
         /\ Route!MakeTakenLate => RouteShape'
         /\ Route!Removed => RouteShape'
         /\ Route!Begins => RouteShape'
<1>1. ASSUME Route!MakeTaken PROVE RouteShape'
  <2>1. PICK s \in Route!Sessions : Route!Made(step, s) /\ step' = [step EXCEPT !.taken = s]
    BY <1>1 DEF Route!MakeTaken
  <2>2. alive' \subseteq Route!Routers /\ home' \in [Route!Sessions -> Route!Routers \cup {0}]
    BY <2>1, MadeShape DEF RouteShape
  <2>3. step' \in RouteStep
    BY <2>1 DEF RouteShape, RouteStep
  <2>4. UNCHANGED <<ask, proposal, binding, retired, loose, transcript, working>>
    BY <1>1 DEF Route!MakeTaken, Route!durable
  <2> QED
    BY <2>2, <2>3, <2>4 DEF RouteShape
<1>2. ASSUME Route!MakeTakenLate PROVE RouteShape'
  <2>1. PICK s \in Route!Sessions : Route!Made(loose, s)
    BY <1>2 DEF Route!MakeTakenLate
  <2>2. alive' \subseteq Route!Routers /\ home' \in [Route!Sessions -> Route!Routers \cup {0}]
    BY <2>1, MadeShape DEF RouteShape
  <2>3. UNCHANGED <<ask, proposal, binding, retired, step, transcript, working>> /\ loose' = Route!Rest
    BY <1>2 DEF Route!MakeTakenLate, Route!durable
  <2> QED
    BY <2>2, <2>3, StepsTo DEF RouteShape
<1>3. ASSUME Route!Removed PROVE RouteShape'
  <2>1. UNCHANGED <<ask, proposal, binding, retired, step, loose, transcript, working>>
    BY <1>3 DEF Route!Removed, Route!durable
  <2>2. alive \subseteq Route!Routers /\ home \in [Route!Sessions -> Route!Routers \cup {0}]
    BY DEF RouteShape
  <2>3. alive' \subseteq Route!Routers /\ home' \in [Route!Sessions -> Route!Routers \cup {0}]
    BY <1>3, <2>2 DEF Route!Removed
  <2> QED
    BY <2>1, <2>3 DEF RouteShape
<1>4. ASSUME Route!Begins PROVE RouteShape'
  <2>1. UNCHANGED <<proposal, loose, home, alive, transcript, working>>
    BY <1>4 DEF Route!Begins, Route!conductor
  <2>2. step' \in RouteStep
    BY <1>4, StepsTo DEF Route!Begins, Route!Goto, Route!Return, RoutePlaces
  <2>3. ask' \in [Route!Rows -> Asking]
    <3>1. ask' = ask \/ (Route!Open # {} /\ ask' = Route!Blocked(Route!Current))
      BY <1>4 DEF Route!Begins, Route!At
    <3>2. ask \in [Route!Rows -> Asking]
      BY DEF RouteShape
    <3> QED
      BY <3>1, <3>2, HeadIs, AskMoves
  <2>4. /\ binding' \in [router : Route!Routers \cup {0}, session : Route!Sessions \cup {0}]
        /\ retired' \subseteq Route!Routers
    <3>1. /\ binding \in [router : Route!Routers \cup {0}, session : Route!Sessions \cup {0}]
          /\ retired \subseteq Route!Routers
      BY DEF RouteShape
    <3>2. \/ binding' = binding /\ retired' = retired
          \/ /\ binding' = Route!NoBinding /\ retired' = retired \cup {binding.router}
             /\ binding # Route!NoBinding
      BY <1>4 DEF Route!Begins
    <3>3. binding # Route!NoBinding => binding.router \in Route!Routers
      BY DEF BoundSeen
    <3>4. Route!NoBinding \in [router : Route!Routers \cup {0}, session : Route!Sessions \cup {0}]
      BY DEF Route!NoBinding
    <3> QED
      BY <3>1, <3>2, <3>3, <3>4
  <2> QED
    BY <2>1, <2>2, <2>3, <2>4 DEF RouteShape
<1> QED
  BY <1>1, <1>2, <1>3, <1>4

LEMMA CreateShape ==
  ASSUME Route!RouterAssumption, RouteShape, BoundSeen, HeadStands
  PROVE  /\ Route!Binds => RouteShape'
         /\ Route!MakeAnswered => RouteShape'
         /\ Route!MakeRefused => RouteShape'
         /\ Route!LiveSession => RouteShape'
<1>0. /\ ask \in [Route!Rows -> Asking] /\ alive \subseteq Route!Routers
      /\ binding \in [router : Route!Routers \cup {0}, session : Route!Sessions \cup {0}]
      /\ home \in [Route!Sessions -> Route!Routers \cup {0}] /\ step \in RouteStep
  BY DEF RouteShape
<1>1. ASSUME Route!Binds PROVE RouteShape'
  <2>1. UNCHANGED <<proposal, retired, loose, home, alive, transcript, working>> /\ Route!Open # {}
    BY <1>1 DEF Route!Binds, Route!conductor, Route!At
  <2>2. CASE /\ ask' = ask \/ ask' = Route!Failed(Route!Current) \/ ask' = Route!Blocked(Route!Current)
             /\ step' = Route!Rest \/ step' = [Route!Rest EXCEPT !.at = "making"]
             /\ UNCHANGED binding
    <3>1. ask' \in [Route!Rows -> Asking]
      BY <1>0, <2>1, <2>2, HeadIs, AskMoves
    <3>2. step' \in RouteStep
      BY <2>2, StepsTo DEF RoutePlaces
    <3> QED
      BY <2>1, <2>2, <3>1, <3>2 DEF RouteShape
  <2>3. CASE \E r \in Route!Candidates : \E s \in Route!SessionsOf(r) :
                 /\ binding' = [router |-> r, session |-> s]
                 /\ step' = [Route!Rest EXCEPT !.at = "session"] /\ UNCHANGED ask
    <3>1. binding' \in [router : Route!Routers \cup {0}, session : Route!Sessions \cup {0}]
      BY <1>0, <2>3 DEF Route!Candidates, Route!SessionsOf
    <3>2. step' \in RouteStep
      BY <2>3, StepsTo DEF RoutePlaces
    <3> QED
      BY <2>1, <2>3, <3>1, <3>2 DEF RouteShape
  <2>4. CASE \E r \in Route!Candidates : Route!OpenSession(r) /\ UNCHANGED binding
    <3>1. PICK r \in Route!Routers : Route!OpenSession(r) /\ UNCHANGED binding
      BY <1>0, <2>4 DEF Route!Candidates
    <3>2. ask' \in [Route!Rows -> Asking] /\ step' \in RouteStep
      BY <2>1, <3>1, OpensOne DEF AskGoes
    <3> QED
      BY <2>1, <3>1, <3>2 DEF RouteShape
  <2> QED
    BY <1>1, <2>2, <2>3, <2>4 DEF Route!Binds, Route!Goto, Route!Return
<1>2. ASSUME Route!MakeAnswered PROVE RouteShape'
  <2>1. /\ UNCHANGED <<ask, proposal, retired, loose, home, alive, transcript, working>>
        /\ step.taken # 0 /\ binding' = [router |-> home[step.taken], session |-> step.taken]
        /\ step' = [Route!Rest EXCEPT !.at = "session"]
    BY <1>2 DEF Route!MakeAnswered, Route!conductor, Route!Goto
  <2>2. binding' \in [router : Route!Routers \cup {0}, session : Route!Sessions \cup {0}]
    BY <1>0, <2>1 DEF RouteStep
  <2>3. step' \in RouteStep
    BY <2>1, StepsTo DEF RoutePlaces
  <2> QED
    BY <2>1, <2>2, <2>3 DEF RouteShape
<1>3. ASSUME Route!MakeRefused PROVE RouteShape'
  <2>0. Route!Open # {}
    BY <1>3 DEF Route!MakeRefused, Route!Making, HeadStands
  <2>1. /\ UNCHANGED <<proposal, binding, retired, loose, home, alive, transcript, working>>
        /\ ask' \in {ask, Route!Blocked(Route!Current)} /\ step' = Route!Rest
    BY <1>3 DEF Route!MakeRefused, Route!conductor, Route!Return
  <2>2. ask' \in [Route!Rows -> Asking]
    BY <1>0, <2>0, <2>1, HeadIs, AskMoves
  <2> QED
    BY <2>1, <2>2, StepsTo DEF RouteShape
<1>4. ASSUME Route!LiveSession PROVE RouteShape'
  <2>1. UNCHANGED <<proposal, retired, loose, home, alive, transcript, working>> /\ Route!Open # {}
    BY <1>4 DEF Route!LiveSession, Route!conductor, Route!At
  <2>2. CASE /\ ask' = ask \/ ask' = Route!Blocked(Route!Current)
             /\ step' = Route!Rest \/ \E p \in RoutePlaces : step' = [Route!Rest EXCEPT !.at = p]
             /\ \/ UNCHANGED binding
                \/ \E s \in Route!Sessions : binding' = [binding EXCEPT !.session = s]
    <3>1. ask' \in [Route!Rows -> Asking] /\ step' \in RouteStep
      BY <1>0, <2>1, <2>2, HeadIs, AskMoves, StepsTo
    <3>2. binding' \in [router : Route!Routers \cup {0}, session : Route!Sessions \cup {0}]
      BY <1>0, <2>2
    <3> QED
      BY <2>1, <3>1, <3>2 DEF RouteShape
  <2>4. CASE binding.router \in alive /\ Route!OpenSession(binding.router) /\ UNCHANGED binding
    <3>1. binding.router \in Route!Routers
      BY <1>0, <2>4
    <3>2. ask' \in [Route!Rows -> Asking] /\ step' \in RouteStep
      BY <2>1, <2>4, <3>1, OpensOne DEF AskGoes
    <3> QED
      BY <2>1, <2>4, <3>2 DEF RouteShape
  <2> QED
    BY <1>4, <2>2, <2>4 DEF Route!LiveSession, Route!Goto, Route!Return, RoutePlaces, Route!SessionsOf
<1> QED
  BY <1>1, <1>2, <1>3, <1>4

\* The rows that a transcript is about are among those there are.
LEMMA SaysLine ==
  ASSUME RouteShape, NEW s \in Route!Sessions, NEW x \in Line,
         transcript' = [transcript EXCEPT ![s] = Append(@, x)]
  PROVE  /\ transcript' \in [Route!Sessions -> Seq(Line)]
         /\ transcript[s] \in Seq(Line) /\ Len(transcript[s]) \in Nat
         /\ DOMAIN transcript[s] = 1..Len(transcript[s])
         /\ DOMAIN transcript'[s] = 1..(Len(transcript[s]) + 1)
         /\ transcript'[s][Len(transcript[s]) + 1] = x
         /\ \A i \in DOMAIN transcript[s] : transcript'[s][i] = transcript[s][i]
         /\ \A t \in Route!Sessions : t # s => transcript'[t] = transcript[t]
<1>1. transcript \in [Route!Sessions -> Seq(Line)]
  BY DEF RouteShape
<1>2. transcript[s] \in Seq(Line)
  BY <1>1
<1> HIDE DEF Line
<1>3. Append(transcript[s], x) \in Seq(Line)
  BY <1>2
<1>4. transcript' \in [Route!Sessions -> Seq(Line)] /\ transcript'[s] = Append(transcript[s], x)
      /\ \A t \in Route!Sessions : t # s => transcript'[t] = transcript[t]
  BY <1>1, <1>3
<1> DEFINE n == Len(transcript[s])
<1>5. n \in Nat /\ DOMAIN transcript[s] = 1..n /\ DOMAIN Append(transcript[s], x) = 1..(n + 1)
      /\ Append(transcript[s], x)[n + 1] = x
      /\ \A i \in 1..n : Append(transcript[s], x)[i] = transcript[s][i]
  BY <1>2
<1> QED
  BY <1>2, <1>4, <1>5

\* The session that the gateway bound is one of those there are.
LEMMA HereIs == ASSUME RouteShape, Route!Exists(Route!Here) PROVE Route!Here \in Route!Sessions
BY DEF RouteShape, Route!Exists, Route!Here

\* Of the texts that may answer there is a last one.
LEMMA LastIs ==
  ASSUME RouteShape, NEW s \in Route!Sessions, NEW texts, texts # {},
         texts \subseteq DOMAIN transcript[s]
  PROVE  /\ (CHOOSE i \in texts : \A j \in texts : j <= i) \in texts
         /\ \A j \in texts : j <= (CHOOSE i \in texts : \A k \in texts : k <= i)
<1>1. transcript[s] \in Seq(Line)
  BY DEF RouteShape
<1>2. PICK n \in Nat : DOMAIN transcript[s] = 1..n
  BY <1>1
<1> DEFINE left == {n - i : i \in texts}
<1>3. left \subseteq Nat /\ left # {} /\ texts \subseteq 1..n
  BY <1>2
<1>4. PICK x \in left : \A y \in left : x <= y
  BY <1>3, LeastOf
<1>5. PICK i \in texts : x = n - i
  BY <1>4
<1>6. \A j \in texts : j <= i
  BY <1>3, <1>4, <1>5
<1>7. \E k \in texts : \A j \in texts : j <= k
  BY <1>6
<1> QED
  BY <1>7

LEMMA TalkShape ==
  ASSUME Route!RouterAssumption, RouteShape, HeadStands
  PROVE  /\ Route!PostTaken => RouteShape'
         /\ \A s \in Route!Sessions : Route!Speaks(s) \/ Route!Finishes(s) => RouteShape'
         /\ Route!ReadsStatus => RouteShape'
         /\ Route!ReadsAnswer => RouteShape'
<1>0. /\ ask \in [Route!Rows -> Asking] /\ step \in RouteStep
      /\ transcript \in [Route!Sessions -> Seq(Line)]
      /\ working \in [Route!Sessions -> Route!Rows \cup {0}]
  BY DEF RouteShape
<1>1. ASSUME Route!PostTaken PROVE RouteShape'
  <2>1. /\ UNCHANGED <<ask, proposal, binding, retired, loose, home, alive>>
        /\ Route!Open # {} /\ Route!Exists(Route!Here)
        /\ working' = [working EXCEPT ![Route!Here] = Route!Current]
        /\ step' = [step EXCEPT !.taken = 1]
    BY <1>1 DEF Route!PostTaken, Route!durable, Route!At
  <2>2. Route!Here \in Route!Sessions /\ Route!Current \in Route!Rows
    BY <2>1, HereIs, HeadIs
  <2>3. working' \in [Route!Sessions -> Route!Rows \cup {0}] /\ step' \in RouteStep
    BY <1>0, <2>1, <2>2, RouterNumbers DEF RouteStep
  <2>4. [kind |-> "prompt", row |-> Route!Current, final |-> FALSE] \in Line
    BY <2>2 DEF Line
  <2>5. transcript' \in [Route!Sessions -> Seq(Line)]
    BY <1>1, <2>2, <2>4, SaysLine DEF Route!PostTaken
  <2> QED
    BY <2>1, <2>3, <2>5 DEF RouteShape
<1>2. ASSUME NEW s \in Route!Sessions, Route!Speaks(s) \/ Route!Finishes(s) PROVE RouteShape'
  <2>1. /\ UNCHANGED <<ask, proposal, binding, retired, step, loose, home, alive>>
        /\ working[s] # 0
        /\ working' = working \/ working' = [working EXCEPT ![s] = 0]
    BY <1>2 DEF Route!Speaks, Route!Finishes, Route!durable
  <2>2. working' \in [Route!Sessions -> Route!Rows \cup {0}] /\ working[s] \in Route!Rows
    BY <1>0, <2>1
  <2>3. \A f \in BOOLEAN : [kind |-> "text", row |-> working[s], final |-> f] \in Line
    BY <2>2 DEF Line
  <2>4. \/ transcript' = transcript
        \/ \E f \in BOOLEAN : transcript' =
               [transcript EXCEPT ![s] = Append(@, [kind |-> "text", row |-> working[s], final |-> f])]
    BY <1>2 DEF Route!Speaks, Route!Finishes
  <2>5. transcript' \in [Route!Sessions -> Seq(Line)]
    BY <1>0, <2>3, <2>4, SaysLine
  <2> QED
    BY <2>1, <2>2, <2>5 DEF RouteShape
<1>3. ASSUME Route!ReadsStatus PROVE RouteShape'
  <2>1. /\ UNCHANGED <<proposal, binding, retired, loose, home, alive, transcript>>
        /\ Route!Open # {} /\ step' \in RouteStep
        /\ ask' = ask \/ ask' = Route!Blocked(Route!Current)
        /\ working' = working \/ working' = [working EXCEPT ![Route!Here] = 0]
    BY <1>3, StepsTo DEF Route!ReadsStatus, Route!At, Route!GivesUp, Route!Goto, Route!Return, RoutePlaces
  <2>2. ask' \in [Route!Rows -> Asking] /\ working' \in [Route!Sessions -> Route!Rows \cup {0}]
    BY <1>0, <2>1, HeadIs, AskMoves
  <2> QED
    BY <2>1, <2>2 DEF RouteShape
<1>4. ASSUME Route!ReadsAnswer PROVE RouteShape'
  <2> DEFINE n == Route!Current
             texts == IF Route!Exists(Route!Here) THEN Route!Answers(Route!Here, n) ELSE {}
             last == transcript[Route!Here][CHOOSE i \in texts : \A j \in texts : j <= i]
             next == IF last.final THEN "done" ELSE "blocked"
  <2>1. /\ UNCHANGED <<binding, retired, loose, home, alive, transcript>>
        /\ Route!Open # {} /\ step' = Route!Rest
        /\ working' = working \/ working' = [working EXCEPT ![Route!Here] = 0]
    BY <1>4 DEF Route!ReadsAnswer, Route!At, Route!GivesUp, Route!Return
  <2>2. n \in Route!Rows
    BY <2>1, HeadIs
  <2>3. \/ UNCHANGED proposal /\ (ask' = ask \/ ask' = Route!Blocked(n))
        \/ /\ texts # {} /\ ask' = [ask EXCEPT ![n].state = next]
           /\ proposal' = [proposal EXCEPT ![n] = [row |-> last.row, final |-> last.final]]
    BY <1>4 DEF Route!ReadsAnswer, Route!GivesUp
  <2>4. texts # {} => last \in Line
    <3>1. texts # {} => Route!Here \in Route!Sessions /\ texts \subseteq DOMAIN transcript[Route!Here]
      BY HereIs DEF Route!Answers, Route!Texts
    <3>2. texts # {} => (CHOOSE i \in texts : \A j \in texts : j <= i) \in DOMAIN transcript[Route!Here]
      BY <3>1, LastIs
    <3>3. texts # {} => transcript[Route!Here] \in Seq(Line)
      BY <1>0, <3>1
    <3> HIDE DEF texts, Line
    <3> QED
      BY <3>2, <3>3
  <2>5. next \in {"done", "blocked"}
    OBVIOUS
  <2>6. proposal \in [Route!Rows -> [row : Nat, final : BOOLEAN]]
    BY DEF RouteShape
  <2> HIDE DEF next, n, last, texts
  <2>7. proposal' \in [Route!Rows -> [row : Nat, final : BOOLEAN]]
    BY <2>2, <2>3, <2>4, <2>6, RouterNumbers DEF Line
  <2>8. ask' \in [Route!Rows -> Asking]
    <3>1. CASE ask' = [ask EXCEPT ![n].state = next]
      BY <1>0, <2>2, <2>5, <3>1 DEF Asking
    <3>2. CASE ask' = ask \/ ask' = Route!Blocked(n)
      BY <1>0, <2>2, <3>2, AskMoves
    <3> QED
      BY <2>3, <3>1, <3>2
  <2>9. working' \in [Route!Sessions -> Route!Rows \cup {0}]
    BY <1>0, <2>1
  <2> QED
    BY <2>1, <2>7, <2>8, <2>9, StepsTo DEF RouteShape
<1> QED
  BY <1>1, <1>2, <1>3, <1>4

LEMMA SubmitShape ==
  ASSUME Route!RouterAssumption, RouteShape, HeadStands
  PROVE  /\ Route!Prompts => RouteShape'
         /\ Route!Finds => RouteShape'
         /\ Route!PostAnswered => RouteShape'
         /\ Route!PostRefused => RouteShape'
         /\ Route!CallGone => RouteShape'
         /\ Route!Breaks => RouteShape'
<1>0. ask \in [Route!Rows -> Asking]
  BY DEF RouteShape
<1>1. \A n \in Route!Rows :
         /\ [ask EXCEPT ![n].prompted = TRUE] \in [Route!Rows -> Asking]
         /\ [ask EXCEPT ![n].sent = TRUE] \in [Route!Rows -> Asking]
         /\ \A b \in BOOLEAN : [ask EXCEPT ![n].attempted = b] \in [Route!Rows -> Asking]
  BY <1>0 DEF Asking
<1>2. \A n \in Route!Rows : \A b \in {"queued", "blocked"} :
         [ask EXCEPT ![n] = [@ EXCEPT !.state = b, !.attempted = FALSE]] \in [Route!Rows -> Asking]
  BY <1>0 DEF Asking
<1>3. ASSUME Route!Prompts \/ Route!Finds \/ Route!PostAnswered PROVE RouteShape'
  <2>1. /\ UNCHANGED <<proposal, binding, retired, loose, home, alive, transcript, working>>
        /\ Route!Open # {}
    BY <1>3 DEF Route!Prompts, Route!Finds, Route!PostAnswered, Route!conductor, Route!At
  <2>2. step' \in RouteStep
    BY <1>3, StepsTo DEF Route!Prompts, Route!Finds, Route!PostAnswered, Route!Goto, Route!Return,
          RoutePlaces
  <2>3. Route!Current \in Route!Rows
    BY <2>1, HeadIs
  <2>4. ask' \in [Route!Rows -> Asking]
    <3>1. CASE Route!Prompts
      BY <1>0, <1>1, <2>3, <3>1 DEF Route!Prompts
    <3>2. CASE Route!Finds
      BY <1>1, <2>3, <3>2, AskMoves DEF Route!Finds
    <3>3. CASE Route!PostAnswered
      BY <1>1, <2>3, <3>3 DEF Route!PostAnswered
    <3> QED
      BY <1>3, <3>1, <3>2, <3>3
  <2> QED
    BY <2>1, <2>2, <2>4 DEF RouteShape
<1>4. ASSUME Route!PostRefused \/ Route!CallGone PROVE RouteShape'
  <2>1. /\ UNCHANGED <<proposal, binding, retired, loose, home, alive, transcript, working>>
        /\ Route!Open # {} /\ step' = Route!Rest
    BY <1>4 DEF Route!PostRefused, Route!CallGone, Route!conductor, Route!At, Route!Return
  <2>2. Route!Current \in Route!Rows
    BY <2>1, HeadIs
  <2>3. ask' \in [Route!Rows -> Asking]
    <3>1. CASE Route!PostRefused
      BY <1>2, <2>2, <3>1 DEF Route!PostRefused
    <3>2. CASE Route!CallGone
      BY <1>2, <2>2, <3>2, AskMoves DEF Route!CallGone
    <3> QED
      BY <1>4, <3>1, <3>2
  <2> QED
    BY <2>1, <2>3, StepsTo DEF RouteShape
<1>5. ASSUME Route!Breaks PROVE RouteShape'
  <2>1. UNCHANGED <<ask, proposal, binding, retired, home, alive, transcript, working>> /\ step' = Route!Rest
    BY <1>5 DEF Route!Breaks, Route!durable, Route!Return
  <2>2. loose' \in {loose, step}
    BY <1>5 DEF Route!Breaks
  <2>3. loose' \in RouteStep
    BY <2>2 DEF RouteShape
  <2> QED
    BY <2>1, <2>3, StepsTo DEF RouteShape
<1> QED
  BY <1>3, <1>4, <1>5

LEMMA RouteShapeStep ==
  ASSUME Route!RouterAssumption, RouteShape, BoundSeen, HeadStands, [Route!Next]_(Route!vars)
  PROVE  RouteShape'
<1>1. CASE (\E n \in Route!Rows : Route!LimitPasses(n)) \/ Route!HealingAges \/ UNCHANGED Route!vars
  <2>1. UNCHANGED <<ask, proposal, binding, retired, step, loose, home, alive, transcript, working>>
    BY <1>1 DEF Route!LimitPasses, Route!HealingAges, Route!vars, Route!conductor
  <2> QED
    BY <2>1 DEF RouteShape
<1> QED
  BY <1>1, PlaceShape, CreateShape, TalkShape, SubmitShape DEF Route!Next, Route!Handler

-----------------------------------------------------------------------------
\* What a step may do when it leaves Conductor's workspaces and the gateway's account of them alone.
LEMMA PlacesRest ==
  ASSUME RouteShape, PlacesInv,
         UNCHANGED <<binding, spawned, opened, retired, home, alive, loose>>,
         \/ step'.at \notin Route!Making \cup {"bind"}
         \/ /\ step' = step
            /\ \A s \in Route!Sessions : transcript[s] = << >> => transcript'[s] = << >>
  PROVE  PlacesInv'
<1>1. Opens(step)' => Opens(step) /\ step'.into = step.into
  BY DEF Opens, Route!Making
<1>2. Makes(step)' => Makes(step)
  BY DEF Makes, Route!Making
<1>3. Makes(loose)' = Makes(loose) /\ Opens(loose)' = Opens(loose)
  BY DEF Makes, Opens
<1>4. \A r \in Route!Routers : Seen(r)' => Seen(r)
  BY <1>1, <1>3 DEF Seen
<1>5. SeenOnce'
  BY <1>4 DEF PlacesInv, SeenOnce
<1>6. BoundSeen'
  BY <1>4 DEF PlacesInv, BoundSeen, Route!Making
<1>7. MadeAlone(step)' /\ MadeAlone(loose)'
  BY <1>2, <1>3, <1>4 DEF PlacesInv, MadeAlone
<1>8. CallsApart'
  BY <1>1, <1>3 DEF PlacesInv, CallsApart, Route!Making, Route!SessionsOf
<1>9. Untold'
  <2>1. SUFFICES ASSUME step'.at \in Route!Making, step'.taken # 0, step' = step
                 PROVE  home[step.taken] \in Route!Routers \ retired /\ transcript'[step.taken] = << >>
    BY DEF Untold, Route!Making
  <2>2. step.taken \in Route!Sessions
    BY <2>1 DEF RouteShape, RouteStep
  <2> QED
    BY <2>1, <2>2 DEF PlacesInv, Untold
<1>10. SessionOnce'
  BY DEF PlacesInv, SessionOnce
<1> QED
  BY <1>5, <1>6, <1>7, <1>8, <1>9, <1>10 DEF PlacesInv

\* A creation that Conductor takes, for the handler or after it gave up, is no longer under way.
TakenFor(s) ==
    /\ UNCHANGED <<binding, spawned, opened, retired, transcript>>
    /\ \/ /\ MadeIn(step, s) /\ step.taken = 0 /\ step' = [step EXCEPT !.taken = s]
          /\ loose' = loose
       \/ /\ MadeIn(loose, s) /\ loose.taken = 0 /\ loose' = Route!Rest /\ step' = step

\* A router that is made is the only one there is.
LEMMA PlacesFirst ==
  ASSUME Route!RouterAssumption, RouteShape, PlacesInv, NEW s \in Route!Sessions, TakenFor(s),
         NEW r \in Route!Routers, r \notin alive \cup retired, alive' = alive \cup {r},
         home' = [home EXCEPT ![s] = r],
         (step' = step /\ loose.at = "making") \/ (step' # step /\ step.at = "making")
  PROVE  PlacesInv'
<1>0. /\ home \in [Route!Sessions -> Route!Routers \cup {0}] /\ alive \subseteq Route!Routers
      /\ retired \subseteq Route!Routers /\ step \in RouteStep /\ loose \in RouteStep
      /\ 0 \notin Route!Routers /\ 0 \notin Route!Sessions
  BY RouterNumbers DEF RouteShape
<1>1. /\ spawned /\ binding = Route!NoBinding /\ \A q \in Route!Routers : ~Seen(q)
      /\ UNCHANGED <<binding, spawned, opened, retired, transcript>>
      /\ home[s] = 0 /\ transcript[s] = << >>
  BY DEF TakenFor, MadeIn, PlacesInv, MadeAlone, Makes
<1>2. /\ ~Makes(step)' /\ ~Opens(step)' /\ ~Makes(loose)'
      /\ Opens(loose)' => Opens(loose) /\ loose' = loose
      /\ step'.at \in {"bind", "making"} => step.at \in {"bind", "making"}
      /\ step'.at = step.at /\ step'.into = step.into
      /\ step'.at \in Route!Making => step'.at = "making" /\ step'.taken = s
  <2>1. CASE step' = step
    <3>1. loose' = Route!Rest /\ loose.taken = 0
      BY <1>0, <2>1 DEF TakenFor, RouteStep
    <3>2. step.at \notin Route!Making
      BY <2>1, <3>1 DEF PlacesInv, CallsApart, Makes
    <3> QED
      BY <2>1, <3>1, <3>2, StepsTo DEF Makes, Opens, Route!Making
  <2>2. CASE step' # step
    BY <1>0, <2>2 DEF TakenFor, PlacesInv, CallsApart, Makes, Opens, Route!Making, RouteStep
  <2> QED
    BY <2>1, <2>2
<1>3. Opens(loose) => loose.into \in retired
  <2>1. Opens(loose) => loose.into \in Route!Routers
    BY DEF PlacesInv, CallsApart, Opens
  <2> QED
    BY <1>1, <2>1 DEF Seen
<1>4. \A q \in Route!Routers : Seen(q)' => q = r
  BY <1>0, <1>1, <1>2, <1>3 DEF Seen
<1>5. SeenOnce' /\ MadeAlone(step)' /\ MadeAlone(loose)'
  BY <1>2, <1>4 DEF SeenOnce, MadeAlone
<1>6. BoundSeen'
  BY <1>1 DEF PlacesInv, BoundSeen
<1>7. CallsApart'
  <2>1. Opens(loose)' => loose'.into \notin alive'
    BY <1>1, <1>2, <1>3 DEF PlacesInv, BoundSeen
  <2>2. loose' \in {loose, Route!Rest}
    BY DEF TakenFor
  <2> QED
    BY <1>2, <2>1, <2>2, StepsTo DEF PlacesInv, CallsApart, Route!Making
<1>8. Untold'
  BY <1>0, <1>1, <1>2 DEF Untold
<1>9. SessionOnce'
  BY <1>0, <1>1 DEF SessionOnce, Seen, PlacesInv, BoundSeen
<1> QED
  BY <1>5, <1>6, <1>7, <1>8, <1>9 DEF PlacesInv

\* A session that is opened is the only one of its router.
LEMMA PlacesSecond ==
  ASSUME Route!RouterAssumption, RouteShape, PlacesInv, NEW s \in Route!Sessions, TakenFor(s),
         NEW c \in {step, loose}, c.at = "opening", c.into \in alive, alive' = alive,
         home' = [home EXCEPT ![s] = c.into],
         (c = loose /\ step' = step) \/ (c = step /\ step' # step)
  PROVE  PlacesInv'
<1>0. /\ home \in [Route!Sessions -> Route!Routers \cup {0}] /\ alive \subseteq Route!Routers
      /\ retired \subseteq Route!Routers /\ step \in RouteStep /\ loose \in RouteStep
      /\ 0 \notin Route!Routers /\ 0 \notin Route!Sessions
  BY RouterNumbers DEF RouteShape
<1> DEFINE r == c.into
<1>1. /\ UNCHANGED <<binding, spawned, opened, retired, transcript>>
      /\ home[s] = 0 /\ transcript[s] = << >> /\ Opens(c) /\ r \notin retired
  <2>1. c.taken = 0
    BY <1>0 DEF TakenFor, RouteStep
  <2>2. UNCHANGED <<binding, spawned, opened, retired, transcript>> /\ home[s] = 0 /\ transcript[s] = << >>
    BY DEF TakenFor, MadeIn
  <2> QED
    BY <2>1, <2>2 DEF Opens, PlacesInv, BoundSeen
<1>2. /\ Route!SessionsOf(r) = {} /\ Seen(r)
      /\ \A t \in Route!Sessions : home[t] # r
  BY <1>0, <1>1 DEF PlacesInv, CallsApart, Seen, Route!SessionsOf
<1>3. /\ Makes(step)' => Makes(step) /\ step' = step
      /\ Makes(loose)' => Makes(loose) /\ loose' = loose
      /\ Opens(step)' => Opens(step) /\ step' = step
      /\ Opens(loose)' => Opens(loose) /\ loose' = loose
      /\ step'.at = step.at /\ step'.into = step.into
      /\ step'.at \in Route!Making => step'.taken = s /\ step' # step
  <2>1. CASE step' = step
    <3>1. loose' = Route!Rest /\ loose.taken = 0 /\ c = loose
      BY <1>0, <2>1 DEF TakenFor, RouteStep
    <3>2. step.at \notin Route!Making
      BY <1>1, <2>1, <3>1 DEF PlacesInv, CallsApart
    <3> QED
      BY <2>1, <3>1, <3>2, StepsTo DEF Makes, Opens, Route!Making
  <2>2. CASE step' # step
    <3>1. loose' = loose /\ step'.at = step.at /\ step'.into = step.into /\ step'.taken = s
      BY <1>0, <2>2 DEF TakenFor, RouteStep
    <3> QED
      BY <1>0, <2>2, <3>1 DEF Makes, Opens
  <2> QED
    BY <2>1, <2>2
<1>4. \A q \in Route!Routers : Seen(q)' => Seen(q)
  BY <1>0, <1>1, <1>2, <1>3 DEF Seen
<1>5. SeenOnce' /\ BoundSeen'
  BY <1>1, <1>3, <1>4 DEF PlacesInv, SeenOnce, BoundSeen
<1>6. MadeAlone(step)' /\ MadeAlone(loose)'
  BY <1>1, <1>3, <1>4 DEF PlacesInv, MadeAlone
<1>7. CallsApart'
  <2>1. Opens(loose)' => loose'.into \notin alive
    <3>1. CASE c = loose /\ step' = step
      <4>1. loose' = Route!Rest
        BY <1>0, <3>1 DEF TakenFor, RouteStep
      <4> QED
        BY <4>1, StepsTo DEF Opens
    <3>2. CASE c = step
      BY <1>3, <3>2 DEF PlacesInv, CallsApart, Route!Making
    <3> QED
      BY <3>1, <3>2
  <2>2. ~Opens(step)' /\ loose' \in {loose, Route!Rest}
    BY <1>3 DEF TakenFor, Opens, Route!Making
  <2> QED
    BY <1>1, <1>3, <2>1, <2>2, StepsTo DEF PlacesInv, CallsApart, Route!Making
<1>8. Untold'
  BY <1>0, <1>1, <1>3 DEF Untold
<1>9. SessionOnce'
  BY <1>0, <1>1, <1>2 DEF PlacesInv, SessionOnce
<1> QED
  BY <1>5, <1>6, <1>7, <1>8, <1>9 DEF PlacesInv

LEMMA PlacesTaken ==
  ASSUME Route!RouterAssumption, RouteShape, PlacesInv, Route!MakeTaken \/ Route!MakeTakenLate
  PROVE  PlacesInv'
<1>0. /\ step \in RouteStep /\ loose \in RouteStep /\ 0 \notin Route!Sessions
      /\ loose # Route!Rest => loose.taken = 0 \/ loose.at \notin Route!Making
  BY RouterNumbers DEF RouteShape, PlacesInv, CallsApart
<1>1. PICK s \in Route!Sessions : \/ Route!Made(step, s) /\ Route!MakeTaken /\ step' = [step EXCEPT !.taken = s]
                                  \/ Route!Made(loose, s) /\ Route!MakeTakenLate
  BY DEF Route!MakeTaken, Route!MakeTakenLate
<1>2. CASE Route!Made(step, s) /\ Route!MakeTaken /\ step' = [step EXCEPT !.taken = s]
  <2>1. MadeIn(step, s)
    BY <1>0, <1>2, MadeShape
  <2>2. /\ TakenFor(s) /\ step' # step
    BY <1>0, <1>2, <2>1 DEF Route!MakeTaken, Route!durable, TakenFor, RouteStep
  <2> QED
    BY <2>1, <2>2, PlacesFirst, PlacesSecond DEF MadeIn
<1>3. CASE Route!Made(loose, s) /\ Route!MakeTakenLate
  <2>1. MadeIn(loose, s)
    BY <1>0, <1>3, MadeShape
  <2>2. TakenFor(s) /\ step' = step
    BY <1>0, <1>3, <2>1 DEF Route!MakeTakenLate, Route!durable, TakenFor, MadeIn, Route!Making
  <2> QED
    BY <2>1, <2>2, PlacesFirst, PlacesSecond DEF MadeIn
<1> QED
  BY <1>1, <1>2, <1>3

\* A router that is seen is bound, with a session of its.
LEMMA PlacesBound ==
  ASSUME RouteShape, PlacesInv, NEW r \in Route!Routers, Seen(r), binding'.router = r,
         binding' # Route!NoBinding, opened' = FALSE, step'.at \notin Route!Making \cup {"bind"},
         Opens(loose) => loose.into \notin alive,
         UNCHANGED <<spawned, retired, home, alive, loose>>
  PROVE  PlacesInv'
<1>1. ~Opens(step)' /\ ~Makes(step)' /\ Makes(loose)' = Makes(loose) /\ Opens(loose)' = Opens(loose)
  BY DEF Opens, Makes, Route!Making
<1>2. ~Makes(loose)
  BY DEF PlacesInv, MadeAlone
<1>3. \A q \in Route!Routers : Seen(q)' => Seen(q)
  BY <1>1 DEF Seen
<1>4. \A q \in Route!Routers : Seen(q)' => q = r
  BY <1>3 DEF PlacesInv, SeenOnce
<1>5. SeenOnce' /\ BoundSeen'
  BY <1>4 DEF SeenOnce, BoundSeen, Seen, PlacesInv, Route!Making
<1>6. MadeAlone(step)' /\ MadeAlone(loose)' /\ Untold'
  BY <1>1, <1>2 DEF MadeAlone, Untold
<1>7. CallsApart'
  BY <1>1, <1>2 DEF CallsApart, PlacesInv, Route!Making
<1>8. SessionOnce'
  BY DEF SessionOnce, PlacesInv
<1> QED
  BY <1>5, <1>6, <1>7, <1>8 DEF PlacesInv

\* A session is about to be opened in a live router that has none.
LEMMA PlacesOpened ==
  ASSUME RouteShape, PlacesInv, NEW r \in alive, Route!SessionsOf(r) = {}, ~opened, opened' = TRUE,
         step' = [at |-> "opening", taken |-> 0, into |-> r], step.at \notin Route!Making,
         UNCHANGED <<binding, spawned, retired, home, alive, loose>>
  PROVE  PlacesInv'
<1>0. r \in Route!Routers /\ Seen(r)
  BY DEF RouteShape, PlacesInv, BoundSeen, Seen
<1>1. /\ Opens(step)' /\ ~Makes(step)' /\ Makes(loose)' = Makes(loose) /\ Opens(loose)' = Opens(loose)
      /\ step'.into = r /\ step'.at = "opening" /\ step'.taken = 0
  BY DEF Opens, Makes
<1>2. ~Makes(loose)
  BY <1>0 DEF PlacesInv, MadeAlone
<1>3. \A q \in Route!Routers : Seen(q)' => Seen(q)
  BY <1>0, <1>1 DEF Seen
<1>4. SeenOnce' /\ BoundSeen'
  BY <1>1, <1>3 DEF PlacesInv, SeenOnce, BoundSeen
<1>5. MadeAlone(step)' /\ MadeAlone(loose)' /\ Untold'
  BY <1>1, <1>2 DEF MadeAlone, Untold
<1>6. CallsApart'
  BY <1>0, <1>1, <1>2 DEF CallsApart, PlacesInv, Route!Making, Route!SessionsOf
<1>7. SessionOnce'
  BY DEF SessionOnce, PlacesInv
<1> QED
  BY <1>4, <1>5, <1>6, <1>7 DEF PlacesInv

\* A call that Conductor refused is forgotten, together with the gateway's note of it.
LEMMA PlacesRefused ==
  ASSUME RouteShape, PlacesInv, step' = Route!Rest, step.taken = 0, step.at \in Route!Making,
         spawned' = IF step.at = "making" THEN FALSE ELSE spawned,
         opened' = IF step.at = "opening" THEN FALSE ELSE opened,
         UNCHANGED <<binding, retired, home, alive, loose>>
  PROVE  PlacesInv'
<1>1. /\ ~Opens(step)' /\ ~Makes(step)' /\ Makes(loose)' = Makes(loose) /\ Opens(loose)' = Opens(loose)
      /\ step'.at = "rest"
  BY StepsTo DEF Opens, Makes
<1>2. ~Makes(loose)
  BY DEF PlacesInv, CallsApart
<1>3. \A q \in Route!Routers : Seen(q)' => Seen(q)
  BY <1>1 DEF Seen
<1>4. SeenOnce'
  BY <1>1, <1>3 DEF PlacesInv, SeenOnce
<1>5. BoundSeen'
  BY <1>1, <1>3 DEF PlacesInv, BoundSeen, MadeAlone, Makes
<1>6. MadeAlone(step)' /\ MadeAlone(loose)' /\ Untold'
  BY <1>1, <1>2 DEF MadeAlone, Untold, Route!Making
<1>7. CallsApart'
  BY <1>1, <1>2 DEF CallsApart, PlacesInv, Route!Making, Route!SessionsOf
<1>8. SessionOnce'
  BY DEF SessionOnce, PlacesInv
<1> QED
  BY <1>4, <1>5, <1>6, <1>7, <1>8 DEF PlacesInv

LEMMA PlacesBegin ==
  ASSUME Route!RouterAssumption, RouteShape, PlacesInv, Route!Begins
  PROVE  PlacesInv'
<1>1. UNCHANGED <<home, alive, loose>>
  BY DEF Route!Begins, Route!conductor
<1>2. CASE step'.at = "bind" /\ binding = Route!NoBinding /\ UNCHANGED <<binding, spawned, opened, retired>>
  <2>1. ~Opens(step)' /\ ~Makes(step)' /\ Makes(loose)' = Makes(loose) /\ Opens(loose)' = Opens(loose)
    BY <1>1, <1>2 DEF Opens, Makes
  <2>2. \A q \in Route!Routers : Seen(q)' => Seen(q)
    BY <1>1, <1>2, <2>1 DEF Seen
  <2>3. SeenOnce' /\ BoundSeen' /\ MadeAlone(step)' /\ MadeAlone(loose)'
    BY <1>1, <1>2, <2>1, <2>2 DEF PlacesInv, SeenOnce, BoundSeen, MadeAlone
  <2>4. CallsApart' /\ Untold'
    BY <1>1, <1>2, <2>1 DEF PlacesInv, CallsApart, Untold, Route!Making, Route!SessionsOf
  <2> QED
    BY <1>1, <2>3, <2>4 DEF PlacesInv, SessionOnce
<1>3. CASE /\ binding # Route!NoBinding /\ binding.router \notin alive /\ step'.at = "bind"
           /\ retired' = retired \cup {binding.router} /\ binding' = Route!NoBinding /\ spawned' = FALSE
           /\ opened' = FALSE
  <2>1. /\ ~Opens(step)' /\ ~Makes(step)' /\ Opens(loose)' = Opens(loose) /\ ~Makes(loose)
        /\ Makes(loose)' = Makes(loose)
    BY <1>1, <1>3 DEF Opens, Makes, PlacesInv, MadeAlone
  <2>2. \A q \in Route!Routers : Seen(q)' => Seen(q) /\ q # binding.router
    BY <1>1, <1>3, <2>1 DEF Seen
  <2>3. \A q \in Route!Routers : ~Seen(q)'
    BY <1>3, <2>2 DEF PlacesInv, BoundSeen
  <2>4. Opens(loose) => loose.into \notin alive
    <3>1. ASSUME Opens(loose), loose.into \in alive PROVE FALSE
      <4>1. loose.into \in Route!Routers \ retired /\ Seen(loose.into)
        BY <3>1 DEF PlacesInv, CallsApart, BoundSeen, Seen, Opens
      <4> QED
        BY <1>3, <3>1, <4>1 DEF PlacesInv, BoundSeen
    <3> QED
      BY <3>1
  <2>5. SeenOnce' /\ BoundSeen' /\ MadeAlone(step)' /\ MadeAlone(loose)' /\ Untold'
    BY <1>1, <1>3, <2>1, <2>3 DEF SeenOnce, BoundSeen, MadeAlone, Untold, PlacesInv, Route!Making
  <2>6. CallsApart'
    BY <1>1, <1>3, <2>1, <2>4 DEF PlacesInv, CallsApart, Route!Making
  <2> QED
    BY <1>1, <2>5, <2>6 DEF PlacesInv, SessionOnce
<1>4. CASE step'.at \in {"rest", "session"} /\ UNCHANGED <<binding, spawned, opened, retired>>
  BY <1>1, <1>4, PlacesRest DEF Route!Making
<1> QED
  BY <1>2, <1>3, <1>4, StepsTo DEF Route!Begins, Route!Goto, Route!Return, RoutePlaces

LEMMA PlacesBind ==
  ASSUME Route!RouterAssumption, RouteShape, PlacesInv, Route!Binds
  PROVE  PlacesInv'
<1>1. UNCHANGED <<retired, home, alive, loose>> /\ step.at = "bind" /\ binding = Route!NoBinding
  BY DEF Route!Binds, Route!conductor, Route!At, PlacesInv, BoundSeen
<1>2. CASE /\ Route!Candidates = {} /\ ~spawned /\ spawned' = TRUE
           /\ step' = [Route!Rest EXCEPT !.at = "making"] /\ UNCHANGED <<binding, opened>>
  <2>1. /\ ~Opens(step)' /\ step'.at = "making" /\ Opens(loose)' = Opens(loose) /\ ~Makes(loose)
        /\ Makes(loose)' = Makes(loose) /\ step'.taken = 0
    BY <1>1, <1>2, StepsTo DEF Opens, Makes, PlacesInv, MadeAlone, RoutePlaces
  <2>2. \A q \in Route!Routers : ~Seen(q)
    BY <1>1, <1>2 DEF PlacesInv, BoundSeen
  <2>3. \A q \in Route!Routers : ~Seen(q)'
    BY <1>1, <2>1, <2>2 DEF Seen
  <2>4. Opens(loose) => loose.into \notin alive
    BY <1>1, <2>2 DEF PlacesInv, CallsApart, BoundSeen, Seen, Opens
  <2>5. SeenOnce' /\ BoundSeen' /\ MadeAlone(step)' /\ MadeAlone(loose)' /\ Untold'
    BY <1>1, <1>2, <2>1, <2>3 DEF SeenOnce, BoundSeen, MadeAlone, Untold, PlacesInv
  <2>6. CallsApart'
    BY <1>1, <1>2, <2>1, <2>4 DEF PlacesInv, CallsApart
  <2> QED
    BY <1>1, <2>5, <2>6 DEF PlacesInv, SessionOnce
<1>3. CASE step' = Route!Rest /\ UNCHANGED <<binding, spawned, opened>>
  BY <1>1, <1>3, StepsTo, PlacesRest DEF Route!Making
<1>4. ASSUME NEW r \in alive, NEW s \in Route!SessionsOf(r), UNCHANGED spawned,
             binding' = [router |-> r, session |-> s], opened' = FALSE,
             step' = [Route!Rest EXCEPT !.at = "session"]
      PROVE  PlacesInv'
  <2>1. r \in Route!Routers /\ Seen(r)
    BY <1>4 DEF RouteShape, PlacesInv, BoundSeen, Seen
  <2>2. Opens(loose) => loose.into \notin alive
    <3>1. ASSUME Opens(loose), loose.into \in alive PROVE FALSE
      <4>1. loose.into \in Route!Routers /\ Seen(loose.into)
        BY <3>1 DEF PlacesInv, CallsApart, BoundSeen, Seen, Opens
      <4> QED
        BY <1>4, <2>1, <3>1, <4>1 DEF PlacesInv, SeenOnce, CallsApart
    <3> QED
      BY <3>1
  <2>3. binding'.router = r /\ binding' # Route!NoBinding
    BY <1>4, <2>1, RouterNumbers DEF Route!NoBinding
  <2>4. step'.at \notin Route!Making \cup {"bind"}
    BY <1>4, StepsTo DEF Route!Making, RoutePlaces
  <2> QED
    BY <1>1, <1>4, <2>1, <2>2, <2>3, <2>4, PlacesBound
<1>5. ASSUME NEW r \in alive, Route!SessionsOf(r) = {}, Route!OpenSession(r), UNCHANGED <<binding, spawned>>
      PROVE  PlacesInv'
  <2>1. CASE /\ ~opened /\ opened' = TRUE /\ step' = [at |-> "opening", taken |-> 0, into |-> r]
    BY <1>1, <1>5, <2>1, PlacesOpened DEF Route!Making
  <2>2. CASE step' = Route!Rest /\ UNCHANGED opened
    BY <1>3, <1>5, <2>2
  <2> QED
    BY <1>5, <2>1, <2>2 DEF Route!OpenSession, Route!MayOpen, Route!Return
<1> QED
  BY <1>2, <1>3, <1>4, <1>5 DEF Route!Binds, Route!Candidates, Route!MayMake, Route!Goto, Route!Return

LEMMA PlacesAnswered ==
  ASSUME Route!RouterAssumption, RouteShape, PlacesInv, Route!MakeAnswered
  PROVE  PlacesInv'
<1> DEFINE r == home[step.taken]
<1>1. /\ UNCHANGED <<spawned, retired, home, alive, loose>> /\ opened' = FALSE
      /\ step.at \in Route!Making /\ step.taken # 0
      /\ binding' = [router |-> r, session |-> step.taken]
      /\ step' = [Route!Rest EXCEPT !.at = "session"]
  BY DEF Route!MakeAnswered, Route!conductor, Route!Goto
<1>2. r \in Route!Routers /\ Seen(r)
  BY <1>1 DEF PlacesInv, Untold, Seen, RouteShape, RouteStep
<1>3. binding'.router = r /\ binding' # Route!NoBinding
  BY <1>1 DEF Route!NoBinding
<1>4. step'.at \notin Route!Making \cup {"bind"}
  BY <1>1, StepsTo DEF Route!Making, RoutePlaces
<1>5. Opens(loose) => loose.into \notin alive
  BY <1>1 DEF PlacesInv, CallsApart
<1> QED
  BY <1>1, <1>2, <1>3, <1>4, <1>5, PlacesBound

LEMMA PlacesLive ==
  ASSUME Route!RouterAssumption, RouteShape, PlacesInv, Route!LiveSession
  PROVE  PlacesInv'
<1>1. UNCHANGED <<spawned, retired, home, alive, loose>> /\ step.at = "session"
  BY DEF Route!LiveSession, Route!conductor, Route!At
<1>2. CASE step'.at \in {"rest", "status", "prompt"} /\ UNCHANGED <<binding, opened>>
  BY <1>1, <1>2, PlacesRest DEF Route!Making
<1>3. ASSUME binding.router \in alive, NEW s \in Route!SessionsOf(binding.router), opened' = FALSE,
             binding' = [binding EXCEPT !.session = s], step'.at \in {"status", "prompt"}
      PROVE  PlacesInv'
  <2> DEFINE r == binding.router
  <2>1. r \in Route!Routers /\ Seen(r)
    BY <1>3 DEF RouteShape, PlacesInv, BoundSeen, Seen
  <2>2. Opens(loose) => loose.into \notin alive
    <3>1. ASSUME Opens(loose), loose.into \in alive PROVE FALSE
      <4>1. loose.into \in Route!Routers /\ Seen(loose.into)
        BY <3>1 DEF PlacesInv, CallsApart, BoundSeen, Seen, Opens
      <4> QED
        BY <1>3, <2>1, <3>1, <4>1 DEF PlacesInv, SeenOnce, CallsApart
    <3> QED
      BY <3>1
  <2>3. binding'.router = r /\ binding' # Route!NoBinding
    BY <1>3, <2>1, RouterNumbers DEF RouteShape, Route!NoBinding
  <2> QED
    BY <1>1, <1>3, <2>1, <2>2, <2>3, PlacesBound DEF Route!Making
<1>4. ASSUME binding.router \in alive, Route!SessionsOf(binding.router) = {},
             Route!OpenSession(binding.router), UNCHANGED binding
      PROVE  PlacesInv'
  <2>1. CASE ~opened /\ opened' = TRUE /\ step' = [at |-> "opening", taken |-> 0, into |-> binding.router]
    BY <1>1, <1>4, <2>1, PlacesOpened DEF Route!Making
  <2>2. CASE step' = Route!Rest /\ UNCHANGED opened
    BY <1>2, <1>4, <2>2, StepsTo
  <2> QED
    BY <1>4, <2>1, <2>2 DEF Route!OpenSession, Route!MayOpen, Route!Return
<1>5. Route!Goto(IF ask[Route!Current].sent THEN "status" ELSE "prompt") => step'.at \in {"status", "prompt"}
  BY DEF Route!Goto, Route!Rest
<1>6. Route!Return => step'.at = "rest"
  BY DEF Route!Return, Route!Rest
<1> QED
  BY <1>2, <1>3, <1>4, <1>5, <1>6 DEF Route!LiveSession

LEMMA PlacesBreak ==
  ASSUME Route!RouterAssumption, RouteShape, PlacesInv, Route!Breaks
  PROVE  PlacesInv'
<1>1. UNCHANGED <<binding, spawned, opened, retired, home, alive>> /\ step' = Route!Rest /\ step'.at = "rest"
  BY StepsTo DEF Route!Breaks, Route!durable, Route!Return
<1>2. CASE loose' = loose
  BY <1>1, <1>2, PlacesRest DEF Route!Making
<1>3. CASE loose' = step /\ step.at \in Route!Making /\ step.taken = 0
  <2>1. /\ ~Opens(step)' /\ ~Makes(step)' /\ Makes(loose)' = Makes(step) /\ Opens(loose)' = Opens(step)
    BY <1>1, <1>3 DEF Opens, Makes
  <2>2. \A q \in Route!Routers : Seen(q)' => Seen(q)
    BY <1>1, <1>3, <2>1 DEF Seen
  <2>3. SeenOnce' /\ BoundSeen' /\ MadeAlone(step)' /\ MadeAlone(loose)' /\ Untold'
    BY <1>1, <2>1, <2>2 DEF PlacesInv, SeenOnce, BoundSeen, MadeAlone, Untold, Route!Making
  <2>4. CallsApart'
    BY <1>1, <1>3, <2>1 DEF PlacesInv, CallsApart, Route!Making, Route!SessionsOf
  <2> QED
    BY <1>1, <2>3, <2>4 DEF PlacesInv, SessionOnce
<1> QED
  BY <1>2, <1>3 DEF Route!Breaks

LEMMA PlacesRemoved ==
  ASSUME Route!RouterAssumption, RouteShape, PlacesInv, Route!Removed
  PROVE  PlacesInv'
<1>1. UNCHANGED <<binding, spawned, opened, retired, step, loose, transcript>>
  BY DEF Route!Removed, Route!durable
<1>2. /\ alive' \subseteq alive
      /\ \A s \in Route!Sessions : home'[s] = home[s] \/ (home'[s] = 0 /\ transcript[s] # << >>)
  BY DEF Route!Removed, RouteShape
<1>3. Makes(step)' = Makes(step) /\ Opens(step)' = Opens(step) /\ Makes(loose)' = Makes(loose)
      /\ Opens(loose)' = Opens(loose)
  BY <1>1 DEF Opens, Makes
<1>4. \A q \in Route!Routers : Seen(q)' => Seen(q)
  BY <1>1, <1>2, <1>3, RouterNumbers DEF Seen
<1>5. SeenOnce' /\ BoundSeen' /\ MadeAlone(step)' /\ MadeAlone(loose)'
  BY <1>1, <1>2, <1>3, <1>4 DEF PlacesInv, SeenOnce, BoundSeen, MadeAlone
<1>6. CallsApart'
  <2>1. \A r \in Route!Routers : Route!SessionsOf(r) = {} => Route!SessionsOf(r)' = {}
    BY <1>2, RouterNumbers DEF Route!SessionsOf
  <2>2. \A r \in alive' : r \in Route!Routers /\ r \in alive
    BY <1>2 DEF RouteShape
  <2> QED
    BY <1>1, <1>3, <2>1, <2>2 DEF PlacesInv, CallsApart
<1>7. Untold'
  BY <1>1, <1>2 DEF PlacesInv, Untold, RouteShape, RouteStep
<1>8. SessionOnce'
  BY <1>2, RouterNumbers DEF PlacesInv, SessionOnce, RouteShape
<1> QED
  BY <1>5, <1>6, <1>7, <1>8 DEF PlacesInv

LEMMA PlacesStep ==
  ASSUME Route!RouterAssumption, RouteShape, PlacesInv, Quiet, [Route!Next]_(Route!vars)
  PROVE  PlacesInv'
<1>1. CASE Route!Prompts \/ Route!Finds \/ Route!PostTaken \/ Route!PostAnswered \/ Route!PostRefused
             \/ Route!ReadsStatus \/ Route!ReadsAnswer
  <2>1. UNCHANGED <<binding, spawned, opened, retired, home, alive, loose>>
    BY <1>1 DEF Route!Prompts, Route!Finds, Route!PostTaken, Route!PostAnswered, Route!PostRefused,
          Route!ReadsStatus, Route!ReadsAnswer, Route!conductor, Route!durable
  <2>2. step'.at \in {"rest", "find", "posting", "read"}
    <3>1. CASE Route!PostTaken
      BY <3>1 DEF Route!PostTaken, Route!At, RouteShape, RouteStep
    <3>2. CASE ~Route!PostTaken
      BY <1>1, <3>2, StepsTo DEF Route!Prompts, Route!Finds, Route!PostAnswered, Route!PostRefused,
         Route!ReadsStatus, Route!ReadsAnswer, Route!GivesUp, Route!Goto, Route!Return, RoutePlaces
    <3> QED
      BY <3>1, <3>2
  <2> QED
    BY <2>1, <2>2, PlacesRest DEF Route!Making
<1>2. CASE (\E n \in Route!Rows : Route!LimitPasses(n)) \/ Route!HealingAges \/ UNCHANGED Route!vars
  <2>1. UNCHANGED <<binding, spawned, opened, retired, home, alive, loose, step, transcript>>
    BY <1>2 DEF Route!LimitPasses, Route!HealingAges, Route!vars, Route!conductor
  <2> QED
    BY <2>1, PlacesRest
<1>3. ASSUME NEW s \in Route!Sessions, Route!Speaks(s) \/ Route!Finishes(s) PROVE PlacesInv'
  <2>1. UNCHANGED <<binding, spawned, opened, retired, home, alive, loose, step>> /\ working[s] # 0
    BY <1>3 DEF Route!Speaks, Route!Finishes, Route!durable
  <2>2. \A t \in Route!Sessions : t # s => transcript'[t] = transcript[t]
    BY <1>3 DEF Route!Speaks, Route!Finishes, RouteShape
  <2>3. transcript[s] # << >>
    BY <2>1 DEF Quiet
  <2> QED
    BY <2>1, <2>2, <2>3, PlacesRest
<1>4. CASE Route!MakeRefused
  BY <1>4, PlacesRefused DEF Route!MakeRefused, Route!conductor, Route!Return
<1>5. CASE Route!CallGone
  <2>1. UNCHANGED <<binding, spawned, retired, home, alive, loose>> /\ step' = Route!Rest /\ step.taken = 0
    BY <1>5 DEF Route!CallGone, Route!conductor, Route!Return
  <2>2. CASE UNCHANGED opened
    BY <2>1, <2>2, StepsTo, PlacesRest DEF Route!Making
  <2>3. CASE step.at = "opening" /\ opened' = FALSE
    BY <2>1, <2>3, PlacesRefused DEF Route!Making
  <2> QED
    BY <1>5, <2>2, <2>3 DEF Route!CallGone, Route!At
<1> QED
  BY <1>1, <1>2, <1>3, <1>4, <1>5, PlacesTaken, PlacesBegin, PlacesBind, PlacesAnswered, PlacesLive,
     PlacesBreak, PlacesRemoved DEF Route!Next, Route!Handler

LEMMA QuietTalk ==
  ASSUME RouteShape, Quiet, [Route!Next]_(Route!vars)
  PROVE  Quiet'
<1>1. CASE UNCHANGED transcript /\ \A s \in Route!Sessions : working'[s] \in {0, working[s]}
  BY <1>1 DEF Quiet
<1>2. ASSUME NEW s \in Route!Sessions, \E x : transcript' = [transcript EXCEPT ![s] = Append(@, x)],
             \A t \in Route!Sessions : t # s => working'[t] = working[t]
      PROVE  Quiet'
  <2>1. transcript \in [Route!Sessions -> Seq(Line)]
    BY DEF RouteShape
  <2>2. transcript'[s] # << >> /\ \A t \in Route!Sessions : t # s => transcript'[t] = transcript[t]
    BY <1>2, <2>1
  <2> QED
    BY <1>2, <2>2 DEF Quiet
<1>3. CASE Route!PostTaken
  <2>1. Route!Here \in Route!Sessions
    BY <1>3, HereIs DEF Route!PostTaken
  <2> QED
    BY <1>2, <1>3, <2>1 DEF Route!PostTaken, RouteShape
<1>4. CASE Route!ReadsStatus \/ Route!ReadsAnswer
  <2>1. working' = working \/ working' = [working EXCEPT ![Route!Here] = 0]
    BY <1>4 DEF Route!ReadsStatus, Route!ReadsAnswer, Route!GivesUp
  <2>2. UNCHANGED transcript
    BY <1>4 DEF Route!ReadsStatus, Route!ReadsAnswer
  <2> QED
    BY <1>1, <2>1, <2>2 DEF RouteShape
<1>5. ASSUME NEW s \in Route!Sessions, Route!Speaks(s) \/ Route!Finishes(s) PROVE Quiet'
  <2>1. /\ working' = working \/ working' = [working EXCEPT ![s] = 0]
        /\ transcript' = transcript \/ \E x : transcript' = [transcript EXCEPT ![s] = Append(@, x)]
    BY <1>5 DEF Route!Speaks, Route!Finishes
  <2> QED
    BY <1>1, <1>2, <2>1 DEF RouteShape
<1>6. CASE \/ Route!Begins \/ Route!Binds \/ Route!MakeTaken \/ Route!MakeTakenLate \/ Route!MakeAnswered
           \/ Route!MakeRefused \/ Route!LiveSession \/ Route!Prompts \/ Route!Finds \/ Route!PostAnswered
           \/ Route!PostRefused \/ Route!CallGone \/ Route!Breaks \/ Route!Removed \/ Route!HealingAges
           \/ (\E n \in Route!Rows : Route!LimitPasses(n)) \/ UNCHANGED Route!vars
  <2>1. UNCHANGED <<transcript, working>>
    BY <1>6 DEF Route!Begins, Route!Binds, Route!MakeTaken, Route!MakeTakenLate, Route!MakeAnswered,
       Route!MakeRefused, Route!LiveSession, Route!Prompts, Route!Finds, Route!PostAnswered,
       Route!PostRefused, Route!CallGone, Route!Breaks, Route!Removed, Route!HealingAges,
       Route!LimitPasses, Route!conductor, Route!vars
  <2> QED
    BY <1>1, <2>1
<1> QED
  BY <1>3, <1>4, <1>5, <1>6 DEF Route!Next, Route!Handler

-----------------------------------------------------------------------------
(* What is said in the sessions. *)

\* No session was ever asked about message n; no message before n is open.
NeverPut(n) == \A s \in Route!Sessions : Route!PromptAt(s, n) = {}
AllBefore(n) == \A k \in Route!Rows : k < n => ask[k].state # "queued"

PutOnce == \A n \in Route!Rows : \A s, t \in Route!Sessions :
               \A i \in Route!PromptAt(s, n) : \A j \in Route!PromptAt(t, n) : s = t /\ i = j
Accounted == \A n \in Route!Rows : ~ask[n].attempted => NeverPut(n)
AtPost == step.at = "posting" => /\ ask[Route!Current].attempted
                                 /\ step.taken = 0 => NeverPut(Route!Current)

\* A transcript speaks of one message after the other, and of none that comes after an open one.
InOrder == \A s \in Route!Sessions :
               /\ \A i \in DOMAIN transcript[s] : AllBefore(transcript[s][i].row)
               /\ \A i, j \in DOMAIN transcript[s] : i < j => transcript[s][i].row <= transcript[s][j].row
               /\ working[s] # 0 => /\ AllBefore(working[s])
                                    /\ \A i \in DOMAIN transcript[s] : transcript[s][i].row <= working[s]

TalkInv == HeadStands /\ PutOnce /\ Accounted /\ AtPost /\ InOrder /\ Route!OwnAnswer

LEMMA TalkInit == ASSUME Route!RouterAssumption, Route!Init PROVE TalkInv
<1>1. \A s \in Route!Sessions : transcript[s] = << >> /\ working[s] = 0
  BY DEF Route!Init
<1>2. \A s \in Route!Sessions : DOMAIN transcript[s] = {}
  BY <1>1
<1>3. \A s \in Route!Sessions : \A n : Route!PromptAt(s, n) = {}
  BY <1>2 DEF Route!PromptAt
<1>4. step.at = "rest" /\ \A n \in Route!Rows : ask[n].state = "queued"
  BY StepsTo DEF Route!Init
<1> QED
  BY <1>1, <1>2, <1>3, <1>4 DEF TalkInv, HeadStands, PutOnce, Accounted, AtPost, InOrder, NeverPut,
     Route!OwnAnswer

\* A step that says nothing and opens no message again.
LEMMA TalkRests ==
  ASSUME RouteShape, TalkInv, UNCHANGED <<transcript, proposal>>, AskGoes,
         \A s \in Route!Sessions : working'[s] \in {0, working[s]},
         \A n \in Route!Rows : ~ask'[n].attempted => NeverPut(n),
         \/ step'.at = "rest"
         \/ /\ \A n \in Route!Rows : ask'[n].state = ask[n].state
            /\ step.at # "rest" \/ Route!Open # {}
            /\ \/ step'.at # "posting"
               \/ /\ ask'[Route!Current].attempted
                  /\ step'.taken = 0 => NeverPut(Route!Current)
  PROVE  TalkInv'
<1>1. \A n : NeverPut(n)' = NeverPut(n)
  BY DEF NeverPut, Route!PromptAt
<1>2. \A n : AllBefore(n) => AllBefore(n)'
  BY DEF AllBefore, AskGoes
<1>3. PutOnce' /\ Accounted'
  BY <1>1 DEF TalkInv, PutOnce, Accounted, Route!PromptAt
<1>4. InOrder'
  BY <1>2 DEF TalkInv, InOrder
<1>5. (Route!OwnAnswer)'
  BY DEF TalkInv, Route!OwnAnswer, AskGoes
<1>6. HeadStands' /\ AtPost'
  <2>1. CASE step'.at = "rest"
    BY <2>1 DEF HeadStands, AtPost
  <2>2. CASE step'.at # "rest"
    <3>1. Route!Open' = Route!Open /\ Route!Open # {}
      BY <2>2 DEF Route!Open, TalkInv, HeadStands
    <3>2. Route!Current' = Route!Current
      BY <3>1 DEF Route!Current
    <3> QED
      BY <1>1, <2>2, <3>1, <3>2 DEF HeadStands, AtPost
  <2> QED
    BY <2>1, <2>2
<1> QED
  BY <1>3, <1>4, <1>5, <1>6 DEF TalkInv

\* A line that is said after those of its message and of the ones before it.
LEMMA TalkSays ==
  ASSUME RouteShape, TalkInv, NEW s \in Route!Sessions, NEW x \in Line, UNCHANGED <<ask, proposal>>,
         transcript' = [transcript EXCEPT ![s] = Append(@, x)],
         AllBefore(x.row), \A i \in DOMAIN transcript[s] : transcript[s][i].row <= x.row,
         working'[s] \in {0, x.row}, \A t \in Route!Sessions : t # s => working'[t] = working[t],
         \/ x.kind = "text" /\ step' = step
         \/ NeverPut(x.row) /\ ask[x.row].attempted /\ step'.at = step.at /\ step'.taken # 0
  PROVE  TalkInv'
<1> DEFINE m == Len(transcript[s]) + 1
<1>1. /\ Len(transcript[s]) \in Nat /\ DOMAIN transcript[s] = 1..Len(transcript[s])
      /\ DOMAIN transcript'[s] = 1..m /\ transcript'[s][m] = x
      /\ \A i \in DOMAIN transcript[s] : transcript'[s][i] = transcript[s][i]
      /\ \A t \in Route!Sessions : t # s => transcript'[t] = transcript[t]
  BY SaysLine
<1>2. m \in Nat /\ m \notin DOMAIN transcript[s] /\ DOMAIN transcript'[s] = DOMAIN transcript[s] \cup {m}
      /\ \A i \in DOMAIN transcript[s] : i < m
  BY <1>1
<1> HIDE DEF m
<1>3. /\ \A t \in Route!Sessions : \A n : t # s => Route!PromptAt(t, n)' = Route!PromptAt(t, n)
      /\ \A n : Route!PromptAt(s, n)' = IF x.kind = "prompt" /\ x.row = n
                                        THEN Route!PromptAt(s, n) \cup {m} ELSE Route!PromptAt(s, n)
  BY <1>1, <1>2 DEF Route!PromptAt
<1>4. \A n : x.kind = "prompt" /\ x.row = n => NeverPut(n) /\ ask[n].attempted
  OBVIOUS
<1>5. \A n : ~(x.kind = "prompt" /\ x.row = n) => NeverPut(n)' = NeverPut(n)
  BY <1>3 DEF NeverPut
<1>6. PutOnce'
  BY <1>3, <1>4 DEF TalkInv, PutOnce, NeverPut
<1>7. Accounted'
  BY <1>4, <1>5 DEF TalkInv, Accounted
<1>8. Route!Open' = Route!Open /\ Route!Current' = Route!Current
  BY DEF Route!Open, Route!Current
<1>9. HeadStands' /\ AtPost'
  BY <1>5, <1>8 DEF TalkInv, HeadStands, AtPost
<1>10. \A n : AllBefore(n)' = AllBefore(n)
  BY DEF AllBefore
<1>11. InOrder'
  <2>1. SUFFICES ASSUME NEW t \in Route!Sessions
                 PROVE  /\ \A i \in DOMAIN transcript'[t] : AllBefore(transcript'[t][i].row)
                        /\ \A i, j \in DOMAIN transcript'[t] :
                               i < j => transcript'[t][i].row <= transcript'[t][j].row
                        /\ working'[t] # 0 =>
                               /\ AllBefore(working'[t])
                               /\ \A i \in DOMAIN transcript'[t] : transcript'[t][i].row <= working'[t]
    BY <1>10 DEF InOrder
  <2>2. CASE t # s
    BY <1>1, <2>2 DEF TalkInv, InOrder
  <2>3. CASE t = s
    <3>1. x.row \in Nat /\ x.row <= x.row
      BY DEF Line, Route!Rows
    <3>2. \A i, j \in DOMAIN transcript'[s] :
              i < j => i \in DOMAIN transcript[s] /\ (j = m \/ j \in DOMAIN transcript[s])
      BY <1>1, <1>2
    <3>3. /\ \A i \in DOMAIN transcript'[s] : AllBefore(transcript'[s][i].row)
          /\ \A i \in DOMAIN transcript'[s] : transcript'[s][i].row <= x.row
      BY <1>1, <1>2, <3>1 DEF TalkInv, InOrder
    <3>4. \A i, j \in DOMAIN transcript'[s] : i < j => transcript'[s][i].row <= transcript'[s][j].row
      BY <1>1, <3>2 DEF TalkInv, InOrder
    <3> QED
      BY <2>3, <3>3, <3>4
  <2> QED
    BY <2>2, <2>3
<1>12. (Route!OwnAnswer)'
  BY DEF TalkInv, Route!OwnAnswer
<1> QED
  BY <1>6, <1>7, <1>9, <1>11, <1>12 DEF TalkInv

\* The last text after a message's own prompt is about that message.
LEMMA TalkAnswered ==
  ASSUME Route!RouterAssumption, RouteShape, TalkInv, Route!ReadsAnswer
  PROVE  TalkInv'
<1> DEFINE n == Route!Current
           texts == IF Route!Exists(Route!Here) THEN Route!Answers(Route!Here, n) ELSE {}
           place == CHOOSE i \in texts : \A j \in texts : j <= i
           last == transcript[Route!Here][place]
           next == IF last.final THEN "done" ELSE "blocked"
<1>1. /\ UNCHANGED transcript /\ Route!Open # {} /\ step'.at = "rest"
      /\ working' = working \/ working' = [working EXCEPT ![Route!Here] = 0]
  BY StepsTo DEF Route!ReadsAnswer, Route!At, Route!GivesUp, Route!Return
<1>2. /\ n \in Route!Rows /\ ask[n].state = "queued"
      /\ \A s \in Route!Sessions : working'[s] \in {0, working[s]}
  BY <1>1, HeadIs DEF RouteShape
<1>3. CASE UNCHANGED proposal /\ (ask' = ask \/ ask' = Route!Blocked(n))
  <2>1. AskGoes /\ \A k \in Route!Rows : ask'[k].attempted = ask[k].attempted
    <3>1. ask \in [Route!Rows -> Asking] /\ n \in Route!Rows
      BY <1>2 DEF RouteShape
    <3>2. CASE ask' = ask
      BY <3>1, <3>2 DEF AskGoes
    <3>3. CASE ask' = Route!Blocked(n)
      <4> HIDE DEF n
      <4>1. /\ Route!Blocked(n) \in [Route!Rows -> Asking] /\ Route!Blocked(n)[n].state = "blocked"
            /\ \A k \in Route!Rows : k # n => Route!Blocked(n)[k] = ask[k]
            /\ Route!Blocked(n)[n].attempted = ask[n].attempted
        BY <3>1, AskMoves
      <4> QED
        BY <3>3, <4>1 DEF AskGoes
    <3> QED
      BY <1>3, <3>2, <3>3
  <2>2. \A k \in Route!Rows : ~ask'[k].attempted => NeverPut(k)
    BY <2>1 DEF TalkInv, Accounted
  <2> QED
    BY <1>1, <1>2, <1>3, <2>1, <2>2, TalkRests
<1>4. CASE /\ texts # {} /\ ask' = [ask EXCEPT ![n].state = next] /\ UNCHANGED working
           /\ proposal' = [proposal EXCEPT ![n] = [row |-> last.row, final |-> last.final]]
  <2>1. /\ Route!Here \in Route!Sessions /\ place \in texts /\ texts \subseteq DOMAIN transcript[Route!Here]
        /\ texts = Route!Answers(Route!Here, n)
    <3>1. Route!Here \in Route!Sessions /\ texts \subseteq DOMAIN transcript[Route!Here]
          /\ texts = Route!Answers(Route!Here, n)
      BY <1>4, HereIs DEF Route!Answers, Route!Texts
    <3> HIDE DEF texts
    <3> QED
      BY <1>4, <3>1, LastIs
  <2>2. transcript[Route!Here] \in Seq(Line)
    BY <2>1 DEF RouteShape
  <2>3. last \in Line
    BY <2>1, <2>2
  <2>4. PICK p \in Route!PromptAt(Route!Here, n) : p < place
    BY <2>1 DEF Route!Answers
  <2>5. p \in DOMAIN transcript[Route!Here] /\ transcript[Route!Here][p].row = n
    BY <2>4 DEF Route!PromptAt
  <2>6. n <= last.row /\ AllBefore(last.row)
    BY <2>1, <2>4, <2>5 DEF TalkInv, InOrder
  <2>7. last.row = n
    <3>1. last.row \in Route!Rows /\ n \in Route!Rows /\ ask[n].state = "queued"
      BY <1>2, <2>3 DEF Line
    <3> HIDE DEF last, n
    <3>2. ~(n < last.row)
      BY <2>6, <3>1 DEF AllBefore
    <3> QED
      BY <2>6, <3>1, <3>2, RouterNumbers
  <2> HIDE DEF texts, place, last, n
  <2>8. next \in {"done", "blocked"} /\ (next = "done" => last.final) /\ last.final \in BOOLEAN
    BY <2>3 DEF Line
  <2> HIDE DEF next
  <2>9. /\ \A k \in Route!Rows : k # n => ask'[k] = ask[k] /\ proposal'[k] = proposal[k]
        /\ ask'[n].state = next /\ ask'[n].attempted = ask[n].attempted
        /\ proposal'[n] = [row |-> last.row, final |-> last.final]
        /\ ask' \in [Route!Rows -> Asking]
    <3>1. ask \in [Route!Rows -> Asking] /\ proposal \in [Route!Rows -> [row : Nat, final : BOOLEAN]]
      BY DEF RouteShape
    <3>2. \A k \in Route!Rows : k # n => proposal'[k] = proposal[k]
      BY <1>2, <1>4, <3>1
    <3>3. proposal'[n] = [row |-> last.row, final |-> last.final]
      BY <1>2, <1>4, <3>1
    <3>4. /\ \A k \in Route!Rows : k # n => ask'[k] = ask[k]
          /\ ask'[n].state = next /\ ask'[n].attempted = ask[n].attempted
      BY <1>2, <1>4, <3>1 DEF Asking
    <3>5. ask' \in [Route!Rows -> Asking]
      BY <1>2, <1>4, <2>8, <3>1 DEF Asking
    <3> QED
      BY <3>2, <3>3, <3>4, <3>5
  <2>10. (Route!OwnAnswer)'
    BY <2>7, <2>8, <2>9 DEF TalkInv, Route!OwnAnswer
  <2>11. \A k : NeverPut(k)' = NeverPut(k) /\ (AllBefore(k) => AllBefore(k)')
    BY <1>1, <2>8, <2>9 DEF NeverPut, Route!PromptAt, AllBefore
  <2>12. PutOnce' /\ Accounted' /\ HeadStands' /\ AtPost'
    BY <1>1, <2>9, <2>11 DEF TalkInv, PutOnce, Accounted, HeadStands, AtPost, Route!PromptAt
  <2>13. InOrder'
    BY <1>1, <1>4, <2>11 DEF TalkInv, InOrder
  <2> QED
    BY <2>10, <2>12, <2>13 DEF TalkInv
<1> QED
  BY <1>3, <1>4 DEF Route!ReadsAnswer, Route!GivesUp

\* A step that says nothing and has the row at the head fail, if it changes the messages at all.
LEMMA TalkHead ==
  ASSUME Route!RouterAssumption, RouteShape, TalkInv, Route!Open # {}, UNCHANGED <<transcript, proposal>>,
         \A s \in Route!Sessions : working'[s] \in {0, working[s]},
         \/ ask' = ask /\ step'.at # "posting"
         \/ step'.at = "rest" /\ ask' \in {Route!Failed(Route!Current), Route!Blocked(Route!Current)}
  PROVE  TalkInv'
<1> DEFINE n == Route!Current
<1>1. ask \in [Route!Rows -> Asking] /\ n \in Route!Rows /\ ask[n].state = "queued"
  BY HeadIs DEF RouteShape
<1> HIDE DEF n
<1>2. CASE ask' = ask /\ step'.at # "posting"
  <2>1. AskGoes /\ \A k \in Route!Rows : ~ask'[k].attempted => NeverPut(k)
    BY <1>1, <1>2 DEF AskGoes, TalkInv, Accounted
  <2> QED
    BY <1>2, <2>1, TalkRests
<1>3. CASE step'.at = "rest" /\ ask' \in {Route!Failed(n), Route!Blocked(n)}
  <2>1. /\ ask' \in [Route!Rows -> Asking] /\ \A k \in Route!Rows : k # n => ask'[k] = ask[k]
        /\ ask'[n].state \in {"queued", "blocked"} /\ ask'[n].attempted = ask[n].attempted
    BY <1>1, <1>3, AskMoves
  <2>2. AskGoes /\ \A k \in Route!Rows : ~ask'[k].attempted => NeverPut(k)
    BY <1>1, <2>1 DEF AskGoes, TalkInv, Accounted
  <2> QED
    BY <1>3, <2>2, TalkRests
<1> QED
  BY <1>2, <1>3 DEF n

LEMMA TalkPlaces ==
  ASSUME Route!RouterAssumption, RouteShape, TalkInv,
         \/ Route!Begins \/ Route!Binds \/ Route!MakeTaken \/ Route!MakeAnswered \/ Route!MakeRefused
         \/ Route!LiveSession \/ Route!ReadsStatus
  PROVE  TalkInv'
<1>1. UNCHANGED <<transcript, proposal>> /\ \A s \in Route!Sessions : working'[s] \in {0, working[s]}
  BY DEF Route!Begins, Route!Binds, Route!MakeTaken, Route!MakeAnswered, Route!MakeRefused,
     Route!LiveSession, Route!ReadsStatus, Route!GivesUp, Route!conductor, Route!durable, RouteShape
<1>2. Route!Open # {}
  BY DEF Route!Begins, Route!Binds, Route!MakeTaken, Route!MakeAnswered, Route!MakeRefused,
     Route!LiveSession, Route!ReadsStatus, Route!At, Route!Making, TalkInv, HeadStands
<1>3. Route!Return => step'.at = "rest"
  BY DEF Route!Return, Route!Rest
<1>4. \A p : Route!Goto(p) => step'.at = p
  BY DEF Route!Goto, Route!Rest
<1>5. \A r : Route!OpenSession(r) =>
          \/ ask' = ask /\ step'.at # "posting"
          \/ step'.at = "rest" /\ ask' \in {Route!Failed(Route!Current), Route!Blocked(Route!Current)}
  BY <1>3 DEF Route!OpenSession
<1>6. \/ ask' = ask /\ step'.at # "posting"
      \/ step'.at = "rest" /\ ask' \in {Route!Failed(Route!Current), Route!Blocked(Route!Current)}
  <2>1. CASE Route!Begins
    BY <1>3, <1>4, <2>1 DEF Route!Begins
  <2>2. CASE Route!Binds
    BY <1>3, <1>4, <1>5, <2>2 DEF Route!Binds
  <2>3. CASE Route!MakeTaken
    BY <2>3 DEF Route!MakeTaken, Route!Making, Route!durable, RouteShape, RouteStep
  <2>4. CASE Route!MakeAnswered \/ Route!MakeRefused
    BY <1>3, <1>4, <2>4 DEF Route!MakeAnswered, Route!MakeRefused
  <2>5. CASE Route!LiveSession
    BY <1>3, <1>4, <1>5, <2>5 DEF Route!LiveSession
  <2>6. CASE Route!ReadsStatus
    BY <1>3, <1>4, <2>6 DEF Route!ReadsStatus, Route!GivesUp
  <2> QED
    BY <2>1, <2>2, <2>3, <2>4, <2>5, <2>6
<1> QED
  BY <1>1, <1>2, <1>6, TalkHead

LEMMA TalkSubmits ==
  ASSUME Route!RouterAssumption, RouteShape, TalkInv,
         Route!Prompts \/ Route!Finds \/ Route!PostAnswered \/ Route!PostRefused \/ Route!CallGone
  PROVE  TalkInv'
<1> DEFINE n == Route!Current
<1>1. /\ UNCHANGED <<transcript, proposal, working>> /\ Route!Open # {}
      /\ \A s \in Route!Sessions : working'[s] \in {0, working[s]}
  BY DEF Route!Prompts, Route!Finds, Route!PostAnswered, Route!PostRefused, Route!CallGone, Route!At,
     Route!conductor
<1>2. ask \in [Route!Rows -> Asking] /\ n \in Route!Rows /\ ask[n].state = "queued"
  BY <1>1, HeadIs DEF RouteShape
<1>3. (Route!Return => step'.at = "rest") /\ \A p : Route!Goto(p) => step'.at = p /\ step'.taken = 0
  BY DEF Route!Return, Route!Goto, Route!Rest
<1>4. ASSUME ask' = [ask EXCEPT ![n].prompted = TRUE] \/ ask' = [ask EXCEPT ![n].sent = TRUE],
             step'.at # "posting"
      PROVE  TalkInv'
  <2> HIDE DEF n
  <2>1. /\ ask' \in [Route!Rows -> Asking]
        /\ \A k \in Route!Rows : ask'[k].state = ask[k].state /\ ask'[k].attempted = ask[k].attempted
    <3>1. CASE ask' = [ask EXCEPT ![n].prompted = TRUE]
      BY <1>2, <3>1 DEF Asking
    <3>2. CASE ask' = [ask EXCEPT ![n].sent = TRUE]
      BY <1>2, <3>2 DEF Asking
    <3> QED
      BY <1>4, <3>1, <3>2
  <2>2. AskGoes /\ \A k \in Route!Rows : ~ask'[k].attempted => NeverPut(k)
    BY <2>1 DEF AskGoes, TalkInv, Accounted
  <2> QED
    BY <1>1, <1>4, <2>1, <2>2, TalkRests
<1>5. ASSUME step.at = "posting", step.taken = 0, step'.at = "rest", ask' \in [Route!Rows -> Asking],
             \A k \in Route!Rows : k # n => ask'[k] = ask[k], ask'[n].state \in {"queued", "blocked"}
      PROVE  TalkInv'
  <2>1. NeverPut(n)
    BY <1>5 DEF TalkInv, AtPost
  <2> HIDE DEF n
  <2>2. AskGoes /\ \A k \in Route!Rows : ~ask'[k].attempted => NeverPut(k)
    BY <1>2, <1>5, <2>1 DEF AskGoes, TalkInv, Accounted
  <2> QED
    BY <1>1, <1>5, <2>2, TalkRests
<1>6. CASE Route!Prompts
  <2>1. \/ ask' = ask /\ step'.at = "rest"
        \/ ask' = [ask EXCEPT ![n].prompted = TRUE] /\ step'.at = "find"
    BY <1>3, <1>6 DEF Route!Prompts
  <2> QED
    BY <1>1, <1>4, <2>1, TalkHead
<1>7. CASE Route!Finds
  <2>1. CASE ask' = [ask EXCEPT ![n].sent = TRUE] /\ step'.at = "rest"
    BY <1>4, <2>1
  <2>2. CASE ask' = Route!Failed(n) /\ step'.at = "rest"
    BY <1>1, <2>2, TalkHead
  <2>3. CASE ~ask[n].attempted /\ ask' = [ask EXCEPT ![n].attempted = TRUE] /\ step.at = "find"
    <3>1. NeverPut(n)
      BY <1>2, <2>3 DEF TalkInv, Accounted
    <3>2. /\ ask' \in [Route!Rows -> Asking] /\ ask'[n].attempted
          /\ \A k \in Route!Rows : /\ ask'[k].state = ask[k].state
                                   /\ ~ask'[k].attempted => ~ask[k].attempted
      <4> HIDE DEF n
      <4> QED
        BY <1>2, <2>3 DEF Asking
    <3>3. AskGoes /\ \A k \in Route!Rows : ~ask'[k].attempted => NeverPut(k)
      BY <3>2 DEF AskGoes, TalkInv, Accounted
    <3> QED
      BY <1>1, <2>3, <3>1, <3>2, <3>3, TalkRests
  <2> QED
    BY <1>3, <1>7, <2>1, <2>2, <2>3 DEF Route!Finds, Route!MaySubmit, Route!At
<1>8. CASE Route!PostAnswered
  BY <1>3, <1>4, <1>8 DEF Route!PostAnswered
<1>9. CASE Route!PostRefused
  <2>1. /\ step.at = "posting" /\ step.taken = 0 /\ step'.at = "rest"
        /\ \E b \in {"queued", "blocked"} :
             ask' = [ask EXCEPT ![n] = [@ EXCEPT !.state = b, !.attempted = FALSE]]
    BY <1>3, <1>9 DEF Route!PostRefused, Route!At
  <2>2. /\ ask' \in [Route!Rows -> Asking] /\ \A k \in Route!Rows : k # n => ask'[k] = ask[k]
        /\ ask'[n].state \in {"queued", "blocked"}
    <3> HIDE DEF n
    <3> QED
      BY <1>2, <2>1 DEF Asking
  <2> QED
    BY <1>5, <2>1, <2>2
<1>10. CASE Route!CallGone
  <2>2. step'.at = "rest" /\ step.taken = 0
    BY <1>3, <1>10 DEF Route!CallGone
  <2>3. CASE step.at = "posting" /\ ask' = [ask EXCEPT ![n] = [@ EXCEPT !.state = "blocked", !.attempted = FALSE]]
    <3>1. /\ ask' \in [Route!Rows -> Asking] /\ \A k \in Route!Rows : k # n => ask'[k] = ask[k]
          /\ ask'[n].state \in {"queued", "blocked"}
      <4> HIDE DEF n
      <4> QED
        BY <1>2, <2>3 DEF Asking
    <3> QED
      BY <1>5, <2>2, <2>3, <3>1
  <2>4. CASE ask' = Route!Blocked(n)
    BY <1>1, <2>2, <2>4, TalkHead
  <2> QED
    BY <1>10, <2>3, <2>4 DEF Route!CallGone, Route!At
<1> QED
  BY <1>6, <1>7, <1>8, <1>9, <1>10

\* A message is put to the session by the row at the head of the lane.
LEMMA TalkPosted ==
  ASSUME Route!RouterAssumption, RouteShape, TalkInv, Route!PostTaken
  PROVE  TalkInv'
<1> DEFINE n == Route!Current
           x == [kind |-> "prompt", row |-> n, final |-> FALSE]
<1>1. /\ UNCHANGED <<ask, proposal>> /\ Route!Open # {} /\ Route!Here \in Route!Sessions
      /\ transcript' = [transcript EXCEPT ![Route!Here] = Append(@, x)]
      /\ working' = [working EXCEPT ![Route!Here] = n]
      /\ step' = [step EXCEPT !.taken = 1] /\ step.at = "posting" /\ step.taken = 0
  BY HereIs DEF Route!PostTaken, Route!durable, Route!At
<1>2. n \in Route!Rows /\ ask[n].state = "queued"
      /\ \A m \in Route!Rows : ask[m].state = "queued" => n <= m
  BY <1>1, HeadIs
<1>3. NeverPut(n) /\ ask[n].attempted
  BY <1>1 DEF TalkInv, AtPost
<1> HIDE DEF n
<1>4. AllBefore(n)
  BY <1>2, RouterNumbers DEF AllBefore
<1>5. \A i \in DOMAIN transcript[Route!Here] : transcript[Route!Here][i].row <= n
  <2>1. SUFFICES ASSUME NEW i \in DOMAIN transcript[Route!Here]
                 PROVE  transcript[Route!Here][i].row <= n
    OBVIOUS
  <2>2. transcript[Route!Here] \in Seq(Line)
    BY <1>1 DEF RouteShape
  <2>3. transcript[Route!Here][i] \in Line
    BY <2>1, <2>2
  <2>4. transcript[Route!Here][i].row \in Route!Rows
    BY <2>3 DEF Line
  <2>5. AllBefore(transcript[Route!Here][i].row)
    BY <1>1 DEF TalkInv, InOrder
  <2> QED
    BY <1>2, <2>4, <2>5, RouterNumbers DEF AllBefore
<1>6. x \in Line
  BY <1>2 DEF Line
<1>7. /\ working'[Route!Here] \in {0, x.row}
      /\ \A t \in Route!Sessions : t # Route!Here => working'[t] = working[t]
  BY <1>1 DEF RouteShape
<1>8. step'.at = step.at /\ step'.taken # 0
  BY <1>1 DEF RouteShape, RouteStep
<1>9. x.row = n
  OBVIOUS
<1> HIDE DEF x
<1> QED
  BY <1>1, <1>3, <1>4, <1>5, <1>6, <1>7, <1>8, <1>9, TalkSays

LEMMA TalkStep ==
  ASSUME Route!RouterAssumption, RouteShape, TalkInv, [Route!Next]_(Route!vars)
  PROVE  TalkInv'
<1>0. /\ ask \in [Route!Rows -> Asking] /\ \A k \in Route!Rows : ~ask[k].attempted => NeverPut(k)
      /\ \A s \in Route!Sessions : working[s] \in {0, working[s]}
  BY DEF RouteShape, TalkInv, Accounted
<1>1. ASSUME UNCHANGED <<ask, proposal, transcript>>, step' = step \/ step' = Route!Rest,
             \A s \in Route!Sessions : working'[s] \in {0, working[s]}
      PROVE  TalkInv'
  <2>1. AskGoes /\ \A k \in Route!Rows : ~ask'[k].attempted => NeverPut(k)
    BY <1>0, <1>1 DEF AskGoes
  <2>2. CASE step' = Route!Rest
    BY <1>1, <2>1, <2>2, StepsTo, TalkRests
  <2>3. CASE step' = step
    BY <1>1, <2>1, <2>3, TalkRests DEF TalkInv, AtPost
  <2> QED
    BY <1>1, <2>2, <2>3
<1>2. CASE Route!MakeTakenLate \/ Route!Breaks \/ Route!Removed \/ Route!HealingAges
             \/ (\E n \in Route!Rows : Route!LimitPasses(n)) \/ UNCHANGED Route!vars
  <2>1. UNCHANGED <<ask, proposal, transcript, working>> /\ (step' = step \/ step' = Route!Rest)
    BY <1>2 DEF Route!MakeTakenLate, Route!Breaks, Route!Removed, Route!HealingAges, Route!LimitPasses,
       Route!durable, Route!conductor, Route!vars, Route!Return
  <2> QED
    BY <1>0, <1>1, <2>1
<1>3. ASSUME NEW s \in Route!Sessions, Route!Speaks(s) \/ Route!Finishes(s) PROVE TalkInv'
  <2>1. /\ UNCHANGED <<ask, proposal, step>> /\ working[s] # 0 /\ working[s] \in Route!Rows
        /\ working' = working \/ working' = [working EXCEPT ![s] = 0]
    BY <1>3 DEF Route!Speaks, Route!Finishes, Route!durable, RouteShape
  <2>2. working'[s] \in {0, working[s]} /\ \A t \in Route!Sessions : t # s => working'[t] = working[t]
    BY <2>1 DEF RouteShape
  <2>3. CASE transcript' = transcript
    BY <1>1, <2>1, <2>2, <2>3
  <2>4. ASSUME NEW f \in BOOLEAN, transcript' =
               [transcript EXCEPT ![s] = Append(@, [kind |-> "text", row |-> working[s], final |-> f])]
        PROVE  TalkInv'
    <3> DEFINE x == [kind |-> "text", row |-> working[s], final |-> f]
    <3>1. x \in Line /\ x.row = working[s] /\ x.kind = "text"
      BY <2>1 DEF Line
    <3>2. AllBefore(x.row) /\ \A i \in DOMAIN transcript[s] : transcript[s][i].row <= x.row
      BY <2>1, <3>1 DEF TalkInv, InOrder
    <3> HIDE DEF x
    <3>3. transcript' = [transcript EXCEPT ![s] = Append(@, x)]
      BY <2>4 DEF x
    <3> QED
      BY <2>1, <2>2, <3>1, <3>2, <3>3, TalkSays
  <2> QED
    BY <1>3, <2>3, <2>4 DEF Route!Speaks, Route!Finishes
<1> QED
  BY <1>2, <1>3, TalkPlaces, TalkSubmits, TalkPosted, TalkAnswered DEF Route!Next, Route!Handler

RouterInv == RouteShape /\ PlacesInv /\ Quiet /\ TalkInv

LEMMA RouterInit == ASSUME Route!RouterAssumption PROVE Route!Init => RouterInv
BY RouteInit, TalkInit DEF RouterInv

LEMMA RouterStep == ASSUME Route!RouterAssumption PROVE RouterInv /\ [Route!Next]_(Route!vars) => RouterInv'
<1> SUFFICES ASSUME RouterInv, [Route!Next]_(Route!vars) PROVE RouterInv'
  OBVIOUS
<1>1. RouteShape'
  BY RouteShapeStep DEF RouterInv, PlacesInv, TalkInv
<1> QED
  BY <1>1, PlacesStep, QuietTalk, TalkStep DEF RouterInv

LEMMA RouterMeans ==
  ASSUME Route!RouterAssumption
  PROVE  RouterInv => Route!OwnAnswer /\ Route!SubmittedOnce /\ Route!OneRouter
<1> SUFFICES ASSUME RouterInv PROVE Route!OwnAnswer /\ Route!SubmittedOnce /\ Route!OneRouter
  OBVIOUS
<1>1. \A S : Route!Cardinality(S) = Cardinality(S)
  BY DEF Route!Cardinality, Cardinality
<1>2. ASSUME NEW S, \A x, y \in S : x = y PROVE Route!Cardinality(S) <= 1
  <2>1. CASE S = {}
    BY <1>1, <2>1, FS_EmptySet
  <2>2. CASE S # {}
    <3>1. PICK x : S = {x}
      BY <1>2, <2>2
    <3>2. Cardinality({x}) = 1
      BY FS_Singleton
    <3> QED
      BY <1>1, <3>1, <3>2
  <2> QED
    BY <2>1, <2>2
<1>3. Route!SubmittedOnce
  <2>1. SUFFICES ASSUME NEW n \in Route!Rows
        PROVE  Route!Cardinality({m \in Route!Sessions \X (1..(4 * MaxMessages)) :
                   m[2] \in DOMAIN transcript[m[1]] /\ m[2] \in Route!PromptAt(m[1], n)}) <= 1
    BY DEF Route!SubmittedOnce
  <2> DEFINE S == {m \in Route!Sessions \X (1..(4 * MaxMessages)) :
                       m[2] \in DOMAIN transcript[m[1]] /\ m[2] \in Route!PromptAt(m[1], n)}
  <2>2. \A x, y \in S : x = y
    BY DEF RouterInv, TalkInv, PutOnce
  <2> HIDE DEF S
  <2>3. Route!Cardinality(S) <= 1
    BY <1>2, <2>2
  <2> QED
    BY <2>3 DEF S
<1>4. Route!OneRouter
  <2>1. \A q, r \in alive : q = r
    BY DEF RouterInv, RouteShape, PlacesInv, SeenOnce, BoundSeen, Seen
  <2>2. \A r \in alive : \A s, t \in Route!SessionsOf(r) : s = t
    BY DEF RouterInv, PlacesInv, SessionOnce, Route!SessionsOf
  <2> QED
    BY <1>2, <2>1, <2>2 DEF Route!OneRouter
<1> QED
  BY <1>3, <1>4 DEF RouterInv, TalkInv

\* A message in words is put to one session once, and the target it is proposed is what the finished
\* answer to that very message names; no second router appears beside a live one, nor a second session in
\* it: for any number of messages, routers, sessions, removals, and creations that happen late.
THEOREM MessagesAreRoutedOnce ==
  ASSUME Route!RouterAssumption
  PROVE  Route!Spec => [](Route!OwnAnswer /\ Route!SubmittedOnce /\ Route!OneRouter)
BY RouterInit, RouterStep, RouterMeans, PTL DEF Route!Spec

-----------------------------------------------------------------------------
\* A message is failed at most MaxRouteFails times: the last failure blocks it.
Worn(v) == v.fails <= MaxRouteFails /\ (v.state = "queued" => v.fails < MaxRouteFails)

\* A proposal is that of one of the messages, and what the gateway gave up on is a creation.
Proposed == \A n \in Route!Rows : proposal[n].row \in Route!Rows \cup {0}
Flags == /\ {spawned, opened, healed} \subseteq BOOLEAN /\ late \subseteq Route!Rows
         /\ loose.at \in {"rest"} \cup Route!Making

RouteTyped == Proposed /\ Flags /\ \A n \in Route!Rows : Worn(ask[n])

LEMMA RouteTypes ==
  ASSUME Route!RouterAssumption, RouterInv, RouteTyped
  PROVE  Route!TypeOK
<1>1. RouteShape /\ MaxRouteFails \in Nat
  BY DEF RouterInv, Route!RouterAssumption
<1>2. ask \in [Route!Rows -> [state : {"queued", "done", "blocked"}, prompted : BOOLEAN, attempted : BOOLEAN,
                              sent : BOOLEAN, fails : 0..MaxRouteFails]]
  <2>1. ASSUME NEW n \in Route!Rows
        PROVE  ask[n] \in [state : {"queued", "done", "blocked"}, prompted : BOOLEAN, attempted : BOOLEAN,
                           sent : BOOLEAN, fails : 0..MaxRouteFails]
    <3>1. ask[n] \in Asking /\ ask[n].fails <= MaxRouteFails
      BY <1>1 DEF RouteShape, RouteTyped, Worn
    <3>2. ask[n].fails \in 0..MaxRouteFails
      BY <1>1, <3>1 DEF Asking
    <3> QED
      BY <3>1, <3>2 DEF Asking
  <2>2. ask \in [Route!Rows -> Asking]
    BY <1>1 DEF RouteShape
  <2> QED
    BY <2>1, <2>2
<1>3. proposal \in [Route!Rows -> [row : Route!Rows \cup {0}, final : BOOLEAN]]
  BY <1>1 DEF RouteShape, RouteTyped, Proposed
<1>4. step.at \in {"rest", "bind", "making", "opening", "session", "prompt", "find", "posting", "status", "read"}
  BY <1>1 DEF RouteShape, RouteStep
<1> QED
  BY <1>1, <1>2, <1>3, <1>4 DEF Route!TypeOK, RouteShape, RouteTyped, Flags

LEMMA RouteTypedInit == ASSUME Route!RouterAssumption, Route!Init PROVE RouteTyped
<1>1. MaxRouteFails \in Nat \ {0}
  BY DEF Route!RouterAssumption
<1>2. \A n \in Route!Rows : Worn(ask[n])
  BY <1>1 DEF Route!Init, Worn
<1>3. Proposed /\ Flags
  BY DEF Route!Init, Proposed, Flags, Route!NoText, Route!Rest
<1> QED
  BY <1>2, <1>3 DEF RouteTyped

-----------------------------------------------------------------------------
\* The message at the head of the lane changes.
LEMMA HeadWorn ==
  ASSUME RouteShape, \A k \in Route!Rows : Worn(ask[k]), NEW n \in Route!Rows, NEW v,
         ask' = [ask EXCEPT ![n] = v], Worn(v)
  PROVE  \A k \in Route!Rows : Worn(ask'[k])
<1>1. \A k \in Route!Rows : ask'[k] = IF k = n THEN v ELSE ask[k]
  BY DEF RouteShape
<1> QED
  BY <1>1

LEMMA HeadFails ==
  ASSUME Route!RouterAssumption, RouteShape, Route!Open # {}, \A k \in Route!Rows : Worn(ask[k]),
         ask' = Route!Failed(Route!Current)
  PROVE  \A k \in Route!Rows : Worn(ask'[k])
<1> DEFINE n == Route!Current
           state == IF ask[n].fails + 1 >= MaxRouteFails THEN "blocked" ELSE "queued"
           lapses == ask[n].fails + 1
           v == [ask[n] EXCEPT !.state = state, !.fails = lapses]
<1>1. n \in Route!Rows /\ ask[n].state = "queued"
  BY HeadIs
<1>2. ask[n] \in Asking /\ Worn(ask[n]) /\ MaxRouteFails \in Nat
  BY <1>1 DEF RouteShape, Route!RouterAssumption
<1>3. ask' = [ask EXCEPT ![n] = v]
  BY DEF Route!Failed
<1>4. lapses <= MaxRouteFails /\ (state = "queued" => lapses < MaxRouteFails)
  BY <1>1, <1>2 DEF Asking, Worn
<1> HIDE DEF n, state, lapses
<1>5. v.state = state /\ v.fails = lapses
  BY <1>2 DEF Asking
<1> HIDE DEF v
<1>6. Worn(v)
  BY <1>4, <1>5 DEF Worn
<1> QED
  BY <1>1, <1>3, <1>6, HeadWorn

\* It changes without a failure that counts.
LEMMA HeadGoes ==
  ASSUME Route!RouterAssumption, RouteShape, Route!Open # {}, \A k \in Route!Rows : Worn(ask[k]),
         NEW v, v.fails = ask[Route!Current].fails, ask' = [ask EXCEPT ![Route!Current] = v]
  PROVE  \A k \in Route!Rows : Worn(ask'[k])
<1>1. Route!Current \in Route!Rows /\ ask[Route!Current].state = "queued"
  BY HeadIs
<1>2. Worn(v)
  BY <1>1 DEF Worn
<1> QED
  BY <1>1, <1>2, HeadWorn

LEMMA HeadBlocks ==
  ASSUME Route!RouterAssumption, RouteShape, Route!Open # {}, \A k \in Route!Rows : Worn(ask[k]),
         ask' = Route!Blocked(Route!Current)
  PROVE  \A k \in Route!Rows : Worn(ask'[k])
<1> DEFINE v == [ask[Route!Current] EXCEPT !.state = "blocked"]
<1>1. Route!Current \in Route!Rows
  BY HeadIs
<1>2. ask[Route!Current] \in Asking
  BY <1>1 DEF RouteShape
<1>3. ask' = [ask EXCEPT ![Route!Current] = v]
  BY DEF Route!Blocked
<1>4. v.fails = ask[Route!Current].fails
  BY <1>2 DEF Asking
<1> HIDE DEF v
<1> QED
  BY <1>3, <1>4, HeadGoes

LEMMA WornStep ==
  ASSUME Route!RouterAssumption, RouteShape, HeadStands, \A k \in Route!Rows : Worn(ask[k]),
         [Route!Next]_(Route!vars)
  PROVE  \A k \in Route!Rows : Worn(ask'[k])
<1>1. CASE ask' = ask
  BY <1>1
<1>2. ASSUME Route!Open # {}, ask' \in {Route!Failed(Route!Current), Route!Blocked(Route!Current)}
      PROVE  \A k \in Route!Rows : Worn(ask'[k])
  BY <1>2, HeadFails, HeadBlocks
<1>3. CASE Route!Begins \/ Route!Binds \/ Route!LiveSession \/ Route!MakeRefused
  <2>1. Route!Open # {}
    BY <1>3 DEF Route!Begins, Route!Binds, Route!LiveSession, Route!MakeRefused, Route!At, HeadStands, Route!Making
  <2>2. ask' \in {ask, Route!Failed(Route!Current), Route!Blocked(Route!Current)}
    BY <1>3 DEF Route!Begins, Route!Binds, Route!LiveSession, Route!MakeRefused, Route!OpenSession
  <2> QED
    BY <1>1, <1>2, <2>1, <2>2
<1>4. ASSUME Route!Open # {} PROVE ask[Route!Current] \in Asking
  BY <1>4, HeadIs DEF RouteShape
<1>5. CASE Route!Prompts
  <2> DEFINE v == [ask[Route!Current] EXCEPT !.prompted = TRUE]
  <2>1. Route!Open # {} /\ (ask' = ask \/ ask' = [ask EXCEPT ![Route!Current] = v])
    BY <1>5 DEF Route!Prompts, Route!At
  <2>2. v.fails = ask[Route!Current].fails
    BY <1>4, <2>1 DEF Asking
  <2> HIDE DEF v
  <2> QED
    BY <1>1, <2>1, <2>2, HeadGoes
<1>6. CASE Route!Finds \/ Route!PostAnswered
  <2> DEFINE v == [ask[Route!Current] EXCEPT !.sent = TRUE]
             w == [ask[Route!Current] EXCEPT !.attempted = TRUE]
  <2>1. Route!Open # {} /\ \/ ask' = [ask EXCEPT ![Route!Current] = v] \/ ask' = [ask EXCEPT ![Route!Current] = w]
                           \/ ask' = Route!Failed(Route!Current)
    BY <1>6 DEF Route!Finds, Route!PostAnswered, Route!At
  <2>2. v.fails = ask[Route!Current].fails /\ w.fails = ask[Route!Current].fails
    BY <1>4, <2>1 DEF Asking
  <2> HIDE DEF v, w
  <2> QED
    BY <1>2, <2>1, <2>2, HeadGoes
<1>7. ASSUME NEW state \in {"queued", "blocked"}, Route!Open # {},
             ask' = [ask EXCEPT ![Route!Current] = [@ EXCEPT !.state = state, !.attempted = FALSE]]
      PROVE  \A k \in Route!Rows : Worn(ask'[k])
  <2> DEFINE v == [ask[Route!Current] EXCEPT !.state = state, !.attempted = FALSE]
  <2>1. ask' = [ask EXCEPT ![Route!Current] = v]
    BY <1>7
  <2>2. v.fails = ask[Route!Current].fails
    BY <1>4, <1>7 DEF Asking
  <2> HIDE DEF v
  <2> QED
    BY <1>7, <2>1, <2>2, HeadGoes
<1>8. CASE Route!PostRefused
  <2>1. Route!Open # {}
    BY <1>8 DEF Route!PostRefused, Route!At
  <2> QED
    BY <1>7, <1>8, <2>1 DEF Route!PostRefused
<1>9. CASE Route!CallGone
  <2>1. Route!Open # {}
    BY <1>9 DEF Route!CallGone, Route!At
  <2> QED
    BY <1>2, <1>7, <1>9, <2>1 DEF Route!CallGone
<1>10. CASE Route!ReadsStatus
  BY <1>1, <1>2, <1>10 DEF Route!ReadsStatus, Route!GivesUp, Route!At
<1>11. CASE Route!ReadsAnswer
  <2>1. Route!Open # {}
    BY <1>11 DEF Route!ReadsAnswer, Route!At
  <2>2. CASE Route!GivesUp(Route!Current)
    BY <1>1, <1>2, <2>1, <2>2 DEF Route!GivesUp
  <2>3. ASSUME NEW state \in {"done", "blocked"}, ask' = [ask EXCEPT ![Route!Current].state = state]
        PROVE  \A k \in Route!Rows : Worn(ask'[k])
    <3> DEFINE v == [ask[Route!Current] EXCEPT !.state = state]
    <3>1. ask' = [ask EXCEPT ![Route!Current] = v]
      BY <2>3
    <3>2. v.fails = ask[Route!Current].fails
      BY <1>4, <2>1 DEF Asking
    <3> HIDE DEF v
    <3> QED
      BY <2>1, <3>1, <3>2, HeadGoes
  <2> QED
    BY <1>11, <2>2, <2>3 DEF Route!ReadsAnswer
<1>12. ASSUME \/ Route!MakeTaken \/ Route!MakeTakenLate \/ Route!MakeAnswered \/ Route!PostTaken \/ Route!Breaks
              \/ Route!Removed \/ Route!HealingAges \/ (\E n \in Route!Rows : Route!LimitPasses(n))
              \/ (\E s \in Route!Sessions : Route!Speaks(s) \/ Route!Finishes(s)) \/ UNCHANGED Route!vars
       PROVE  ask' = ask
  BY <1>12 DEF Route!MakeTaken, Route!MakeTakenLate, Route!MakeAnswered, Route!PostTaken, Route!Breaks,
       Route!Removed, Route!HealingAges, Route!LimitPasses, Route!Speaks, Route!Finishes, Route!durable, Route!vars
<1> QED
  BY <1>1, <1>3, <1>5, <1>6, <1>8, <1>9, <1>10, <1>11, <1>12 DEF Route!Next, Route!Handler

-----------------------------------------------------------------------------
\* The answer that is read is a text of the session that the message was put to.
LEMMA ProposedStep ==
  ASSUME Route!RouterAssumption, RouteShape, Proposed, [Route!Next]_(Route!vars)
  PROVE  Proposed'
<1>1. CASE proposal' = proposal
  BY <1>1 DEF Proposed
<1>2. CASE Route!ReadsAnswer /\ proposal' # proposal
  <2> DEFINE texts == IF Route!Exists(Route!Here) THEN Route!Answers(Route!Here, Route!Current) ELSE {}
             last == transcript[Route!Here][CHOOSE i \in texts : \A j \in texts : j <= i]
  <2>1. /\ Route!Open # {} /\ texts # {} /\ Route!Exists(Route!Here)
        /\ proposal' = [proposal EXCEPT ![Route!Current] = [row |-> last.row, final |-> last.final]]
    BY <1>2 DEF Route!ReadsAnswer, Route!At
  <2>2. Route!Here \in Route!Sessions /\ Route!Current \in Route!Rows
    BY <2>1, HereIs, HeadIs
  <2>3. transcript[Route!Here] \in Seq(Line)
    BY <2>2 DEF RouteShape
  <2>4. texts \subseteq DOMAIN transcript[Route!Here]
    BY DEF Route!Answers, Route!Texts
  <2>5. ASSUME NEW S, S # {}, S \subseteq DOMAIN transcript[Route!Here]
        PROVE  (CHOOSE i \in S : \A j \in S : j <= i) \in S
    BY <2>2, <2>5, LastIs
  <2>6. (CHOOSE i \in texts : \A j \in texts : j <= i) \in texts
    BY <2>1, <2>4, <2>5
  <2>7. last \in Line
    BY <2>3, <2>4, <2>6
  <2> HIDE DEF last, texts
  <2>8. last.row \in Route!Rows
    BY <2>7 DEF Line
  <2>9. proposal \in [Route!Rows -> [row : Nat, final : BOOLEAN]]
    BY DEF RouteShape
  <2>10. ASSUME NEW n \in Route!Rows PROVE proposal'[n].row \in Route!Rows \cup {0}
    BY <2>1, <2>2, <2>8, <2>9 DEF Proposed
  <2> QED
    BY <2>10 DEF Proposed
<1>3. ASSUME ~Route!ReadsAnswer PROVE proposal' = proposal
  BY <1>3 DEF Route!Next, Route!Handler, Route!Begins, Route!Binds, Route!MakeTaken, Route!MakeTakenLate, Route!MakeAnswered,
       Route!MakeRefused, Route!LiveSession, Route!Prompts, Route!Finds, Route!PostTaken, Route!PostAnswered,
       Route!PostRefused, Route!CallGone, Route!ReadsStatus, Route!Breaks, Route!Removed, Route!HealingAges,
       Route!LimitPasses, Route!Speaks, Route!Finishes, Route!durable, Route!vars
<1> QED
  BY <1>1, <1>2, <1>3

LEMMA FlagsStep ==
  ASSUME RouteShape, Flags, [Route!Next]_(Route!vars)
  PROVE  Flags'
<1>1. {spawned', healed'} \subseteq BOOLEAN
  <2>1. spawned' \in {spawned, TRUE, FALSE}
    BY DEF Route!Next, Route!Handler, Route!Begins, Route!Binds, Route!MakeTaken, Route!MakeTakenLate, Route!MakeAnswered,
       Route!MakeRefused, Route!LiveSession, Route!Prompts, Route!Finds, Route!PostTaken, Route!PostAnswered,
       Route!PostRefused, Route!CallGone, Route!ReadsStatus, Route!ReadsAnswer, Route!Breaks, Route!Removed,
       Route!HealingAges, Route!LimitPasses, Route!Speaks, Route!Finishes, Route!durable, Route!vars
  <2>2. healed' \in {healed, TRUE, FALSE}
    BY DEF Route!Next, Route!Handler, Route!Begins, Route!Binds, Route!MakeTaken, Route!MakeTakenLate, Route!MakeAnswered,
       Route!MakeRefused, Route!LiveSession, Route!Prompts, Route!Finds, Route!PostTaken, Route!PostAnswered,
       Route!PostRefused, Route!CallGone, Route!ReadsStatus, Route!ReadsAnswer, Route!Breaks, Route!Removed,
       Route!HealingAges, Route!LimitPasses, Route!Speaks, Route!Finishes, Route!durable, Route!vars
  <2> QED
    BY <2>1, <2>2 DEF Flags
<1>2. opened' \in BOOLEAN
  <2>1. opened' \in {opened, TRUE, FALSE}
    BY DEF Route!Next, Route!Handler, Route!Begins, Route!Binds, Route!MakeTaken, Route!MakeTakenLate, Route!MakeAnswered,
       Route!MakeRefused, Route!LiveSession, Route!Prompts, Route!Finds, Route!PostTaken, Route!PostAnswered,
       Route!PostRefused, Route!CallGone, Route!ReadsStatus, Route!ReadsAnswer, Route!Breaks, Route!Removed,
       Route!HealingAges, Route!LimitPasses, Route!Speaks, Route!Finishes, Route!OpenSession, Route!durable, Route!vars
  <2> QED
    BY <2>1 DEF Flags
<1>3. late' \subseteq Route!Rows
  <2>1. ASSUME NEW n \in Route!Rows, Route!LimitPasses(n) PROVE late' \subseteq Route!Rows
    BY <2>1 DEF Route!LimitPasses, Flags
  <2>2. ASSUME ~\E n \in Route!Rows : Route!LimitPasses(n) PROVE late' = late
    BY <2>2 DEF Route!Next, Route!Handler, Route!Begins, Route!Binds, Route!MakeTaken, Route!MakeTakenLate, Route!MakeAnswered,
       Route!MakeRefused, Route!LiveSession, Route!Prompts, Route!Finds, Route!PostTaken, Route!PostAnswered,
       Route!PostRefused, Route!CallGone, Route!ReadsStatus, Route!ReadsAnswer, Route!Breaks, Route!Removed,
       Route!HealingAges, Route!Speaks, Route!Finishes, Route!durable, Route!vars
  <2> QED
    BY <2>1, <2>2 DEF Flags
<1>4. loose'.at \in {"rest"} \cup Route!Making
  <2>1. loose' = loose \/ loose' = Route!Rest \/ (loose' = step /\ step.at \in Route!Making)
    BY DEF Route!Next, Route!Handler, Route!Begins, Route!Binds, Route!MakeTaken, Route!MakeTakenLate, Route!MakeAnswered,
       Route!MakeRefused, Route!LiveSession, Route!Prompts, Route!Finds, Route!PostTaken, Route!PostAnswered,
       Route!PostRefused, Route!CallGone, Route!ReadsStatus, Route!ReadsAnswer, Route!Breaks, Route!Removed,
       Route!HealingAges, Route!LimitPasses, Route!Speaks, Route!Finishes, Route!durable, Route!conductor, Route!vars
  <2> QED
    BY <2>1 DEF Flags, Route!Rest
<1> QED
  BY <1>1, <1>2, <1>3, <1>4 DEF Flags

LEMMA RouteTypedStep ==
  ASSUME Route!RouterAssumption, RouterInv, RouteTyped, [Route!Next]_(Route!vars)
  PROVE  RouteTyped'
<1>1. Proposed' /\ Flags' /\ \A k \in Route!Rows : Worn(ask'[k])
  BY ProposedStep, FlagsStep, WornStep DEF RouteTyped, RouterInv, TalkInv
<1> QED
  BY <1>1 DEF RouteTyped

-----------------------------------------------------------------------------
(***************************************************************************)
(* The thread that the bot follows.  No turn is started beside another     *)
(* because a thread whose turn is open either works or ends in the owner's *)
(* message, which a send sees when it looks; and between its look and its  *)
(* post nothing but its own message can open one.  No reply is skipped     *)
(* because what the poller forwards is the transcript behind what it has   *)
(* forwarded, as long as Conductor has not rebuilt it.                     *)
(***************************************************************************)
CONSTANTS
    ThreadSends,     \* messages of the owner, the first prompt among them
    ThreadReplies,   \* replies of the agent
    ThreadStops,     \* presses of Stop
    ThreadRebuilds,  \* transcripts rebuilt by Conductor
    ThreadSetbacks   \* failed calls and deaths of the bot's process

VARIABLES threadRow, intent, cycle, cursor, log, epoch, answerer, open, sender, cable, halt, poll, shown,
    lapsed, tally

Thread == INSTANCE SessionPoll WITH MaxSends <- ThreadSends, MaxReplies <- ThreadReplies,
    MaxStops <- ThreadStops, MaxRebuilds <- ThreadRebuilds, MaxSetbacks <- ThreadSetbacks,
    row <- threadRow, agent <- answerer, wire <- cable, stop <- halt, count <- tally

Message == [role : {"user", "assistant"}, of : Nat, tag : Nat]
ThreadCursor == [epoch : Nat, at : Nat, named : BOOLEAN]

ThreadShape ==
    /\ log \in Seq(Message) /\ cursor \in ThreadCursor /\ epoch \in Nat
    /\ tally \in [sends : Nat, replies : Nat, stops : Nat, setbacks : Nat]
    /\ sender = [pc |-> sender.pc, id |-> sender.id, prev |-> sender.prev, mine |-> sender.mine]
    /\ sender.id \in Nat /\ cable \subseteq Nat /\ open \subseteq Nat
    /\ poll = [pc |-> poll.pc, row |-> poll.row, status |-> poll.status, batch |-> poll.batch,
               from |-> poll.from, epoch |-> poll.epoch, canceling |-> poll.canceling]
    /\ poll.pc = "forward" => /\ poll.batch \in Seq(Message) /\ poll.batch # << >>
                              /\ poll.from \in Nat /\ poll.epoch \in Nat

\* A turn is open, or about to be, for one message; a send that will post has seen none.
TurnAlone ==
    /\ \A m, n \in open \cup cable : m = n
    /\ cable # {} => open = {} /\ (sender.pc = "dead" \/ (sender.pc = "posted" /\ cable = {sender.id}))
    /\ sender.pc = "post" => open = {}

\* A thread that rests with a turn open has the owner's message at its end.
TurnShows == answerer = "idle" /\ open # {} => log # << >> /\ log[Len(log)].role = "user"

\* The replies among the first n entries were forwarded, or a new cursor passed them over.
ReadTo(n) == /\ n <= Len(log)
           /\ \A i \in 1..n : log[i].tag # 0 => log[i].tag \in shown \cup lapsed
CursorTold == cursor.named /\ cursor.epoch = epoch => ReadTo(cursor.at)
BatchTold == poll.pc = "forward" /\ poll.epoch = epoch =>
                 /\ ReadTo(poll.from) /\ poll.from + Len(poll.batch) <= Len(log)
                 /\ \A i \in 1..Len(poll.batch) : poll.batch[i] = log[poll.from + i]

\* Conductor's rebuilds so far are the only ones anybody has heard of.
EpochsPast == cursor.epoch <= epoch /\ (poll.pc = "forward" => poll.epoch <= epoch)

ThreadInv == ThreadShape /\ TurnAlone /\ TurnShows /\ CursorTold /\ BatchTold /\ EpochsPast

LEMMA ThreadInit == Thread!Init => ThreadInv
<1> SUFFICES ASSUME Thread!Init PROVE ThreadInv
  OBVIOUS
<1>1. /\ log = << [role |-> "user", of |-> 1, tag |-> 0] >> /\ open = {1} /\ cable = {} /\ epoch = 1
      /\ cursor = [epoch |-> 1, at |-> 1, named |-> TRUE]
      /\ tally = [sends |-> 1, replies |-> 0, stops |-> 0, setbacks |-> 0]
  BY DEF Thread!Init, Thread!User
<1>2. /\ sender = [pc |-> "idle", id |-> 0, prev |-> Thread!Cycle("none", 0),
                    mine |-> Thread!Cycle("none", 0)]
      /\ poll = [pc |-> "idle", row |-> "none", status |-> "none", batch |-> << >>, from |-> 0,
                 epoch |-> 0, canceling |-> FALSE]
  BY DEF Thread!Init, Thread!SendIdle, Thread!PollIdle
<1>3. log \in Seq(Message) /\ Len(log) = 1 /\ log[1].role = "user" /\ log[1].tag = 0 /\ log # << >>
  BY <1>1 DEF Message
<1>4. ThreadShape
  BY <1>1, <1>2, <1>3 DEF ThreadShape, ThreadCursor
<1> QED
  BY <1>1, <1>2, <1>3, <1>4 DEF ThreadInv, TurnAlone, TurnShows, CursorTold, BatchTold, EpochsPast, ReadTo

\* The transcript keeps its entries, and what was told stays told.
LEMMA ThreadTellsStay ==
  ASSUME ThreadInv, log' \in Seq(Message), Len(log) <= Len(log'),
         \A i \in 1..Len(log) : log'[i] = log[i], shown \cup lapsed \subseteq shown' \cup lapsed',
         UNCHANGED <<cursor, epoch>>, poll' = poll \/ poll'.pc # "forward"
  PROVE  CursorTold' /\ BatchTold' /\ EpochsPast'
<1>1. ThreadShape /\ CursorTold /\ BatchTold /\ EpochsPast /\ Len(log) \in Nat /\ Len(log') \in Nat
  BY DEF ThreadInv, ThreadShape
<1>2. \A n \in Nat : ReadTo(n) => /\ n <= Len(log')
                                /\ \A i \in 1..n : log'[i].tag # 0 => log'[i].tag \in shown' \cup lapsed'
  BY <1>1 DEF ReadTo
<1>3. CursorTold'
  BY <1>1, <1>2 DEF CursorTold, ReadTo, ThreadShape, ThreadCursor
<1>4. BatchTold'
  <2> SUFFICES ASSUME poll'.pc = "forward", poll'.epoch = epoch' PROVE BatchTold'
    BY DEF BatchTold
  <2>1. /\ poll' = poll /\ poll.pc = "forward" /\ poll.epoch = epoch /\ poll.from \in Nat
        /\ poll.batch \in Seq(Message) /\ Len(poll.batch) \in Nat
    BY <1>1 DEF ThreadShape
  <2>2. /\ ReadTo(poll.from) /\ poll.from + Len(poll.batch) <= Len(log)
        /\ \A i \in 1..Len(poll.batch) : poll.batch[i] = log[poll.from + i]
    BY <1>1, <2>1 DEF BatchTold
  <2>3. \A i \in 1..Len(poll.batch) : poll.from + i \in 1..Len(log)
    BY <1>1, <2>1, <2>2
  <2>4. \A i \in 1..Len(poll.batch) : poll.batch[i] = log'[poll.from + i]
    BY <2>2, <2>3
  <2>5. poll'.from = poll.from /\ poll'.batch = poll.batch
    BY <2>1
  <2>6. ReadTo(poll.from)'
    BY <1>2, <2>1, <2>2 DEF ReadTo
  <2>7. poll'.from + Len(poll'.batch) <= Len(log')
    BY <1>1, <2>1, <2>2, <2>5
  <2>8. \A i \in 1..Len(poll'.batch) : poll'.batch[i] = log'[poll'.from + i]
    BY <2>4, <2>5
  <2> QED
    BY <2>6, <2>7, <2>8 DEF BatchTold
<1> QED
  BY <1>1, <1>3, <1>4 DEF EpochsPast

LEMMA ThreadAgentStep == ASSUME ThreadInv, Thread!Agent PROVE ThreadInv'
<1>1. ThreadShape /\ TurnAlone /\ TurnShows /\ EpochsPast /\ Len(log) \in Nat
  BY DEF ThreadInv, ThreadShape
<1>2. CASE Thread!AgentStarts
  <2>1. /\ UNCHANGED <<cursor, log, epoch, open, sender, cable, poll, shown, lapsed, tally>>
        /\ answerer' = "working"
    BY <1>2 DEF Thread!AgentStarts
  <2>2. ThreadShape' /\ TurnAlone' /\ TurnShows'
    BY <1>1, <2>1 DEF ThreadShape, TurnAlone, TurnShows
  <2>3. log' \in Seq(Message)
    BY <1>1, <2>1 DEF ThreadShape
  <2> QED
    BY <1>1, <2>1, <2>2, <2>3, ThreadTellsStay DEF ThreadInv
<1>3. CASE Thread!AgentReplies
  <2>1. /\ UNCHANGED <<cursor, epoch, answerer, open, sender, cable, poll, shown, lapsed>>
        /\ answerer = "working" /\ tally' = [tally EXCEPT !.replies = @ + 1]
        /\ log' = Append(log, [role |-> "assistant", of |-> 0, tag |-> tally.replies + 1])
    BY <1>3 DEF Thread!AgentReplies, Thread!Reply
  <2>2. [role |-> "assistant", of |-> 0, tag |-> tally.replies + 1] \in Message
    BY <1>1 DEF ThreadShape, Message
  <2>3. log' \in Seq(Message) /\ Len(log') = Len(log) + 1 /\ \A i \in 1..Len(log) : log'[i] = log[i]
    BY <1>1, <2>1, <2>2 DEF ThreadShape
  <2>4. tally' \in [sends : Nat, replies : Nat, stops : Nat, setbacks : Nat]
    BY <1>1, <2>1 DEF ThreadShape
  <2>5. ThreadShape' /\ TurnAlone' /\ TurnShows'
    BY <1>1, <2>1, <2>3, <2>4 DEF ThreadShape, TurnAlone, TurnShows
  <2> QED
    BY <1>1, <2>1, <2>3, <2>5, ThreadTellsStay DEF ThreadInv
<1>4. CASE Thread!AgentEnds
  <2>1. UNCHANGED <<cursor, log, epoch, sender, cable, poll, shown, lapsed, tally>> /\ open' = {}
    BY <1>4 DEF Thread!AgentEnds
  <2>2. ThreadShape' /\ TurnAlone' /\ TurnShows'
    BY <1>1, <2>1 DEF ThreadShape, TurnAlone, TurnShows
  <2>3. log' \in Seq(Message)
    BY <1>1, <2>1 DEF ThreadShape
  <2> QED
    BY <1>1, <2>1, <2>2, <2>3, ThreadTellsStay DEF ThreadInv
<1>5. CASE Thread!Rebuild
  <2>1. /\ UNCHANGED <<cursor, answerer, open, sender, cable, poll, shown, lapsed, tally>>
        /\ open = {} /\ cable = {} /\ epoch' = epoch + 1
    BY <1>5 DEF Thread!Rebuild
  <2>2. PICK k \in 2..Len(log) :
          log' = [i \in 1..(Len(log) + 1 - k) |-> [log[i + k - 1] EXCEPT !.of = 0]]
    BY <1>5 DEF Thread!Rebuild
  <2>3. \A i \in 1..(Len(log) + 1 - k) : [log[i + k - 1] EXCEPT !.of = 0] \in Message
    <3> TAKE i \in 1..(Len(log) + 1 - k)
    <3>1. i + k - 1 \in 1..Len(log)
      BY <1>1
    <3>2. log[i + k - 1] \in Message
      BY <1>1, <3>1 DEF ThreadShape
    <3> QED
      BY <3>2 DEF Message
  <2>4. log' \in Seq(Message)
    <3>1. Len(log) + 1 - k \in Nat
      BY <1>1
    <3>2. log' \in [1..(Len(log) + 1 - k) -> Message]
      BY <2>2, <2>3
    <3> QED
      BY <3>1, <3>2 DEF Seq
  <2>5. ThreadShape'
    BY <1>1, <2>1, <2>4 DEF ThreadShape
  <2>6. cursor'.epoch # epoch' /\ (poll'.pc = "forward" => poll'.epoch # epoch') /\ EpochsPast'
    BY <1>1, <2>1 DEF EpochsPast, ThreadShape, ThreadCursor
  <2> QED
    BY <1>1, <2>1, <2>5, <2>6 DEF ThreadInv, TurnAlone, TurnShows, CursorTold, BatchTold
<1> QED
  BY <1>2, <1>3, <1>4, <1>5 DEF Thread!Agent

\* What concerns only the turns: the poller's visit and what it told stay.
LEMMA ThreadTurnStep ==
  ASSUME ThreadInv, UNCHANGED <<cursor, log, epoch, shown, lapsed>>,
         poll' = poll \/ poll' = Thread!PollIdle,
         tally' \in [sends : Nat, replies : Nat, stops : Nat, setbacks : Nat],
         sender' = [pc |-> sender'.pc, id |-> sender'.id, prev |-> sender'.prev, mine |-> sender'.mine],
         sender'.id \in Nat, cable' \subseteq Nat, open' \subseteq Nat, TurnAlone', TurnShows'
  PROVE  ThreadInv'
<1>1. ThreadShape /\ log' \in Seq(Message)
  BY DEF ThreadInv, ThreadShape
<1>2. poll' = [pc |-> poll'.pc, row |-> poll'.row, status |-> poll'.status, batch |-> poll'.batch,
               from |-> poll'.from, epoch |-> poll'.epoch, canceling |-> poll'.canceling]
  BY <1>1 DEF ThreadShape, Thread!PollIdle
<1>3. poll' = poll \/ poll'.pc # "forward"
  BY DEF Thread!PollIdle
<1>4. ThreadShape'
  BY <1>1, <1>2, <1>3 DEF ThreadShape
<1>5. CursorTold' /\ BatchTold' /\ EpochsPast'
  <2>1. Len(log) <= Len(log') /\ \A i \in 1..Len(log) : log'[i] = log[i]
    BY <1>1 DEF ThreadShape
  <2> QED
    BY <1>1, <1>3, <2>1, ThreadTellsStay
<1> QED
  BY <1>4, <1>5 DEF ThreadInv

LEMMA ThreadOwnerStep == ASSUME ThreadInv, Thread!Owner PROVE ThreadInv'
<1>1. ThreadShape /\ TurnAlone /\ TurnShows
  BY DEF ThreadInv
<1> DEFINE Rest == /\ UNCHANGED <<cursor, log, epoch, answerer, open, shown, lapsed, poll>>
                   /\ tally' \in [sends : Nat, replies : Nat, stops : Nat, setbacks : Nat]
           Kept == /\ sender' = [pc |-> sender'.pc, id |-> sender'.id, prev |-> sender'.prev,
                                 mine |-> sender'.mine]
                   /\ sender'.id \in Nat /\ cable' \subseteq Nat
<1>2. ASSUME Rest, Kept, TurnAlone' PROVE ThreadInv'
  <2>1. open' \subseteq Nat /\ TurnShows'
    BY <1>1, <1>2 DEF ThreadShape, TurnShows
  <2> QED
    BY <1>2, <2>1, ThreadTurnStep
<1>3. \A c : Thread!SendIdle.pc = "idle" /\ Thread!SendIdle.id = 0
             /\ Thread!SendIdle = [pc |-> "idle", id |-> 0, prev |-> Thread!SendIdle.prev,
                                   mine |-> Thread!SendIdle.mine]
  BY DEF Thread!SendIdle
<1>4. Thread!Setback => tally' \in [sends : Nat, replies : Nat, stops : Nat, setbacks : Nat]
  BY <1>1 DEF ThreadShape, Thread!Setback
<1>5. CASE Thread!SendReserve
  <2>1. /\ sender.pc = "idle" /\ cable' = cable /\ tally' = [tally EXCEPT !.sends = @ + 1]
        /\ sender' = [pc |-> "look", id |-> tally.sends + 1, prev |-> cycle, mine |-> cycle']
        /\ UNCHANGED <<cursor, log, epoch, answerer, open, shown, lapsed, poll>>
    BY <1>5 DEF Thread!SendReserve
  <2>2. Rest /\ Kept
    BY <1>1, <2>1 DEF ThreadShape
  <2>3. TurnAlone'
    BY <1>1, <2>1 DEF TurnAlone
  <2> QED
    BY <1>2, <2>2, <2>3
<1>6. CASE Thread!SendLook
  <2>1. /\ sender.pc = "look"
        /\ UNCHANGED <<cursor, log, epoch, answerer, open, shown, lapsed, poll, cable, tally>>
    BY <1>6 DEF Thread!SendLook
  <2>2. Rest
    BY <1>1, <2>1 DEF ThreadShape
  <2>3. CASE sender' = Thread!SendIdle
    <3>1. Kept /\ TurnAlone'
      BY <1>1, <1>3, <2>1, <2>3 DEF ThreadShape, TurnAlone
    <3> QED
      BY <1>2, <2>2, <3>1
  <2>4. CASE ~(answerer # "idle" \/ (log # <<>> /\ Thread!Last(log).role = "user"))
    <3>1. PICK mine : sender' = [[sender EXCEPT !.pc = "post"] EXCEPT !.mine = mine]
      BY <1>6, <2>4 DEF Thread!SendLook
    <3>2. sender'.pc = "post" /\ sender'.id = sender.id
          /\ sender' = [pc |-> "post", id |-> sender.id, prev |-> sender.prev, mine |-> mine]
      BY <1>1, <3>1 DEF ThreadShape
    <3>3. open = {}
      BY <1>1, <2>4 DEF TurnShows, Thread!Last
    <3>4. Kept /\ TurnAlone'
      BY <1>1, <2>1, <3>2, <3>3 DEF ThreadShape, TurnAlone
    <3> QED
      BY <1>2, <2>2, <3>4
  <2> QED
    BY <1>6, <2>3, <2>4 DEF Thread!SendLook
<1>7. CASE Thread!SendPost
  <2>1. /\ sender.pc = "post"
        /\ UNCHANGED <<cursor, log, epoch, answerer, open, shown, lapsed, poll, tally>>
    BY <1>7 DEF Thread!SendPost
  <2>2. \/ sender' = Thread!SendIdle /\ cable' = cable
        \/ sender' = [sender EXCEPT !.pc = "posted"] /\ cable' = cable \cup {sender.id}
    BY <1>7 DEF Thread!SendPost
  <2>3. Rest
    BY <1>1, <2>1 DEF ThreadShape
  <2>4. open = {} /\ cable = {}
    BY <1>1, <2>1 DEF TurnAlone
  <2>5. CASE sender' = Thread!SendIdle /\ cable' = cable
    BY <1>1, <1>2, <1>3, <2>1, <2>3, <2>4, <2>5 DEF ThreadShape, TurnAlone
  <2>6. CASE sender' = [sender EXCEPT !.pc = "posted"] /\ cable' = cable \cup {sender.id}
    <3>1. sender' = [pc |-> "posted", id |-> sender.id, prev |-> sender.prev, mine |-> sender.mine]
      BY <1>1, <2>6 DEF ThreadShape
    <3>2. Kept /\ TurnAlone'
      BY <1>1, <2>1, <2>4, <2>6, <3>1 DEF ThreadShape, TurnAlone
    <3> QED
      BY <1>2, <2>3, <3>2
  <2> QED
    BY <2>2, <2>5, <2>6
<1>8. CASE Thread!SendAnswered
  <2>1. /\ sender.pc = "posted" /\ sender' = Thread!SendIdle /\ sender.id \notin cable
        /\ UNCHANGED <<cursor, log, epoch, answerer, open, shown, lapsed, poll, tally, cable>>
    BY <1>8 DEF Thread!SendAnswered
  <2>2. Rest /\ Kept
    BY <1>1, <1>3, <2>1 DEF ThreadShape
  <2>3. TurnAlone'
    BY <1>1, <1>3, <2>1 DEF TurnAlone
  <2> QED
    BY <1>2, <2>2, <2>3
<1>9. CASE Thread!SendFails
  <2>1. /\ sender.pc \in {"look", "posted"} /\ sender' = Thread!SendIdle /\ cable' = cable \ {sender.id}
        /\ UNCHANGED <<cursor, log, epoch, answerer, open, shown, lapsed, poll>>
    BY <1>9 DEF Thread!SendFails
  <2>2. Rest
    BY <1>4, <1>9, <2>1 DEF Thread!SendFails
  <2>3. Kept /\ cable' = {}
    BY <1>1, <1>3, <2>1 DEF ThreadShape, TurnAlone
  <2>4. TurnAlone'
    BY <1>1, <1>3, <2>1, <2>3 DEF TurnAlone
  <2> QED
    BY <1>2, <2>2, <2>3, <2>4
<1>10. CASE Thread!StopAsked
  <2>1. /\ UNCHANGED <<cursor, log, epoch, answerer, open, sender, cable, shown, lapsed, poll>>
        /\ tally' = [tally EXCEPT !.stops = @ + 1]
    BY <1>10 DEF Thread!StopAsked
  <2>2. Rest
    BY <1>1, <2>1 DEF ThreadShape
  <2>3. Kept /\ TurnAlone'
    BY <1>1, <2>1 DEF ThreadShape, TurnAlone
  <2> QED
    BY <1>2, <2>2, <2>3
<1> QED
  BY <1>5, <1>6, <1>7, <1>8, <1>9, <1>10 DEF Thread!Owner

LEMMA ThreadAcceptStep == ASSUME ThreadInv, Thread!Accepted PROVE ThreadInv'
<1>1. ThreadShape /\ TurnAlone /\ Len(log) \in Nat
  BY DEF ThreadInv, ThreadShape
<1>2. PICK n \in cable : Thread!Accept(n)
  BY DEF Thread!Accepted
<1>3. /\ UNCHANGED <<cursor, epoch, answerer, sender, poll, shown, lapsed, tally>>
      /\ cable' = cable \ {n} /\ open' = open \cup {n}
      /\ log' = Append(log, [role |-> "user", of |-> n, tag |-> 0])
  BY <1>2 DEF Thread!Accept, Thread!User
<1>4. open = {} /\ cable = {n} /\ n \in Nat /\ sender.pc # "post"
  BY <1>1, <1>2 DEF TurnAlone, ThreadShape
<1>5. [role |-> "user", of |-> n, tag |-> 0] \in Message
  BY <1>4 DEF Message
<1>6. /\ log' \in Seq(Message) /\ Len(log') = Len(log) + 1 /\ \A i \in 1..Len(log) : log'[i] = log[i]
      /\ log'[Len(log')].role = "user" /\ log' # << >>
  <2>1. log \in Seq(Message)
    BY <1>1 DEF ThreadShape
  <2>2. Len(log') = Len(log) + 1 /\ log'[Len(log) + 1] = [role |-> "user", of |-> n, tag |-> 0]
    BY <1>3, <1>5, <2>1
  <2>3. log' \in Seq(Message) /\ \A i \in 1..Len(log) : log'[i] = log[i]
    BY <1>3, <1>5, <2>1
  <2> QED
    BY <1>1, <2>2, <2>3
<1>7. open' = {n} /\ cable' = {}
  BY <1>3, <1>4
<1>8. ThreadShape'
  BY <1>1, <1>3, <1>4, <1>6, <1>7 DEF ThreadShape
<1>9. TurnAlone' /\ TurnShows'
  BY <1>3, <1>4, <1>6, <1>7 DEF TurnAlone, TurnShows
<1> QED
  BY <1>1, <1>3, <1>6, <1>8, <1>9, ThreadTellsStay DEF ThreadInv

LEMMA ThreadStopStep ==
  ASSUME ThreadInv, Thread!Stopping \/ Thread!LeaseExpires \/ Thread!Ages \/ Thread!Crash
  PROVE  ThreadInv'
<1>1. ThreadShape /\ TurnAlone /\ TurnShows
  BY DEF ThreadInv
<1> DEFINE Rest == /\ UNCHANGED <<cursor, log, epoch, shown, lapsed>> /\ poll' = poll
                   /\ tally' = tally
           Kept == /\ sender' = [pc |-> sender'.pc, id |-> sender'.id, prev |-> sender'.prev,
                                 mine |-> sender'.mine]
                   /\ sender'.id \in Nat /\ cable' \subseteq Nat /\ open' \subseteq Nat
<1>2. ASSUME Rest, Kept, TurnAlone', TurnShows' PROVE ThreadInv'
  <2>1. tally' \in [sends : Nat, replies : Nat, stops : Nat, setbacks : Nat]
    BY <1>1, <1>2 DEF ThreadShape
  <2> QED
    BY <1>2, <2>1, ThreadTurnStep
<1>3. CASE (Thread!StopBegins \/ Thread!StopConfirms) \/ Thread!Ages
  <2>1. Rest /\ UNCHANGED <<sender, cable, open, answerer, log>>
    BY <1>3 DEF Thread!StopBegins, Thread!StopConfirms, Thread!Ages
  <2>2. Kept /\ TurnAlone' /\ TurnShows'
    BY <1>1, <2>1 DEF ThreadShape, TurnAlone, TurnShows
  <2> QED
    BY <1>2, <2>1, <2>2
<1>4. CASE Thread!StopCancels
  <2>1. Rest /\ UNCHANGED <<sender, cable, log>> /\ open' = {}
    BY <1>4 DEF Thread!StopCancels
  <2>2. Kept /\ TurnAlone' /\ TurnShows'
    BY <1>1, <2>1 DEF ThreadShape, TurnAlone, TurnShows
  <2> QED
    BY <1>2, <2>1, <2>2
<1>5. CASE Thread!LeaseExpires
  <2>1. Rest /\ UNCHANGED <<open, answerer, log>> /\ cable' = {} /\ sender' = Thread!SendIdle
    BY <1>5 DEF Thread!LeaseExpires
  <2>2. Kept /\ sender'.pc = "idle"
    BY <1>1, <2>1 DEF ThreadShape, Thread!SendIdle
  <2>3. TurnAlone' /\ TurnShows'
    BY <1>1, <2>1, <2>2 DEF TurnAlone, TurnShows
  <2> QED
    BY <1>2, <2>1, <2>2, <2>3
<1>6. CASE Thread!Crash
  <2>1. /\ UNCHANGED <<cursor, log, epoch, shown, lapsed, open, answerer, cable>>
        /\ poll' = Thread!PollIdle
    BY <1>6 DEF Thread!Crash
  <2>2. tally' \in [sends : Nat, replies : Nat, stops : Nat, setbacks : Nat]
    BY <1>1, <1>6 DEF ThreadShape, Thread!Crash, Thread!Setback
  <2>3. (sender.pc = "idle" /\ sender' = sender) \/ sender' = [Thread!SendIdle EXCEPT !.pc = "dead"]
    BY <1>6 DEF Thread!Crash
  <2>4. Kept /\ (sender'.pc = "dead" \/ (sender.pc = "idle" /\ sender' = sender))
    BY <1>1, <2>1, <2>3 DEF ThreadShape, Thread!SendIdle
  <2>5. TurnAlone' /\ TurnShows'
    BY <1>1, <2>1, <2>4 DEF TurnAlone, TurnShows
  <2> QED
    BY <2>1, <2>2, <2>4, <2>5, ThreadTurnStep
<1> QED
  BY <1>3, <1>4, <1>5, <1>6 DEF Thread!Stopping

\* What concerns only the poller: no turn opens or ends.
LEMMA ThreadVisitStep ==
  ASSUME ThreadInv, UNCHANGED <<log, epoch, answerer, open, sender, cable>>,
         tally' \in [sends : Nat, replies : Nat, stops : Nat, setbacks : Nat], cursor' \in ThreadCursor,
         poll' = [pc |-> poll'.pc, row |-> poll'.row, status |-> poll'.status, batch |-> poll'.batch,
                  from |-> poll'.from, epoch |-> poll'.epoch, canceling |-> poll'.canceling],
         poll'.pc = "forward" => /\ poll'.batch \in Seq(Message) /\ poll'.batch # << >>
                                 /\ poll'.from \in Nat /\ poll'.epoch \in Nat,
         CursorTold', BatchTold', EpochsPast'
  PROVE  ThreadInv'
<1>1. ThreadShape /\ TurnAlone /\ TurnShows
  BY DEF ThreadInv
<1>2. ThreadShape'
  BY <1>1 DEF ThreadShape
<1>3. TurnAlone' /\ TurnShows'
  BY <1>1 DEF TurnAlone, TurnShows
<1> QED
  BY <1>2, <1>3 DEF ThreadInv

\* The visit goes on or ends and forwards nothing.
LEMMA ThreadQuietVisit ==
  ASSUME ThreadInv, UNCHANGED <<log, cursor, epoch, answerer, open, sender, cable, shown, lapsed>>,
         tally' = tally \/ Thread!Setback, poll'.pc # "forward",
         poll' = [pc |-> poll'.pc, row |-> poll'.row, status |-> poll'.status, batch |-> poll'.batch,
                  from |-> poll'.from, epoch |-> poll'.epoch, canceling |-> poll'.canceling]
  PROVE  ThreadInv'
<1>1. ThreadShape
  BY DEF ThreadInv
<1>2. tally' \in [sends : Nat, replies : Nat, stops : Nat, setbacks : Nat]
  BY <1>1 DEF ThreadShape, Thread!Setback
<1>3. log' \in Seq(Message) /\ Len(log) <= Len(log') /\ cursor' \in ThreadCursor
  BY <1>1 DEF ThreadShape
<1>4. CursorTold' /\ BatchTold' /\ EpochsPast'
  BY <1>3, ThreadTellsStay
<1> QED
  BY <1>2, <1>3, <1>4, ThreadVisitStep

LEMMA ThreadPollStep ==
  ASSUME ThreadInv,
         Thread!PollBegins \/ Thread!PollStatus \/ Thread!PollListFails \/ Thread!PollForwardFails
            \/ Thread!PollSettle
  PROVE  ThreadInv'
<1>1. ThreadShape
  BY DEF ThreadInv
<1>2. CASE Thread!PollBegins
  <2>1. /\ UNCHANGED <<log, cursor, epoch, answerer, open, sender, cable, shown, lapsed, tally>>
        /\ poll' = [[Thread!PollIdle EXCEPT !.pc = "status"] EXCEPT !.row = threadRow]
    BY <1>2 DEF Thread!PollBegins
  <2>2. poll' = [pc |-> "status", row |-> threadRow, status |-> "none", batch |-> << >>, from |-> 0,
                 epoch |-> 0, canceling |-> FALSE]
    BY <2>1 DEF Thread!PollIdle
  <2> QED
    BY <2>1, <2>2, ThreadQuietVisit
<1>3. CASE Thread!PollStatus
  <2>1. /\ UNCHANGED <<log, cursor, epoch, answerer, open, sender, cable, shown, lapsed>>
        /\ tally' = tally \/ Thread!Setback
    BY <1>3 DEF Thread!PollStatus
  <2>2. PICK status : poll' = [[poll EXCEPT !.pc = "cursor"] EXCEPT !.status = status]
    BY <1>3 DEF Thread!PollStatus
  <2>3. poll' = [pc |-> "cursor", row |-> poll.row, status |-> status, batch |-> poll.batch,
                 from |-> poll.from, epoch |-> poll.epoch, canceling |-> poll.canceling]
    BY <1>1, <2>2 DEF ThreadShape
  <2> QED
    BY <2>1, <2>3, ThreadQuietVisit
<1>4. CASE Thread!PollListFails
  <2>1. /\ UNCHANGED <<log, cursor, epoch, answerer, open, sender, cable, shown, lapsed>>
        /\ Thread!Setback /\ Thread!Listed(<< >>, 0)
    BY <1>4 DEF Thread!PollListFails
  <2>2. poll' = [pc |-> "settle", row |-> poll.row, status |-> poll.status, batch |-> << >>, from |-> 0,
                 epoch |-> epoch, canceling |-> cycle.phase = "canceling"]
    BY <2>1 DEF Thread!Listed
  <2> QED
    BY <2>1, <2>2, ThreadQuietVisit
<1>5. CASE Thread!PollForwardFails \/ Thread!PollSettle
  <2>1. /\ UNCHANGED <<log, cursor, epoch, answerer, open, sender, cable, shown, lapsed>>
        /\ poll' = Thread!PollIdle /\ (tally' = tally \/ Thread!Setback)
    BY <1>5 DEF Thread!PollForwardFails, Thread!PollSettle
  <2>2. poll'.pc # "forward"
        /\ poll' = [pc |-> poll'.pc, row |-> poll'.row, status |-> poll'.status, batch |-> poll'.batch,
                    from |-> poll'.from, epoch |-> poll'.epoch, canceling |-> poll'.canceling]
    BY <2>1 DEF Thread!PollIdle
  <2> QED
    BY <2>1, <2>2, ThreadQuietVisit
<1> QED
  BY <1>2, <1>3, <1>4, <1>5

\* A listing is what the transcript holds behind a place up to which all was told.
LEMMA ThreadListedTold ==
  ASSUME ThreadInv, NEW batch \in Seq(Message), NEW from \in Nat, Thread!Listed(batch, from),
         ReadTo(from), from + Len(batch) <= Len(log), \A i \in 1..Len(batch) : batch[i] = log[from + i],
         UNCHANGED <<log, epoch, answerer, open, sender, cable, shown, lapsed, tally>>,
         cursor' = cursor \/ cursor' = Thread!NoCursor
  PROVE  ThreadInv'
<1>1. ThreadShape /\ CursorTold /\ EpochsPast
  BY DEF ThreadInv
<1>2. poll' = [pc |-> IF batch = <<>> THEN "settle" ELSE "forward", row |-> poll.row,
               status |-> poll.status, batch |-> batch, from |-> from, epoch |-> epoch,
               canceling |-> cycle.phase = "canceling"]
  BY DEF Thread!Listed
<1>3. /\ poll'.batch = batch /\ poll'.from = from /\ poll'.epoch = epoch
      /\ poll'.pc = IF batch = << >> THEN "settle" ELSE "forward"
      /\ poll' = [pc |-> poll'.pc, row |-> poll'.row, status |-> poll'.status, batch |-> poll'.batch,
                  from |-> poll'.from, epoch |-> poll'.epoch, canceling |-> poll'.canceling]
  BY <1>2
<1>4. epoch \in Nat /\ tally' \in [sends : Nat, replies : Nat, stops : Nat, setbacks : Nat]
  BY <1>1 DEF ThreadShape
<1>5. cursor' \in ThreadCursor /\ (cursor' = cursor \/ (cursor'.named = FALSE /\ cursor'.epoch = 0))
  <2>1. Thread!NoCursor \in ThreadCursor
    BY DEF ThreadCursor, Thread!NoCursor
  <2>2. cursor \in ThreadCursor
    BY <1>1 DEF ThreadShape
  <2>3. Thread!NoCursor.named = FALSE /\ Thread!NoCursor.epoch = 0
    BY DEF Thread!NoCursor
  <2> QED
    BY <2>1, <2>2, <2>3
<1>6. CursorTold'
  BY <1>1, <1>5 DEF CursorTold, ReadTo
<1>7. ReadTo(poll.from)'
  BY <1>3 DEF ReadTo
<1>8. /\ (poll.from + Len(poll.batch) <= Len(log))'
      /\ (\A i \in 1..Len(poll.batch) : poll.batch[i] = log[poll.from + i])'
  BY <1>3
<1>9. BatchTold'
  BY <1>7, <1>8 DEF BatchTold
<1>10. EpochsPast'
  BY <1>1, <1>3, <1>4, <1>5 DEF EpochsPast
<1>11. poll'.pc = "forward" => /\ poll'.batch \in Seq(Message) /\ poll'.batch # << >>
                               /\ poll'.from \in Nat /\ poll'.epoch \in Nat
  BY <1>3, <1>4
<1> HIDE DEF Thread!NoCursor
<1> QED
  BY <1>3, <1>4, <1>5, <1>6, <1>9, <1>10, <1>11, ThreadVisitStep

LEMMA ThreadListStep == ASSUME ThreadInv, Thread!PollList PROVE ThreadInv'
<1>1. ThreadShape /\ CursorTold /\ Len(log) \in Nat
  BY DEF ThreadInv, ThreadShape
<1>2. UNCHANGED <<log, epoch, answerer, open, sender, cable, shown, lapsed, tally>>
  BY DEF Thread!PollList
<1>3. CASE cursor.named /\ cursor.epoch = epoch
  <2>1. Thread!Listed(SubSeq(log, cursor.at + 1, Len(log)), cursor.at) /\ cursor' = cursor
    BY <1>3 DEF Thread!PollList
  <2>2. PICK place : place = cursor.at
    OBVIOUS
  <2>3. ReadTo(place) /\ place \in Nat /\ place <= Len(log)
    BY <1>1, <1>3, <2>2 DEF CursorTold, ReadTo, ThreadShape, ThreadCursor
  <2>4. PICK batch : batch = SubSeq(log, place + 1, Len(log))
    OBVIOUS
  <2>5. log \in Seq(Message) /\ place + 1 \in Nat \ {0}
    BY <1>1, <2>3 DEF ThreadShape
  <2>6. batch \in Seq(Message) /\ Len(batch) = Len(log) - place
    BY <1>1, <2>3, <2>4, <2>5
  <2>7. \A i \in 1..Len(batch) : batch[i] = log[place + i]
    BY <1>1, <2>3, <2>4, <2>5, <2>6
  <2>8. place + Len(batch) <= Len(log)
    BY <1>1, <2>3, <2>6
  <2>9. Thread!Listed(batch, place)
    BY <2>1, <2>2, <2>4
  <2> QED
    BY <1>2, <2>1, <2>3, <2>6, <2>7, <2>8, <2>9, ThreadListedTold
<1>4. ReadTo(0)
  BY <1>1 DEF ReadTo
<1>5. CASE cursor.named /\ cursor.epoch # epoch
  <2>1. Thread!Listed(log, 0) /\ cursor' = Thread!NoCursor
    BY <1>5 DEF Thread!PollList, Thread!Recover
  <2>2. PICK batch : batch = log
    OBVIOUS
  <2>3. batch \in Seq(Message) /\ Len(batch) \in Nat /\ Thread!Listed(batch, 0)
    BY <1>1, <2>1, <2>2 DEF ThreadShape
  <2>4. 0 + Len(batch) <= Len(log) /\ \A i \in 1..Len(batch) : batch[i] = log[0 + i]
    BY <2>2, <2>3
  <2> QED
    BY <1>2, <1>4, <2>1, <2>3, <2>4, ThreadListedTold
<1>6. CASE ~cursor.named
  <2>1. Thread!Listed(<< >>, 0) /\ cursor' = cursor
    BY <1>6 DEF Thread!PollList
  <2>2. PICK batch, from : batch = << >> /\ from = 0
    OBVIOUS
  <2>3. Len(batch) = 0 /\ from = 0
    BY <2>2
  <2>4. from + Len(batch) <= Len(log) /\ \A i \in 1..Len(batch) : batch[i] = log[from + i]
    BY <1>1, <2>3
  <2>5. ReadTo(from) /\ from \in Nat /\ Thread!Listed(batch, from) /\ batch \in Seq(Message)
    BY <1>4, <2>1, <2>2
  <2> QED
    BY <1>2, <2>1, <2>4, <2>5, ThreadListedTold
<1> QED
  BY <1>3, <1>5, <1>6

LEMMA ThreadCursorStep == ASSUME ThreadInv, Thread!PollCursor PROVE ThreadInv'
<1>1. ThreadShape /\ Len(log) \in Nat /\ EpochsPast
  BY DEF ThreadInv, ThreadShape
<1>2. /\ UNCHANGED <<log, epoch, answerer, open, sender, cable, shown, tally>>
      /\ poll' = [poll EXCEPT !.pc = "list"]
  BY DEF Thread!PollCursor
<1>3. poll' = [pc |-> "list", row |-> poll.row, status |-> poll.status, batch |-> poll.batch,
               from |-> poll.from, epoch |-> poll.epoch, canceling |-> poll.canceling]
  BY <1>1, <1>2 DEF ThreadShape
<1>4. CASE UNCHANGED <<cursor, lapsed>>
  BY <1>2, <1>3, <1>4, ThreadQuietVisit
<1>5. CASE cursor' = Thread!At(Len(log)) /\ lapsed' = lapsed \cup (Thread!Tags(log) \ shown)
  <2>1. cursor' = [epoch |-> epoch, at |-> Len(log), named |-> TRUE]
    BY <1>5 DEF Thread!At
  <2>2. cursor' \in ThreadCursor /\ tally' \in [sends : Nat, replies : Nat, stops : Nat, setbacks : Nat]
    BY <1>1, <1>2, <2>1 DEF ThreadShape, ThreadCursor
  <2>3. \A i \in 1..Len(log) : log[i].tag # 0 => log[i].tag \in shown \cup lapsed'
    <3> SUFFICES ASSUME NEW i \in 1..Len(log), log[i].tag # 0 PROVE log[i].tag \in shown \cup lapsed'
      OBVIOUS
    <3>1. i \in DOMAIN log
      BY <1>1 DEF ThreadShape
    <3>2. log[i].tag \in Thread!Tags(log)
      BY <3>1 DEF Thread!Tags
    <3> QED
      BY <1>5, <3>2
  <2>4. CursorTold'
    BY <1>1, <1>2, <2>1, <2>3 DEF CursorTold, ReadTo
  <2>5. BatchTold' /\ EpochsPast'
    BY <1>1, <1>2, <1>3, <2>1 DEF BatchTold, EpochsPast, ThreadShape
  <2>6. poll'.pc = "list"
    BY <1>3
  <2> QED
    BY <1>2, <1>3, <2>2, <2>4, <2>5, <2>6, ThreadVisitStep
<1> QED
  BY <1>4, <1>5 DEF Thread!PollCursor

LEMMA ThreadForwardStep == ASSUME ThreadInv, Thread!PollForward PROVE ThreadInv'
<1>1. ThreadShape /\ CursorTold /\ BatchTold /\ EpochsPast /\ Len(log) \in Nat
  BY DEF ThreadInv, ThreadShape
<1>2. poll.pc = "forward" /\ UNCHANGED <<log, epoch, answerer, open, sender, cable, lapsed, tally>>
  BY DEF Thread!PollForward
<1>3. PICK batch, from : batch = poll.batch /\ from = poll.from
  OBVIOUS
<1>4. /\ batch \in Seq(Message) /\ batch # << >>
      /\ from \in Nat /\ poll.epoch \in Nat /\ poll.epoch <= epoch
  BY <1>1, <1>2, <1>3 DEF ThreadShape, EpochsPast
<1>5. /\ shown' = IF Head(batch).tag = 0 THEN shown ELSE shown \cup {Head(batch).tag}
      /\ cursor' = Thread!Moved([epoch |-> poll.epoch, at |-> from + 1, named |-> TRUE])
      /\ poll' = [pc |-> IF Tail(batch) = <<>> THEN "settle" ELSE "forward", row |-> poll.row,
                  status |-> poll.status, batch |-> Tail(batch), from |-> from + 1,
                  epoch |-> poll.epoch, canceling |-> poll.canceling]
  BY <1>3 DEF Thread!PollForward
<1>6. PICK rest : rest = Tail(batch)
  OBVIOUS
<1>7. /\ rest \in Seq(Message) /\ Len(rest) = Len(batch) - 1 /\ Len(batch) \in Nat \ {0}
      /\ Head(batch) = batch[1] /\ \A i \in 1..Len(rest) : rest[i] = batch[i + 1]
  BY <1>4, <1>6
<1>8. /\ poll'.batch = rest /\ poll'.from = from + 1 /\ poll'.epoch = poll.epoch
      /\ poll'.pc = IF rest = << >> THEN "settle" ELSE "forward"
      /\ poll' = [pc |-> poll'.pc, row |-> poll'.row, status |-> poll'.status, batch |-> poll'.batch,
                  from |-> poll'.from, epoch |-> poll'.epoch, canceling |-> poll'.canceling]
  BY <1>5, <1>6
<1>9. ASSUME poll.epoch = epoch
      PROVE  /\ from + 1 <= Len(log) /\ from + 1 + Len(rest) <= Len(log)
             /\ \A i \in 1..Len(rest) : rest[i] = log[from + 1 + i]
             /\ \A i \in 1..(from + 1) : log[i].tag # 0 => log[i].tag \in shown' \cup lapsed
  <2>1. /\ ReadTo(from) /\ from + Len(batch) <= Len(log)
        /\ \A i \in 1..Len(batch) : batch[i] = log[from + i]
    BY <1>1, <1>2, <1>3, <1>9 DEF BatchTold
  <2>2. from + 1 <= Len(log) /\ from + 1 + Len(rest) <= Len(log)
    BY <1>1, <1>4, <1>7, <2>1
  <2>3. \A i \in 1..Len(rest) : rest[i] = log[from + 1 + i]
    <3> TAKE i \in 1..Len(rest)
    <3>1. i + 1 \in 1..Len(batch) /\ from + (i + 1) = from + 1 + i
      BY <1>4, <1>7
    <3>2. batch[i + 1] = log[from + (i + 1)]
      BY <2>1, <3>1
    <3> QED
      BY <1>7, <3>1, <3>2
  <2>4. batch[1] = log[from + 1]
    BY <1>7, <2>1
  <2>5. \A i \in 1..(from + 1) : i \in 1..from \/ i = from + 1
    BY <1>4
  <2>6. \A i \in 1..from : log[i].tag # 0 => log[i].tag \in shown \cup lapsed
    BY <2>1 DEF ReadTo
  <2>7. \A i \in 1..(from + 1) : log[i].tag # 0 => log[i].tag \in shown' \cup lapsed
    BY <1>5, <1>7, <2>4, <2>5, <2>6
  <2> QED
    BY <2>2, <2>3, <2>7
<1>10. \/ cursor' = cursor
       \/ cursor' = [epoch |-> poll.epoch, at |-> from + 1, named |-> TRUE]
  BY <1>5 DEF Thread!Moved
<1>11. shown \subseteq shown'
  BY <1>5
<1>12. CursorTold'
  <2>1. CASE cursor' = cursor
    BY <1>1, <1>2, <1>11, <2>1 DEF CursorTold, ReadTo
  <2>2. CASE cursor' = [epoch |-> poll.epoch, at |-> from + 1, named |-> TRUE]
    BY <1>2, <1>9, <2>2 DEF CursorTold, ReadTo
  <2> QED
    BY <1>10, <2>1, <2>2
<1>13. BatchTold'
  <2> SUFFICES ASSUME poll'.epoch = epoch' PROVE BatchTold'
    BY DEF BatchTold
  <2>1. poll.epoch = epoch
    BY <1>2, <1>8
  <2>2. ReadTo(poll.from)'
    BY <1>2, <1>8, <1>9, <2>1 DEF ReadTo
  <2>3. (poll.from + Len(poll.batch) <= Len(log))'
    BY <1>2, <1>8, <1>9, <2>1
  <2>4. (\A i \in 1..Len(poll.batch) : poll.batch[i] = log[poll.from + i])'
    BY <1>2, <1>8, <1>9, <2>1
  <2> QED
    BY <2>2, <2>3, <2>4 DEF BatchTold
<1>14. cursor' \in ThreadCursor /\ tally' \in [sends : Nat, replies : Nat, stops : Nat, setbacks : Nat]
  <2>1. cursor \in ThreadCursor /\ tally' \in [sends : Nat, replies : Nat, stops : Nat, setbacks : Nat]
    BY <1>1, <1>2 DEF ThreadShape
  <2>2. [epoch |-> poll.epoch, at |-> from + 1, named |-> TRUE] \in ThreadCursor
    BY <1>4 DEF ThreadCursor
  <2> QED
    BY <1>10, <2>1, <2>2
<1>15. EpochsPast'
  BY <1>1, <1>2, <1>4, <1>8, <1>10 DEF EpochsPast
<1>16. poll'.pc = "forward" => /\ poll'.batch \in Seq(Message) /\ poll'.batch # << >>
                               /\ poll'.from \in Nat /\ poll'.epoch \in Nat
  BY <1>4, <1>7, <1>8
<1> QED
  BY <1>2, <1>8, <1>12, <1>13, <1>14, <1>15, <1>16, ThreadVisitStep

LEMMA ThreadStutter == ASSUME ThreadInv, UNCHANGED Thread!vars PROVE ThreadInv'
<1>1. UNCHANGED <<cursor, log, epoch, answerer, open, sender, cable, poll, shown, lapsed, tally>>
  BY DEF Thread!vars
<1> QED
  BY <1>1 DEF ThreadInv, ThreadShape, TurnAlone, TurnShows, CursorTold, BatchTold, EpochsPast, ReadTo

LEMMA ThreadStep == ThreadInv /\ [Thread!Next]_(Thread!vars) => ThreadInv'
BY ThreadAgentStep, ThreadAcceptStep, ThreadOwnerStep, ThreadStopStep, ThreadPollStep, ThreadCursorStep,
   ThreadListStep, ThreadForwardStep, ThreadStutter
   DEF Thread!Next, Thread!Poller

LEMMA ThreadMeans == ThreadInv => Thread!ThreadIsFollowed
<1> SUFFICES ASSUME ThreadInv PROVE Thread!ThreadIsFollowed
  OBVIOUS
<1>1. Thread!OneTurnAtATime
  <2>1. \A S : Thread!Cardinality(S) = Cardinality(S)
    BY DEF Thread!Cardinality, Cardinality
  <2>2. PICK S : S = open \cup cable
    OBVIOUS
  <2>3. \A m, n \in S : m = n
    BY <2>2 DEF ThreadInv, TurnAlone
  <2>4. CASE S = {}
    BY <2>1, <2>2, <2>4, FS_EmptySet DEF Thread!OneTurnAtATime
  <2>5. CASE S # {}
    <3>1. PICK x : S = {x}
      BY <2>3, <2>5
    <3>2. Cardinality({x}) = 1
      BY FS_Singleton
    <3> QED
      BY <2>1, <2>2, <3>1, <3>2 DEF Thread!OneTurnAtATime
  <2> QED
    BY <2>4, <2>5
<1>2. Thread!NothingSkipped
  <2>1. SUFFICES ASSUME cursor.named, cursor.epoch = epoch
        PROVE  Thread!Tags(SubSeq(log, 1, cursor.at)) \subseteq shown \cup lapsed
    BY DEF Thread!NothingSkipped
  <2>2. PICK place, front : place = cursor.at /\ front = SubSeq(log, 1, place)
    OBVIOUS
  <2>3. log \in Seq(Message) /\ place \in Nat /\ ReadTo(place)
    BY <2>1, <2>2 DEF ThreadInv, ThreadShape, ThreadCursor, CursorTold
  <2>4. DOMAIN front = 1..place /\ \A i \in 1..place : front[i] = log[i]
    BY <2>2, <2>3
  <2>5. SUFFICES ASSUME NEW t \in Thread!Tags(front) PROVE t \in shown \cup lapsed
    BY <2>2
  <2>6. t # 0 /\ \E i \in 1..place : t = front[i].tag
    BY <2>4 DEF Thread!Tags
  <2> QED
    BY <2>3, <2>4, <2>6 DEF ReadTo
<1> QED
  BY <1>1, <1>2 DEF Thread!ThreadIsFollowed

\* No second turn is started in a thread beside one that is open or on its way, and every reply behind the
\* stored cursor was forwarded, unless a cursor was set anew behind it: for any number of messages, replies,
\* stops, failures and deaths of the bot, and however often Conductor rebuilds the transcript.
THEOREM ThreadStaysFollowed == Thread!Spec => []Thread!ThreadIsFollowed
BY ThreadInit, ThreadStep, ThreadMeans, PTL DEF Thread!Spec

-----------------------------------------------------------------------------
ThreadPhases == {"none", "pending", "boundary", "working", "observed", "canceling", "complete"}
ThreadFields == {"phase", "out", "base", "bound", "old"}
IsCycle(c) ==
    c.phase \in ThreadPhases /\ c = [field \in ThreadFields |-> c[field]]

\* What the bot and Conductor say of the thread, and where its cycle stands; a send that fails puts back the
\* cycle it found.
ThreadWords ==
    /\ threadRow \in {"running", "done", "failed", "stopped"} /\ intent \in BOOLEAN
    /\ answerer \in {"idle", "working", "error"}
    /\ IsCycle(cycle) /\ IsCycle(sender.prev) /\ IsCycle(sender.mine)

\* Whether a message is still on its way into the transcript, or is going to be.
Coming == (IF cable = {} THEN 0 ELSE 1) + (IF sender.pc \in {"look", "post"} THEN 1 ELSE 0)

\* Messages are those that were sent, and what stands in the transcript was sent or answered.
ThreadCounted ==
    /\ tally.sends <= ThreadSends /\ tally.replies <= ThreadReplies
    /\ open \cup cable \subseteq 1..tally.sends
    /\ sender.pc \in {"look", "post", "posted"} => sender.id \in 1..tally.sends
    /\ Len(log) + Coming <= tally.sends + tally.replies

\* Places and replies the poller knows of are those of transcripts there have been.
ThreadPlaces ==
    /\ cursor.at <= tally.sends + tally.replies
    /\ poll.pc = "forward" => poll.from + Len(poll.batch) <= tally.sends + tally.replies
    /\ \A i \in 1..Len(log) : log[i].tag <= tally.replies
    /\ poll.pc = "forward" => \A i \in 1..Len(poll.batch) : poll.batch[i].tag <= tally.replies
    /\ shown \subseteq 1..tally.replies

ThreadTyped == ThreadWords /\ ThreadCounted /\ ThreadPlaces

LEMMA ThreadTypes == ASSUME ThreadInv, ThreadTyped, Thread!PollBounds PROVE Thread!TypeOK
<1>1. /\ ThreadSends \in Nat /\ ThreadReplies \in Nat /\ tally.sends \in Nat /\ tally.replies \in Nat
      /\ cursor.at \in Nat
  BY DEF Thread!PollBounds, ThreadInv, ThreadShape, ThreadCursor
<1>2. open \cup cable \subseteq 1..ThreadSends /\ shown \subseteq 1..ThreadReplies
  BY <1>1 DEF ThreadTyped, ThreadCounted, ThreadPlaces
<1>3. cursor.at \in 0..(ThreadSends + ThreadReplies)
  BY <1>1 DEF ThreadTyped, ThreadCounted, ThreadPlaces
<1> QED
  BY <1>2, <1>3 DEF Thread!TypeOK, ThreadTyped, ThreadWords, IsCycle, ThreadPhases

LEMMA ThreadCycleMade == \A phase \in ThreadPhases : \A n : IsCycle(Thread!Cycle(phase, n))
BY DEF IsCycle, ThreadFields, Thread!Cycle

LEMMA ThreadTypedInit == ASSUME Thread!Init, Thread!PollBounds PROVE ThreadTyped
<1>1. /\ threadRow = "running" /\ intent = FALSE /\ answerer = "idle" /\ open = {1} /\ cable = {} /\ shown = {}
      /\ log = << [role |-> "user", of |-> 1, tag |-> 0] >> /\ cursor.at = 1
      /\ tally = [sends |-> 1, replies |-> 0, stops |-> 0, setbacks |-> 0]
      /\ sender.pc = "idle" /\ poll.pc = "idle"
  BY DEF Thread!Init, Thread!User, Thread!SendIdle, Thread!PollIdle
<1>2. cycle = Thread!Cycle("boundary", 1) /\ sender.prev = Thread!Cycle("none", 0)
      /\ sender.mine = Thread!Cycle("none", 0)
  BY DEF Thread!Init, Thread!SendIdle
<1>3. ThreadWords
  BY <1>1, <1>2, ThreadCycleMade DEF ThreadWords, ThreadPhases
<1>4. Len(log) = 1 /\ log[1].tag = 0
  BY <1>1
<1>5. ThreadSends \in Nat \ {0} /\ ThreadReplies \in Nat
  BY DEF Thread!PollBounds
<1>6. Coming = 0
  BY <1>1 DEF Coming
<1>7. tally.sends = 1 /\ tally.replies = 0
  BY <1>1
<1>8. ThreadCounted
  BY <1>1, <1>4, <1>5, <1>6, <1>7 DEF ThreadCounted
<1>9. ThreadPlaces
  BY <1>1, <1>4, <1>7 DEF ThreadPlaces
<1> QED
  BY <1>3, <1>8, <1>9 DEF ThreadTyped

-----------------------------------------------------------------------------
(* The cycle                                                                *)


LEMMA ThreadMoved ==
  ASSUME NEW c, IsCycle(c), NEW phase \in ThreadPhases, NEW n
  PROVE  IsCycle([c EXCEPT !.phase = phase]) /\ IsCycle([[c EXCEPT !.phase = phase] EXCEPT !.bound = n])
         /\ IsCycle([c EXCEPT !.old = TRUE]) /\ IsCycle([[c EXCEPT !.out = n] EXCEPT !.base = Len(log)])
<1>1. IsCycle([c EXCEPT !.phase = phase])
  BY DEF IsCycle, ThreadFields
<1>2. IsCycle([[c EXCEPT !.phase = phase] EXCEPT !.bound = n])
  BY DEF IsCycle, ThreadFields
<1>3. IsCycle([c EXCEPT !.old = TRUE])
  BY DEF IsCycle, ThreadFields
<1>4. IsCycle([[c EXCEPT !.out = n] EXCEPT !.base = Len(log)])
  BY DEF IsCycle, ThreadFields
<1> QED
  BY <1>1, <1>2, <1>3, <1>4

LEMMA ThreadAdvances ==
  ASSUME NEW c, IsCycle(c), NEW status, NEW batch, NEW from
  PROVE  IsCycle(Thread!Advance(c, status, batch, from))
<1>1. ASSUME NEW d, IsCycle(d) PROVE IsCycle(Thread!Observed(d, status, batch, from))
  <2> DEFINE answered(after) == \E i \in DOMAIN batch : batch[i].role = "assistant" /\ from + i > after
             o == [d EXCEPT !.phase = "observed"]
             w == [d EXCEPT !.phase = "working"]
             n == Thread!Cycle("observed", 0)
             A1 == d.phase = "boundary" /\ answered(d.bound)
             A2 == d.phase = "boundary" /\ status = "working"
             A3 == d.phase = "working" /\ status = "idle"
             A4 == d.phase \in {"none", "complete"} /\ (status = "working" \/ answered(0))
  <2>1. IsCycle(o) /\ IsCycle(w) /\ IsCycle(n)
    BY <1>1, ThreadMoved, ThreadCycleMade DEF ThreadPhases
  <2>2. Thread!Observed(d, status, batch, from) = CASE A1 -> o [] A2 -> w [] A3 -> o [] A4 -> n [] OTHER -> d
    BY DEF Thread!Observed
  <2> HIDE DEF o, w, n, A1, A2, A3, A4
  <2>3. Thread!Observed(d, status, batch, from) \in {o, w, n, d}
    BY <2>2
  <2> QED
    BY <1>1, <2>1, <2>3
<1>2. IsCycle(Thread!Bounded(c, batch, from))
  <2> DEFINE mine == {i \in DOMAIN batch : batch[i].of = c.out /\ from + i > c.base}
             b == from + (CHOOSE i \in mine : \A j \in mine : i <= j)
             m == [[c EXCEPT !.phase = "boundary"] EXCEPT !.bound = b]
             n == Thread!Cycle("complete", 0)
             A1 == c.out # 0 /\ mine # {}
  <2>1. Thread!Bounded(c, batch, from) = CASE A1 -> m [] c.old -> n [] OTHER -> c
    BY DEF Thread!Bounded
  <2> HIDE DEF b
  <2>2. IsCycle(m) /\ IsCycle(n)
    BY ThreadMoved, ThreadCycleMade DEF ThreadPhases
  <2> HIDE DEF m, n, A1
  <2>3. Thread!Bounded(c, batch, from) \in {m, n, c}
    BY <2>1
  <2> QED
    BY <2>2, <2>3
<1>3. IsCycle(Thread!Cycle("complete", 0))
  BY ThreadCycleMade DEF ThreadPhases
<1> QED
  BY <1>1, <1>2, <1>3 DEF Thread!Advance

LEMMA ThreadWordsStay ==
  ASSUME ThreadInv, ThreadWords, [Thread!Next]_(Thread!vars)
  PROVE  ThreadWords'
<1> USE DEF ThreadWords
<1>1. IsCycle(Thread!Restored)
  BY ThreadCycleMade DEF Thread!Restored, ThreadPhases
<1>2. \A phase \in ThreadPhases : IsCycle(Thread!Cycle(phase, 0))
  BY ThreadCycleMade
<1>3. IsCycle(Thread!SendIdle.prev) /\ IsCycle(Thread!SendIdle.mine)
  <2>1. "none" \in ThreadPhases
    BY DEF ThreadPhases
  <2> QED
    BY <1>2, <2>1 DEF Thread!SendIdle
<1>4. {"pending", "canceling", "complete"} \subseteq ThreadPhases
  BY DEF ThreadPhases
<1>5. CASE Thread!Agent \/ Thread!Accepted \/ Thread!StopCancels
  <2>1. UNCHANGED <<threadRow, intent, cycle, sender>>
    BY <1>5 DEF Thread!Agent, Thread!AgentStarts, Thread!AgentReplies, Thread!AgentEnds, Thread!Rebuild,
                Thread!Accepted, Thread!Accept, Thread!StopCancels
  <2>2. answerer' \in {"idle", "working", "error"}
    BY <1>5 DEF Thread!Agent, Thread!AgentStarts, Thread!AgentReplies, Thread!AgentEnds, Thread!Rebuild,
                Thread!Accepted, Thread!Accept, Thread!StopCancels
  <2> QED
    BY <2>1, <2>2
<1>6. CASE Thread!SendReserve
  <2>1. /\ UNCHANGED <<threadRow, intent, answerer>> /\ cycle' = Thread!Cycle("pending", 0)
        /\ sender'.prev = cycle /\ sender'.mine = cycle'
    BY <1>6 DEF Thread!SendReserve
  <2>2. IsCycle(cycle')
    BY <1>2, <1>4, <2>1
  <2> QED
    BY <2>1, <2>2 DEF IsCycle
<1>7. CASE Thread!SendLook
  <2> DEFINE named == [[sender.mine EXCEPT !.out = sender.id] EXCEPT !.base = Len(log)]
             mine == IF cycle = sender.mine THEN named ELSE sender.mine
  <2>1. IsCycle(named)
    BY ThreadMoved DEF ThreadPhases
  <2>2. IsCycle(mine)
    BY <2>1
  <2> HIDE DEF mine, named
  <2>3. UNCHANGED <<threadRow, intent, answerer>> /\ (cycle' = Thread!Restored \/ cycle' = cycle \/ cycle' = named)
        /\ (sender' = Thread!SendIdle \/ sender' = [[sender EXCEPT !.pc = "post"] EXCEPT !.mine = mine])
    BY <1>7 DEF Thread!SendLook, mine, named
  <2>4. IsCycle(cycle')
    BY <1>1, <2>1, <2>3
  <2>5. sender = [field \in {"pc", "id", "prev", "mine"} |-> sender[field]]
    <3>1. sender = [pc |-> sender.pc, id |-> sender.id, prev |-> sender.prev, mine |-> sender.mine]
      BY DEF ThreadInv, ThreadShape
    <3> QED
      BY <3>1
  <2>6. /\ [[sender EXCEPT !.pc = "post"] EXCEPT !.mine = mine].prev = sender.prev
        /\ [[sender EXCEPT !.pc = "post"] EXCEPT !.mine = mine].mine = mine
    BY <2>5
  <2>7. IsCycle(sender'.prev) /\ IsCycle(sender'.mine)
    <3>1. CASE sender' = Thread!SendIdle
      BY <1>3, <3>1
    <3>2. CASE sender' = [[sender EXCEPT !.pc = "post"] EXCEPT !.mine = mine]
      <4>1. sender'.prev = sender.prev /\ sender'.mine = mine
        BY <2>6, <3>2
      <4> QED
        BY <2>2, <4>1
    <3> QED
      BY <2>3, <3>1, <3>2
  <2> QED
    BY <2>3, <2>4, <2>7 DEF IsCycle
<1>8. CASE Thread!SendPost \/ Thread!SendAnswered \/ Thread!SendFails \/ Thread!LeaseExpires \/ Thread!Crash
  <2>1. /\ intent' = intent /\ answerer' = answerer /\ threadRow' \in {threadRow, "running"}
        /\ (cycle' = cycle \/ cycle' = Thread!Restored)
        /\ \/ sender' = Thread!SendIdle \/ sender' = sender \/ sender' = [sender EXCEPT !.pc = "posted"]
           \/ sender' = [Thread!SendIdle EXCEPT !.pc = "dead"]
    BY <1>8 DEF Thread!SendPost, Thread!SendAnswered, Thread!SendFails, Thread!LeaseExpires, Thread!Crash
  <2>2. sender = [pc |-> sender.pc, id |-> sender.id, prev |-> sender.prev, mine |-> sender.mine]
    BY DEF ThreadInv, ThreadShape
  <2>3. sender'.prev \in {sender.prev, Thread!SendIdle.prev} /\ sender'.mine \in {sender.mine, Thread!SendIdle.mine}
    <3>1. Thread!SendIdle = [pc |-> Thread!SendIdle.pc, id |-> Thread!SendIdle.id,
                             prev |-> Thread!SendIdle.prev, mine |-> Thread!SendIdle.mine]
      BY DEF Thread!SendIdle
    <3> QED
      BY <2>1, <2>2, <3>1
  <2>4. IsCycle(cycle')
    BY <1>1, <2>1
  <2>5. IsCycle(sender'.prev) /\ IsCycle(sender'.mine)
    BY <1>3, <2>3
  <2> QED
    BY <2>1, <2>4, <2>5 DEF IsCycle
<1>9. CASE Thread!StopAsked \/ Thread!StopBegins \/ Thread!StopConfirms
  <2>1. /\ threadRow' \in {threadRow, "stopped"} /\ intent' \in BOOLEAN /\ UNCHANGED <<answerer, sender>>
        /\ \/ cycle' = cycle \/ cycle' = Thread!Cycle("canceling", 0) \/ cycle' = Thread!Cycle("complete", 0)
    BY <1>9 DEF Thread!StopAsked, Thread!StopBegins, Thread!StopConfirms
  <2>2. IsCycle(cycle')
    BY <1>2, <1>4, <2>1
  <2> QED
    BY <2>1, <2>2 DEF IsCycle
<1>10. CASE Thread!Ages
  <2>1. UNCHANGED <<threadRow, intent, answerer, sender>> /\ cycle' = [cycle EXCEPT !.old = TRUE]
    BY <1>10 DEF Thread!Ages
  <2>2. IsCycle(cycle')
    BY <2>1, ThreadMoved DEF ThreadPhases
  <2> QED
    BY <2>1, <2>2 DEF IsCycle
<1>11. ASSUME NEW batch, NEW from, Thread!Listed(batch, from),
              UNCHANGED <<threadRow, intent, answerer, sender>>
       PROVE  ThreadWords'
  <2>1. IsCycle(cycle')
    BY <1>11, ThreadAdvances DEF Thread!Listed
  <2> QED
    BY <1>11, <2>1 DEF IsCycle
<1>12. CASE Thread!PollList \/ Thread!PollListFails
  <2>1. UNCHANGED <<threadRow, intent, answerer, sender>>
    BY <1>12 DEF Thread!PollList, Thread!PollListFails
  <2>2. \/ Thread!Listed(SubSeq(log, cursor.at + 1, Len(log)), cursor.at) \/ Thread!Listed(log, 0)
        \/ Thread!Listed(<< >>, 0)
    BY <1>12 DEF Thread!PollList, Thread!PollListFails, Thread!Recover
  <2> QED
    BY <1>11, <2>1, <2>2
<1>13. CASE Thread!PollBegins \/ Thread!PollStatus \/ Thread!PollCursor \/ Thread!PollForward \/ Thread!PollForwardFails
  <2>1. UNCHANGED <<threadRow, intent, answerer, sender, cycle>>
    BY <1>13 DEF Thread!PollBegins, Thread!PollStatus, Thread!PollCursor, Thread!PollForward, Thread!PollForwardFails
  <2> QED
    BY <2>1 DEF IsCycle
<1>14. CASE Thread!PollSettle
  <2> DEFINE canceling == poll.canceling \/ cycle.phase = "canceling"
             done == poll.status = "idle" /\ cycle.phase = "observed"
             failed == poll.status = "error" /\ ~canceling /\ poll.row # "failed"
             resumed == poll.status = "working" /\ ~canceling /\ poll.row # "running"
  <2>1. UNCHANGED <<intent, answerer, sender>> /\ (cycle' = cycle \/ cycle' = Thread!Cycle("complete", 0))
        /\ threadRow' = CASE done -> "done" [] failed -> "failed" [] resumed -> "running" [] OTHER -> threadRow
    BY <1>14 DEF Thread!PollSettle
  <2> HIDE DEF done, failed, resumed
  <2>2. threadRow' \in {"done", "failed", "running", threadRow}
    BY <2>1
  <2>3. IsCycle(cycle')
    BY <1>2, <1>4, <2>1
  <2> QED
    BY <2>1, <2>2, <2>3 DEF IsCycle
<1>15. CASE UNCHANGED Thread!vars
  BY <1>15 DEF Thread!vars, IsCycle
<1> QED
  BY <1>5, <1>6, <1>7, <1>8, <1>9, <1>10, <1>12, <1>13, <1>14, <1>15
  DEF Thread!Next, Thread!Owner, Thread!Stopping, Thread!Poller

-----------------------------------------------------------------------------
(* Counts                                                                   *)

\* What a step leaves of the counts when it neither sends nor writes.
LEMMA ThreadCountsRest ==
  ASSUME ThreadInv, ThreadCounted, tally'.sends = tally.sends, tally'.replies = tally.replies, log' = log,
         open' \subseteq open, cable' \subseteq cable,
         sender' = sender \/ sender'.pc \in {"idle", "dead"}
  PROVE  ThreadCounted'
<1>1. Len(log) \in Nat /\ tally.sends \in Nat /\ tally.replies \in Nat
  BY DEF ThreadInv, ThreadShape
<1>2. Coming \in Nat /\ Coming' \in Nat /\ Coming' <= Coming
  BY DEF Coming
<1> QED
  BY <1>1, <1>2 DEF ThreadCounted

LEMMA ThreadSetback ==
  ASSUME ThreadInv, Thread!Setback \/ tally' = tally \/ tally' = [tally EXCEPT !.stops = @ + 1]
  PROVE  tally'.sends = tally.sends /\ tally'.replies = tally.replies
BY DEF Thread!Setback, ThreadInv, ThreadShape

LEMMA ThreadCountsStay ==
  ASSUME ThreadInv, ThreadCounted, Thread!PollBounds, [Thread!Next]_(Thread!vars)
  PROVE  ThreadCounted'
<1>1. /\ ThreadShape /\ TurnAlone /\ log \in Seq(Message) /\ Len(log) \in Nat /\ Coming \in Nat
      /\ tally \in [sends : Nat, replies : Nat, stops : Nat, setbacks : Nat]
      /\ tally.sends \in Nat /\ tally.replies \in Nat /\ ThreadSends \in Nat /\ ThreadReplies \in Nat
  BY DEF ThreadInv, ThreadShape, Coming, Thread!PollBounds
<1>2. CASE Thread!AgentStarts \/ Thread!AgentEnds \/ Thread!StopCancels \/ Thread!StopBegins
           \/ Thread!StopConfirms \/ Thread!Ages \/ Thread!StopAsked
  <2>1. UNCHANGED <<log, sender, cable>> /\ open' \subseteq open
        /\ (tally' = tally \/ tally' = [tally EXCEPT !.stops = @ + 1])
    BY <1>2 DEF Thread!AgentStarts, Thread!AgentEnds, Thread!StopCancels, Thread!StopBegins,
                Thread!StopConfirms, Thread!Ages, Thread!StopAsked
  <2> QED
    BY <2>1, ThreadSetback, ThreadCountsRest
<1>3. CASE Thread!SendAnswered \/ Thread!SendFails \/ Thread!LeaseExpires \/ Thread!Crash
  <2>1. /\ UNCHANGED <<log, open>> /\ cable' \subseteq cable /\ (tally' = tally \/ Thread!Setback)
        /\ (sender' = sender \/ sender' = Thread!SendIdle \/ sender' = [Thread!SendIdle EXCEPT !.pc = "dead"])
    BY <1>3 DEF Thread!SendAnswered, Thread!SendFails, Thread!LeaseExpires, Thread!Crash
  <2>2. sender' = sender \/ sender'.pc \in {"idle", "dead"}
    BY <2>1 DEF Thread!SendIdle
  <2> QED
    BY <2>1, <2>2, ThreadSetback, ThreadCountsRest
<1>4. CASE Thread!Poller \/ Thread!PollListFails \/ Thread!PollForwardFails
  <2>1. UNCHANGED <<log, open, cable, sender>> /\ (tally' = tally \/ Thread!Setback)
    BY <1>4 DEF Thread!Poller, Thread!PollListFails, Thread!PollForwardFails, Thread!PollBegins, Thread!PollStatus,
                Thread!PollCursor, Thread!PollList, Thread!PollForward, Thread!PollSettle
  <2> QED
    BY <2>1, ThreadSetback, ThreadCountsRest
<1>5. CASE Thread!AgentReplies
  <2>1. /\ UNCHANGED <<open, sender, cable>> /\ tally.replies < ThreadReplies
        /\ tally' = [tally EXCEPT !.replies = @ + 1]
        /\ log' = Append(log, [role |-> "assistant", of |-> 0, tag |-> tally.replies + 1])
    BY <1>5 DEF Thread!AgentReplies, Thread!Reply
  <2>2. tally'.sends = tally.sends /\ tally'.replies = tally.replies + 1
    BY <1>1, <2>1
  <2>3. [role |-> "assistant", of |-> 0, tag |-> tally.replies + 1] \in Message
    BY <1>1 DEF Message
  <2>4. Len(log') = Len(log) + 1
    BY <1>1, <2>1, <2>3
  <2>5. Coming' = Coming
    BY <2>1 DEF Coming
  <2> QED
    BY <1>1, <2>1, <2>2, <2>4, <2>5 DEF ThreadCounted
<1>6. CASE Thread!Rebuild
  <2>1. UNCHANGED <<open, sender, cable, tally>>
    BY <1>6 DEF Thread!Rebuild
  <2>2. PICK k \in 2..Len(log) :
          log' = [i \in 1..(Len(log) + 1 - k) |-> [log[i + k - 1] EXCEPT !.of = 0]]
    BY <1>6 DEF Thread!Rebuild
  <2>3. Len(log') = Len(log) + 1 - k
    <3>1. Len(log) + 1 - k \in Nat /\ DOMAIN log' = 1..(Len(log) + 1 - k)
      BY <1>1, <2>2
    <3>2. log' \in Seq(Message)
      BY <1>6, ThreadAgentStep DEF Thread!Agent, ThreadInv, ThreadShape
    <3> QED
      BY <3>1, <3>2
  <2>4. Coming' = Coming
    BY <2>1 DEF Coming
  <2> QED
    BY <1>1, <2>1, <2>3, <2>4 DEF ThreadCounted
<1>7. CASE Thread!SendReserve
  <2>1. /\ UNCHANGED <<log, open, cable>> /\ sender.pc = "idle" /\ tally.sends < ThreadSends
        /\ tally' = [tally EXCEPT !.sends = @ + 1] /\ sender'.pc = "look" /\ sender'.id = tally.sends + 1
    BY <1>7 DEF Thread!SendReserve
  <2>2. tally'.sends = tally.sends + 1 /\ tally'.replies = tally.replies
    BY <1>1, <2>1
  <2>3. Coming' = Coming + 1
    BY <2>1 DEF Coming
  <2> QED
    BY <1>1, <2>1, <2>2, <2>3 DEF ThreadCounted
<1>8. CASE Thread!SendLook
  <2>1. UNCHANGED <<log, open, cable, tally>> /\ sender.pc = "look"
    BY <1>8 DEF Thread!SendLook
  <2>2. CASE sender' = Thread!SendIdle
    <3>1. sender'.pc = "idle"
      BY <2>2 DEF Thread!SendIdle
    <3> QED
      BY <2>1, <3>1, ThreadCountsRest
  <2>3. CASE sender' # Thread!SendIdle
    <3>1. PICK mine : sender' = [[sender EXCEPT !.pc = "post"] EXCEPT !.mine = mine]
      BY <1>8, <2>3 DEF Thread!SendLook
    <3>2. sender'.pc = "post" /\ sender'.id = sender.id
      BY <1>1, <3>1 DEF ThreadShape
    <3>3. Coming' = Coming
      BY <2>1, <3>2 DEF Coming
    <3> QED
      BY <1>1, <2>1, <3>2, <3>3 DEF ThreadCounted
  <2> QED
    BY <2>2, <2>3
<1>9. CASE Thread!SendPost
  <2>1. UNCHANGED <<log, open, tally>> /\ sender.pc = "post"
    BY <1>9 DEF Thread!SendPost
  <2>2. CASE sender' = Thread!SendIdle /\ cable' = cable
    <3>1. sender'.pc = "idle"
      BY <2>2 DEF Thread!SendIdle
    <3> QED
      BY <2>1, <2>2, <3>1, ThreadCountsRest
  <2>3. CASE sender' = [sender EXCEPT !.pc = "posted"] /\ cable' = cable \cup {sender.id}
    <3>1. sender'.pc = "posted" /\ sender'.id = sender.id
      BY <1>1, <2>3 DEF ThreadShape
    <3>2. cable = {} /\ cable' = {sender.id} /\ cable' # {}
      BY <1>1, <2>1, <2>3 DEF TurnAlone
    <3>3. Coming' = Coming
      BY <2>1, <3>1, <3>2 DEF Coming
    <3> QED
      BY <1>1, <2>1, <3>1, <3>2, <3>3 DEF ThreadCounted
  <2> QED
    BY <1>9, <2>2, <2>3 DEF Thread!SendPost
<1>10. CASE Thread!Accepted
  <2>1. PICK n \in cable : Thread!Accept(n)
    BY <1>10 DEF Thread!Accepted
  <2>2. /\ UNCHANGED <<sender, tally>> /\ cable' = cable \ {n} /\ open' = open \cup {n}
        /\ log' = Append(log, [role |-> "user", of |-> n, tag |-> 0])
    BY <2>1 DEF Thread!Accept, Thread!User
  <2>3. cable # {} /\ cable' = {} /\ n \in 1..tally.sends /\ n \in Nat
    BY <1>1, <2>2 DEF TurnAlone, ThreadCounted
  <2>4. [role |-> "user", of |-> n, tag |-> 0] \in Message
    BY <2>3 DEF Message
  <2>5. Len(log') = Len(log) + 1
    BY <1>1, <2>2, <2>4
  <2>6. Coming' + 1 = Coming
    BY <2>2, <2>3 DEF Coming
  <2>7. Coming' \in Nat
    BY DEF Coming
  <2> QED
    <3>1. tally' = tally /\ sender' = sender /\ open' \cup cable' \subseteq open \cup cable
      BY <2>2, <2>3
    <3>2. Len(log') + Coming' <= tally'.sends + tally'.replies
      <4>1. Len(log) \in Nat /\ tally.sends \in Nat /\ tally.replies \in Nat
        BY <1>1 DEF ThreadShape
      <4>2. Len(log) + Coming <= tally.sends + tally.replies
        BY <1>1 DEF ThreadCounted
      <4>3. tally'.sends = tally.sends /\ tally'.replies = tally.replies
        BY <3>1
      <4> QED
        BY <2>5, <2>6, <2>7, <4>1, <4>2, <4>3
    <3>3. open' \cup cable' \subseteq 1..tally'.sends
      BY <3>1 DEF ThreadCounted
    <3> QED
      BY <3>1, <3>2, <3>3 DEF ThreadCounted
<1>11. CASE UNCHANGED Thread!vars
  <2>1. UNCHANGED <<log, open, cable, sender, tally>>
    BY <1>11 DEF Thread!vars
  <2> QED
    BY <2>1, ThreadCountsRest
<1> QED
  BY <1>2, <1>3, <1>4, <1>5, <1>6, <1>7, <1>8, <1>9, <1>10, <1>11
  DEF Thread!Next, Thread!Agent, Thread!Owner, Thread!Stopping
-----------------------------------------------------------------------------
(* Places                                                                   *)

LEMMA ThreadGrows ==
  ASSUME ThreadInv, [Thread!Next]_(Thread!vars)
  PROVE  /\ tally'.sends \in Nat /\ tally'.replies \in Nat
         /\ tally.sends <= tally'.sends /\ tally.replies <= tally'.replies
<1>1. tally \in [sends : Nat, replies : Nat, stops : Nat, setbacks : Nat]
  BY DEF ThreadInv, ThreadShape
<1>2. \/ tally' = tally \/ tally' = [tally EXCEPT !.sends = @ + 1] \/ tally' = [tally EXCEPT !.replies = @ + 1]
      \/ tally' = [tally EXCEPT !.stops = @ + 1] \/ tally' = [tally EXCEPT !.setbacks = @ + 1]
  <2>1. CASE Thread!Agent \/ Thread!Accepted \/ Thread!Stopping
    BY <2>1 DEF Thread!Agent, Thread!AgentStarts, Thread!AgentReplies, Thread!AgentEnds, Thread!Rebuild,
                Thread!Accepted, Thread!Accept, Thread!Stopping, Thread!StopBegins, Thread!StopCancels,
                Thread!StopConfirms
  <2>2. CASE Thread!Owner
    BY <2>2 DEF Thread!Owner, Thread!SendReserve, Thread!SendLook, Thread!SendPost, Thread!SendAnswered,
                Thread!SendFails, Thread!StopAsked, Thread!Setback
  <2>3. CASE Thread!Poller
    BY <2>3 DEF Thread!Poller, Thread!PollBegins, Thread!PollStatus, Thread!PollCursor, Thread!PollList,
                Thread!PollForward, Thread!PollSettle, Thread!Setback
  <2>4. CASE Thread!PollListFails \/ Thread!PollForwardFails \/ Thread!Crash \/ Thread!LeaseExpires
             \/ Thread!Ages \/ UNCHANGED Thread!vars
    BY <2>4 DEF Thread!PollListFails, Thread!PollForwardFails, Thread!Crash, Thread!LeaseExpires, Thread!Ages,
                Thread!Setback, Thread!vars
  <2> QED
    BY <2>1, <2>2, <2>3, <2>4 DEF Thread!Next
<1> QED
  BY <1>1, <1>2

LEMMA MessagesTagged ==
  ASSUME NEW q \in Seq(Message), NEW i \in 1..Len(q)
  PROVE  q[i] \in Message /\ q[i].tag \in Nat
<1>1. q[i] \in Message
  OBVIOUS
<1> QED
  BY <1>1 DEF Message

\* What the poller does not touch stays within the counts, which only grow.
LEMMA ThreadPlacesRest ==
  ASSUME ThreadInv, ThreadPlaces, tally'.sends \in Nat, tally'.replies \in Nat,
         tally.sends <= tally'.sends, tally.replies <= tally'.replies,
         cursor' = cursor, shown' = shown, poll' = poll \/ poll'.pc # "forward",
         log' \in Seq(Message), \A i \in 1..Len(log') : log'[i].tag <= tally'.replies
  PROVE  ThreadPlaces'
<1>1. /\ cursor.at \in Nat /\ tally.sends \in Nat /\ tally.replies \in Nat /\ Len(log) \in Nat
      /\ poll.pc = "forward" => poll.from \in Nat /\ poll.batch \in Seq(Message)
  BY DEF ThreadInv, ThreadShape, ThreadCursor
<1>2. cursor'.at <= tally'.sends + tally'.replies
  BY <1>1 DEF ThreadPlaces
<1>3. ASSUME poll'.pc = "forward"
      PROVE  /\ poll'.from + Len(poll'.batch) <= tally'.sends + tally'.replies
             /\ \A i \in 1..Len(poll'.batch) : poll'.batch[i].tag <= tally'.replies
  <2>1. poll' = poll /\ poll.pc = "forward" /\ poll.batch \in Seq(Message) /\ poll.from \in Nat
        /\ Len(poll.batch) \in Nat
    BY <1>1, <1>3
  <2>2. poll'.from = poll.from /\ poll'.batch = poll.batch
    BY <2>1
  <2>3. poll.from + Len(poll.batch) <= tally'.sends + tally'.replies
    BY <1>1, <2>1 DEF ThreadPlaces
  <2>4. \A i \in 1..Len(poll.batch) : poll.batch[i].tag \in Nat
    BY <2>1, MessagesTagged
  <2>5. \A i \in 1..Len(poll.batch) : poll.batch[i].tag <= tally.replies
    BY <2>1 DEF ThreadPlaces
  <2>6. \A i \in 1..Len(poll.batch) : poll.batch[i].tag <= tally'.replies
    BY <1>1, <2>4, <2>5
  <2>7. poll'.from + Len(poll'.batch) <= tally'.sends + tally'.replies
    BY <1>1, <2>1, <2>2, <2>3
  <2>8. \A i \in 1..Len(poll'.batch) : poll'.batch[i].tag <= tally'.replies
    BY <2>2, <2>6
  <2> QED
    BY <2>7, <2>8
<1>4. shown' \subseteq 1..tally'.replies
  BY <1>1 DEF ThreadPlaces
<1> QED
  BY <1>2, <1>3, <1>4 DEF ThreadPlaces

LEMMA ThreadTagsRest ==
  ASSUME ThreadInv, ThreadPlaces, log' = log, tally'.replies \in Nat, tally.replies <= tally'.replies
  PROVE  log' \in Seq(Message) /\ \A i \in 1..Len(log') : log'[i].tag <= tally'.replies
<1>1. log \in Seq(Message) /\ tally.replies \in Nat
  BY DEF ThreadInv, ThreadShape
<1>2. \A i \in 1..Len(log) : log[i].tag \in Nat
  BY <1>1, MessagesTagged
<1>3. \A i \in 1..Len(log) : log[i].tag <= tally.replies
  BY DEF ThreadPlaces
<1>4. \A i \in 1..Len(log) : log[i].tag <= tally'.replies
  BY <1>1, <1>2, <1>3
<1> QED
  BY <1>1, <1>4

LEMMA ThreadListedPlaces ==
  ASSUME ThreadInv, ThreadPlaces, NEW batch \in Seq(Message), NEW from \in Nat, Thread!Listed(batch, from),
         UNCHANGED <<log, shown, tally>>, cursor' = cursor \/ cursor' = Thread!NoCursor,
         from + Len(batch) <= tally.sends + tally.replies, \A i \in 1..Len(batch) : batch[i].tag <= tally.replies
  PROVE  ThreadPlaces'
<1>1. poll'.batch = batch /\ poll'.from = from
  BY DEF Thread!Listed
<1>2. cursor'.at <= tally.sends + tally.replies
  <2>1. Thread!NoCursor.at = 0 /\ tally.sends \in Nat /\ tally.replies \in Nat
    BY DEF Thread!NoCursor, ThreadInv, ThreadShape
  <2> QED
    BY <2>1 DEF ThreadPlaces
<1> QED
  BY <1>1, <1>2 DEF ThreadPlaces

LEMMA ThreadPlacesStay ==
  ASSUME ThreadInv, ThreadCounted, ThreadPlaces, [Thread!Next]_(Thread!vars)
  PROVE  ThreadPlaces'
<1>1. /\ ThreadShape /\ log \in Seq(Message) /\ Len(log) \in Nat /\ tally.sends \in Nat /\ tally.replies \in Nat
      /\ tally \in [sends : Nat, replies : Nat, stops : Nat, setbacks : Nat]
      /\ \A i \in 1..Len(log) : log[i] \in Message /\ log[i].tag \in Nat
  <2>1. log \in Seq(Message) /\ ThreadShape
    BY DEF ThreadInv, ThreadShape
  <2> QED
    BY <2>1, MessagesTagged DEF ThreadShape
<1>2. /\ tally'.sends \in Nat /\ tally'.replies \in Nat
      /\ tally.sends <= tally'.sends /\ tally.replies <= tally'.replies
  BY ThreadGrows
<1>3. Len(log) <= tally.sends + tally.replies
  BY <1>1 DEF ThreadCounted, Coming
<1>4. ASSUME UNCHANGED <<log, cursor, shown>>, poll' = poll \/ poll'.pc # "forward" PROVE ThreadPlaces'
  BY <1>2, <1>4, ThreadTagsRest, ThreadPlacesRest
<1>5. CASE Thread!AgentStarts \/ Thread!AgentEnds \/ Thread!Owner \/ Thread!Stopping \/ Thread!LeaseExpires
           \/ Thread!Ages \/ UNCHANGED Thread!vars
  <2>1. UNCHANGED <<log, cursor, shown, poll>>
    BY <1>5 DEF Thread!AgentStarts, Thread!AgentEnds, Thread!Owner, Thread!SendReserve, Thread!SendLook,
                Thread!SendPost, Thread!SendAnswered, Thread!SendFails, Thread!StopAsked, Thread!Stopping,
                Thread!StopBegins, Thread!StopCancels, Thread!StopConfirms, Thread!LeaseExpires, Thread!Ages,
                Thread!vars
  <2> QED
    BY <1>4, <2>1
<1>6. CASE Thread!Crash \/ Thread!PollForwardFails \/ Thread!PollSettle
  <2>1. UNCHANGED <<log, cursor, shown>> /\ poll' = Thread!PollIdle
    BY <1>6 DEF Thread!Crash, Thread!PollForwardFails, Thread!PollSettle
  <2>2. poll'.pc # "forward"
    BY <2>1 DEF Thread!PollIdle
  <2> QED
    BY <1>4, <2>1, <2>2
<1>7. CASE Thread!PollBegins \/ Thread!PollStatus \/ Thread!PollListFails
  <2>1. UNCHANGED <<log, cursor, shown>>
    BY <1>7 DEF Thread!PollBegins, Thread!PollStatus, Thread!PollListFails
  <2>2. poll'.pc # "forward"
    <3>1. CASE Thread!PollBegins
      BY <3>1 DEF Thread!PollBegins, Thread!PollIdle
    <3>2. CASE Thread!PollStatus
      <4>1. PICK status : poll' = [[poll EXCEPT !.pc = "cursor"] EXCEPT !.status = status]
        BY <3>2 DEF Thread!PollStatus
      <4>2. poll = [pc |-> poll.pc, row |-> poll.row, status |-> poll.status, batch |-> poll.batch,
                    from |-> poll.from, epoch |-> poll.epoch, canceling |-> poll.canceling]
        BY <1>1 DEF ThreadShape
      <4>3. poll'.pc = "cursor"
        BY <4>1, <4>2
      <4> QED
        BY <4>3
    <3>3. CASE Thread!PollListFails
      BY <3>3 DEF Thread!PollListFails, Thread!Listed
    <3> QED
      BY <1>7, <3>1, <3>2, <3>3
  <2> QED
    BY <1>4, <2>1, <2>2
<1>8. CASE Thread!AgentReplies
  <2>1. /\ UNCHANGED <<cursor, shown, poll>> /\ tally' = [tally EXCEPT !.replies = @ + 1]
        /\ log' = Append(log, [role |-> "assistant", of |-> 0, tag |-> tally.replies + 1])
    BY <1>8 DEF Thread!AgentReplies, Thread!Reply
  <2>2. PICK e : e = [role |-> "assistant", of |-> 0, tag |-> tally.replies + 1]
    OBVIOUS
  <2>3. tally'.replies = tally.replies + 1 /\ e.tag = tally.replies + 1
    BY <1>1, <2>1, <2>2
  <2>4. e \in Message
    BY <1>1, <2>2 DEF Message
  <2>5. /\ log' \in Seq(Message) /\ Len(log') = Len(log) + 1 /\ log'[Len(log) + 1] = e
        /\ \A i \in 1..Len(log) : log'[i] = log[i]
    BY <1>1, <2>1, <2>2, <2>4
  <2>6. \A i \in 1..Len(log') : log'[i].tag <= tally'.replies
    <3> TAKE i \in 1..Len(log')
    <3>1. i \in 1..Len(log) \/ i = Len(log) + 1
      BY <1>1, <2>5
    <3>2. ASSUME i \in 1..Len(log) PROVE log'[i].tag <= tally'.replies
      <4>1. log[i].tag <= tally.replies /\ log[i].tag \in Nat
        BY <1>1, <3>2 DEF ThreadPlaces
      <4>2. log'[i].tag = log[i].tag
        BY <2>5, <3>2
      <4> QED
        BY <1>1, <2>3, <4>1, <4>2
    <3>3. ASSUME i = Len(log) + 1 PROVE log'[i].tag <= tally'.replies
      BY <1>1, <2>3, <2>5, <3>3
    <3> QED
      BY <3>1, <3>2, <3>3
  <2> QED
    BY <1>2, <2>1, <2>5, <2>6, ThreadPlacesRest
<1>9. CASE Thread!Accepted
  <2>1. PICK n \in cable : Thread!Accept(n)
    BY <1>9 DEF Thread!Accepted
  <2>2. PICK e : e = [role |-> "user", of |-> n, tag |-> 0]
    OBVIOUS
  <2>3. UNCHANGED <<cursor, shown, poll, tally>> /\ log' = Append(log, e)
    BY <2>1, <2>2 DEF Thread!Accept, Thread!User
  <2>4. e \in Message /\ e.tag = 0
    BY <1>1, <2>2 DEF Message, ThreadShape
  <2>5. /\ log' \in Seq(Message) /\ Len(log') = Len(log) + 1 /\ log'[Len(log) + 1] = e
        /\ \A i \in 1..Len(log) : log'[i] = log[i]
    BY <1>1, <2>3, <2>4
  <2>6. \A i \in 1..Len(log') : log'[i].tag <= tally'.replies
    <3> TAKE i \in 1..Len(log')
    <3>1. i \in 1..Len(log) \/ i = Len(log) + 1
      BY <1>1, <2>5
    <3>2. ASSUME i \in 1..Len(log) PROVE log'[i].tag <= tally'.replies
      BY <1>1, <1>2, <2>5, <3>2 DEF ThreadPlaces
    <3>3. ASSUME i = Len(log) + 1 PROVE log'[i].tag <= tally'.replies
      BY <1>2, <2>4, <2>5, <3>3
    <3> QED
      BY <3>1, <3>2, <3>3
  <2> QED
    BY <1>2, <2>3, <2>5, <2>6, ThreadPlacesRest
<1>10. CASE Thread!Rebuild
  <2>1. UNCHANGED <<cursor, shown, poll, tally>>
    BY <1>10 DEF Thread!Rebuild
  <2>2. PICK k \in 2..Len(log) :
          log' = [i \in 1..(Len(log) + 1 - k) |-> [log[i + k - 1] EXCEPT !.of = 0]]
    BY <1>10 DEF Thread!Rebuild
  <2>3. log' \in Seq(Message)
    BY <1>10, ThreadAgentStep DEF Thread!Agent, ThreadInv, ThreadShape
  <2>4. Len(log) + 1 - k \in Nat /\ DOMAIN log' = 1..(Len(log) + 1 - k)
    BY <1>1, <2>2
  <2>5. Len(log') = Len(log) + 1 - k
    BY <2>3, <2>4
  <2>6. \A i \in 1..Len(log') : log'[i].tag <= tally'.replies
    <3> TAKE i \in 1..Len(log')
    <3>1. i + k - 1 \in 1..Len(log) /\ log'[i] = [log[i + k - 1] EXCEPT !.of = 0]
      BY <1>1, <2>2, <2>5
    <3>2. PICK m : m = log[i + k - 1]
      OBVIOUS
    <3>3. m \in Message /\ m.tag <= tally.replies
      BY <1>1, <3>1, <3>2 DEF ThreadPlaces
    <3>4. log'[i].tag = m.tag
      BY <3>1, <3>2, <3>3 DEF Message
    <3> QED
      BY <2>1, <3>3, <3>4
  <2> QED
    BY <1>2, <2>1, <2>3, <2>6, ThreadPlacesRest
<1>11. CASE Thread!PollCursor
  <2>1. UNCHANGED <<log, shown, tally>> /\ poll' = [poll EXCEPT !.pc = "list"]
        /\ (cursor' = cursor \/ cursor' = [epoch |-> epoch, at |-> Len(log), named |-> TRUE])
    BY <1>11 DEF Thread!PollCursor, Thread!At
  <2>2. poll = [pc |-> poll.pc, row |-> poll.row, status |-> poll.status, batch |-> poll.batch,
                from |-> poll.from, epoch |-> poll.epoch, canceling |-> poll.canceling]
    BY <1>1 DEF ThreadShape
  <2>3. poll'.pc = "list"
    BY <2>1, <2>2
  <2>4. cursor'.at <= tally'.sends + tally'.replies
    BY <1>3, <2>1 DEF ThreadPlaces
  <2> QED
    BY <2>1, <2>3, <2>4 DEF ThreadPlaces
<1>12. CASE Thread!PollList
  <2>1. UNCHANGED <<log, shown, tally>>
    BY <1>12 DEF Thread!PollList
  <2>2. CASE cursor.named /\ cursor.epoch = epoch
    <3>1. Thread!Listed(SubSeq(log, cursor.at + 1, Len(log)), cursor.at) /\ cursor' = cursor
      BY <1>12, <2>2 DEF Thread!PollList
    <3>2. PICK place : place = cursor.at
      OBVIOUS
    <3>3. place \in Nat /\ place <= Len(log)
      BY <1>1, <2>2, <3>2 DEF ThreadInv, CursorTold, ReadTo, ThreadShape, ThreadCursor
    <3>4. PICK batch : batch = SubSeq(log, place + 1, Len(log))
      OBVIOUS
    <3>5. /\ batch \in Seq(Message) /\ Len(batch) = Len(log) - place
          /\ \A i \in 1..Len(batch) : batch[i] = log[place + i]
      <4>1. place + 1 \in Nat \ {0}
        BY <3>3
      <4>2. batch \in Seq(Message) /\ Len(batch) = Len(log) - place
        BY <1>1, <3>3, <3>4, <4>1
      <4> QED
        BY <1>1, <3>3, <3>4, <4>1, <4>2
    <3>6. \A i \in 1..Len(batch) : batch[i].tag <= tally.replies
      <4> TAKE i \in 1..Len(batch)
      <4>1. place + i \in 1..Len(log)
        BY <1>1, <3>3, <3>5
      <4> QED
        BY <3>5, <4>1 DEF ThreadPlaces
    <3>7. place + Len(batch) <= tally.sends + tally.replies
      BY <1>1, <1>3, <3>3, <3>5
    <3>8. Thread!Listed(batch, place)
      BY <3>1, <3>2, <3>4
    <3> QED
      BY <2>1, <3>1, <3>3, <3>5, <3>6, <3>7, <3>8, ThreadListedPlaces
  <2>3. CASE cursor.named /\ cursor.epoch # epoch
    <3>1. Thread!Listed(log, 0) /\ cursor' = Thread!NoCursor
      BY <1>12, <2>3 DEF Thread!PollList, Thread!Recover
    <3>2. 0 + Len(log) <= tally.sends + tally.replies /\ \A i \in 1..Len(log) : log[i].tag <= tally.replies
      BY <1>1, <1>3 DEF ThreadPlaces
    <3> QED
      BY <1>1, <2>1, <3>1, <3>2, ThreadListedPlaces
  <2>4. CASE ~cursor.named
    <3>1. Thread!Listed(<< >>, 0) /\ cursor' = cursor
      BY <1>12, <2>4 DEF Thread!PollList
    <3>2. poll'.pc = "settle"
      BY <3>1 DEF Thread!Listed
    <3> QED
      BY <1>4, <2>1, <3>1, <3>2
  <2> QED
    BY <2>2, <2>3, <2>4
<1>13. CASE Thread!PollForward
  <2>1. poll.pc = "forward" /\ UNCHANGED <<log, tally>>
    BY <1>13 DEF Thread!PollForward
  <2>2. PICK batch, from : batch = poll.batch /\ from = poll.from
    OBVIOUS
  <2>3. /\ batch \in Seq(Message) /\ batch # << >> /\ from \in Nat
        /\ from + Len(batch) <= tally.sends + tally.replies
        /\ \A i \in 1..Len(batch) : batch[i].tag <= tally.replies
    BY <1>1, <2>1, <2>2 DEF ThreadShape, ThreadPlaces
  <2>4. /\ shown' = IF Head(batch).tag = 0 THEN shown ELSE shown \cup {Head(batch).tag}
        /\ cursor' = Thread!Moved([epoch |-> poll.epoch, at |-> from + 1, named |-> TRUE])
        /\ poll'.batch = Tail(batch) /\ poll'.from = from + 1
    BY <1>13, <2>2 DEF Thread!PollForward
  <2>5. PICK rest : rest = Tail(batch)
    OBVIOUS
  <2>6. /\ rest \in Seq(Message) /\ Len(rest) = Len(batch) - 1 /\ Len(batch) \in Nat \ {0}
        /\ Head(batch) = batch[1] /\ \A i \in 1..Len(rest) : rest[i] = batch[i + 1]
    BY <2>3, <2>5
  <2>7. from + 1 <= tally.sends + tally.replies /\ from + 1 + Len(rest) <= tally.sends + tally.replies
    BY <1>1, <2>3, <2>6
  <2>8. cursor'.at <= tally.sends + tally.replies
    <3>1. cursor' = cursor \/ cursor' = [epoch |-> poll.epoch, at |-> from + 1, named |-> TRUE]
      BY <2>4 DEF Thread!Moved
    <3> QED
      BY <2>7, <3>1 DEF ThreadPlaces
  <2>9. \A i \in 1..Len(rest) : rest[i].tag <= tally.replies
    BY <2>3, <2>6
  <2>10. shown' \subseteq 1..tally.replies
    <3>1. batch[1] \in Message /\ batch[1].tag <= tally.replies
      BY <2>3, <2>6
    <3>2. batch[1].tag \in Nat
      BY <3>1 DEF Message
    <3>3. batch[1].tag # 0 => batch[1].tag \in 1..tally.replies
      BY <1>1, <3>1, <3>2
    <3> QED
      BY <2>4, <2>6, <3>3 DEF ThreadPlaces
  <2>11. \A i \in 1..Len(log) : log[i].tag <= tally.replies
    BY DEF ThreadPlaces
  <2> QED
    BY <2>1, <2>4, <2>5, <2>7, <2>8, <2>9, <2>10, <2>11 DEF ThreadPlaces
<1> QED
  BY <1>5, <1>6, <1>7, <1>8, <1>9, <1>10, <1>11, <1>12, <1>13 DEF Thread!Next, Thread!Agent, Thread!Poller

LEMMA ThreadTypedStep ==
  ASSUME ThreadInv, ThreadTyped, Thread!PollBounds, [Thread!Next]_(Thread!vars)
  PROVE  ThreadTyped'
BY ThreadWordsStay, ThreadCountsStay, ThreadPlacesStay DEF ThreadTyped
=============================================================================
