----------------------------- MODULE LocalTakeover -----------------------------
(***************************************************************************)
(* The takeover of one local workspace by Conductor Cloud after its CLI     *)
(* login disappeared (src/bot/commands.ts, recoverLocalAgentFailure and     *)
(* what it calls; src/bot/launcher.ts for the launch it drives).            *)
(*                                                                          *)
(* Several prompts of the owner may run on the local workspace.  The first  *)
(* one whose agent proves that it never started begins a takeover; the ones *)
(* that fail while it is in flight join it, wait for its promises and go to *)
(* Cloud either inside the first prompt or through the durable outbox; the  *)
(* ones that fail later find the row bound to Cloud and are forwarded.  The *)
(* poller works on the saga and the outbox at the same time, the owner may  *)
(* press Stop, and a prompt still running locally writes the same row.      *)
(*                                                                          *)
(* The process does not die here: what survives a restart is CloudSaga's    *)
(* subject, this module's is what lives in the memory of the handlers.      *)
(***************************************************************************)
EXTENDS Naturals, FiniteSets

CONSTANTS
    MaxRequests,   \* prompts the owner sends to the local workspace
    MaxStops,      \* presses of Stop
    MaxTrouble,    \* calls of Conductor that fail, local checks that refuse
    MaxWorked      \* local runs that fail after they did something

\* What an instance assumes of its constants.
TakeoverBounds ==
    MaxRequests \in Nat /\ MaxStops \in Nat /\ MaxTrouble \in Nat /\ MaxWorked \in Nat

Requests == 1..MaxRequests

VARIABLES
    row,       \* the workspaces row: status, and whether it is bound to Cloud
    saga,      \* the phase of pending-cloud-launch, "none" without one
    taker,     \* performLocalCloudRecovery and the CloudTakeoverInFlight entry
    request,   \* where the handler of each prompt is
    told,      \* what the owner was told of a prompt that failed locally
    outbox,    \* pending-cloud-messages
    outcome,   \* pending-cloud-message-outcomes
    wire,      \* the first prompt is on its way
    first,     \* requests in the first prompt the last launch got accepted
    taken,     \* requests accepted as a message of the outbox
    count,     \* what the bounds count
    ran,       \* history: how many accepted messages carry each request
    fenced     \* history: requests the last Stop called off: "held" before their
               \* prompt was composed or in the outbox, "raced" after that

vars == <<row, saga, taker, request, told, outbox, outcome, wire, first, taken, count, ran, fenced>>

NoTaker == [pc |-> "idle", owner |-> 0, pend |-> {}, included |-> {}, durable |-> {},
            persisted |-> FALSE, result |-> "none"]

Init ==
    /\ row = [status |-> "running", bound |-> FALSE] /\ saga = "none"
    /\ taker = NoTaker
    /\ request = [r \in Requests |-> "new"]
    /\ told = [r \in Requests |-> "nothing"]
    /\ outbox = {} /\ outcome = [r \in Requests |-> "none"]
    /\ wire = FALSE /\ first = {} /\ taken = {}
    /\ count = [stop |-> 0, trouble |-> 0, worked |-> 0]
    /\ ran = [r \in Requests |-> 0] /\ fenced = [r \in Requests |-> "no"]

Trouble == count.trouble < MaxTrouble
Troubled == count' = [count EXCEPT !.trouble = @ + 1]
Waiting == {r \in Requests : request[r] = "waits"}
Told(rs, what) == told' = [r \in Requests |-> IF r \in rs THEN what ELSE told[r]]
Step(pc) == taker' = [taker EXCEPT !.pc = pc]

\* enqueuePendingCloudMessage: refused for a settled row or a doomed saga.
CanEnqueue(status, phase) ==
    status \notin {"stopped", "failed"} /\ phase \in {"none", "provisioned", "send", "sent"}

-----------------------------------------------------------------------------
(* The local runs: sendMessageToWorkspace and observeAgentCompletion        *)

\* The handler read the row while it was local and awaits a reply to Telegram.
SendBegins(r) ==
    /\ request[r] = "new" /\ ~row.bound
    /\ \A q \in Requests : q < r => request[q] # "new"
    /\ request' = [request EXCEPT ![r] = "sending"]
    /\ UNCHANGED <<row, saga, taker, told, outbox, outcome, wire, first, taken, count, ran, fenced>>

\* The agent is spawned, and the row is written "running" whatever it became.
\* New work of the owner's lifts the fence of an earlier Stop.
SendSpawns(r) ==
    /\ request[r] = "sending"
    /\ request' = [request EXCEPT ![r] = "local"]
    /\ row' = [row EXCEPT !.status = "running"] /\ fenced' = [q \in Requests |-> "no"]
    /\ UNCHANGED <<saga, taker, told, outbox, outcome, wire, first, taken, count, ran>>

\* The run ends well, or is killed: nothing is recovered.
LocalEnds(r) ==
    /\ request[r] = "local" /\ request' = [request EXCEPT ![r] = "done"]
    /\ UNCHANGED <<row, saga, taker, told, outbox, outcome, wire, first, taken, count, ran, fenced>>

\* The run failed after it did something: it is never replayed, the row is
\* written "failed" and the owner is told.
LocalFails(r) ==
    /\ request[r] = "local" /\ count.worked < MaxWorked
    /\ count' = [count EXCEPT !.worked = @ + 1]
    /\ row' = [row EXCEPT !.status = "failed"]
    /\ request' = [request EXCEPT ![r] = "done"] /\ Told({r}, "failed")
    /\ UNCHANGED <<saga, taker, outbox, outcome, wire, first, taken, ran, fenced>>

\* The agent proved that it never started.
\* The first such request begins a takeover.
TakeoverBegins(r) ==
    /\ request[r] = "local" /\ taker = NoTaker /\ ~row.bound
    /\ taker' = [NoTaker EXCEPT !.pc = "branch", !.owner = r, !.pend = {r}]
    /\ request' = [request EXCEPT ![r] = "owns"]
    /\ UNCHANGED <<row, saga, told, outbox, outcome, wire, first, taken, count, ran, fenced>>

\* Mutant: a request that joins after the launch was persisted does not
\* remember that the outbox has it.
JoinsForgetful(r) ==
    /\ taker.persisted /\ CanEnqueue(row.status, saga)
    /\ taker' = [taker EXCEPT !.pend = @ \cup {r}]
    /\ outbox' = outbox \cup {r}

\* A later one joins it.  Once the launch is persisted it is enqueued at once,
\* unless the first prompt has it.
Joins(r) ==
    /\ taker.persisted /\ CanEnqueue(row.status, saga)
    /\ taker' = [taker EXCEPT !.pend = @ \cup {r}, !.durable = @ \cup {r}]
    /\ outbox' = outbox \cup {r}
TakeoverJoined(r) ==
    /\ request[r] = "local" /\ taker # NoTaker
    /\ request' = [request EXCEPT ![r] = "waits"]
    /\ \/ Joins(r)
       \/ /\ ~(taker.persisted /\ CanEnqueue(row.status, saga))
          /\ taker' = [taker EXCEPT !.pend = @ \cup {r}] /\ UNCHANGED outbox
    /\ UNCHANGED <<row, saga, told, outcome, wire, first, taken, count, ran, fenced>>

\* A row already bound to Cloud takes it through the outbox.
LateRequest(r) ==
    /\ request[r] = "local" /\ taker = NoTaker /\ row.bound
    /\ IF CanEnqueue(row.status, saga)
       THEN /\ outbox' = outbox \cup {r}
            /\ request' = [request EXCEPT ![r] = "flush"] /\ UNCHANGED told
       ELSE /\ Told({r}, "resend") /\ request' = [request EXCEPT ![r] = "done"]
            /\ UNCHANGED outbox
    /\ UNCHANGED <<row, saga, taker, outcome, wire, first, taken, count, ran, fenced>>

-----------------------------------------------------------------------------
(* The takeover: performLocalCloudRecovery                                  *)

\* What the waiting requests do when the takeover's promise resolves: without
\* success they are told to resend, except for those the first prompt had;
\* with it they are forwarded, or were in the first prompt.
EndsFor(recovered) ==
    LET late == Waiting \ taker.included
        queue == late \ taker.durable
        refused == IF CanEnqueue(row.status, saga) THEN {} ELSE queue
    IN  /\ request' = [r \in Requests |->
               IF r = taker.owner THEN "done"
               ELSE IF r \in Waiting
               THEN IF recovered /\ r \in late \ refused THEN "flush" ELSE "done"
               ELSE request[r]]
        /\ told' = [r \in Requests |->
               IF r = taker.owner THEN taker.result
               ELSE IF r \in Waiting \cap taker.included THEN taker.result
               ELSE IF r \in late /\ (~recovered \/ r \in refused) THEN "resend"
               ELSE told[r]]
        /\ outbox' = IF recovered THEN outbox \cup (queue \ refused) ELSE outbox
        /\ taker' = NoTaker

\* The result is published and the entry removed from the map.
Reports ==
    /\ taker.pc = "report"
    /\ EndsFor(taker.result = "recovered")
    /\ UNCHANGED <<row, saga, outcome, wire, first, taken, count, ran, fenced>>
Result(what) == taker' = [taker EXCEPT !.pc = "report", !.result = what]

\* Not handled: the completion watch writes "failed" and reports the failure.
NotHandled(pc) ==
    /\ taker.pc = pc /\ Trouble /\ Troubled
    /\ Result("skipped") /\ row' = [row EXCEPT !.status = "failed"]
    /\ UNCHANGED <<saga, request, told, outbox, outcome, wire, first, taken, ran, fenced>>

\* resolveSafeCloudTakeoverBranch: the worktree is dirty, its commit not on
\* origin, or the repository unreadable.
BranchRefused == NotHandled("branch")
\* resolveDefaultRepoLaunchBackend: no API, no project, or no answer.
BackendRefused == NotHandled("backend")

\* The worktree is clean and its commit is on origin.
BranchChecked ==
    /\ taker.pc = "branch" /\ Step("backend")
    /\ UNCHANGED <<row, saga, request, told, outbox, outcome, wire, first, taken, count, ran, fenced>>

\* The project has a Cloud backend; a Stop meanwhile ends the takeover here.
BackendChecked ==
    /\ taker.pc = "backend"
    /\ IF row.status = "stopped" THEN Result("canceled") ELSE Step("creating")
    /\ UNCHANGED <<row, saga, request, told, outbox, outcome, wire, first, taken, count, ran, fenced>>

\* createWorkspace fails: the caller writes "failed".
CreateFails ==
    /\ taker.pc = "creating" /\ Trouble /\ Troubled
    /\ Result("failed") /\ row' = [row EXCEPT !.status = "failed"] /\ saga' = "none"
    /\ UNCHANGED <<request, told, outbox, outcome, wire, first, taken, ran, fenced>>

\* Mutant: the row's status is not looked at when the launch is persisted.
PersistedAnyway(status) == "provisioned"

\* persistPendingCloudLaunch: a row settled meanwhile dooms the launch.
PersistedPhase(status) == CASE status = "stopped" -> "cancel"
                            [] status = "failed" -> "cleanup"
                            [] OTHER -> "provisioned"

\* createWorkspace answers and persistProvisionedCloudLaunch commits.  A row
\* that was settled meanwhile keeps its status.  The waiting requests learn of
\* the session and are enqueued.
Created ==
    LET phase == PersistedPhase(row.status)
        joins == IF phase = "provisioned" THEN Waiting ELSE {}
    IN  /\ taker.pc = "creating"
        /\ row' = [status |-> IF phase = "provisioned" THEN "starting" ELSE row.status,
                   bound |-> TRUE]
        /\ saga' = phase
        /\ taker' = [taker EXCEPT !.pc = "status", !.persisted = TRUE,
                                  !.durable = @ \cup joins]
        /\ outbox' = outbox \cup joins
        /\ first' = {}
        /\ UNCHANGED <<request, told, outcome, wire, taken, count, ran, fenced>>

\* Mutant: the first prompt carries every request known by now.
IncludedAll == taker.pend

\* promptProvider: the first prompt carries what the outbox does not have.
Included == taker.pend \ taker.durable

\* queueFirstCloudPrompt: the prompt is composed and the saga promoted; then
\* the checkout is validated, and the prompt goes out.
Composes ==
    /\ taker.pc = "status" /\ row.status = "starting" /\ saga = "provisioned"
    /\ saga' = "send"
    /\ taker' = [taker EXCEPT !.pc = "validate", !.included = Included]
    /\ UNCHANGED <<row, request, told, outbox, outcome, wire, first, taken, count, ran, fenced>>
Posts ==
    /\ taker.pc = "validate"
    /\ wire' = TRUE /\ Step("posted")
    /\ UNCHANGED <<row, saga, request, told, outbox, outcome, first, taken, count, ran, fenced>>

Accept(rs) == ran' = [r \in Requests |-> IF r \in rs THEN ran[r] + 1 ELSE ran[r]]
\* Conductor takes the first prompt, once by its message id.
FirstAccepted ==
    /\ wire /\ first = {} /\ row.bound
    /\ first' = taker.included /\ Accept(taker.included)
    /\ UNCHANGED <<row, saga, taker, request, told, outbox, outcome, wire, taken, count, fenced>>

Finalized == saga = "none" /\ row.bound /\ first # {}

\* The POST is answered and markPendingCloudLaunchSent commits.
Answered ==
    /\ taker.pc = "posted" /\ first # {}
    /\ \/ saga = "send" /\ row.status = "starting" /\ saga' = "sent"
       \/ Finalized /\ UNCHANGED saga
    /\ wire' = FALSE /\ Step("naming")
    /\ UNCHANGED <<row, request, told, outbox, outcome, first, taken, count, ran, fenced>>

\* finalizePendingCloudLaunch, and the last look at the row: a Stop meanwhile
\* is reported instead of success.
Settled(status) == Result(IF status = "stopped" THEN "canceled" ELSE "recovered")
Finalizes ==
    /\ taker.pc = "naming"
    /\ \/ /\ saga = "sent" /\ row.status = "starting"
          /\ saga' = "none" /\ row' = [row EXCEPT !.status = "running"]
          /\ Settled("running")
       \/ Finalized /\ Settled(row.status) /\ UNCHANGED <<saga, row>>
    /\ UNCHANGED <<request, told, outbox, outcome, wire, first, taken, count, ran, fenced>>

\* The catch block of launchCloudWorkspace.  Exact proof of success wins; a
\* saga the poller marked sent belongs to the poller.
LaunchFails ==
    /\ wire' = FALSE
    /\ IF Finalized THEN Settled(row.status) /\ UNCHANGED <<saga, outbox, outcome>>
       ELSE IF row.status = "stopped" /\ saga # "none"
       THEN /\ saga' = "cancel" /\ Step("archiving")
            /\ outbox' = {}
            /\ outcome' = [r \in Requests |->
                   IF r \in outbox THEN "suppressed" ELSE outcome[r]]
       ELSE IF saga \in {"provisioned", "send", "cleanup"}
       THEN saga' = "cleanup" /\ Step("archiving") /\ UNCHANGED <<outbox, outcome>>
       ELSE Result("uncertain") /\ UNCHANGED <<saga, outbox, outcome>>
    /\ UNCHANGED <<row, request, told, first, taken, ran, fenced>>

\* A transaction of the launch refuses, or the workspace is archived already.
LaunchRefused ==
    /\ \/ taker.pc = "status" /\ ~(row.status = "starting" /\ saga = "provisioned")
       \/ taker.pc = "posted" /\ ~row.bound
       \/ taker.pc = "posted" /\ first # {} /\ saga # "none"
            /\ ~(saga = "send" /\ row.status = "starting")
       \/ taker.pc = "naming" /\ ~Finalized
            /\ ~(saga = "sent" /\ row.status = "starting")
    /\ LaunchFails /\ UNCHANGED count
CallFails ==
    /\ taker.pc \in {"status", "posted"} /\ Trouble /\ Troubled /\ LaunchFails
\* revalidateCloudTakeoverBranch: the checkout or the branch moved.
CheckoutMoved ==
    /\ taker.pc = "validate" /\ Trouble /\ Troubled /\ LaunchFails

\* restorePendingCloudLaunchBinding: the row is unbound, the outbox cleared.
Restores ==
    LET status == IF saga = "cancel" THEN "stopped" ELSE "failed" IN
    /\ row' = [status |-> status, bound |-> FALSE]
    /\ outcome' = [r \in Requests |-> IF r \notin outbox THEN outcome[r]
                   ELSE IF status = "stopped" THEN "suppressed" ELSE "failed"]
    /\ outbox' = {} /\ saga' = "none" /\ first' = {}

\* archiveWorkspace answers, or fails and is left to the poller.
Archived ==
    /\ taker.pc = "archiving"
    /\ IF saga \in {"cleanup", "cancel"}
       THEN Restores /\ Result(IF saga = "cancel" THEN "canceled" ELSE "failed")
       ELSE Result(IF Finalized THEN "recovered" ELSE "uncertain")
                /\ UNCHANGED <<row, saga, outbox, outcome, first>>
    /\ UNCHANGED <<request, told, wire, taken, count, ran, fenced>>
ArchiveFails ==
    /\ taker.pc = "archiving" /\ Trouble /\ Troubled
    /\ Result(IF saga = "cancel" THEN "canceled" ELSE "uncertain")
    /\ UNCHANGED <<row, saga, request, told, outbox, outcome, wire, first, taken, ran, fenced>>

-----------------------------------------------------------------------------
(* The poller and Stop                                                      *)

\* reconcilePendingCloudLaunch finds the prompt by its message id, or sends it.
PollerSends ==
    /\ saga = "send" /\ row.status = "starting" /\ first = {} /\ taker.included # {}
    /\ first' = taker.included /\ Accept(taker.included)
    /\ UNCHANGED <<row, saga, taker, request, told, outbox, outcome, wire, taken, count, fenced>>
PollerMarks ==
    /\ saga = "send" /\ row.status = "starting" /\ first # {}
    /\ saga' = "sent"
    /\ UNCHANGED <<row, taker, request, told, outbox, outcome, wire, first, taken, count, ran, fenced>>
PollerFinalizes ==
    /\ saga = "sent" /\ row.status = "starting"
    /\ saga' = "none" /\ row' = [row EXCEPT !.status = "running"]
    /\ UNCHANGED <<taker, request, told, outbox, outcome, wire, first, taken, count, ran, fenced>>
\* Settled rows turn a launch that was not sent into a cancel or a cleanup.
PollerTurns ==
    /\ saga = "send" /\ row.status \in {"stopped", "failed"}
    /\ saga' = IF row.status = "stopped" THEN "cancel" ELSE "cleanup"
    /\ UNCHANGED <<row, taker, request, told, outbox, outcome, wire, first, taken, count, ran, fenced>>
PollerCleans ==
    /\ saga \in {"cleanup", "cancel"} /\ Restores
    /\ UNCHANGED <<taker, request, told, wire, taken, count, ran, fenced>>

\* markPendingCloudLaunchCanceled and what handleStop writes.
Stop ==
    /\ count.stop < MaxStops /\ count' = [count EXCEPT !.stop = @ + 1]
    /\ row' = [row EXCEPT !.status = "stopped"]
    /\ saga' = IF saga = "none" THEN saga ELSE "cancel"
    /\ outcome' = [r \in Requests |-> IF r \in outbox THEN "suppressed" ELSE outcome[r]]
    /\ outbox' = {}
    /\ fenced' = [r \in Requests |->
           IF ran[r] # 0 \/ r \notin taker.pend \cup outbox THEN "no"
           ELSE IF r \notin taker.included THEN "held"
           ELSE IF taker.pc = "validate" THEN "raced" ELSE "no"]
    /\ UNCHANGED <<taker, request, told, wire, first, taken, ran>>

\* reconcilePendingCloudMessages: by the poller, and for a forwarded request.
CanFlush == row.bound /\ saga = "none" /\ outbox # {}
FlushPosts(r) ==
    /\ CanFlush /\ r \in outbox \ taken /\ row.status \notin {"stopped", "failed"}
    /\ \A q \in outbox \ taken : r <= q
    /\ taken' = taken \cup {r} /\ Accept({r})
    /\ UNCHANGED <<row, saga, taker, request, told, outbox, outcome, wire, first, count, fenced>>
FlushCompletes(r) ==
    /\ CanFlush /\ r \in outbox \cap taken /\ row.status \notin {"stopped", "failed"}
    /\ outbox' = outbox \ {r} /\ outcome' = [outcome EXCEPT ![r] = "delivered"]
    /\ row' = [row EXCEPT !.status = "running"]
    /\ UNCHANGED <<saga, taker, request, told, wire, first, taken, count, ran, fenced>>
\* Mutant: the outbox is emptied and nobody learns of it.
FlushDrops ==
    /\ CanFlush /\ row.status \in {"stopped", "failed"} /\ outbox' = {}
    /\ UNCHANGED <<row, saga, taker, request, told, outcome, wire, first, taken, count, ran, fenced>>

\* A settled row suppresses what is queued.
FlushSuppresses ==
    /\ CanFlush /\ row.status \in {"stopped", "failed"}
    /\ outcome' = [r \in Requests |-> IF r \in outbox THEN "suppressed" ELSE outcome[r]]
    /\ outbox' = {}
    /\ UNCHANGED <<row, saga, taker, request, told, wire, first, taken, count, ran, fenced>>

\* forwardLateRecoveryPromptToCloud reports its own request's outcome, or that
\* it is saved and still pending.
ForwardReports(r) ==
    /\ request[r] = "flush"
    /\ \/ outcome[r] # "none" /\ UNCHANGED count
          /\ Told({r}, IF outcome[r] = "delivered" /\ row.status \in {"stopped", "failed"}
                       THEN "unconfirmed" ELSE outcome[r])
       \/ outcome[r] = "none" /\ Trouble /\ Troubled /\ Told({r}, "pending")
    /\ request' = [request EXCEPT ![r] = "done"]
    /\ UNCHANGED <<row, saga, taker, outbox, outcome, wire, first, taken, ran, fenced>>

Takes ==
    \/ BranchChecked \/ BackendChecked \/ Created \/ Composes \/ Posts \/ FirstAccepted
    \/ Answered \/ Finalizes \/ LaunchRefused \/ Archived \/ Reports
Polls == PollerSends \/ PollerMarks \/ PollerFinalizes \/ PollerTurns \/ PollerCleans
Flushes == FlushSuppresses \/ \E r \in Requests : FlushPosts(r) \/ FlushCompletes(r)
Next ==
    \/ \E r \in Requests : \/ SendBegins(r) \/ SendSpawns(r) \/ LocalEnds(r) \/ LocalFails(r)
                           \/ TakeoverBegins(r) \/ TakeoverJoined(r) \/ LateRequest(r)
                           \/ ForwardReports(r)
    \/ BranchRefused \/ BackendRefused \/ CreateFails \/ CallFails \/ CheckoutMoved
    \/ ArchiveFails
    \/ Takes \/ Polls \/ Stop \/ Flushes

Spec == Init /\ [][Next]_vars
Fairness ==
    /\ WF_vars(Takes) /\ WF_vars(Polls) /\ WF_vars(Flushes)
    /\ \A r \in Requests : /\ WF_vars(SendSpawns(r)) /\ WF_vars(ForwardReports(r))
FairSpec == Spec /\ Fairness

-----------------------------------------------------------------------------
(* Properties                                                               *)

\* Types of the rows and the handlers; a request is enqueued by one handler.
TypeOK ==
    /\ row.status \in {"starting", "running", "failed", "stopped"} /\ row.bound \in BOOLEAN
    /\ saga \in {"none", "provisioned", "send", "sent", "cleanup", "cancel"}
    /\ saga # "none" => row.bound
    /\ taker.included \cup taker.durable \subseteq taker.pend
    /\ Waiting # {} => taker # NoTaker
    /\ outbox \cup taken \cup first \subseteq Requests

\* A local request reaches Cloud once, in the first prompt or through the
\* outbox, however it met the takeover (promptProvider leaves out what the
\* outbox has).
ReplayedOnce == \A r \in Requests : ran[r] <= 1

\* A request Stop finds in the outbox, or waiting for a prompt that has not
\* been composed, never reaches Cloud.
QueuedStopHolds == \A r \in Requests : fenced[r] = "held" => ran[r] = 0

\* "the bot will not send the pending prompt": nor does one that was composed
\* and not sent yet.
StopHolds == \A r \in Requests : fenced[r] # "no" => ran[r] = 0

\* "was not replayed.  Resend it": the request the owner is asked to resend
\* has not reached Cloud.
NotReplayedIsTrue == \A r \in Requests : told[r] = "resend" => ran[r] = 0

\* A local handler wrote "running" or "failed" over the "starting" of a launch
\* under way: no transaction of the launch accepts that row again.
Overwritten == \/ saga = "sent" /\ row.status # "starting"
               \/ saga = "send" /\ row.status = "running"

\* Every request that joined a takeover, or came after it, is reported.
Joined(r) == request[r] \in {"owns", "waits", "flush"}
Answers(r) == told[r] # "nothing" \/ Overwritten
EveryoneIsTold == \A r \in Requests : Joined(r) ~> Answers(r)

\* A launch ends, finalized or cleaned up, unless its row is written over.
Ongoing == saga # "none"
LaunchEnds == Ongoing ~> (~Ongoing \/ Overwritten)

\* "The bot will keep retrying cleanup": a launch ends in any case.
EveryLaunchEnds == Ongoing ~> ~Ongoing
=============================================================================
