------------------------------ MODULE CloudSaga ------------------------------
(***************************************************************************)
(* The bot's durable Cloud work on one tracked workspace                    *)
(* (src/store/queries.ts, src/bot/launcher.ts, src/bot/commands.ts,         *)
(* src/bot/index.ts): the saga of a launch and its first prompt, the lease  *)
(* of a send, the outbox of recovered requests, the intent of a Stop or an  *)
(* Archive, and the notices that wait for Telegram.  All of them are rows   *)
(* of one SQLite file, each written in a transaction of its own between two *)
(* calls of the Conductor API.  The foreground of a command, the poller's   *)
(* three reconcilers and the owner's buttons interleave at every await, and *)
(* the process may die at any of them.                                      *)
(*                                                                          *)
(* A launch k creates session k; home[k] is the launch whose workspace it   *)
(* lives in, so home[k] = k is a new workspace and anything else a thread.  *)
(***************************************************************************)
EXTENDS Naturals, FiniteSets

CONSTANTS
    MaxLaunches,   \* launches and threads the owner starts
    MaxSends,      \* messages the owner sends to a bound session
    MaxRequests,   \* local requests that fail and are recovered in Cloud
    MaxStops,      \* presses of Stop
    MaxArchives,   \* presses of Archive
    MaxCrashes,    \* deaths of the bot's process
    MaxEvents      \* all of these together

ASSUME SagaBounds ==
    /\ MaxLaunches \in Nat /\ MaxSends \in Nat /\ MaxRequests \in Nat
    /\ MaxStops \in Nat /\ MaxArchives \in Nat /\ MaxCrashes \in Nat /\ MaxEvents \in Nat

Launches == 1..MaxLaunches
Requests == 1..MaxRequests
Msgs == ({"first"} \X Launches) \cup ({"send"} \X (1..MaxSends))
            \cup ({"req"} \X Requests)

VARIABLES
    row,       \* the workspaces row: status, binding (ws, ses), archived_at
    saga,      \* pending-cloud-launch
    receipt,   \* finalized-cloud-launch: the launch it proves, or 0
    intent,    \* pending-cloud-terminal
    targets,   \* cloud-session-targets: sessions a lease was bound to
    lease,     \* cloud-work-leases (at most one can be live)
    outbox,    \* pending-cloud-messages
    outcome,   \* pending-cloud-message-outcomes
    notices,   \* pending-cloud-notices of the kinds that close the topic
    home,      \* the workspace of each session, 0 before it is created
    where,     \* the session each message was posted to, 0 before
    wire,      \* messages whose POST is on its way
    seen,      \* messages the service accepted (its dedupe by message id)
    live,      \* accepted messages no cancel, archive or end has settled
    gone,      \* archived workspaces and sessions
    runner,    \* "fg": the launch in the foreground; "rec": the launch
               \* reconciliation the poller (or a failed thread) runs
    term,      \* the shared terminal reconciliation
    sender,    \* the send in the foreground
    flush,     \* the outbox flush
    stopper,   \* a Stop handler waits for the terminal reconciliation
    eager,     \* a late request asks for a flush past the poller's gates
    count,     \* what the bounds count
    doomed,    \* history: work the last Stop must fence
    gaveUp,    \* history: the last Stop or Archive was given up on
    finals     \* history: launches ever finalized

store == <<row, saga, receipt, intent, targets, lease, outbox, outcome, notices>>
remote == <<home, where, wire, seen, live, gone>>
procs == <<runner, term, sender, flush, stopper, eager>>
ghosts == <<doomed, gaveUp, finals>>
vars == <<store, remote, procs, count, ghosts>>

NoSaga == [id |-> 0, phase |-> "none", prev |-> [status |-> "none", ws |-> 0, ses |-> 0]]
NoIntent == [action |-> "none", ws |-> 0, ses |-> 0, sessions |-> {}, at |-> 0]
NoLease == [by |-> "none", ws |-> 0, ses |-> 0]
Idle == [pc |-> "idle", id |-> 0, ses |-> 0]
TermIdle == [pc |-> "idle", want |-> NoIntent, unresolved |-> FALSE, todo |-> {}]
FlushIdle == [pc |-> "idle", req |-> 0, ses |-> 0, todo |-> {}]

Terminal == {"stopped", "archived"}
FinalNotices == {"stop_confirmed", "archive_confirmed", "launch_canceled"}

Resource(k) == IF home[k] = k THEN <<"ws", k>> ELSE <<"ses", k>>
SessionGone(k) == <<"ws", home[k]>> \in gone \/ <<"ses", k>> \in gone
InSessions(ss) == {m \in Msgs : where[m] \in ss}
InWorkspace(w) == {m \in Msgs : where[m] # 0 /\ home[where[m]] = w}
\* Work that runs, or that may still start: accepted and unsettled, or on the
\* wire for the first time, in a session that is not archived.
Running == {m \in live \cup (wire \ seen) : ~SessionGone(where[m])}
First(k) == <<"first", k>>
Req(r) == <<"req", r>>

\* Another launch, message, request, press or crash fits the bounds.
Room == count.launch + count.send + count.stop + count.archive + count.crash
            + Cardinality({r \in Requests : outcome[r] # "new"}) < MaxEvents

Init ==
    /\ row \in [status : {"starting", "running"}, ws : {0}, ses : {0}, archivedAt : {FALSE}]
    /\ saga = NoSaga /\ receipt = 0 /\ intent = NoIntent /\ targets = {}
    /\ lease = NoLease /\ outbox = {} /\ notices = {}
    /\ outcome = [r \in Requests |-> "new"]
    /\ home = [k \in Launches |-> 0] /\ where = [m \in Msgs |-> 0]
    /\ wire = {} /\ seen = {} /\ live = {} /\ gone = {}
    /\ runner = [p \in {"fg", "rec"} |-> Idle] /\ term = TermIdle /\ sender = Idle
    /\ flush = FlushIdle /\ stopper = FALSE /\ eager = FALSE
    /\ count = [launch |-> 0, send |-> 0, stop |-> 0, archive |-> 0, crash |-> 0, at |-> 0]
    /\ doomed = {} /\ gaveUp = FALSE /\ finals = {}

-----------------------------------------------------------------------------
(* Transactions of src/store/queries.ts                                     *)

\* recordPendingCloudMessageOutcomesInTransaction
Record(rs, result) ==
    outcome' = [r \in Requests |-> IF r \in rs THEN result ELSE outcome[r]]
Queued == {x.req : x \in outbox}

\* finalizedCloudLaunchMatchesInTransaction
Finalized(k) ==
    /\ row.status \in {"running", "done", "failed"}
    /\ row.ws = home[k] /\ row.ses = k /\ receipt = k

\* persistPendingCloudTerminalIntentInTransaction: an archive is never
\* downgraded, a repeated request unites the sessions.
MergedIntent(new) ==
    IF intent.action = "archive" /\ new.action = "stop" THEN intent
    ELSE IF intent.action = new.action /\ intent.ws = new.ws
         THEN [new EXCEPT !.sessions = @ \cup intent.sessions]
         ELSE new

\* Mutant: the sessions a lease names are taken over without dropping "none".
CancelsUnbound(presses) ==
    /\ saga' = IF saga = NoSaga THEN saga ELSE [saga EXCEPT !.phase = "cancel"]
    /\ intent' = IF row.ws = 0 THEN intent ELSE MergedIntent(
           [action |-> "stop", ws |-> row.ws, ses |-> row.ses, at |-> count.at + 1,
            sessions |-> {row.ses, lease.ses}])
    /\ Record(Queued, "suppressed")
    /\ outbox' = {}
    /\ count' = [count EXCEPT !.at = @ + 1, !.stop = @ + presses]

\* markPendingCloudLaunchCanceled.  It names the bound session and every
\* session a lease was bound to.
CanceledRow == [row EXCEPT !.status = IF @ = "archived" THEN @ ELSE "stopped"]
Cancels(presses) ==
    /\ saga' = IF saga = NoSaga THEN saga ELSE [saga EXCEPT !.phase = "cancel"]
    /\ IF row.ws = 0 THEN UNCHANGED intent ELSE
           intent' = MergedIntent(
               [action |-> IF row.status = "archived" THEN "archive" ELSE "stop",
                ws |-> row.ws, ses |-> row.ses, at |-> count.at + 1,
                sessions |-> {row.ses} \cup {s \in targets : home[s] = row.ws}
                    \cup (IF lease.ws = row.ws THEN {lease.ses} \ {0} ELSE {})])
    /\ Record(Queued, "suppressed")
    /\ outbox' = {}
    /\ count' = [count EXCEPT !.at = @ + 1, !.stop = @ + presses]
MarkCanceled == row' = CanceledRow /\ Cancels(0)

\* markPendingCloudLaunchPhase("cleanup"): cancel and a receipt dominate.
CleanupAllowed(k) == saga.id = k /\ saga.phase \notin {"cancel", "sent"}

\* pendingCloudLaunchCanSend
LaunchCanSend(k) ==
    /\ row.status = "starting" /\ row.ws = home[k] /\ row.ses = k
    /\ saga.id = k /\ saga.phase = "send"

\* markPendingCloudLaunchSent and finalizePendingCloudLaunch
MarkSentAllowed(k) ==
    IF saga = NoSaga THEN Finalized(k) ELSE LaunchCanSend(k)
FinalizeAllowed(k) ==
    IF saga = NoSaga THEN Finalized(k)
    ELSE row.status = "starting" /\ saga.phase = "sent" /\ saga.id = k
Finalize(k) ==
    IF saga = NoSaga THEN UNCHANGED <<row, saga, receipt, finals>> ELSE
        /\ row' = [row EXCEPT !.status = "running", !.ws = home[k], !.ses = k]
        /\ saga' = NoSaga /\ receipt' = k
        /\ finals' = finals \cup {k}

\* persistPendingCloudLaunch
PersistLaunch(k, phase) ==
    /\ saga' = [id |-> k, phase |-> phase,
                prev |-> [status |-> row.status, ws |-> row.ws, ses |-> row.ses]]
    /\ row' = [row EXCEPT !.ws = home[k], !.ses = k,
                          !.status = IF phase = "provisioned" THEN "starting" ELSE @]
    /\ receipt' = 0 /\ lease' = NoLease
    /\ outbox' = IF phase = "cancel" THEN {} ELSE outbox

\* Mutant: the rollback sets the status and leaves the binding.
RestoreStatusOnly ==
    /\ row' = [row EXCEPT !.status = IF saga.phase = "cancel" THEN "stopped" ELSE "failed"]
    /\ Record(Queued, "failed")
    /\ notices' = notices \cup {"launch_canceled"}
    /\ saga' = NoSaga /\ outbox' = {} /\ lease' = NoLease

\* restorePendingCloudLaunchBinding, with the status and the notice that
\* launchCloudWorkspace and cleanupPendingCloudLaunch choose for it.
RestoreLaunch ==
    LET canceled == saga.phase = "cancel"
        status == IF canceled
                  THEN IF "archived" \in {row.status, saga.prev.status}
                       THEN "archived" ELSE "stopped"
                  ELSE IF home[saga.id] # saga.id THEN saga.prev.status ELSE "failed"
        lost == IF status \in Terminal THEN "suppressed" ELSE "failed"
    IN  /\ row' = [row EXCEPT !.ws = saga.prev.ws, !.ses = saga.prev.ses, !.status = status]
        /\ Record(Queued, lost)
        /\ notices' = notices \cup (IF canceled THEN {"launch_canceled"} ELSE {})
        /\ saga' = NoSaga /\ outbox' = {} /\ lease' = NoLease

\* Mutant: a second sender may begin while the first one's POST is out.
LeaseFreeForAll(allowPending) ==
    /\ ~row.archivedAt /\ row.status # "archived" /\ row.ws # 0
    /\ intent = NoIntent /\ saga = NoSaga
    /\ notices \cap FinalNotices = {}
    /\ allowPending \/ outbox = {}

\* beginCloudWorkLease, refreshCloudWorkLease and cloudWorkLeaseCanSend
LeaseFree(allowPending) ==
    /\ ~row.archivedAt /\ row.status # "archived" /\ row.ws # 0
    /\ intent = NoIntent /\ saga = NoSaga
    /\ notices \cap FinalNotices = {}
    /\ lease = NoLease
    /\ allowPending \/ outbox = {}
LeaseCanSend(by) ==
    /\ ~row.archivedAt /\ row.status # "archived"
    /\ intent = NoIntent /\ notices \cap FinalNotices = {}
    /\ lease.by = by /\ row.ws = lease.ws
Unleased(by) == IF lease.by = by THEN NoLease ELSE lease

\* pendingCloudMessageGateInTransaction
MessageGate(r, s) ==
    IF [req |-> r, ses |-> s] \notin outbox THEN "missing"
    ELSE IF row.ws # home[s] \/ row.ses # s THEN "mismatch"
    ELSE IF \/ row.status \in Terminal \cup {"failed"}
            \/ saga # NoSaga /\ saga.phase # "send"
         THEN "suppressed" ELSE "send"

\* Mutant: the entries go, and nobody learns of it.
DropOutbox(scope, result) ==
    outbox' = {x \in outbox : x.req \notin scope} /\ UNCHANGED outcome

\* clearPendingCloudMessagesWithNotice, within the scope a flush captured
ClearOutbox(scope, result) ==
    LET hit == {x \in outbox : x.req \in scope} IN
    /\ Record({x.req : x \in hit}, result)
    /\ outbox' = outbox \ hit

-----------------------------------------------------------------------------
(* Launches: launchCloudWorkspace and launchWorkspaceSession in "fg",       *)
(* performPendingCloudLaunchReconciliation in "rec".                        *)

Step(p, pc) == runner' = [runner EXCEPT ![p].pc = pc]
Finish(p) == runner' = [runner EXCEPT ![p] = Idle]

\* createWorkspace, for a row without a Cloud binding, or createSession under a
\* lease.  The service may have created the resource from here on.
FgCreate(k, w) ==
    /\ runner["fg"] = Idle /\ Room /\ k = count.launch + 1
    /\ \/ w = k /\ row.ws = 0 /\ saga = NoSaga /\ row.status \notin Terminal
          /\ UNCHANGED lease
       \/ w = row.ws /\ LeaseFree(FALSE)
          /\ lease' = [by |-> "thread", ws |-> w, ses |-> 0]
    /\ home' = [home EXCEPT ![k] = w]
    /\ runner' = [runner EXCEPT !["fg"] = [pc |-> "creating", id |-> k, ses |-> row.ses]]
    /\ count' = [count EXCEPT !.launch = k]
    /\ UNCHANGED <<row, saga, receipt, intent, targets, outbox, outcome, notices, where,
                   wire, seen, live, gone, term, sender, flush, stopper, eager, ghosts>>

\* The call fails.  The caller of a workspace launch then clears the saga and
\* writes "failed" whatever the row has become.
FgCreateFails ==
    LET k == runner["fg"].id IN
    /\ runner["fg"].pc = "creating"
    /\ IF home[k] = k
       THEN row' = [row EXCEPT !.status = "failed"] /\ saga' = NoSaga /\ UNCHANGED lease
       ELSE lease' = Unleased("thread") /\ UNCHANGED <<row, saga>>
    /\ Finish("fg")
    /\ UNCHANGED <<receipt, intent, targets, outbox, outcome, notices, remote, term, sender,
                   flush, stopper, eager, count, ghosts>>

\* The identity is persisted before anything is sent.  A thread is refused
\* when its lease is gone (unless a Stop or Archive revoked it: then it is
\* persisted as canceled) or when the binding moved.
FgPersist ==
    LET k == runner["fg"].id
        new == home[k] = k
        held == lease.by = "thread"
        ok == \/ new
              \/ /\ saga = NoSaga /\ row.ws = home[k] /\ row.ses = runner["fg"].ses
                 /\ held \/ intent.ws = home[k]
        phase == IF new
                 THEN IF row.status \in Terminal THEN "cancel"
                      ELSE IF row.status \in {"failed", "done"} THEN "cleanup"
                      ELSE "provisioned"
                 ELSE IF intent # NoIntent THEN "cancel" ELSE "provisioned"
    IN  /\ runner["fg"].pc = "creating"
        /\ IF ok THEN PersistLaunch(k, phase) /\ Step("fg", "validate")
           ELSE Step("fg", "orphan") /\ UNCHANGED <<row, saga, receipt, lease, outbox>>
        /\ UNCHANGED <<intent, targets, outcome, notices, remote, term, sender, flush,
                       stopper, eager, count, ghosts>>

\* A session nobody persisted is archived, as far as that works.
FgOrphan ==
    /\ runner["fg"].pc = "orphan"
    /\ gone' \in {gone, gone \cup {<<"ses", runner["fg"].id>>}}
    /\ lease' = Unleased("thread") /\ Finish("fg")
    /\ UNCHANGED <<row, saga, receipt, intent, targets, outbox, outcome, notices, home, where,
                   wire, seen, live, term, sender, flush, stopper, eager, count, ghosts>>

\* queueFirstCloudPrompt: promotePendingCloudLaunchToSend, then the checkout is
\* validated once more, then the prompt goes out with no further look at the row.
FgPromote ==
    LET k == runner["fg"].id IN
    /\ runner["fg"].pc = "validate"
    /\ row.status = "starting" /\ row.ws = home[k] /\ row.ses = k
    /\ saga.id = k /\ saga.phase = "provisioned"
    /\ saga' = [saga EXCEPT !.phase = "send"]
    /\ Step("fg", "post")
    /\ UNCHANGED <<row, receipt, intent, targets, lease, outbox, outcome, notices, remote,
                   term, sender, flush, stopper, eager, count, ghosts>>
FgPost ==
    LET k == runner["fg"].id IN
    /\ runner["fg"].pc = "post"
    /\ wire' = wire \cup {First(k)} /\ where' = [where EXCEPT ![First(k)] = k]
    /\ Step("fg", "posted")
    /\ UNCHANGED <<store, home, seen, live, gone, term, sender, flush, stopper, eager, count, ghosts>>

\* The POST is answered and markPendingCloudLaunchSent commits.
Answered(p) ==
    LET k == runner[p].id IN
    /\ runner[p].pc = "posted" /\ First(k) \in seen /\ MarkSentAllowed(k)
    /\ saga' = IF saga = NoSaga THEN saga ELSE [saga EXCEPT !.phase = "sent"]
    /\ Step(p, "naming")
    /\ UNCHANGED <<row, receipt, intent, targets, lease, outbox, outcome, notices, remote,
                   term, sender, flush, stopper, eager, count, ghosts>>

\* The assigned name is read, then finalizePendingCloudLaunch commits.
NamedAndFinal(p) ==
    /\ runner[p].pc = "naming" /\ FinalizeAllowed(runner[p].id)
    /\ Finalize(runner[p].id) /\ Finish(p)
    /\ UNCHANGED <<intent, targets, lease, outbox, outcome, notices, remote, term, sender,
                   flush, stopper, eager, count, doomed, gaveUp>>

\* The catch block of a launch: a call failed, was given up on, or a
\* transaction refused.  Exact proof of success wins; otherwise the saga is
\* made uncleanable-by-replay before the first cleanup call.  A thread whose
\* prompt may have been accepted leaves that to the shared reconciliation.
FgError ==
    LET k == runner["fg"].id
        stopped == saga # NoSaga /\ row.status \in Terminal
        handoff == home[k] # k /\ saga.phase \in {"send", "sent"}
    IN  /\ \/ runner["fg"].pc \in {"validate", "post", "posted"}
           \/ runner["fg"].pc = "naming" /\ ~FinalizeAllowed(k)
        /\ IF Finalized(k)
           THEN Finish("fg") /\ UNCHANGED <<row, saga, intent, outbox, outcome, count>>
           ELSE IF handoff
           THEN Step("fg", "handoff") /\ UNCHANGED <<row, saga, intent, outbox, outcome, count>>
           ELSE IF stopped /\ home[k] = k
           THEN /\ MarkCanceled
                /\ IF saga.id = k THEN Step("fg", "archiving") ELSE Finish("fg")
           ELSE /\ saga' = IF CleanupAllowed(k) THEN [saga EXCEPT !.phase = "cleanup"] ELSE saga
                /\ IF saga.id = k /\ saga.phase # "sent"
                   THEN Step("fg", "archiving") ELSE Finish("fg")
                /\ UNCHANGED <<row, intent, outbox, outcome, count>>
        /\ wire' = IF runner["rec"].id = k THEN wire ELSE wire \ {First(k)}
        /\ UNCHANGED <<receipt, targets, lease, notices, home, where, seen, live, gone,
                       term, sender, flush, stopper, eager, ghosts>>

\* After the shared reconciliation a thread still owns what it finds pending.
FgHandoff ==
    /\ runner["fg"].pc = "handoff" /\ runner["rec"] = Idle
    /\ IF saga.phase \in {"cleanup", "cancel"} THEN Step("fg", "archiving") ELSE Finish("fg")
    /\ UNCHANGED <<store, remote, term, sender, flush, stopper, eager, count, ghosts>>

\* reconcilePendingCloudLaunch: the poller calls it once no terminal intent is
\* pending, a failed thread in any case; one attempt is shared.
RecStart ==
    LET k == saga.id IN
    /\ runner["rec"] = Idle /\ saga # NoSaga
    /\ intent = NoIntent \/ runner["fg"].pc = "handoff"
    /\ ~(saga.phase = "provisioned" /\ runner["fg"].id = k)
    /\ IF saga.phase = "send" /\ row.status \in Terminal
       THEN MarkCanceled /\ UNCHANGED runner
       ELSE /\ saga' = IF saga.phase = "provisioned"
                       THEN [saga EXCEPT !.phase = "cleanup"] ELSE saga
            /\ runner' = [runner EXCEPT !["rec"] =
                  [pc |-> CASE saga.phase = "sent" -> "naming"
                            [] saga.phase = "send" -> "get"
                            [] OTHER -> "archiving",
                   id |-> k, ses |-> 0]]
            /\ UNCHANGED <<row, intent, outbox, outcome, count>>
    /\ UNCHANGED <<receipt, targets, lease, notices, remote, term, sender, flush, stopper,
                   eager, ghosts>>

\* GET tells whether the prompt was accepted; if not, the same id is POSTed.
RecGet ==
    LET k == runner["rec"].id IN
    /\ runner["rec"].pc = "get"
    /\ IF First(k) \in seen
       THEN /\ IF MarkSentAllowed(k)
               THEN /\ saga' = IF saga = NoSaga THEN saga ELSE [saga EXCEPT !.phase = "sent"]
                    /\ Step("rec", "naming")
               ELSE Finish("rec") /\ UNCHANGED saga
            /\ UNCHANGED <<wire, where>>
       ELSE /\ IF LaunchCanSend(k)
               THEN /\ wire' = wire \cup {First(k)} /\ where' = [where EXCEPT ![First(k)] = k]
                    /\ Step("rec", "posted")
               ELSE Finish("rec") /\ UNCHANGED <<wire, where>>
            /\ UNCHANGED saga
    /\ UNCHANGED <<row, receipt, intent, targets, lease, outbox, outcome, notices, home, seen,
                   live, gone, term, sender, flush, stopper, eager, count, ghosts>>

\* A call of the reconciliation fails, or a transaction refuses: retryable
\* errors end the attempt, others turn an unsettled saga into a cleanup.
RecFails ==
    LET k == runner["rec"].id IN
    /\ \/ /\ runner["rec"].pc \in {"get", "posted"}
          /\ \/ Finish("rec") /\ UNCHANGED saga
             \/ /\ CleanupAllowed(k)
                /\ saga' = [saga EXCEPT !.phase = "cleanup"]
                /\ Step("rec", "archiving")
       \/ /\ runner["rec"].pc = "naming" /\ ~FinalizeAllowed(k)
          /\ Finish("rec") /\ UNCHANGED saga
    /\ wire' = IF runner["fg"].id = k THEN wire ELSE wire \ {First(k)}
    /\ UNCHANGED <<row, receipt, intent, targets, lease, outbox, outcome, notices, home,
                   where, seen, live, gone, term, sender, flush, stopper, eager, count, ghosts>>

\* cleanupPendingCloudLaunch and the end of launchCloudWorkspace: the resource
\* is archived, or was gone, and then the exact saga is rolled back.
Archives(p) ==
    /\ runner[p].pc = "archiving"
    /\ gone' = gone \cup {Resource(runner[p].id)}
    /\ \/ Step(p, "archived") /\ UNCHANGED saga
       \/ Finish(p) /\ saga' = IF CleanupAllowed(runner[p].id)
                               THEN [saga EXCEPT !.phase = "cleanup"] ELSE saga
    /\ UNCHANGED <<row, receipt, intent, targets, lease, outbox, outcome, notices, home, where,
                   wire, seen, live, term, sender, flush, stopper, eager, count, ghosts>>
ArchiveFails(p) ==
    /\ runner[p].pc = "archiving" /\ Finish(p)
    /\ saga' = IF CleanupAllowed(runner[p].id) THEN [saga EXCEPT !.phase = "cleanup"] ELSE saga
    /\ UNCHANGED <<row, receipt, intent, targets, lease, outbox, outcome, notices, remote,
                   term, sender, flush, stopper, eager, count, ghosts>>
RollsBack(p) ==
    /\ runner[p].pc = "archived" /\ Finish(p)
    /\ IF saga.id = runner[p].id THEN RestoreLaunch
       ELSE UNCHANGED <<row, saga, lease, outbox, outcome, notices>>
    /\ UNCHANGED <<receipt, intent, targets, remote, term, sender, flush, stopper, eager,
                   count, ghosts>>
-----------------------------------------------------------------------------
(* Stop and Archive: performPendingCloudTerminalReconciliation, shared by   *)
(* the poller, the buttons and the senders.                                 *)

\* Mutant: an attempt does not ask whether a send is still in flight.
TermBeginsBlind(i, l) == [pc |-> "calling", want |-> i, todo |-> i.sessions,
                          unresolved |-> FALSE]

\* What the reconciliation reads before its first call.
TermBegins(i, l) == [pc |-> "calling", want |-> i, todo |-> i.sessions,
                     unresolved |-> i.action = "stop" /\ l.ws = i.ws]
TermJoins(l) == term' = IF term = TermIdle THEN TermBegins(intent', l) ELSE term

\* handleStop and handleStopCallback: markPendingCloudLaunchCanceled, then the
\* saved intent is reconciled.  Without one there is nothing remote to wait for.
Stop ==
    /\ count.stop < MaxStops /\ Room /\ ~stopper
    /\ Cancels(1)
    /\ IF intent' = NoIntent
       THEN row' = [row EXCEPT !.status = "stopped"] /\ UNCHANGED <<term, stopper>>
       ELSE row' = CanceledRow /\ TermJoins(lease) /\ stopper' = TRUE
    /\ doomed' = {m \in Running : where[m] \in intent'.sessions}
                     \cup (IF saga = NoSaga THEN {} ELSE {First(saga.id)})
    /\ gaveUp' = FALSE
    /\ UNCHANGED <<receipt, targets, lease, notices, remote, runner, sender, flush, eager, finals>>

\* archiveWorkspace, then the same reconciliation.  The intent names the
\* binding of the row, or the saga's workspace when the row has none.
Archive ==
    LET w == IF row.ws # 0 THEN row.ws ELSE IF saga = NoSaga THEN 0 ELSE home[saga.id] IN
    /\ count.archive < MaxArchives /\ Room
    /\ row' = [row EXCEPT !.status = "archived", !.archivedAt = TRUE]
    /\ saga' = IF saga = NoSaga THEN saga ELSE [saga EXCEPT !.phase = "cancel"]
    /\ IF w = 0 THEN UNCHANGED <<intent, term>> ELSE
          /\ intent' = MergedIntent([action |-> "archive", ws |-> w, at |-> count.at + 1,
                 ses |-> IF row.ws # 0 THEN row.ses ELSE saga.id, sessions |-> {}])
          /\ TermJoins(NoLease)
    /\ Record(Queued, "suppressed") /\ outbox' = {} /\ lease' = NoLease
    /\ count' = [count EXCEPT !.archive = @ + 1, !.at = @ + 1]
    /\ doomed' = doomed \cup (Running \cap InWorkspace(w))
                  \cup (IF saga = NoSaga THEN {} ELSE {First(saga.id)})
    /\ gaveUp' = FALSE
    /\ UNCHANGED <<receipt, targets, notices, remote, runner, sender, flush, stopper, eager, finals>>

\* The poller resumes a saved intent; so does a send that finds one.
TermStart ==
    /\ intent # NoIntent /\ term = TermIdle
    /\ term' = TermBegins(intent, lease)
    /\ UNCHANGED <<store, remote, runner, sender, flush, stopper, eager, count, ghosts>>

\* One cancelSession, or the one archiveWorkspace.
TermCancels(s) ==
    /\ term.pc = "calling" /\ term.want.action = "stop" /\ s \in term.todo
    /\ live' = live \ InSessions({s})
    /\ term' = [term EXCEPT !.todo = @ \ {s}]
    /\ UNCHANGED <<store, home, where, wire, seen, gone, runner, sender, flush, stopper, eager,
                   count, ghosts>>
TermArchives ==
    /\ term.pc = "calling" /\ term.want.action = "archive"
    /\ gone' = gone \cup {<<"ws", term.want.ws>>}
    /\ term' = [term EXCEPT !.pc = "confirmed"]
    /\ UNCHANGED <<store, home, where, wire, seen, live, runner, sender, flush, stopper, eager,
                   count, ghosts>>

\* The attempt's answer, and what a waiting Stop handler does with it: told
\* "completed" or "none" it writes "stopped", whatever the row has become.
Settle(result) ==
    /\ term' = TermIdle /\ stopper' = FALSE
    /\ row' = IF stopper /\ result \in {"completed", "none"}
              THEN [row EXCEPT !.status = "stopped"] ELSE row

\* completePendingCloudTerminalIntent, unless a send was unresolved when the
\* attempt began, or the intent has been replaced since.
TermConfirms ==
    LET match == intent # NoIntent /\ intent.action = term.want.action
                     /\ intent.ws = term.want.ws /\ intent.ses = term.want.ses
                     /\ intent.at = term.want.at
    IN  /\ \/ term.pc = "confirmed"
           \/ term.pc = "calling" /\ term.want.action = "stop" /\ term.todo = {}
        /\ IF ~term.unresolved /\ match
           THEN /\ notices' = notices \cup {IF intent.action = "stop"
                                            THEN "stop_confirmed" ELSE "archive_confirmed"}
                /\ intent' = NoIntent /\ lease' = NoLease /\ targets' = {}
                /\ Settle("completed")
           ELSE /\ Settle(IF term.unresolved \/ intent # NoIntent THEN "pending" ELSE "none")
                /\ UNCHANGED <<notices, intent, lease, targets>>
        /\ UNCHANGED <<saga, receipt, outbox, outcome, remote, runner, sender, flush, eager,
                       count, ghosts>>

\* A call fails.  A retryable error leaves the intent for the next attempt; a
\* fatal one, or an hour of retries, retires it with a notice.
TermFails ==
    LET match == intent # NoIntent /\ intent.at = term.want.at IN
    /\ term.pc = "calling" /\ (term.want.action = "archive" \/ term.todo # {})
    /\ \/ Settle("pending") /\ UNCHANGED <<intent, lease, gaveUp>>
       \/ /\ ~term.unresolved
          /\ IF match THEN /\ intent' = NoIntent /\ lease' = NoLease
                           /\ gaveUp' = TRUE /\ Settle("failed")
             ELSE /\ Settle(IF intent # NoIntent THEN "pending" ELSE "none")
                  /\ UNCHANGED <<intent, lease, gaveUp>>
    /\ UNCHANGED <<saga, receipt, targets, outbox, outcome, notices, remote, runner, sender,
                   flush, eager, count, doomed, finals>>

-----------------------------------------------------------------------------
(* Messages to a bound session: sendToSession under a lease                 *)

SendBegin ==
    /\ sender = Idle /\ count.send < MaxSends /\ Room /\ LeaseFree(FALSE)
    /\ lease' = [by |-> "send", ws |-> row.ws, ses |-> 0]
    /\ sender' = [pc |-> "target", id |-> count.send + 1, ses |-> row.ws]
    /\ count' = [count EXCEPT !.send = @ + 1]
    /\ UNCHANGED <<row, saga, receipt, intent, targets, outbox, outcome, notices, remote,
                   runner, term, flush, stopper, eager, ghosts>>

\* The target is looked up; at the final gate the lease is refreshed and bound
\* to it, the target remembered, and the message goes out.
SendPost(s) ==
    LET m == <<"send", sender.id>> IN
    /\ sender.pc = "target" /\ home[s] = lease.ws /\ ~SessionGone(s)
    /\ LeaseCanSend("send")
    /\ lease' = [lease EXCEPT !.ses = s] /\ targets' = targets \cup {s}
    /\ wire' = wire \cup {m} /\ where' = [where EXCEPT ![m] = s]
    /\ sender' = [sender EXCEPT !.pc = "posted"]
    /\ UNCHANGED <<row, saga, receipt, intent, outbox, outcome, notices, home, seen, live, gone,
                   runner, term, flush, stopper, eager, count, ghosts>>

\* The lookup fails, the gate refuses, or the POST is given up on: its request
\* was taken before, or never will be.
SendFails ==
    /\ sender.pc \in {"target", "posted"}
    /\ wire' = wire \ {<<"send", sender.id>>}
    /\ lease' = Unleased("send") /\ sender' = Idle
    /\ UNCHANGED <<row, saga, receipt, intent, targets, outbox, outcome, notices, home, where,
                   seen, live, gone, runner, term, flush, stopper, eager, count, ghosts>>

\* The POST is answered: completeCloudWorkLease, or, when a Stop revoked the
\* lease meanwhile, ensurePendingCloudStopIntent and a reconciliation.
SendAnswered ==
    LET m == <<"send", sender.id>>
        rearm == row.status = "stopped" /\ ~row.archivedAt /\ row.ws = sender.ses
    IN  /\ sender.pc = "posted" /\ m \in seen /\ sender' = Idle
        /\ IF LeaseCanSend("send")
           THEN /\ row' = [row EXCEPT !.status = "running"] /\ lease' = NoLease
                /\ UNCHANGED <<intent, term, count, doomed>>
           ELSE IF rearm
           THEN /\ intent' = MergedIntent([action |-> "stop", ws |-> row.ws, ses |-> row.ses,
                       sessions |-> {row.ses, where[m]}, at |-> count.at + 1])
                /\ lease' = NoLease /\ TermJoins(NoLease)
                /\ count' = [count EXCEPT !.at = @ + 1]
                /\ doomed' = doomed \cup {m} /\ UNCHANGED row
           ELSE /\ lease' = Unleased("send")
                /\ UNCHANGED <<row, intent, term, count, doomed>>
        /\ UNCHANGED <<saga, receipt, targets, outbox, outcome, notices, remote, runner,
                       flush, stopper, eager, gaveUp, finals>>

-----------------------------------------------------------------------------
(* The recovery outbox                                                      *)

\* enqueuePendingCloudMessage for a local request that failed: a takeover in
\* the foreground only queues it, otherwise a flush is asked for at once.
LateRequest(r) ==
    /\ outcome[r] = "new" /\ Room /\ row.ws # 0
    /\ row.status \notin Terminal \cup {"failed"}
    /\ IF saga = NoSaga THEN lease = NoLease
       ELSE saga.phase \in {"provisioned", "send", "sent"}
    /\ outbox' = outbox \cup {[req |-> r, ses |-> row.ses]}
    /\ outcome' = [outcome EXCEPT ![r] = "queued"]
    /\ eager' = (eager \/ runner["fg"] = Idle \/ home[runner["fg"].id] # runner["fg"].id)
    /\ UNCHANGED <<row, saga, receipt, intent, targets, lease, notices, remote, runner, term,
                   sender, flush, stopper, count, ghosts>>

\* reconcilePendingCloudMessages: from the poller with nothing else pending,
\* or from a request that waits for its outcome.
FlushStart ==
    LET ses == (CHOOSE x \in outbox : TRUE).ses IN
    /\ flush = FlushIdle /\ outbox # {}
    /\ eager \/ (intent = NoIntent /\ saga = NoSaga)
    /\ eager' = FALSE
    /\ IF row.ws = 0 \/ \E x \in outbox : x.ses # row.ses
       THEN ClearOutbox(Queued, "failed") /\ UNCHANGED flush
       ELSE IF row.status \in Terminal \cup {"failed"}
       THEN ClearOutbox(Queued, "suppressed") /\ UNCHANGED flush
       ELSE /\ flush' = [pc |-> "get", req |-> 0, ses |-> ses, todo |-> Queued]
            /\ UNCHANGED <<outbox, outcome>>
    /\ UNCHANGED <<row, saga, receipt, intent, targets, lease, notices, remote, runner, term,
                   sender, stopper, count, ghosts>>

\* The next message of the flush, or its end.
FlushNext(r) ==
    flush' = IF flush.todo = {r} THEN FlushIdle
             ELSE [flush EXCEPT !.pc = "get", !.req = 0, !.todo = @ \ {r}]

\* completePendingCloudMessageDelivery and what the flush does with the gate.
Completes(r) ==
    LET s == flush.ses
        gate == MessageGate(r, s) IN
    CASE gate = "send" ->
           /\ outbox' = {x \in outbox : x.req # r} /\ Record({r}, "delivered")
           /\ row' = [row EXCEPT !.status = "running"] /\ FlushNext(r)
      [] gate = "suppressed" ->
           /\ Record(Queued, "suppressed") /\ outbox' = {}
           /\ flush' = FlushIdle /\ UNCHANGED row
      [] OTHER ->
           /\ IF gate = "missing" /\ outcome[r] = "delivered" THEN FlushNext(r)
              ELSE flush' = FlushIdle
           /\ UNCHANGED <<outbox, outcome, row>>

\* GET by message id; an accepted message only needs its record.  Otherwise
\* the gate decides, and a lease must be free for the POST.
FlushGet ==
    LET r == CHOOSE x \in flush.todo : \A y \in flush.todo : x <= y
        s == flush.ses
        gate == MessageGate(r, s)
        post == gate = "send" /\ LeaseFree(TRUE)
    IN  /\ flush.pc = "get"
        /\ IF Req(r) \in seen THEN Completes(r) /\ UNCHANGED <<lease, targets, wire, where>>
           ELSE /\ UNCHANGED row
                /\ IF post
                   THEN /\ lease' = [by |-> "flush", ws |-> row.ws, ses |-> s]
                        /\ targets' = targets \cup {s}
                        /\ wire' = wire \cup {Req(r)} /\ where' = [where EXCEPT ![Req(r)] = s]
                        /\ flush' = [flush EXCEPT !.pc = "posted", !.req = r]
                   ELSE /\ IF gate = "missing" /\ outcome[r] = "delivered" THEN FlushNext(r)
                           ELSE flush' = FlushIdle
                        /\ UNCHANGED <<lease, targets, wire, where>>
                /\ IF gate \in {"mismatch", "suppressed"}
                   THEN ClearOutbox(flush.todo,
                            IF gate = "mismatch" THEN "failed" ELSE "suppressed")
                   ELSE UNCHANGED <<outbox, outcome>>
        /\ UNCHANGED <<saga, receipt, intent, notices, home, seen, live, gone, runner, term,
                       sender, stopper, eager, count, ghosts>>
FlushAnswered ==
    /\ flush.pc = "posted" /\ Req(flush.req) \in seen
    /\ lease' = Unleased("flush") /\ Completes(flush.req)
    /\ UNCHANGED <<saga, receipt, intent, targets, notices, remote, runner, term, sender,
                   stopper, eager, count, ghosts>>
FlushFails ==
    /\ flush.pc \in {"get", "posted"}
    /\ wire' = wire \ {Req(flush.req)}
    /\ lease' = Unleased("flush") /\ flush' = FlushIdle
    /\ UNCHANGED <<row, saga, receipt, intent, targets, outbox, outcome, notices, home, where,
                   seen, live, gone, runner, term, sender, stopper, eager, count, ghosts>>

-----------------------------------------------------------------------------
(* Conductor, Telegram and the process                                      *)

\* A request is taken once per message id, or lost on the way.
RemoteTake(m) ==
    /\ m \in wire /\ wire' = wire \ {m}
    /\ \/ /\ ~SessionGone(where[m])
          /\ seen' = seen \cup {m}
          /\ live' = IF m \in seen THEN live ELSE live \cup {m}
       \/ UNCHANGED <<seen, live>>
    /\ UNCHANGED <<store, home, where, gone, procs, count, ghosts>>

\* The turn of the bound session ends and the poller records it.
TurnEnds ==
    /\ row.ws # 0 /\ row.status = "running" /\ saga = NoSaga /\ intent = NoIntent
    /\ live' = live \ InSessions({row.ses})
    /\ \E status \in {"done", "failed"} : row' = [row EXCEPT !.status = status]
    /\ UNCHANGED <<saga, receipt, intent, targets, lease, outbox, outcome, notices, home,
                   where, wire, seen, gone, procs, count, ghosts>>

\* publishPendingCloudNotices posts them, closes the topic, acknowledges them.
PublishNotices ==
    /\ notices # {} /\ notices' = {}
    /\ UNCHANGED <<row, saga, receipt, intent, targets, lease, outbox, outcome, remote, procs,
                   count, ghosts>>

\* The process dies: what was on the wire may still arrive; a lease is left.
Crash ==
    /\ count.crash < MaxCrashes /\ Room
    /\ runner' = [p \in {"fg", "rec"} |-> Idle] /\ term' = TermIdle /\ sender' = Idle
    /\ flush' = FlushIdle /\ stopper' = FALSE /\ eager' = FALSE
    /\ lease' = IF lease = NoLease THEN lease ELSE [lease EXCEPT !.by = "dead"]
    /\ count' = [count EXCEPT !.crash = @ + 1]
    /\ UNCHANGED <<row, saga, receipt, intent, targets, outbox, outcome, notices, remote, ghosts>>

\* Mutant: a lease has no age; a crash leaves it for ever.
LeaseForEver == lease.by = "dead" /\ FALSE /\ UNCHANGED vars

\* Fifteen minutes later no request of the dead process is on its way.
LeaseExpires ==
    /\ lease.by = "dead" /\ {m \in wire : where[m] = lease.ses} = {}
    /\ lease' = NoLease
    /\ UNCHANGED <<row, saga, receipt, intent, targets, outbox, outcome, notices, remote, procs,
                   count, ghosts>>

Runs(p) == Answered(p) \/ NamedAndFinal(p) \/ Archives(p) \/ ArchiveFails(p) \/ RollsBack(p)
Next ==
    \/ \E k, w \in Launches : FgCreate(k, w)
    \/ FgCreateFails \/ FgPersist \/ FgOrphan \/ FgPromote \/ FgPost \/ FgError \/ FgHandoff
    \/ RecStart \/ RecGet \/ RecFails
    \/ \E p \in {"fg", "rec"} : Runs(p)
    \/ Stop \/ Archive \/ TermStart \/ TermArchives \/ TermConfirms \/ TermFails
    \/ \E s \in Launches : TermCancels(s) \/ SendPost(s)
    \/ SendBegin \/ SendFails \/ SendAnswered
    \/ \E r \in Requests : LateRequest(r)
    \/ FlushStart \/ FlushGet \/ FlushAnswered \/ FlushFails
    \/ \E m \in Msgs : RemoteTake(m)
    \/ TurnEnds \/ PublishNotices \/ Crash \/ LeaseExpires

Spec == Init /\ [][Next]_vars

-----------------------------------------------------------------------------
(* Properties                                                               *)

\* Types of the stored rows and of the processes.
TypeOK ==
    /\ row.status \in {"starting", "running", "done", "failed", "stopped", "archived"}
    /\ {row.ws, row.ses, receipt} \subseteq {0} \cup Launches
    /\ saga.id \in {0} \cup Launches
    /\ saga.phase \in {"none", "provisioned", "send", "sent", "cleanup", "cancel"}
    /\ intent.action \in {"none", "stop", "archive"} /\ intent.sessions \subseteq Launches
    /\ lease.by \in {"none", "send", "flush", "thread", "dead"}
    /\ targets \subseteq Launches /\ Queued \subseteq Requests
    /\ notices \subseteq FinalNotices
    /\ wire \cup live \cup seen \subseteq Msgs

\* Once a Stop or an Archive has been confirmed and no rollback is pending,
\* nothing that ran or was on its way to a session it named can run again.
StopFences ==
    (intent = NoIntent /\ saga = NoSaga /\ ~gaveUp) => doomed \cap Running = {}

\* A first prompt only ever runs for the saga that is pending or for a launch
\* that was finalized: a launch reported as failed or canceled runs nothing.
NoStrayPrompt ==
    \A k \in Launches : First(k) \in Running => saga.id = k \/ k \in finals

\* What was called off does not run.
CalledOffWorkRests == StopFences /\ NoStrayPrompt

\* At most one message is on its way under a lease, and none into a workspace
\* where a launch is pending.
OneSender ==
    LET plain == {m \in wire : m[1] # "first" /\ ~SessionGone(where[m])} IN
    Cardinality(plain) <= 1 /\ (saga # NoSaga => plain = {})

\* A row that is settled and was not archived never points at a workspace or
\* a session that cleanup has archived.
BoundAlive ==
    (row.ws # 0 /\ saga = NoSaga /\ intent = NoIntent /\ ~row.archivedAt /\ ~gaveUp)
        => ~SessionGone(row.ses)

\* A request that was queued stays queued until its outcome is recorded.
OutboxAccounted == \A r \in Requests : outcome[r] = "queued" <=> r \in Queued

\* A row the owner archived stays archived: "Archive is stronger than stop and
\* must never be downgraded by a racing callback" (src/store/queries.ts:1423).
ArchivedStays == [][row.status = "archived" => row'.status = "archived"]_vars

\* The poller runs for ever and Conductor eventually answers each call: nothing
\* stays pending.
Settled == saga = NoSaga /\ intent = NoIntent /\ outbox = {}
Settles == []<>Settled

FgStep == FgCreateFails \/ FgPersist \/ FgOrphan \/ FgPromote \/ FgPost \/ FgError
              \/ FgHandoff \/ Runs("fg")
Accepts(m) == RemoteTake(m) /\ m \in seen'
Fairness ==
    /\ WF_vars(FgStep \/ SendFails \/ SendAnswered)
    /\ WF_vars(RecStart) /\ WF_vars(RecFails \/ Runs("rec"))
    /\ SF_vars(RecGet \/ (Archives("rec") /\ runner'["rec"] # Idle))
    /\ WF_vars(TermStart) /\ SF_vars(TermArchives \/ TermConfirms)
    /\ \A s \in Launches : SF_vars(TermCancels(s))
    /\ WF_vars(FlushStart) /\ SF_vars(FlushGet) /\ WF_vars(FlushAnswered \/ FlushFails)
    /\ SF_vars(\E m \in Msgs : Accepts(m))
    /\ WF_vars(PublishNotices \/ LeaseExpires)
FairSpec == Spec /\ Fairness
=============================================================================
