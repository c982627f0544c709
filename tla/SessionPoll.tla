----------------------------- MODULE SessionPoll -----------------------------
(***************************************************************************)
(* How the bot follows the thread of a Cloud workspace (src/bot/index.ts,   *)
(* src/bot/polling-policy.ts, src/bot/launcher.ts, src/store/queries.ts).   *)
(* The poller reads the status of the thread, then its transcript behind a  *)
(* stored cursor, forwards what is new to Telegram message by message, and  *)
(* moves the thread's cycle and the workspace's row.  The owner's messages  *)
(* and stops, and the agent's turn, go on between any two of its calls.     *)
(*                                                                          *)
(* One workspace with one thread, just launched: its first prompt is the    *)
(* transcript's first entry.  A plain message is only sent to a thread that *)
(* is not at work, so a turn belongs to one message.                        *)
(***************************************************************************)
EXTENDS Naturals, Sequences, FiniteSets

CONSTANTS
    MaxSends,     \* messages of the owner, the first prompt among them
    MaxReplies,   \* replies of the agent, all turns together
    MaxStops,     \* presses of Stop
    MaxRebuilds,  \* transcripts rebuilt by Conductor under new ids and indexes
    MaxSetbacks   \* failed calls and deaths of the bot's process

\* What an instance assumes of its constants.
PollBounds == /\ MaxSends \in Nat \ {0} /\ MaxReplies \in Nat /\ MaxStops \in Nat
                     /\ MaxRebuilds \in Nat /\ MaxSetbacks \in Nat

VARIABLES
    row,      \* the status in the workspaces row
    intent,   \* a Stop is saved and not confirmed
    cycle,    \* cloud_session_cycle of the thread
    cursor,   \* its thread_cursors row: last_message_id as [epoch, at]
    log,      \* Conductor: the transcript
    epoch,    \* Conductor: how often it was rebuilt
    agent,    \* Conductor: the thread's status
    open,     \* Conductor: messages accepted, their turn not over
    sender,   \* a send of the owner's
    wire,     \* messages whose POST is on its way
    stop,     \* the reconciliation of a Stop
    poll,     \* the poller's visit to the workspace
    shown,    \* history: replies forwarded to Telegram
    lapsed,   \* history: replies passed over by a cursor that was set anew
    count     \* what the bounds count

vars == <<row, intent, cycle, cursor, log, epoch, agent, open, sender, wire, stop, poll,
          shown, lapsed, count>>

User(n) == [role |-> "user", of |-> n, tag |-> 0]
Reply(t) == [role |-> "assistant", of |-> 0, tag |-> t]
Tags(s) == {e.tag : e \in {s[i] : i \in DOMAIN s}} \ {0}
Last(s) == s[Len(s)]

NoCursor == [epoch |-> 0, at |-> 0, named |-> FALSE]
At(n) == [epoch |-> epoch, at |-> n, named |-> TRUE]
Cycle(phase, out) == [phase |-> phase, out |-> out, base |-> 0, bound |-> 0, old |-> FALSE]
SendIdle == [pc |-> "idle", id |-> 0, prev |-> Cycle("none", 0), mine |-> Cycle("none", 0)]
PollIdle == [pc |-> "idle", row |-> "none", status |-> "none", batch |-> <<>>, from |-> 0,
             epoch |-> 0, canceling |-> FALSE]

\* cloudCycleIsInFlight
InFlight(c) == c.phase \in {"pending", "boundary", "working", "canceling"}

Setback == count.setbacks < MaxSetbacks
             /\ count' = [count EXCEPT !.setbacks = @ + 1]

\* finalizePendingCloudLaunch has committed: the first prompt is the cursor.
Init ==
    /\ row = "running" /\ intent = FALSE
    /\ cycle = Cycle("boundary", 1) /\ epoch = 1
    /\ log = <<User(1)>> /\ cursor = [epoch |-> 1, at |-> 1, named |-> TRUE]
    /\ agent = "idle" /\ open = {1}
    /\ sender = SendIdle /\ wire = {} /\ stop = "idle" /\ poll = PollIdle
    /\ shown = {} /\ lapsed = {}
    /\ count = [sends |-> 1, replies |-> 0, stops |-> 0, setbacks |-> 0]

-----------------------------------------------------------------------------
(* Conductor                                                                *)

AgentStarts ==
    /\ open # {} /\ agent # "working" /\ agent' = "working"
    /\ UNCHANGED <<row, intent, cycle, cursor, log, epoch, open, sender, wire, stop, poll,
                   shown, lapsed, count>>
AgentReplies ==
    /\ agent = "working" /\ count.replies < MaxReplies
    /\ log' = Append(log, Reply(count.replies + 1))
    /\ count' = [count EXCEPT !.replies = @ + 1]
    /\ UNCHANGED <<row, intent, cycle, cursor, epoch, agent, open, sender, wire, stop, poll,
                   shown, lapsed>>
\* A turn ends idle once it has replied, or in an error.
AgentEnds ==
    /\ agent = "working" /\ open' = {}
    /\ \/ Last(log).role = "assistant" /\ agent' = "idle"
       \/ agent' = "error"
    /\ UNCHANGED <<row, intent, cycle, cursor, log, epoch, sender, wire, stop, poll, shown,
                   lapsed, count>>
\* The transcript gets new ids and drops what is old, never its last message.
Rebuild ==
    /\ epoch <= MaxRebuilds /\ open = {} /\ wire = {}
    /\ epoch' = epoch + 1
    /\ \E k \in 2..Len(log) :
          log' = [i \in 1..(Len(log) + 1 - k) |-> [log[i + k - 1] EXCEPT !.of = 0]]
    /\ UNCHANGED <<row, intent, cycle, cursor, agent, open, sender, wire, stop, poll, shown,
                   lapsed, count>>

-----------------------------------------------------------------------------
(* The owner's messages: sendToSession under its lease, steerRemoteSession  *)

\* Mutant: a thread whose cycle is in flight may be sent to.
SendReserveAnyway ==
    /\ sender.pc = "idle" /\ count.sends < MaxSends /\ ~intent
    /\ cycle' = Cycle("pending", 0)
    /\ sender' = [pc |-> "post", id |-> count.sends + 1, prev |-> cycle, mine |-> cycle']
    /\ count' = [count EXCEPT !.sends = @ + 1]
    /\ UNCHANGED <<row, intent, cursor, log, epoch, agent, open, wire, stop, poll, shown, lapsed>>

\* reserveCloudSessionCycle, before any call.
SendReserve ==
    /\ sender.pc = "idle" /\ count.sends < MaxSends /\ ~intent /\ ~InFlight(cycle)
    /\ cycle' = Cycle("pending", 0)
    /\ sender' = [pc |-> "look", id |-> count.sends + 1, prev |-> cycle, mine |-> cycle']
    /\ count' = [count EXCEPT !.sends = @ + 1]
    /\ UNCHANGED <<row, intent, cursor, log, epoch, agent, open, wire, stop, poll, shown, lapsed>>

\* restoreCloudSessionCycleAfterSendFailure: evidence of a poll is kept.
Restored == IF cycle # sender.mine THEN cycle
            ELSE IF sender.prev.phase = "none" THEN Cycle("complete", 0) ELSE sender.prev

\* Status and newest message; a thread at work is not sent to.
SendLook ==
    LET busy == agent # "idle" \/ (log # <<>> /\ Last(log).role = "user")
        named == [[sender.mine EXCEPT !.out = sender.id] EXCEPT !.base = Len(log)]
        mine == IF cycle = sender.mine THEN named ELSE sender.mine
    IN  /\ sender.pc = "look"
        /\ IF busy THEN cycle' = Restored /\ sender' = SendIdle
           ELSE /\ cycle' = IF cycle = sender.mine THEN named ELSE cycle
                /\ sender' = [[sender EXCEPT !.pc = "post"] EXCEPT !.mine = mine]
        /\ UNCHANGED <<row, intent, cursor, log, epoch, agent, open, wire, stop, poll, shown,
                       lapsed, count>>

\* refreshCloudWorkLease and cloudWorkLeaseCanSend, then the POST.
SendPost ==
    /\ sender.pc = "post"
    /\ IF intent THEN cycle' = Restored /\ sender' = SendIdle /\ UNCHANGED wire
       ELSE /\ wire' = wire \cup {sender.id} /\ sender' = [sender EXCEPT !.pc = "posted"]
            /\ UNCHANGED cycle
    /\ UNCHANGED <<row, intent, cursor, log, epoch, agent, open, stop, poll, shown, lapsed, count>>
Accept(n) ==
    /\ n \in wire /\ wire' = wire \ {n}
    /\ log' = Append(log, User(n)) /\ open' = open \cup {n}
    /\ UNCHANGED <<row, intent, cycle, cursor, epoch, agent, sender, stop, poll, shown, lapsed, count>>
Accepted == \E n \in wire : Accept(n)

\* completeCloudWorkLease; or the Stop that revoked the lease is reconciled again.
SendAnswered ==
    /\ sender.pc = "posted" /\ sender.id \notin wire /\ sender' = SendIdle
    /\ row' = IF intent THEN row ELSE "running"
    /\ UNCHANGED <<intent, cycle, cursor, log, epoch, agent, open, wire, stop, poll, shown,
                   lapsed, count>>
\* A call fails, or the answer of the POST is lost.
SendFails ==
    /\ sender.pc \in {"look", "posted"} /\ Setback
    /\ cycle' = Restored /\ sender' = SendIdle /\ wire' = wire \ {sender.id}
    /\ UNCHANGED <<row, intent, cursor, log, epoch, agent, open, stop, poll, shown, lapsed>>

-----------------------------------------------------------------------------
(* Stop: performPendingCloudTerminalReconciliation                          *)

StopAsked ==
    /\ count.stops < MaxStops /\ ~intent
    /\ intent' = TRUE /\ row' = "stopped"
    /\ count' = [count EXCEPT !.stops = @ + 1]
    /\ UNCHANGED <<cycle, cursor, log, epoch, agent, open, sender, wire, stop, poll, shown, lapsed>>
\* An unresolved send keeps the intent for one more round.
StopBegins ==
    /\ intent /\ stop = "idle"
    /\ stop' = IF sender.pc = "idle" THEN "cancel" ELSE "again"
    /\ cycle' = Cycle("canceling", 0)
    /\ UNCHANGED <<row, intent, cursor, log, epoch, agent, open, sender, wire, poll, shown,
                   lapsed, count>>
StopCancels ==
    /\ stop \in {"cancel", "again"}
    /\ agent' = "idle" /\ open' = {}
    /\ stop' = IF stop = "cancel" THEN "confirm" ELSE "idle"
    /\ UNCHANGED <<row, intent, cycle, cursor, log, epoch, sender, wire, poll, shown, lapsed, count>>
StopConfirms ==
    /\ stop = "confirm" /\ stop' = "idle"
    /\ cycle' = Cycle("complete", 0) /\ intent' = FALSE /\ row' = "stopped"
    /\ UNCHANGED <<cursor, log, epoch, agent, open, sender, wire, poll, shown, lapsed, count>>

-----------------------------------------------------------------------------
(* The poller: pollConductorWorkspace                                       *)

\* Mutant: a reservation has no age.
BoundedForEver(c, batch, from) ==
    LET mine == {i \in DOMAIN batch : batch[i].of = c.out /\ from + i > c.base}
    IN  IF c.out # 0 /\ mine # {}
        THEN [[c EXCEPT !.phase = "boundary"]
                EXCEPT !.bound = from + (CHOOSE i \in mine : \A j \in mine : i <= j)]
        ELSE c
\* advanceCloudSessionCycle: a pending cycle first looks for its own message.
Bounded(c, batch, from) ==
    LET mine == {i \in DOMAIN batch : batch[i].of = c.out /\ from + i > c.base}
    IN  CASE c.out # 0 /\ mine # {} ->
               [[c EXCEPT !.phase = "boundary"]
                  EXCEPT !.bound = from + (CHOOSE i \in mine : \A j \in mine : i <= j)]
          [] c.old -> Cycle("complete", 0)
          [] OTHER -> c

Observed(c, status, batch, from) ==
    LET answered(after) == \E i \in DOMAIN batch :
                              batch[i].role = "assistant" /\ from + i > after
    IN  CASE c.phase = "boundary" /\ answered(c.bound) -> [c EXCEPT !.phase = "observed"]
          [] c.phase = "boundary" /\ status = "working" -> [c EXCEPT !.phase = "working"]
          [] c.phase = "working" /\ status = "idle" -> [c EXCEPT !.phase = "observed"]
          [] c.phase \in {"none", "complete"} /\ (status = "working" \/ answered(0)) ->
               Cycle("observed", 0)
          [] OTHER -> c
Advance(c, status, batch, from) ==
    IF c.phase = "canceling"
    THEN IF status \in {"idle", "error"} THEN Cycle("complete", 0) ELSE c
    ELSE Observed(IF c.phase = "pending" THEN Bounded(c, batch, from) ELSE c,
                  status, batch, from)

PollBegins ==
    /\ poll.pc = "idle" /\ ~intent
    /\ poll' = [[PollIdle EXCEPT !.pc = "status"] EXCEPT !.row = row]
    /\ UNCHANGED <<row, intent, cycle, cursor, log, epoch, agent, open, sender, wire, stop,
                   shown, lapsed, count>>
\* getConductorWorkspaceSessions: a status that could not be read is unknown.
PollStatus ==
    /\ poll.pc = "status"
    /\ \/ poll' = [[poll EXCEPT !.pc = "cursor"] EXCEPT !.status = agent] /\ UNCHANGED count
       \/ poll' = [[poll EXCEPT !.pc = "cursor"] EXCEPT !.status = "unknown"] /\ Setback
    /\ UNCHANGED <<row, intent, cycle, cursor, log, epoch, agent, open, sender, wire, stop,
                   shown, lapsed>>

\* ensureThreadCursor: without an id the cursor is set to the newest message.
PollCursor ==
    /\ poll.pc = "cursor" /\ poll' = [poll EXCEPT !.pc = "list"]
    /\ IF cursor.named \/ log = <<>> THEN UNCHANGED <<cursor, lapsed>>
       ELSE /\ cursor' = At(Len(log))
            /\ lapsed' = lapsed \cup (Tags(log) \ shown)
    /\ UNCHANGED <<row, intent, cycle, log, epoch, agent, open, sender, wire, stop, shown, count>>

\* What a listing that arrives does, before the next await.
Listed(batch, from) ==
    /\ poll' = [pc |-> IF batch = <<>> THEN "settle" ELSE "forward", row |-> poll.row,
                 status |-> poll.status, batch |-> batch, from |-> from, epoch |-> epoch,
                 canceling |-> cycle.phase = "canceling"]
    /\ cycle' = Advance(cycle, poll.status, batch, from)
\* Mutant: the dead anchor stays.
RecoverNoReset == Listed(log, 0) /\ UNCHANGED cursor

\* recoverCloudTranscriptCursor: the tail is delivered, the anchor is dropped.
Recover == Listed(log, 0) /\ cursor' = NoCursor
\* getSessionMessagesAfter; a dead cursor is probed at most once in ten minutes.
PollList ==
    /\ poll.pc = "list"
    /\ IF cursor.named /\ cursor.epoch = epoch
       THEN Listed(SubSeq(log, cursor.at + 1, Len(log)), cursor.at) /\ UNCHANGED cursor
       ELSE IF cursor.named THEN Recover
       ELSE Listed(<<>>, 0) /\ UNCHANGED cursor
    /\ UNCHANGED <<row, intent, log, epoch, agent, open, sender, wire, stop, shown, lapsed, count>>
PollListFails ==
    /\ poll.pc = "list" /\ Listed(<<>>, 0) /\ Setback
    /\ UNCHANGED <<row, intent, cursor, log, epoch, agent, open, sender, wire, stop, shown, lapsed>>

\* upsertThreadCursor: an anchored cursor never moves back.
Moved(to) == IF cursor.named /\ to.at < cursor.at THEN cursor ELSE to
\* One message goes to Telegram, then the cursor moves behind it.
PollForward ==
    LET e == Head(poll.batch)
        rest == Tail(poll.batch)
        to == [epoch |-> poll.epoch, at |-> poll.from + 1, named |-> TRUE] IN
    /\ poll.pc = "forward"
    /\ shown' = IF e.tag = 0 THEN shown ELSE shown \cup {e.tag}
    /\ cursor' = Moved(to)
    /\ poll' = [pc |-> IF rest = <<>> THEN "settle" ELSE "forward", row |-> poll.row,
                 status |-> poll.status, batch |-> rest, from |-> poll.from + 1,
                 epoch |-> poll.epoch, canceling |-> poll.canceling]
    /\ UNCHANGED <<row, intent, cycle, log, epoch, agent, open, sender, wire, stop, lapsed, count>>
\* Telegram refuses: the visit ends.
PollForwardFails ==
    /\ poll.pc = "forward" /\ Setback /\ poll' = PollIdle
    /\ UNCHANGED <<row, intent, cycle, cursor, log, epoch, agent, open, sender, wire, stop,
                   shown, lapsed>>

\* The row is compared as it was when the visit began, and written as it is.
PollSettle ==
    LET canceling == poll.canceling \/ cycle.phase = "canceling"
        done == poll.status = "idle" /\ cycle.phase = "observed"
        failed == poll.status = "error" /\ ~canceling /\ poll.row # "failed"
    IN  /\ poll.pc = "settle" /\ poll' = PollIdle
        /\ row' = CASE done -> "done"
                    [] failed -> "failed"
                    [] poll.status = "working" /\ ~canceling /\ poll.row # "running" -> "running"
                    [] OTHER -> row
        /\ cycle' = IF done \/ failed THEN Cycle("complete", 0) ELSE cycle
        /\ UNCHANGED <<intent, cursor, log, epoch, agent, open, sender, wire, stop, shown,
                       lapsed, count>>

-----------------------------------------------------------------------------
(* The process and its clocks                                               *)

\* The process dies; a lease stays behind.
Crash ==
    /\ Setback /\ poll' = PollIdle /\ stop' = "idle"
    /\ sender' = IF sender.pc = "idle" THEN sender ELSE [SendIdle EXCEPT !.pc = "dead"]
    /\ UNCHANGED <<row, intent, cycle, cursor, log, epoch, agent, open, wire, shown, lapsed>>
LeaseExpires ==
    /\ sender.pc = "dead" /\ wire' = {} /\ sender' = SendIdle
    /\ UNCHANGED <<row, intent, cycle, cursor, log, epoch, agent, open, stop, poll, shown,
                   lapsed, count>>
\* CLOUD_CYCLE_PENDING_TTL_MS; no send takes that long.
Ages ==
    /\ cycle.phase = "pending" /\ ~cycle.old /\ sender.pc \in {"idle", "dead"} /\ wire = {}
    /\ cycle' = [cycle EXCEPT !.old = TRUE]
    /\ UNCHANGED <<row, intent, cursor, log, epoch, agent, open, sender, wire, stop, poll,
                   shown, lapsed, count>>

Agent == AgentStarts \/ AgentReplies \/ AgentEnds \/ Rebuild
Owner == SendReserve \/ SendLook \/ SendPost \/ SendAnswered \/ SendFails \/ StopAsked
Stopping == StopBegins \/ StopCancels \/ StopConfirms
Poller == PollBegins \/ PollStatus \/ PollCursor \/ PollList \/ PollForward \/ PollSettle
Next ==
    \/ Agent \/ Accepted \/ Owner \/ Stopping \/ Poller
    \/ PollListFails \/ PollForwardFails \/ Crash \/ LeaseExpires \/ Ages

Spec == Init /\ [][Next]_vars

-----------------------------------------------------------------------------
(* Properties                                                               *)

TypeOK ==
    /\ row \in {"running", "done", "failed", "stopped"} /\ intent \in BOOLEAN
    /\ cycle.phase \in {"none", "pending", "boundary", "working", "observed", "canceling",
                        "complete"}
    /\ agent \in {"idle", "working", "error"} /\ open \cup wire \subseteq 1..MaxSends
    /\ cursor.at \in 0..(MaxSends + MaxReplies) /\ shown \subseteq 1..MaxReplies

\* The bot never starts a second turn in a thread before the first is over.
OneTurnAtATime == Cardinality(open \cup wire) <= 1

\* A reply behind the cursor was forwarded, unless the cursor was set anew at
\* the end of a transcript whose recovered tail had not been delivered.
NothingSkipped ==
    cursor.named /\ cursor.epoch = epoch =>
        Tags(SubSeq(log, 1, cursor.at)) \subseteq shown \cup lapsed

ThreadIsFollowed == OneTurnAtATime /\ NothingSkipped

\* The transcript is followed to its end again and again, whatever failed.
CaughtUp == log # <<>> => cursor = At(Len(log))
CatchesUp == []<>CaughtUp

\* No reservation blocks the thread for ever: whatever fails, the cycle of a send
\* is over in the end.  (A transcript that was rebuilt under lower indexes is the
\* exception: the boundary of the cycle still counts by the old ones.)
Free == epoch > 1 \/ agent = "error" \/ ~InFlight(cycle)
ThreadFrees == []<>Free

\* A tail that was recovered is delivered.
TailIsDelivered == lapsed = {}
\* The row is called done only when no turn is open.
DoneMeansIdle == [][row' = "done" /\ poll' # poll => open = {}]_vars
\* The poller leaves a stopped row alone.
StoppedStays == [][row = "stopped" /\ poll' # poll => row' = row]_vars

Fairness ==
    /\ WF_vars(AgentStarts \/ AgentEnds \/ AgentReplies)
    /\ WF_vars(AgentEnds) /\ WF_vars(Accepted)
    /\ WF_vars(Stopping) /\ WF_vars(Poller)
    /\ WF_vars(SendLook \/ SendPost \/ SendAnswered \/ LeaseExpires)
    /\ WF_vars(Ages)
FairSpec == Spec /\ Fairness
=============================================================================
