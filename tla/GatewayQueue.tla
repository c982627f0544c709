---------------------------- MODULE GatewayQueue ----------------------------
(***************************************************************************)
(* The durable work queue of the cloud gateway (src/cloud/store.ts), the   *)
(* process lease that fences its writers (src/cloud/runtime.ts), the       *)
(* ingestion of Telegram updates into it and the dispatchers that run its  *)
(* rows (src/cloud/telegram.ts).                                           *)
(*                                                                         *)
(* Several gateway processes may exist at once: one that serves, others    *)
(* that wait for its lease, and one that was stalled, lost the lease and   *)
(* still has handlers awaiting an upstream answer.  Every process is a     *)
(* fresh lease owner (randomUUID), so a restart is the start of another    *)
(* member of Procs.  SQLite and the clock are shared; everything in        *)
(* `tasks' and `batch' is the memory of a process and dies with it.        *)
(*                                                                         *)
(* The lease's 90 seconds are the flag lease.live: any moment may be the   *)
(* one at which the time runs out.  The check of the lease and the write   *)
(* behind it are one synchronous block of JavaScript, and one step here.   *)
(***************************************************************************)
EXTENDS Integers, FiniteSets

CONSTANTS
    Procs,            \* gateway processes, each one lease owner
    NoProc,           \* the owner of a lease nobody ever took
    NumUpdates,       \* how many updates the owner sends
    Jobs,             \* the rows a handler queues (replies, actions, media jobs)
    Parent,           \* the row whose handler queues each job
    Lanes,            \* pairs (conversation, kind)
    Lane,             \* the lane of each row
    Kinds,            \* one dispatcher per kind
    KindOf,           \* the kind of each lane
    Priority,         \* the priority of a lane's rows: 0 for control, 10 otherwise
    Concurrency,      \* the worker limit of each dispatcher
    FailureLimit,     \* an unexplained failure blocks its row at this count (5)
    SlowAfter,        \* the transient failure that tells the owner (3)
    MaxSetbacks,      \* bound: transient failures, waits and lost responses in a run
    StartupMayStall   \* may a starting process sleep past its lease before it recovers?

Updates == 0 .. NumUpdates - 1
Rows    == Updates \cup Jobs

ASSUME UpdatesAssumption == NumUpdates \in Nat
ASSUME ProcsAssumption   == NoProc \notin Procs
ASSUME RowsAssumption    == /\ Jobs \cap Int = {}
                            /\ Parent \in [Jobs -> Rows]
                            /\ Lane \in [Rows -> Lanes]
ASSUME KindsAssumption   == /\ KindOf \in [Lanes -> Kinds]
                            /\ Priority \in [Lanes -> Nat]
                            /\ Concurrency \in [Kinds -> Nat]
ASSUME LimitsAssumption  == /\ FailureLimit \in Nat \ {0}
                            /\ SlowAfter \in Nat \ {0}
                            /\ MaxSetbacks \in Nat
                            /\ StartupMayStall \in BOOLEAN

VARIABLES
    lease,      \* gateway_state 'gateway-lease': its owner, and whether its time is left
    pc,         \* each process: off, waiting, acquired, serving, stopping, gone
    tasks,      \* QueueDispatcher.running: the rows a process has a handler in flight for
    batch,      \* the answer of getUpdates a process has not yet ingested
    rowid,      \* gateway_queue rowid, 0 for a row not inserted
    lastRowid,  \* the highest rowid given out
    state,      \* gateway_queue state
    ready,      \* available_at has passed
    failures,   \* gateway_state 'queue-failures:<row>'
    transient,  \* gateway_state 'retryable-failures:<row>'
    notices,    \* cards and messages queued for the owner, by kind and row
    offset,     \* gateway_state 'telegram-offset'
    published,  \* updates 0 .. published - 1 exist at Telegram
    acked,      \* Telegram dropped the updates below this one
    setbacks    \* how much of MaxSetbacks is used

process  == <<pc, tasks, batch>>
table    == <<rowid, lastRowid, state, ready>>
keys     == <<failures, transient, notices>>
telegram == <<offset, published, acked>>
vars     == <<lease, process, table, keys, telegram, setbacks>>

RowStates  == {"none", "pending", "running", "done", "blocked"}
ProcStates == {"off", "waiting", "acquired", "serving", "stopping", "gone"}

-----------------------------------------------------------------------------
(* Reading the state.                                                      *)

Inserted(r) == rowid[r] # 0
Active(r)   == state[r] \in {"pending", "running"}
Settled(r)  == state[r] \in {"done", "blocked"}

\* s comes before r in r's lane.
Earlier(s, r) == Lane[s] = Lane[r] /\ Inserted(s) /\ rowid[s] < rowid[r]

\* Mutant: the writer check forgets the lease and looks only at the process.
HoldsForever(p) == pc[p] = "serving"

\* checkLease: the lease is this process's own, its time is left, and it did not abort.
Holds(p) == /\ lease.owner = p
            /\ lease.live
            /\ pc[p] = "serving"

\* Mutant: the fence of claim() counts running rows only.
ClaimablePastPending(k) ==
    {r \in Rows : /\ KindOf[Lane[r]] = k
                  /\ state[r] = "pending"
                  /\ ready[r]
                  /\ \A s \in Rows : Earlier(s, r) => state[s] # "running"}

\* The rows the NOT EXISTS of claim() lets through: nothing unfinished is ahead of them in their lane.
Claimable(k) ==
    {r \in Rows : /\ KindOf[Lane[r]] = k
                  /\ state[r] = "pending"
                  /\ ready[r]
                  /\ \A s \in Rows : Earlier(s, r) => ~Active(s)}

\* ORDER BY priority,rowid
Before(r, s) == \/ Priority[Lane[r]] < Priority[Lane[s]]
                \/ Priority[Lane[r]] = Priority[Lane[s]] /\ rowid[r] < rowid[s]

Busy(p, k) == Cardinality({r \in tasks[p] : KindOf[Lane[r]] = k})

\* The first `limit' claimable rows.
Selected(k, limit, S) ==
    /\ S \subseteq Claimable(k)
    /\ Cardinality(S) <= limit
    /\ \A r \in Claimable(k) \ S : Cardinality(S) = limit /\ \A s \in S : Before(s, r)

-----------------------------------------------------------------------------
Init ==
    /\ lease = [owner |-> NoProc, live |-> FALSE]
    /\ pc = [p \in Procs |-> "off"]
    /\ tasks = [p \in Procs |-> {}]
    /\ batch = [p \in Procs |-> {}]
    /\ rowid = [r \in Rows |-> 0]
    /\ lastRowid = 0
    /\ state = [r \in Rows |-> "none"]
    /\ ready = [r \in Rows |-> TRUE]
    /\ failures = [r \in Rows |-> 0]
    /\ transient = [r \in Rows |-> 0]
    /\ notices = {}
    /\ offset = 0
    /\ published = 0
    /\ acked = 0
    /\ setbacks = 0

-----------------------------------------------------------------------------
(* The life of a process.                                                  *)

\* systemd starts a gateway; it passes its checks and waits for the lease.
Start(p) ==
    /\ pc[p] = "off"
    /\ pc' = [pc EXCEPT ![p] = "waiting"]
    /\ UNCHANGED <<lease, tasks, batch, table, keys, telegram, setbacks>>

\* acquireGatewayLease refuses while another owner's lease has time left.
Acquire(p) ==
    /\ pc[p] = "waiting"
    /\ ~lease.live
    /\ lease' = [owner |-> p, live |-> TRUE]
    /\ pc' = [pc EXCEPT ![p] = "acquired"]
    /\ UNCHANGED <<tasks, batch, table, keys, telegram, setbacks>>

\* Mutant: the restart leaves the rows of the dead process marked running.
RecoverNothing(p) ==
    /\ pc[p] = "acquired"
    /\ pc' = [pc EXCEPT ![p] = "serving"]
    /\ UNCHANGED <<lease, tasks, batch, table, keys, telegram, setbacks>>

\* Mutant: the restart gives blocked rows another try as well.
RecoverBlocked(p) ==
    /\ pc[p] = "acquired"
    /\ state' = [r \in Rows |-> IF state[r] \in {"running", "blocked"} THEN "pending" ELSE state[r]]
    /\ pc' = [pc EXCEPT ![p] = "serving"]
    /\ UNCHANGED <<lease, tasks, batch, rowid, lastRowid, ready, keys, telegram, setbacks>>

\* store.recover(), the next statement.  It is the one writer that asks for no lease.
Recover(p) ==
    /\ pc[p] = "acquired"
    /\ state' = [r \in Rows |-> IF state[r] = "running" THEN "pending" ELSE state[r]]
    /\ pc' = [pc EXCEPT ![p] = "serving"]
    /\ UNCHANGED <<lease, tasks, batch, rowid, lastRowid, ready, keys, telegram, setbacks>>

\* The "lease" loop.  checkLease runs first, so a lease whose time ran out is never renewed.
\* Renewing a lease with time left changes nothing at this level, so it is no action.

\* 90 seconds without a renewal: a stalled, stopping or dead owner.
Expire ==
    /\ lease.live
    /\ StartupMayStall \/ \A p \in Procs : lease.owner = p => pc[p] # "acquired"
    /\ lease' = [lease EXCEPT !.live = FALSE]
    /\ UNCHANGED <<process, table, keys, telegram, setbacks>>

\* A signal, a bridge server error, a second poller, or a loop that found the lease lost: no write
\* succeeds from here on (checkLease reads the abort signal).  The lease is left to expire.
Abort(p) ==
    /\ pc[p] \in {"waiting", "serving"}
    /\ pc' = [pc EXCEPT ![p] = "stopping"]
    /\ UNCHANGED <<lease, tasks, batch, table, keys, telegram, setbacks>>

\* Promise.all of the settled() of every dispatcher, then the process ends.
Exit(p) ==
    /\ pc[p] = "stopping"
    /\ tasks[p] = {}
    /\ pc' = [pc EXCEPT ![p] = "gone"]
    /\ batch' = [batch EXCEPT ![p] = {}]
    /\ UNCHANGED <<lease, tasks, table, keys, telegram, setbacks>>

\* The process dies with everything it had in memory.
Crash(p) ==
    /\ pc[p] \notin {"off", "gone"}
    /\ pc' = [pc EXCEPT ![p] = "gone"]
    /\ tasks' = [tasks EXCEPT ![p] = {}]
    /\ batch' = [batch EXCEPT ![p] = {}]
    /\ UNCHANGED <<lease, table, keys, telegram, setbacks>>

-----------------------------------------------------------------------------
(* Telegram and the ingestion loop.                                        *)

\* The owner writes to the bot.
Publish ==
    /\ published < NumUpdates
    /\ published' = published + 1
    /\ UNCHANGED <<lease, process, table, keys, offset, acked, setbacks>>

\* Mutant: the next request acknowledges what was received, not what was stored.
FetchAcknowledging(p) ==
    /\ Holds(p)
    /\ batch[p] = {}
    /\ \E last \in offset .. published - 1 : /\ batch' = [batch EXCEPT ![p] = offset .. last]
                                             /\ acked' = last + 1
    /\ UNCHANGED <<lease, pc, tasks, table, keys, offset, published, setbacks>>

\* getUpdates: asking for the updates from the stored offset on drops the older ones at Telegram.
\* The answer carries some first part of the rest.
Fetch(p) ==
    /\ Holds(p)
    /\ batch[p] = {}
    /\ acked' = IF offset > acked THEN offset ELSE acked
    /\ \E last \in offset .. published - 1 : batch' = [batch EXCEPT ![p] = offset .. last]
    /\ UNCHANGED <<lease, pc, tasks, table, keys, offset, published, setbacks>>

\* The answer is lost on its way; the loop pauses and asks again.
LoseBatch(p) ==
    /\ batch[p] # {}
    /\ setbacks < MaxSetbacks
    /\ setbacks' = setbacks + 1
    /\ batch' = [batch EXCEPT ![p] = {}]
    /\ UNCHANGED <<lease, pc, tasks, table, keys, telegram>>

\* Mutant: the updates of an answer are inserted newest first.
IngestUnsorted(p) ==
    LET new == {u \in batch[p] : u >= offset}
    IN  /\ Holds(p)
        /\ batch[p] # {}
        /\ \E last \in batch[p] :
               /\ \A u \in batch[p] : u <= last
               /\ offset' = IF last + 1 > offset THEN last + 1 ELSE offset
        /\ rowid' = [r \in Rows |-> IF r \in new THEN lastRowid + (offset' - r) ELSE rowid[r]]
        /\ lastRowid' = lastRowid + (offset' - offset)
        /\ state' = [r \in Rows |-> IF r \in new THEN "pending" ELSE state[r]]
        /\ batch' = [batch EXCEPT ![p] = {}]
        /\ UNCHANGED <<lease, pc, tasks, ready, keys, published, acked, setbacks>>

\* ingest(): one transaction inserts the updates not yet seen, oldest first, and moves the offset.
Ingest(p) ==
    LET new == {u \in batch[p] : u >= offset}
    IN  /\ Holds(p)
        /\ batch[p] # {}
        /\ \E last \in batch[p] :
               /\ \A u \in batch[p] : u <= last
               /\ offset' = IF last + 1 > offset THEN last + 1 ELSE offset
        /\ rowid' = [r \in Rows |-> IF r \in new THEN lastRowid + (r - offset) + 1 ELSE rowid[r]]
        /\ lastRowid' = lastRowid + (offset' - offset)
        /\ state' = [r \in Rows |-> IF r \in new THEN "pending" ELSE state[r]]
        /\ batch' = [batch EXCEPT ![p] = {}]
        /\ UNCHANGED <<lease, pc, tasks, ready, keys, published, acked, setbacks>>

-----------------------------------------------------------------------------
(* The dispatchers and the handlers they run.                              *)

\* Mutant: a tick claims up to the concurrency, whatever is running already.
TickUnbounded(p, k) ==
    /\ Holds(p)
    /\ \E S \in (SUBSET Claimable(k)) \ {{}} :
          /\ Selected(k, Concurrency[k], S)
          /\ state' = [r \in Rows |-> IF r \in S THEN "running" ELSE state[r]]
          /\ tasks' = [tasks EXCEPT ![p] = @ \cup S]
    /\ UNCHANGED <<lease, pc, batch, rowid, lastRowid, ready, keys, telegram, setbacks>>

\* QueueDispatcher.tick of one kind: fill the free workers with the first claimable rows.
Tick(p, k) ==
    /\ Holds(p)
    /\ \E S \in (SUBSET Claimable(k)) \ {{}} :
          /\ Selected(k, Concurrency[k] - Busy(p, k), S)
          /\ state' = [r \in Rows |-> IF r \in S THEN "running" ELSE state[r]]
          /\ tasks' = [tasks EXCEPT ![p] = @ \cup S]
    /\ UNCHANGED <<lease, pc, batch, rowid, lastRowid, ready, keys, telegram, setbacks>>

\* A handler queues one of its rows under an id made from its own, so that a second run adds nothing.
Enqueue(p, j) ==
    /\ Holds(p)
    /\ Parent[j] \in tasks[p]
    /\ ~Inserted(j)
    /\ rowid' = [rowid EXCEPT ![j] = lastRowid + 1]
    /\ lastRowid' = lastRowid + 1
    /\ state' = [state EXCEPT ![j] = "pending"]
    /\ UNCHANGED <<lease, process, ready, keys, telegram, setbacks>>

\* The handler of row r returned or threw, and p drops its task.
Drop(p, r) == tasks' = [tasks EXCEPT ![p] = @ \ {r}]

\* Mutant: a row given up gets a state that no query knows.
RetryAsFailed(r, next) ==
    /\ state' = [state EXCEPT ![r] = IF next = "blocked" THEN "failed" ELSE next]
    /\ ready' = [ready EXCEPT ![r] = (next = "blocked")]

\* retry(): the row waits for `delay', or is blocked.  The row's state is not looked at.
Retry(r, next) ==
    /\ state' = [state EXCEPT ![r] = next]
    /\ ready' = [ready EXCEPT ![r] = (next = "blocked")]

\* processClaimedRow after a handler that returned: it finished the row unless the handler moved it.
Succeed(p, r) ==
    /\ Holds(p)
    /\ r \in tasks[p]
    /\ \A j \in Jobs : Parent[j] = r => Inserted(j)
    /\ state' = [state EXCEPT ![r] = IF @ = "running" THEN "done" ELSE @]
    /\ Drop(p, r)
    /\ UNCHANGED <<lease, pc, batch, rowid, lastRowid, ready, keys, telegram, setbacks>>

\* The handler itself puts its row back for later (a cooldown, an attachment still in preparation, a
\* cancellation still settling), or Telegram answered 429.
Postpone(p, r) ==
    /\ Holds(p)
    /\ r \in tasks[p]
    /\ setbacks < MaxSetbacks
    /\ setbacks' = setbacks + 1
    /\ Retry(r, "pending")
    /\ Drop(p, r)
    /\ UNCHANGED <<lease, pc, batch, rowid, lastRowid, keys, telegram>>

\* Conductor does not answer: retried for as long as that lasts; the owner is told once, at SlowAfter.
FailTransiently(p, r) ==
    /\ Holds(p)
    /\ r \in tasks[p]
    /\ setbacks < MaxSetbacks
    /\ setbacks' = setbacks + 1
    /\ transient' = [transient EXCEPT ![r] = @ + 1]
    /\ notices' = notices \cup IF transient[r] + 1 = SlowAfter THEN {<<"slow", r>>} ELSE {}
    /\ Retry(r, "pending")
    /\ Drop(p, r)
    /\ UNCHANGED <<lease, pc, batch, rowid, lastRowid, failures, telegram>>

\* TerminalError, or a handler that blocks its own row.
FailForGood(p, r) ==
    /\ Holds(p)
    /\ r \in tasks[p]
    /\ Retry(r, "blocked")
    /\ Drop(p, r)
    /\ UNCHANGED <<lease, pc, batch, rowid, lastRowid, keys, telegram, setbacks>>

\* Mutant: one failure more than the limit.
FailOnceMore(p, r) ==
    /\ Holds(p)
    /\ r \in tasks[p]
    /\ failures' = [failures EXCEPT ![r] = @ + 1]
    /\ Retry(r, IF failures[r] >= FailureLimit THEN "blocked" ELSE "pending")
    /\ Drop(p, r)
    /\ UNCHANGED <<lease, pc, batch, rowid, lastRowid, transient, notices, telegram, setbacks>>

\* Any other error: counted, and blocked when `previous >= 4'.
FailUnexplained(p, r) ==
    /\ Holds(p)
    /\ r \in tasks[p]
    /\ failures' = [failures EXCEPT ![r] = @ + 1]
    /\ Retry(r, IF failures[r] >= FailureLimit - 1 THEN "blocked" ELSE "pending")
    /\ Drop(p, r)
    /\ UNCHANGED <<lease, pc, batch, rowid, lastRowid, transient, notices, telegram, setbacks>>

\* Without the lease, the first fenced call or write of the handler throws, and so does every write of
\* the error path: the task ends and the row keeps whatever state it has.
Fence(p, r) ==
    /\ ~Holds(p)
    /\ r \in tasks[p]
    /\ Drop(p, r)
    /\ UNCHANGED <<lease, pc, batch, table, keys, telegram, setbacks>>

\* The delay of a retried row passes.
Elapse(r) ==
    /\ ~ready[r]
    /\ ready' = [ready EXCEPT ![r] = TRUE]
    /\ UNCHANGED <<lease, process, rowid, lastRowid, state, keys, telegram, setbacks>>

\* reportBlocked: a blocked row is reported once, with the key that says so in one transaction.
ReportBlocked(p) ==
    LET unreported == {r \in Rows : state[r] = "blocked" /\ <<"blocked", r>> \notin notices}
    IN  /\ Holds(p)
        /\ unreported # {}
        /\ notices' = notices \cup {<<"blocked", r>> : r \in unreported}
        /\ UNCHANGED <<lease, process, table, failures, transient, telegram, setbacks>>

-----------------------------------------------------------------------------
Lifecycle(p) == Start(p) \/ Acquire(p) \/ Recover(p) \/ Abort(p) \/ Exit(p) \/ Crash(p)

Ingestion(p) == Fetch(p) \/ LoseBatch(p) \/ Ingest(p)

EndTask(p, r) == \/ Succeed(p, r) \/ Postpone(p, r) \/ FailTransiently(p, r)
                 \/ FailForGood(p, r) \/ FailUnexplained(p, r) \/ Fence(p, r)

Next ==
    \/ Expire
    \/ Publish
    \/ \E p \in Procs : Lifecycle(p) \/ Ingestion(p) \/ ReportBlocked(p)
    \/ \E p \in Procs, k \in Kinds : Tick(p, k)
    \/ \E p \in Procs, j \in Jobs : Enqueue(p, j)
    \/ \E p \in Procs, r \in Rows : EndTask(p, r)
    \/ \E r \in Rows : Elapse(r)

Spec == Init /\ [][Next]_vars

\* The loops run every 100 ms to 1 s, every upstream call has a timeout, and a delay passes.
\* Nothing is assumed of starts, crashes, the lease's time or the owner.
Fairness ==
    /\ \A p \in Procs : /\ WF_vars(Fetch(p)) /\ WF_vars(Ingest(p)) /\ WF_vars(ReportBlocked(p))
                        /\ \A k \in Kinds : WF_vars(Tick(p, k))
                        /\ \A j \in Jobs : WF_vars(Enqueue(p, j))
                        /\ \A r \in Rows : WF_vars(EndTask(p, r))
    /\ \A r \in Rows : WF_vars(Elapse(r))

FairSpec == Spec /\ Fairness

-----------------------------------------------------------------------------
(* What must hold.                                                         *)

\* Every variable keeps the shape its table, key or in-memory set has.
TypeOK ==
    /\ lease \in [owner : Procs \cup {NoProc}, live : BOOLEAN]
    /\ pc \in [Procs -> ProcStates]
    /\ tasks \in [Procs -> SUBSET Rows]
    /\ batch \in [Procs -> SUBSET Updates]
    /\ rowid \in [Rows -> Nat]
    /\ lastRowid \in Nat
    /\ state \in [Rows -> RowStates]
    /\ ready \in [Rows -> BOOLEAN]
    /\ failures \in [Rows -> Nat]
    /\ transient \in [Rows -> Nat]
    /\ notices \subseteq {"slow", "blocked"} \X Rows
    /\ offset \in Nat /\ published \in 0 .. NumUpdates /\ acked \in Nat
    /\ setbacks \in Nat

\* Within a conversation and kind, a row is in work or settled only once everything queued before it is
\* settled: claim()'s fence holds through retries, lost leases and restarts, and a blocked row passes
\* the turn on.
LaneInOrder ==
    \A r, s \in Rows :
        Earlier(s, r) /\ state[r] \in {"running", "done", "blocked"} => Settled(s)

\* The rows marked running are exactly those the serving process has a handler for: none is orphaned
\* by a crash, none is run by a handler that outlived its lease, none is claimed a second time.
RunningIsOwned ==
    \A p \in Procs : Holds(p) => tasks[p] = {r \in Rows : state[r] = "running"}

\* Telegram forgets an update only after its row is durable.
NoAckedLoss == \A u \in Updates : u < acked => Inserted(u)

\* The rows of updates are in the order the owner sent them, whatever was fetched twice.
ArrivalOrder ==
    \A u, v \in Updates : u < v /\ Inserted(v) => Inserted(u) /\ rowid[u] < rowid[v]

\* What Telegram has been told to forget is in the table, and the table keeps the owner's order: no
\* answer that was lost, fetched twice or read by a process that lost the lease costs or moves a message.
UpdatesAreSafe == NoAckedLoss /\ ArrivalOrder

\* A row that fails for no known reason is given up at the limit, crashes and restarts between its
\* failures included: the row is blocked from that failure on, and no handler sees it again.
GivesUp == \A r \in Rows : failures[r] >= FailureLimit => state[r] = "blocked"

\* No process runs more handlers of a kind at once than its dispatcher has workers, handlers that
\* outlived the lease included.
WorkersBounded == \A p \in Procs, k \in Kinds : Busy(p, k) <= Concurrency[k]

\* A settled row is never run or changed again: no late writer, retry or recovery reopens it.
SettledIsFinal == [][\A r \in Rows : Settled(r) => state'[r] = state[r]]_vars

\* The comment on recover(): no other consumer owns the rows it resets.
RecoverSparesOwnedRows ==
    [][\A p, q \in Procs :
          pc[p] = "acquired" /\ pc'[p] = "serving" /\ Holds(q) => tasks[q] = {}]_vars

\* Some process keeps the lease from some moment on.
Steady == \E p \in Procs : <>[]Holds(p)

\* Then every update the owner sent, and every row a handler queued, is done, or is blocked and reported.
Owed(r) == Inserted(r) \/ (r \in Updates /\ r < published)
Answered(r) == state[r] = "done" \/ <<"blocked", r>> \in notices
EverythingSettles == Steady => \A r \in Rows : Owed(r) ~> Answered(r)
-----------------------------------------------------------------------------
(* The queue as an implementation of FifoLanes.                            *)

\* A row is open from its insertion to its settlement, whichever process works on it and however often.
outcomeOf == [r \in Rows |-> CASE state[r] = "none"    -> "absent"
                               [] state[r] = "done"    -> "done"
                               [] state[r] = "blocked" -> "blocked"
                               [] OTHER                -> "open"]

Fifo == INSTANCE FifoLanes WITH arrived <- rowid, outcome <- outcomeOf

\* Seen from outside, leases, crashes, retries and recovery are invisible: the queue is a set of FIFO
\* lanes that settle every row once.
ImplementsFifoLanes == Fifo!Spec
=============================================================================
