------------------------- MODULE GatewayQueueProofs -------------------------
(***************************************************************************)
(* What GatewayQueue promises for any processes, rows, lanes, dispatchers  *)
(* and limits; then what TopicDelivery does, the sender that hands the     *)
(* rows of that queue's deliveries to Telegram's topics, for any work,     *)
(* topics, messages, edits, lost answers and topics closed or deleted;     *)
(* Attachments, which has the files of an album saved and submitted from   *)
(* rows of that queue, for any files, waits, restarts and failures; and    *)
(* CloudPoll, which follows the sessions of a workspace and recovers the   *)
(* ones whose turn failed, for any processes, sessions, limits and         *)
(* answers of Conductor.                                                   *)
(***************************************************************************)
EXTENDS GatewayQueue, Sequences, FiniteSetTheorems, NaturalsInduction, TLAPS

-----------------------------------------------------------------------------
(* Type correctness.                                                       *)

LEMMA TypeInit == Init => TypeOK
  BY UpdatesAssumption DEF Init, TypeOK, RowStates, ProcStates, Updates, Rows

LEMMA TypeStep == TypeOK /\ [Next]_vars => TypeOK'
<1> SUFFICES ASSUME TypeOK, [Next]_vars PROVE TypeOK'
  OBVIOUS
<1> USE UpdatesAssumption, RowsAssumption
<1> USE DEF TypeOK, ProcStates, RowStates, Updates, Rows, process, table, keys, telegram
<1>1. CASE Expire
  BY <1>1 DEF Expire
<1>2. CASE Publish
  BY <1>2 DEF Publish
<1>3. ASSUME NEW p \in Procs, Lifecycle(p) PROVE TypeOK'
  <2>1. CASE Start(p)
    BY <2>1 DEF Start
  <2>2. CASE Acquire(p)
    BY <2>2 DEF Acquire
  <2>3. CASE Recover(p)
    BY <2>3 DEF Recover
  <2>4. CASE Abort(p)
    BY <2>4 DEF Abort
  <2>5. CASE Exit(p)
    BY <2>5 DEF Exit
  <2>6. CASE Crash(p)
    BY <2>6 DEF Crash
  <2>7. QED
    BY <1>3, <2>1, <2>2, <2>3, <2>4, <2>5, <2>6 DEF Lifecycle
<1>4. ASSUME NEW p \in Procs, Ingestion(p) PROVE TypeOK'
  <2>1. CASE Fetch(p)
    BY <2>1 DEF Fetch
  <2>2. CASE LoseBatch(p)
    BY <2>2 DEF LoseBatch
  <2>3. CASE Ingest(p)
    <3>1. offset' \in Nat /\ offset' - offset \in Nat
      BY <2>3 DEF Ingest
    <3>2. rowid' \in [Rows -> Nat] /\ lastRowid' \in Nat
      BY <2>3, <3>1 DEF Ingest
    <3>3. QED
      BY <2>3, <3>1, <3>2 DEF Ingest
  <2>4. QED
    BY <1>4, <2>1, <2>2, <2>3 DEF Ingestion
<1>5. ASSUME NEW p \in Procs, ReportBlocked(p) PROVE TypeOK'
  <2>1. notices' \subseteq {"slow", "blocked"} \X Rows
    <3>1. PICK U \in SUBSET Rows : notices' = notices \cup {<<"blocked", r>> : r \in U}
      BY <1>5 DEF ReportBlocked
    <3>2. {<<"blocked", r>> : r \in U} \subseteq {"slow", "blocked"} \X Rows
      OBVIOUS
    <3>3. QED
      BY <3>1, <3>2
  <2>2. QED
    BY <1>5, <2>1 DEF ReportBlocked
<1>6. ASSUME NEW p \in Procs, NEW k \in Kinds, Tick(p, k) PROVE TypeOK'
  <2>1. PICK S \in (SUBSET Claimable(k)) \ {{}} :
              /\ state' = [r \in Rows |-> IF r \in S THEN "running" ELSE state[r]]
              /\ tasks' = [tasks EXCEPT ![p] = @ \cup S]
    BY <1>6 DEF Tick
  <2>2. S \subseteq Rows
    BY DEF Claimable
  <2>3. QED
    BY <1>6, <2>1, <2>2 DEF Tick
<1>7. ASSUME NEW p \in Procs, NEW j \in Jobs, Enqueue(p, j) PROVE TypeOK'
  BY <1>7 DEF Enqueue
<1>8. ASSUME NEW p \in Procs, NEW r \in Rows, EndTask(p, r) PROVE TypeOK'
  <2> USE DEF Drop, Retry
  <2>1. CASE Succeed(p, r)
    BY <2>1 DEF Succeed
  <2>2. CASE Postpone(p, r)
    BY <2>2 DEF Postpone
  <2>3. CASE FailTransiently(p, r)
    BY <2>3 DEF FailTransiently
  <2>4. CASE FailForGood(p, r)
    BY <2>4 DEF FailForGood
  <2>5. CASE FailUnexplained(p, r)
    BY <2>5 DEF FailUnexplained
  <2>6. CASE Fence(p, r)
    BY <2>6 DEF Fence
  <2>7. QED
    BY <1>8, <2>1, <2>2, <2>3, <2>4, <2>5, <2>6 DEF EndTask
<1>9. ASSUME NEW r \in Rows, Elapse(r) PROVE TypeOK'
  BY <1>9 DEF Elapse
<1>10. CASE UNCHANGED vars
  BY <1>10 DEF vars
<1>11. QED
  BY <1>1, <1>2, <1>3, <1>4, <1>5, <1>6, <1>7, <1>8, <1>9, <1>10 DEF Next

\* Every reachable state is well formed, whether or not a starting process may stall.
THEOREM TypeCorrect == Spec => []TypeOK
<1>1. QED
  BY TypeInit, TypeStep, PTL DEF Spec

-----------------------------------------------------------------------------
(***************************************************************************)
(* The inductive invariant.  RunningIsOwned speaks of a serving process;   *)
(* to be inductive it needs that a process which has not served yet has no *)
(* handlers, and that one between taking the lease and recovering still    *)
(* has the lease.  The second is what StartupMayStall breaks.              *)
(***************************************************************************)
RowShape == \A r \in Rows : /\ Inserted(r) <=> state[r] # "none"
                            /\ rowid[r] <= lastRowid

RowidsDistinct == \A r, s \in Rows : Inserted(r) /\ rowid[r] = rowid[s] => r = s

NoTaskBeforeServing ==
    \A p \in Procs : pc[p] \in {"off", "waiting", "acquired", "gone"} => tasks[p] = {}

StartingHoldsLease ==
    \A p \in Procs : pc[p] = "acquired" => lease.owner = p /\ lease.live

\* The stored offset separates the updates in the table from those that are not, and no batch leaves
\* out an update between the offset and its last one.
OffsetIsExact ==
    /\ offset <= published /\ acked <= offset
    /\ \A u \in Updates : Inserted(u) <=> u < offset
    /\ \A p \in Procs : \A u \in batch[p] :
          u < published /\ \A v \in Updates : offset <= v /\ v <= u => v \in batch[p]

IInv == /\ TypeOK
        /\ RowShape /\ RowidsDistinct
        /\ NoTaskBeforeServing /\ StartingHoldsLease /\ RunningIsOwned
        /\ OffsetIsExact /\ ArrivalOrder
        /\ LaneInOrder /\ GivesUp

\* A handler that ends under the lease moves its own running row, and only that one.
Verdict(p, r, next) ==
    /\ Holds(p) /\ r \in tasks[p] /\ state[r] = "running"
    /\ next \in {"pending", "done", "blocked"}
    /\ state' = [state EXCEPT ![r] = next]
    /\ tasks' = [tasks EXCEPT ![p] = @ \ {r}]
    /\ UNCHANGED <<lease, pc, batch, rowid, lastRowid, telegram>>

LEMMA VerdictOfHandler ==
    ASSUME IInv, NEW p \in Procs, NEW r \in Rows, EndTask(p, r), ~Fence(p, r)
    PROVE  \E next \in {"pending", "done", "blocked"} : Verdict(p, r, next)
<1>1. Holds(p) /\ r \in tasks[p]
  BY DEF EndTask, Succeed, Postpone, FailTransiently, FailForGood, FailUnexplained
<1>2. state[r] = "running"
  BY <1>1 DEF IInv, RunningIsOwned
<1>3. /\ tasks' = [tasks EXCEPT ![p] = @ \ {r}]
      /\ UNCHANGED <<lease, pc, batch, rowid, lastRowid, telegram>>
  BY DEF EndTask, Succeed, Postpone, FailTransiently, FailForGood, FailUnexplained, Drop
<1>4. \E next \in {"pending", "done", "blocked"} : state' = [state EXCEPT ![r] = next]
  <2>1. CASE Succeed(p, r)
    BY <1>2, <2>1 DEF Succeed, IInv, TypeOK
  <2>2. CASE Postpone(p, r) \/ FailTransiently(p, r)
    BY <2>2 DEF Postpone, FailTransiently, Retry
  <2>3. CASE FailForGood(p, r)
    BY <2>3 DEF FailForGood, Retry
  <2>4. CASE FailUnexplained(p, r)
    BY <2>4 DEF FailUnexplained, Retry
  <2>5. QED
    BY <2>1, <2>2, <2>3, <2>4 DEF EndTask
<1>5. QED
  BY <1>1, <1>2, <1>3, <1>4 DEF Verdict

\* A tick runs claimable rows.
LEMMA RowsOfTick ==
    ASSUME NEW p \in Procs, NEW k \in Kinds, Tick(p, k)
    PROVE  \E S \in SUBSET Rows :
              /\ Holds(p)
              /\ \A r \in S : /\ state[r] = "pending"
                              /\ \A s \in Rows : Earlier(s, r) => ~Active(s)
              /\ state' = [r \in Rows |-> IF r \in S THEN "running" ELSE state[r]]
              /\ tasks' = [tasks EXCEPT ![p] = @ \cup S]
              /\ UNCHANGED <<lease, pc, batch, rowid, lastRowid, telegram>>
  BY DEF Tick, Claimable

\* The steps that leave the table's rows as they are.
Aside == \/ Expire \/ Publish
         \/ \E p \in Procs : \/ Start(p) \/ Acquire(p) \/ Abort(p) \/ Exit(p) \/ Crash(p)
                             \/ Fetch(p) \/ LoseBatch(p) \/ ReportBlocked(p)
                             \/ \E r \in Rows : Fence(p, r)
         \/ \E r \in Rows : Elapse(r)
         \/ UNCHANGED vars

LEMMA AsideKeepsRows == Aside => UNCHANGED <<rowid, lastRowid, state, offset, failures>>
  BY DEF Aside, Expire, Publish, Start, Acquire, Abort, Exit, Crash, Fetch, LoseBatch, ReportBlocked,
         Fence, Elapse, vars, table, keys, telegram, process

\* Every step is one of six.
LEMMA StepCases ==
    ASSUME IInv, [Next]_vars
    PROVE  \/ Aside
           \/ \E p \in Procs : Recover(p) \/ Ingest(p)
           \/ \E p \in Procs, k \in Kinds : Tick(p, k)
           \/ \E p \in Procs, j \in Jobs : Enqueue(p, j)
           \/ \E p \in Procs, r \in Rows : EndTask(p, r) /\ ~Fence(p, r)
  BY DEF Next, Lifecycle, Ingestion, Aside

-----------------------------------------------------------------------------
(* The rows of the table: their ids, and where Telegram's offset stands.   *)

LEMMA TableStep ==
    ASSUME IInv, [Next]_vars
    PROVE  (RowShape /\ RowidsDistinct /\ ArrivalOrder)'
<1> USE UpdatesAssumption, RowsAssumption DEF IInv, TypeOK, RowShape, RowidsDistinct, ArrivalOrder, Inserted, Updates
<1>1. CASE Aside
  BY <1>1, AsideKeepsRows
<1>2. ASSUME NEW p \in Procs, Recover(p) PROVE (RowShape /\ RowidsDistinct /\ ArrivalOrder)'
  BY <1>2 DEF Recover
<1>3. ASSUME NEW p \in Procs, Ingest(p) PROVE (RowShape /\ RowidsDistinct /\ ArrivalOrder)'
  <2> DEFINE new == {u \in batch[p] : u >= offset}
  <2>1. PICK last \in batch[p] :
            /\ \A u \in batch[p] : u <= last
            /\ offset' = IF last + 1 > offset THEN last + 1 ELSE offset
    BY <1>3 DEF Ingest
  <2>2. /\ rowid' = [r \in Rows |-> IF r \in new THEN lastRowid + (r - offset) + 1 ELSE rowid[r]]
        /\ lastRowid' = lastRowid + (offset' - offset)
        /\ state' = [r \in Rows |-> IF r \in new THEN "pending" ELSE state[r]]
    BY <1>3 DEF Ingest
  <2>3. \A u \in Updates : u \in new <=> (u >= offset /\ u < offset')
    BY <2>1 DEF OffsetIsExact
  <2>4. new \subseteq Updates /\ offset' \in Nat /\ offset' >= offset
    BY <2>1
  <2>5. \A r \in Rows : r \notin new => rowid'[r] = rowid[r] /\ state'[r] = state[r]
    BY <2>2
  <2>6. \A u \in new : /\ u \in Rows /\ rowid'[u] = lastRowid + (u - offset) + 1
                       /\ state'[u] = "pending" /\ rowid'[u] > lastRowid /\ rowid'[u] <= lastRowid'
    BY <2>2, <2>3, <2>4 DEF Rows
  <2>7. /\ rowid \in [Rows -> Nat] /\ rowid' \in [Rows -> Nat]
        /\ lastRowid \in Nat /\ lastRowid' \in Nat /\ lastRowid' >= lastRowid
    <3>1. TypeOK'
      BY TypeStep
    <3>2. offset \in Nat /\ lastRowid \in Nat /\ lastRowid' = lastRowid + (offset' - offset)
      BY <2>2
    <3>3. lastRowid' >= lastRowid
      BY <2>4, <3>2
    <3>4. QED
      BY <3>1, <3>2, <3>3
  <2> HIDE DEF new
  <2>8. RowShape'
    <3>1. SUFFICES ASSUME NEW r \in Rows
                   PROVE  (rowid'[r] # 0 <=> state'[r] # "none") /\ rowid'[r] <= lastRowid'
      OBVIOUS
    <3>2. CASE r \in new
      BY <2>6, <2>7, <3>2
    <3>3. CASE r \notin new
      BY <2>5, <2>7, <3>3
    <3>4. QED
      BY <3>2, <3>3
  <2>9. RowidsDistinct'
    <3>1. SUFFICES ASSUME NEW r \in Rows, NEW s \in Rows, rowid'[r] # 0, rowid'[r] = rowid'[s]
                   PROVE  r = s
      OBVIOUS
    <3>2. CASE r \in new /\ s \in new
      BY <2>4, <2>6, <2>7, <3>1, <3>2
    <3>3. CASE r \in new /\ s \notin new
      BY <2>5, <2>6, <2>7, <3>1, <3>3
    <3>4. CASE r \notin new /\ s \in new
      BY <2>5, <2>6, <2>7, <3>1, <3>4
    <3>5. CASE r \notin new /\ s \notin new
      BY <2>5, <3>1, <3>5
    <3>6. QED
      BY <3>2, <3>3, <3>4, <3>5
  <2>10. ArrivalOrder'
    <3>1. SUFFICES ASSUME NEW u \in Updates, NEW v \in Updates, u < v, rowid'[v] # 0
                   PROVE  rowid'[u] # 0 /\ rowid'[u] < rowid'[v]
      OBVIOUS
    <3>2. u \in Rows /\ v \in Rows
      BY DEF Rows
    <3>3. CASE v \in new /\ u \in new
      BY <2>4, <2>6, <2>7, <3>1, <3>3
    <3>4. CASE v \in new /\ u \notin new
      <4>1. u < offset
        BY <2>3, <2>4, <3>1, <3>4
      <4>2. Inserted(u)
        BY <4>1 DEF OffsetIsExact
      <4>3. rowid'[u] = rowid[u] /\ rowid[u] <= lastRowid
        BY <2>5, <3>2, <3>4
      <4>4. rowid'[v] > lastRowid
        BY <2>6, <3>4
      <4>5. rowid[u] \in Nat /\ rowid'[v] \in Nat
        BY <2>7, <3>2
      <4>6. QED
        BY <2>7, <4>2, <4>3, <4>4, <4>5
    <3>5. CASE v \notin new
      <4>1. v < offset
        BY <2>5, <3>1, <3>2, <3>5 DEF OffsetIsExact
      <4>2. u \notin new
        BY <2>3, <3>1, <4>1
      <4>3. QED
        BY <2>5, <3>1, <3>2, <3>5, <4>2
    <3>6. QED
      BY <3>3, <3>4, <3>5
  <2>11. QED
    BY <2>8, <2>9, <2>10
<1>4. ASSUME NEW p \in Procs, NEW k \in Kinds, Tick(p, k) PROVE (RowShape /\ RowidsDistinct /\ ArrivalOrder)'
  BY <1>4, RowsOfTick
<1>5. ASSUME NEW p \in Procs, NEW j \in Jobs, Enqueue(p, j) PROVE (RowShape /\ RowidsDistinct /\ ArrivalOrder)'
  <2>1. j \in Rows /\ j \notin Updates
    BY DEF Rows
  <2>2. QED
    BY <1>5, <2>1 DEF Enqueue
<1>6. ASSUME NEW p \in Procs, NEW r \in Rows, EndTask(p, r), ~Fence(p, r)
      PROVE  (RowShape /\ RowidsDistinct /\ ArrivalOrder)'
  BY <1>6, VerdictOfHandler DEF Verdict
<1>7. QED
  BY <1>1, <1>2, <1>3, <1>4, <1>5, <1>6, StepCases

LEMMA OffsetStep ==
    ASSUME IInv, [Next]_vars
    PROVE  OffsetIsExact'
<1> USE UpdatesAssumption, RowsAssumption DEF IInv, TypeOK, OffsetIsExact, Inserted, Updates, process, table, keys, telegram
<1>1. CASE Aside
  <2>1. ASSUME NEW p \in Procs, Fetch(p) PROVE OffsetIsExact'
    BY <2>1 DEF Fetch
  <2>2. CASE Publish
    BY <2>2 DEF Publish
  <2>3. ASSUME NEW p \in Procs, Exit(p) \/ Crash(p) \/ LoseBatch(p) PROVE OffsetIsExact'
    BY <2>3 DEF Exit, Crash, LoseBatch
  <2>4. CASE Expire \/ UNCHANGED vars \/ \E r \in Rows : Elapse(r)
    BY <2>4 DEF Expire, Elapse, vars
  <2>5. ASSUME NEW p \in Procs, Start(p) \/ Acquire(p) \/ Abort(p) \/ ReportBlocked(p) \/ \E r \in Rows : Fence(p, r)
        PROVE  OffsetIsExact'
    BY <2>5 DEF Start, Acquire, Abort, ReportBlocked, Fence
  <2>6. QED
    BY <1>1, <2>1, <2>2, <2>3, <2>4, <2>5 DEF Aside
<1>2. ASSUME NEW p \in Procs, Recover(p) PROVE OffsetIsExact'
  BY <1>2 DEF Recover
<1>3. ASSUME NEW p \in Procs, Ingest(p) PROVE OffsetIsExact'
  <2> DEFINE new == {u \in batch[p] : u >= offset}
  <2>1. PICK last \in batch[p] :
            /\ \A u \in batch[p] : u <= last
            /\ offset' = IF last + 1 > offset THEN last + 1 ELSE offset
    BY <1>3 DEF Ingest
  <2>2. /\ rowid' = [r \in Rows |-> IF r \in new THEN lastRowid + (r - offset) + 1 ELSE rowid[r]]
        /\ batch' = [batch EXCEPT ![p] = {}]
        /\ published' = published /\ acked' = acked
    BY <1>3 DEF Ingest
  <2>3. offset' <= published' /\ acked' <= offset'
    BY <2>1, <2>2
  <2>4. \A u \in Updates : u \in new <=> (u >= offset /\ u < offset')
    BY <2>1
  <2>5. \A u \in Updates : (rowid'[u] # 0) <=> u < offset'
    <3>1. TAKE u \in Updates
    <3>2. CASE u \in new
      BY <2>2, <2>4, <3>2 DEF Rows
    <3>3. CASE u \notin new
      BY <2>1, <2>2, <2>4, <3>3 DEF Rows
    <3>4. QED
      BY <3>2, <3>3
  <2>6. \A q \in Procs : \A u \in batch'[q] :
            u < published' /\ \A v \in Updates : offset' <= v /\ v <= u => v \in batch'[q]
    BY <2>1, <2>2
  <2>7. QED
    BY <2>3, <2>5, <2>6
<1>4. ASSUME NEW p \in Procs, NEW k \in Kinds, Tick(p, k) PROVE OffsetIsExact'
  BY <1>4, RowsOfTick
<1>5. ASSUME NEW p \in Procs, NEW j \in Jobs, Enqueue(p, j) PROVE OffsetIsExact'
  BY <1>5 DEF Enqueue
<1>6. ASSUME NEW p \in Procs, NEW r \in Rows, EndTask(p, r), ~Fence(p, r) PROVE OffsetIsExact'
  BY <1>6, VerdictOfHandler DEF Verdict
<1>7. QED
  BY <1>1, <1>2, <1>3, <1>4, <1>5, <1>6, StepCases

-----------------------------------------------------------------------------
(* Processes: who holds the lease and who has handlers.                    *)

LEMMA OwnershipStep ==
    ASSUME IInv, [Next]_vars, ~StartupMayStall
    PROVE  (NoTaskBeforeServing /\ StartingHoldsLease /\ RunningIsOwned)'
<1> DEFINE Own == NoTaskBeforeServing /\ StartingHoldsLease /\ RunningIsOwned
<1> USE RowsAssumption, ProcsAssumption
<1> USE DEF IInv, TypeOK, NoTaskBeforeServing, StartingHoldsLease, RunningIsOwned, Holds, ProcStates, process, table, keys, telegram
<1>1. CASE Aside
  <2>1. CASE Expire
    BY <2>1 DEF Expire
  <2>2. CASE Publish \/ UNCHANGED vars \/ \E r \in Rows : Elapse(r)
    BY <2>2 DEF Publish, Elapse, vars
  <2>3. ASSUME NEW p \in Procs, Start(p) \/ Abort(p) PROVE Own'
    BY <2>3 DEF Start, Abort
  <2>4. ASSUME NEW p \in Procs, Acquire(p) PROVE Own'
    BY <2>4 DEF Acquire
  <2>5. ASSUME NEW p \in Procs, Exit(p) \/ Crash(p) PROVE Own'
    BY <2>5 DEF Exit, Crash
  <2>6. ASSUME NEW p \in Procs, Fetch(p) \/ LoseBatch(p) \/ ReportBlocked(p) PROVE Own'
    BY <2>6 DEF Fetch, LoseBatch, ReportBlocked
  <2>7. ASSUME NEW p \in Procs, NEW r \in Rows, Fence(p, r) PROVE Own'
    BY <2>7 DEF Fence, Drop
  <2>8. QED
    BY <1>1, <2>1, <2>2, <2>3, <2>4, <2>5, <2>6, <2>7 DEF Aside
<1>2. ASSUME NEW p \in Procs, Recover(p) PROVE Own'
  <2>1. \A r \in Rows : state'[r] # "running"
    BY <1>2 DEF Recover
  <2>2. tasks'[p] = {} /\ lease'.owner = p
    BY <1>2 DEF Recover
  <2>3. QED
    BY <1>2, <2>1, <2>2 DEF Recover
<1>3. ASSUME NEW p \in Procs, Ingest(p) PROVE Own'
  <2>1. \A r \in Rows : state'[r] = "running" <=> state[r] = "running"
    <3>1. PICK new \in SUBSET Rows : /\ state' = [r \in Rows |-> IF r \in new THEN "pending" ELSE state[r]]
                                     /\ \A r \in new : r \in Updates /\ r >= offset
      <4> DEFINE new == {u \in batch[p] : u >= offset}
      <4>1. new \in SUBSET Rows /\ \A r \in new : r \in Updates /\ r >= offset
        BY DEF Rows
      <4>2. state' = [r \in Rows |-> IF r \in new THEN "pending" ELSE state[r]]
        BY <1>3 DEF Ingest
      <4>3. QED
        BY <4>1, <4>2
    <3>2. \A r \in new : state[r] = "none"
      BY <3>1, UpdatesAssumption DEF OffsetIsExact, RowShape, Updates
    <3>3. QED
      BY <3>1, <3>2
  <2>2. UNCHANGED <<lease, pc, tasks>>
    BY <1>3 DEF Ingest
  <2>3. QED
    BY <2>1, <2>2
<1>4. ASSUME NEW p \in Procs, NEW k \in Kinds, Tick(p, k) PROVE Own'
  BY <1>4, RowsOfTick
<1>5. ASSUME NEW p \in Procs, NEW j \in Jobs, Enqueue(p, j) PROVE Own'
  BY <1>5 DEF Enqueue, RowShape, Rows
<1>6. ASSUME NEW p \in Procs, NEW r \in Rows, EndTask(p, r), ~Fence(p, r) PROVE Own'
  <2>1. PICK next \in {"pending", "done", "blocked"} : Verdict(p, r, next)
    BY <1>6, VerdictOfHandler
  <2>2. \A q \in Procs : Holds(q) => q = p
    BY <2>1 DEF Verdict
  <2>3. tasks'[p] = {s \in Rows : state'[s] = "running"}
    BY <2>1 DEF Verdict
  <2>4. QED
    BY <2>1, <2>2, <2>3 DEF Verdict
<1>7. QED
  BY <1>1, <1>2, <1>3, <1>4, <1>5, <1>6, StepCases

-----------------------------------------------------------------------------
(* Lanes and failures.                                                     *)

LEMMA LaneStep ==
    ASSUME IInv, [Next]_vars
    PROVE  LaneInOrder'
<1> USE DEF IInv, TypeOK, LaneInOrder, Earlier, Settled, Inserted
<1>1. CASE Aside
  BY <1>1, AsideKeepsRows
<1>2. ASSUME NEW p \in Procs, Recover(p) PROVE LaneInOrder'
  BY <1>2 DEF Recover
<1>3. ASSUME NEW p \in Procs, Ingest(p) PROVE LaneInOrder'
  <2> DEFINE new == {u \in batch[p] : u >= offset}
  <2>1. \A r \in Rows : r \in new => /\ state[r] = "none" /\ rowid'[r] > lastRowid /\ rowid[r] = 0
                                     /\ state'[r] = "pending"
    <3>1. SUFFICES ASSUME NEW r \in Rows, r \in new
                   PROVE  state[r] = "none" /\ rowid'[r] > lastRowid /\ rowid[r] = 0 /\ state'[r] = "pending"
      OBVIOUS
    <3>2. r \in Updates /\ r \in Nat /\ r >= offset /\ offset \in Nat /\ lastRowid \in Nat
      BY <3>1, UpdatesAssumption DEF Updates
    <3>3. rowid'[r] = lastRowid + (r - offset) + 1 /\ state'[r] = "pending"
      BY <1>3, <3>1 DEF Ingest
    <3>4. ~Inserted(r) /\ state[r] = "none"
      BY <3>2 DEF OffsetIsExact, RowShape
    <3>5. QED
      BY <3>2, <3>3, <3>4
  <2>2. \A r \in Rows : r \notin new => rowid'[r] = rowid[r] /\ state'[r] = state[r]
    BY <1>3 DEF Ingest
  <2>3. SUFFICES ASSUME NEW r \in Rows, NEW s \in Rows, Earlier(s, r)', state'[r] \in {"running", "done", "blocked"}
                 PROVE  Settled(s)'
    OBVIOUS
  <2> HIDE DEF new
  <2>4. r \notin new
    BY <2>1, <2>3
  <2>5. s \notin new
    <3>1. rowid'[r] = rowid[r] /\ rowid[r] <= lastRowid /\ rowid[r] \in Nat /\ lastRowid \in Nat
      BY <2>2, <2>4 DEF RowShape
    <3>2. rowid'[s] \in Nat /\ rowid'[s] < rowid'[r]
      BY <2>3, TypeStep
    <3>3. QED
      BY <2>1, <3>1, <3>2
  <2>6. QED
    BY <2>2, <2>3, <2>4, <2>5
<1>4. ASSUME NEW p \in Procs, NEW k \in Kinds, Tick(p, k) PROVE LaneInOrder'
  BY <1>4, RowsOfTick DEF Active, RowShape, RowStates
<1>5. ASSUME NEW p \in Procs, NEW j \in Jobs, Enqueue(p, j) PROVE LaneInOrder'
  BY <1>5 DEF Enqueue, RowShape, Rows
<1>6. ASSUME NEW p \in Procs, NEW r \in Rows, EndTask(p, r), ~Fence(p, r) PROVE LaneInOrder'
  <2>1. PICK next \in {"pending", "done", "blocked"} : Verdict(p, r, next)
    BY <1>6, VerdictOfHandler
  <2>2. QED
    BY <2>1 DEF Verdict
<1>7. QED
  BY <1>1, <1>2, <1>3, <1>4, <1>5, <1>6, StepCases

LEMMA GivesUpStep ==
    ASSUME IInv, [Next]_vars
    PROVE  GivesUp'
<1> USE DEF IInv, TypeOK, GivesUp
<1>1. CASE Aside
  BY <1>1, AsideKeepsRows
<1>2. ASSUME NEW p \in Procs, Recover(p) PROVE GivesUp'
  BY <1>2 DEF Recover, keys
<1>3. ASSUME NEW p \in Procs, Ingest(p) PROVE GivesUp'
  <2>1. \A r \in Rows : r \in {u \in batch[p] : u >= offset} => state[r] = "none"
    BY UpdatesAssumption DEF OffsetIsExact, RowShape, Updates
  <2>2. QED
    BY <1>3, <2>1 DEF Ingest, keys
<1>4. ASSUME NEW p \in Procs, NEW k \in Kinds, Tick(p, k) PROVE GivesUp'
  <2>1. failures' = failures
    BY <1>4 DEF Tick, keys
  <2>2. QED
    BY <1>4, <2>1, RowsOfTick
<1>5. ASSUME NEW p \in Procs, NEW j \in Jobs, Enqueue(p, j) PROVE GivesUp'
  BY <1>5 DEF Enqueue, RowShape, Rows, keys
<1>6. ASSUME NEW p \in Procs, NEW r \in Rows, EndTask(p, r), ~Fence(p, r) PROVE GivesUp'
  <2>1. PICK next \in {"pending", "done", "blocked"} : Verdict(p, r, next)
    BY <1>6, VerdictOfHandler
  <2>2. failures[r] < FailureLimit
    BY <2>1, LimitsAssumption DEF Verdict
  <2>3. CASE FailUnexplained(p, r)
    BY <2>2, <2>3, LimitsAssumption DEF FailUnexplained, Retry
  <2>4. CASE ~FailUnexplained(p, r)
    <3>1. failures' = failures
      BY <1>6, <2>4 DEF EndTask, Succeed, Postpone, FailTransiently, FailForGood, keys
    <3>2. QED
      BY <2>1, <2>2, <3>1, LimitsAssumption DEF Verdict
  <2>5. QED
    BY <2>3, <2>4
<1>7. QED
  BY <1>1, <1>2, <1>3, <1>4, <1>5, <1>6, StepCases

-----------------------------------------------------------------------------
(* The theorems.                                                           *)

LEMMA InductiveInit == Init => IInv
<1> SUFFICES ASSUME Init PROVE IInv
  OBVIOUS
<1>1. TypeOK
  BY TypeInit
<1>2. RowShape /\ RowidsDistinct /\ NoTaskBeforeServing /\ StartingHoldsLease /\ RunningIsOwned
  BY DEF Init, RowShape, RowidsDistinct, NoTaskBeforeServing, StartingHoldsLease, RunningIsOwned, Inserted, Holds
<1>3. OffsetIsExact /\ ArrivalOrder
  BY DEF Init, OffsetIsExact, ArrivalOrder, Inserted, Updates, Rows
<1>4. LaneInOrder /\ GivesUp
  BY LimitsAssumption DEF Init, LaneInOrder, GivesUp, Earlier, Inserted
<1>5. QED
  BY <1>1, <1>2, <1>3, <1>4 DEF IInv

LEMMA InductiveStep == ASSUME ~StartupMayStall PROVE IInv /\ [Next]_vars => IInv'
<1> SUFFICES ASSUME IInv, [Next]_vars PROVE IInv'
  OBVIOUS
<1>1. TypeOK'
  BY TypeStep DEF IInv
<1>2. QED
  BY <1>1, TableStep, OffsetStep, OwnershipStep, LaneStep, GivesUpStep DEF IInv

LEMMA Inductive == ASSUME ~StartupMayStall PROVE Spec => []IInv
<1>1. IInv /\ [Next]_vars => IInv'
  BY InductiveStep
<1>2. QED
  BY <1>1, InductiveInit, PTL DEF Spec

\* For any number of processes that start, stall, lose the lease and die in any order, a lane is worked
\* in order and one row at a time.
THEOREM LanesStayInOrder == ASSUME ~StartupMayStall PROVE Spec => []LaneInOrder
<1>1. IInv => LaneInOrder
  BY DEF IInv
<1>2. QED
  BY <1>1, Inductive, PTL

\* The running rows are always exactly the ones the serving process has a handler for.
THEOREM RunningRowsAreOwned == ASSUME ~StartupMayStall PROVE Spec => []RunningIsOwned
<1>1. IInv => RunningIsOwned
  BY DEF IInv
<1>2. QED
  BY <1>1, Inductive, PTL

\* Telegram is never told to forget an update that is not in the table.
THEOREM NoAckedUpdateIsLost == ASSUME ~StartupMayStall PROVE Spec => []NoAckedLoss
<1>1. IInv => NoAckedLoss
  BY UpdatesAssumption DEF IInv, TypeOK, OffsetIsExact, NoAckedLoss, Updates
<1>2. QED
  BY <1>1, Inductive, PTL

\* Updates are queued in the order they were sent.
THEOREM UpdatesArriveInOrder == ASSUME ~StartupMayStall PROVE Spec => []ArrivalOrder
<1>1. IInv => ArrivalOrder
  BY DEF IInv
<1>2. QED
  BY <1>1, Inductive, PTL

\* The two together.
THEOREM UpdatesStaySafe == ASSUME ~StartupMayStall PROVE Spec => []UpdatesAreSafe
<1>1. NoAckedLoss /\ ArrivalOrder => UpdatesAreSafe
  BY DEF UpdatesAreSafe
<1>2. QED
  BY <1>1, NoAckedUpdateIsLost, UpdatesArriveInOrder, PTL

\* A row that keeps failing is given up at the limit.
THEOREM FailuresGiveUp == ASSUME ~StartupMayStall PROVE Spec => []GivesUp
<1>1. IInv => GivesUp
  BY DEF IInv
<1>2. QED
  BY <1>1, Inductive, PTL

LEMMA SettledStep ==
    ASSUME IInv, [Next]_vars, NEW r \in Rows, Settled(r)
    PROVE  state'[r] = state[r]
<1> USE DEF IInv, TypeOK, Settled
<1>1. CASE Aside
  BY <1>1, AsideKeepsRows
<1>2. ASSUME NEW p \in Procs, Recover(p) PROVE state'[r] = state[r]
  BY <1>2 DEF Recover
<1>3. ASSUME NEW p \in Procs, Ingest(p) PROVE state'[r] = state[r]
  <2>1. r \in {u \in batch[p] : u >= offset} => state[r] = "none"
    BY UpdatesAssumption DEF OffsetIsExact, RowShape, Updates
  <2>2. QED
    BY <1>3, <2>1 DEF Ingest
<1>4. ASSUME NEW p \in Procs, NEW k \in Kinds, Tick(p, k) PROVE state'[r] = state[r]
  BY <1>4, RowsOfTick
<1>5. ASSUME NEW p \in Procs, NEW j \in Jobs, Enqueue(p, j) PROVE state'[r] = state[r]
  BY <1>5 DEF Enqueue, RowShape
<1>6. ASSUME NEW p \in Procs, NEW s \in Rows, EndTask(p, s), ~Fence(p, s) PROVE state'[r] = state[r]
  BY <1>6, VerdictOfHandler DEF Verdict
<1>7. QED
  BY <1>1, <1>2, <1>3, <1>4, <1>5, <1>6, StepCases

\* No late writer, retry or recovery reopens a settled row.
THEOREM SettledRowsStaySettled == ASSUME ~StartupMayStall PROVE Spec => SettledIsFinal
<1>1. IInv /\ [Next]_vars => [\A r \in Rows : Settled(r) => state'[r] = state[r]]_vars
  BY SettledStep
<1>2. QED
  BY <1>1, Inductive, PTL DEF Spec, SettledIsFinal

-----------------------------------------------------------------------------
(* The queue implements FifoLanes.                                         *)

LEMMA FifoInit == Init => Fifo!Init
  BY DEF Init, Fifo!Init, outcomeOf

\* A step that keeps every row's id, and settles none, is invisible.
LEMMA FifoStutter ==
    ASSUME IInv, UNCHANGED rowid,
           \A r \in Rows : \/ state'[r] = state[r]
                           \/ {state[r], state'[r]} \subseteq {"pending", "running"}
    PROVE  UNCHANGED Fifo!fifoVars
<1>1. outcomeOf' = outcomeOf
  BY DEF outcomeOf
<1>2. QED
  BY <1>1 DEF Fifo!fifoVars

\* New rows, with ids above every id given out, are an arrival.
LEMMA FifoArrival ==
    ASSUME IInv, IInv', NEW S \in SUBSET Rows, S # {},
           \A r \in S : ~Inserted(r) /\ rowid'[r] > lastRowid /\ state'[r] = "pending",
           \A r \in Rows \ S : rowid'[r] = rowid[r] /\ state'[r] = state[r]
    PROVE  Fifo!Next
<1>1. \A r \in Rows : state[r] = "none" <=> rowid[r] = 0
  BY DEF IInv, RowShape, Inserted
<1>2. \A r \in Rows : rowid[r] <= lastRowid /\ rowid[r] \in Nat /\ rowid'[r] \in Nat /\ state[r] \in RowStates
  BY DEF IInv, TypeOK, RowShape
<1>3. outcomeOf' = [r \in Rows |-> IF r \in S THEN "open" ELSE outcomeOf[r]]
  BY <1>2 DEF outcomeOf, RowStates
<1>4. \A r \in Rows : Fifo!Here(r) <=> Inserted(r)
  BY <1>1, <1>2 DEF Fifo!Here, Inserted, outcomeOf, RowStates
<1>5. rowid' \in [Rows -> Nat]
  BY DEF IInv, TypeOK
<1>6. \A r, s \in S : r # s => rowid'[r] # rowid'[s]
  <2>1. SUFFICES ASSUME NEW r \in S, NEW s \in S, rowid'[r] = rowid'[s] PROVE r = s
    OBVIOUS
  <2>2. rowid'[r] # 0
    BY DEF IInv, TypeOK
  <2>3. QED
    BY <2>1, <2>2 DEF IInv, RowidsDistinct, Inserted
<1>7. \A r \in S : \A s \in Rows : rowid[s] < rowid'[r]
  <2>1. SUFFICES ASSUME NEW r \in S, NEW s \in Rows PROVE rowid[s] < rowid'[r]
    OBVIOUS
  <2>2. lastRowid \in Nat
    BY DEF IInv, TypeOK
  <2>3. QED
    BY <1>2, <2>2
<1>8. Fifo!Arrive(S)
  BY <1>3, <1>4, <1>5, <1>6, <1>7 DEF Fifo!Arrive
<1>9. QED
  BY <1>8 DEF Fifo!Next

LEMMA FifoStep ==
    ASSUME IInv, IInv', [Next]_vars
    PROVE  [Fifo!Next]_(Fifo!fifoVars)
<1>1. CASE Aside
  BY <1>1, AsideKeepsRows, FifoStutter
<1>2. ASSUME NEW p \in Procs, Recover(p) PROVE UNCHANGED Fifo!fifoVars
  <2>1. rowid' = rowid /\ \A r \in Rows : state'[r] = state[r] \/ {state[r], state'[r]} \subseteq {"pending", "running"}
    BY <1>2 DEF Recover
  <2>2. QED
    BY <2>1, FifoStutter
<1>3. ASSUME NEW p \in Procs, Ingest(p) PROVE [Fifo!Next]_(Fifo!fifoVars)
  <2> DEFINE new == {u \in batch[p] : u >= offset}
  <2>1. new \in SUBSET Rows
    BY DEF IInv, TypeOK, Rows
  <2>2. \A r \in Rows \ new : rowid'[r] = rowid[r] /\ state'[r] = state[r]
    BY <1>3 DEF Ingest
  <2>3. ASSUME NEW r \in new PROVE ~Inserted(r) /\ rowid'[r] > lastRowid /\ state'[r] = "pending"
    <3>1. r \in Updates /\ r \in Nat /\ r >= offset /\ offset \in Nat /\ lastRowid \in Nat
      BY UpdatesAssumption DEF IInv, TypeOK, Updates
    <3>2. rowid'[r] = lastRowid + (r - offset) + 1 /\ state'[r] = "pending"
      BY <1>3, <2>1 DEF Ingest
    <3>3. ~Inserted(r)
      BY <3>1 DEF IInv, OffsetIsExact
    <3>4. QED
      BY <3>1, <3>2, <3>3
  <2>4. CASE new # {}
    BY <2>1, <2>2, <2>3, <2>4, FifoArrival
  <2>5. CASE new = {}
    <3>1. \A r \in Rows : rowid'[r] = rowid[r] /\ state'[r] = state[r]
      BY <2>2, <2>5
    <3>2. rowid' = rowid
      BY <3>1 DEF IInv, TypeOK
    <3>3. QED
      BY <3>1, <3>2, FifoStutter
  <2>6. QED
    BY <2>4, <2>5
<1>4. ASSUME NEW p \in Procs, NEW k \in Kinds, Tick(p, k) PROVE UNCHANGED Fifo!fifoVars
  <2>1. rowid' = rowid /\ \A r \in Rows : state'[r] = state[r] \/ {state[r], state'[r]} \subseteq {"pending", "running"}
    BY <1>4, RowsOfTick
  <2>2. QED
    BY <2>1, FifoStutter
<1>5. ASSUME NEW p \in Procs, NEW j \in Jobs, Enqueue(p, j) PROVE Fifo!Next
  <2>1. j \in Rows
    BY DEF Rows
  <2>2. ~Inserted(j) /\ rowid'[j] > lastRowid /\ state'[j] = "pending"
    BY <1>5, <2>1 DEF Enqueue, IInv, TypeOK
  <2>3. \A r \in Rows \ {j} : rowid'[r] = rowid[r] /\ state'[r] = state[r]
    BY <1>5 DEF Enqueue, IInv, TypeOK
  <2>4. {j} \in SUBSET Rows /\ {j} # {}
    BY <2>1
  <2>5. \A r \in {j} : ~Inserted(r) /\ rowid'[r] > lastRowid /\ state'[r] = "pending"
    BY <2>2
  <2>6. QED
    BY <2>3, <2>4, <2>5, FifoArrival
<1>6. ASSUME NEW p \in Procs, NEW r \in Rows, EndTask(p, r), ~Fence(p, r)
      PROVE  [Fifo!Next]_(Fifo!fifoVars)
  <2>1. PICK next \in {"pending", "done", "blocked"} : Verdict(p, r, next)
    BY <1>6, VerdictOfHandler
  <2>2. rowid' = rowid /\ state[r] = "running" /\ state' = [state EXCEPT ![r] = next]
    BY <2>1 DEF Verdict
  <2>3. CASE next = "pending"
    <3>1. \A s \in Rows : state'[s] = state[s] \/ {state[s], state'[s]} \subseteq {"pending", "running"}
      BY <2>2, <2>3 DEF IInv, TypeOK
    <3>2. QED
      BY <2>2, <3>1, FifoStutter
  <2>4. CASE next \in {"done", "blocked"}
    <3>1. outcomeOf[r] = "open"
      BY <2>2 DEF outcomeOf
    <3>2. outcomeOf' = [outcomeOf EXCEPT ![r] = next]
      BY <2>2, <2>4 DEF outcomeOf, IInv, TypeOK
    <3>3. ASSUME NEW s \in Rows, Lane[s] = Lane[r], Fifo!Here(s), rowid[s] < rowid[r]
          PROVE  outcomeOf[s] # "open"
      <4>1. Inserted(s)
        BY <3>3 DEF Fifo!Here, outcomeOf, IInv, RowShape
      <4>2. Settled(s)
        BY <2>2, <3>3, <4>1 DEF IInv, LaneInOrder, Earlier
      <4>3. QED
        BY <4>2 DEF Settled, outcomeOf
    <3>4. Fifo!Settle(r, next)
      BY <2>2, <3>1, <3>2, <3>3 DEF Fifo!Settle
    <3>5. QED
      BY <2>4, <3>4 DEF Fifo!Next
  <2>5. QED
    BY <2>3, <2>4
<1>7. QED
  BY <1>1, <1>2, <1>3, <1>4, <1>5, <1>6, StepCases

\* The queue, with all its processes, leases and retries, implements FIFO lanes that settle each row once.
THEOREM QueueImplementsFifoLanes == ASSUME ~StartupMayStall PROVE Spec => ImplementsFifoLanes
<1>1. IInv /\ IInv' /\ [Next]_vars => [Fifo!Next]_(Fifo!fifoVars)
  BY FifoStep
<1>2. QED
  BY <1>1, FifoInit, Inductive, PTL DEF Spec, Fifo!Spec, ImplementsFifoLanes

-----------------------------------------------------------------------------
(* The workers: how many handlers a process has of a kind.                 *)

\* The handlers of kind k that p runs.
WorkOf(p, k) == {r \in tasks[p] : KindOf[Lane[r]] = k}

\* The rows of the table are finitely many: each has an id of its own, and none is above the last one.
LEMMA TableIsFinite == ASSUME IInv PROVE IsFiniteSet({r \in Rows : Inserted(r)})
<1> DEFINE T == {r \in Rows : Inserted(r)}
           f == [r \in T |-> rowid[r]]
<1>1. f \in [T -> 1 .. lastRowid]
  BY DEF IInv, TypeOK, RowShape, Inserted
<1>2. f \in Injection(T, 1 .. lastRowid)
  <2>1. \A r, s \in T : f[r] = f[s] => r = s
    BY DEF IInv, RowidsDistinct
  <2> QED
    BY <1>1, <2>1 DEF Injection, IsInjective
<1>3. IsFiniteSet(1 .. lastRowid)
  BY FS_Interval DEF IInv, TypeOK
<1> QED
  BY <1>2, <1>3, FS_Injection

\* What a process is at work on is bounded in every kind.
Bounded == \A p \in Procs, k \in Kinds :
               IsFiniteSet(WorkOf(p, k)) /\ Cardinality(WorkOf(p, k)) <= Concurrency[k]

\* A process that loses handlers, and gets none, stays within its workers.
LEMMA FewerStayBounded ==
    ASSUME Bounded, NEW p \in Procs, tasks'[p] \subseteq tasks[p], NEW k \in Kinds
    PROVE  IsFiniteSet(WorkOf(p, k)') /\ Cardinality(WorkOf(p, k)') <= Concurrency[k]
<1>1. WorkOf(p, k)' \in SUBSET WorkOf(p, k)
  BY DEF WorkOf
<1>2. IsFiniteSet(WorkOf(p, k)) /\ Cardinality(WorkOf(p, k)) <= Concurrency[k]
  BY DEF Bounded
<1>3. /\ IsFiniteSet(WorkOf(p, k)') /\ Cardinality(WorkOf(p, k)') <= Cardinality(WorkOf(p, k))
      /\ Cardinality(WorkOf(p, k)) \in Nat /\ Cardinality(WorkOf(p, k)') \in Nat
  BY <1>1, <1>2, FS_Subset, FS_CardinalityType
<1>4. Concurrency[k] \in Nat
  BY KindsAssumption
<1> QED
  BY <1>2, <1>3, <1>4

\* A tick adds rows of its own kind, no more than there are workers free.
LEMMA TickStaysBounded ==
    ASSUME IInv, Bounded, NEW p \in Procs, NEW k \in Kinds, Tick(p, k) PROVE Bounded'
<1>1. PICK S \in SUBSET Claimable(k) :
         /\ Cardinality(S) <= Concurrency[k] - Busy(p, k)
         /\ tasks' = [tasks EXCEPT ![p] = @ \cup S]
  BY DEF Tick, Selected
<1>2. \A r \in S : r \in Rows /\ KindOf[Lane[r]] = k /\ Inserted(r)
  BY <1>1 DEF Claimable, IInv, RowShape
<1>3. IsFiniteSet(S) /\ Cardinality(S) \in Nat
  <2>1. S \in SUBSET {r \in Rows : Inserted(r)}
    BY <1>2
  <2> QED
    BY <2>1, TableIsFinite, FS_Subset, FS_CardinalityType
<1> SUFFICES ASSUME NEW q \in Procs, NEW l \in Kinds
             PROVE  IsFiniteSet(WorkOf(q, l)') /\ Cardinality(WorkOf(q, l)') <= Concurrency[l]
  BY DEF Bounded
<1>4. tasks'[q] = IF q = p THEN tasks[p] \cup S ELSE tasks[q]
  BY <1>1 DEF IInv, TypeOK
<1>5. CASE q = p /\ l = k
  <2>1. WorkOf(p, k)' = WorkOf(p, k) \cup S
    BY <1>2, <1>4, <1>5 DEF WorkOf
  <2>2. IsFiniteSet(WorkOf(p, k)) /\ Cardinality(WorkOf(p, k)) \in Nat
    BY FS_CardinalityType DEF Bounded
  <2>3. /\ IsFiniteSet(WorkOf(p, k) \cup S)
        /\ Cardinality(WorkOf(p, k) \cup S) <= Cardinality(WorkOf(p, k)) + Cardinality(S)
    <3>1. /\ IsFiniteSet(WorkOf(p, k) \cup S)
          /\ Cardinality(WorkOf(p, k) \cup S)
                = Cardinality(WorkOf(p, k)) + Cardinality(S) - Cardinality(WorkOf(p, k) \cap S)
      BY <1>3, <2>2, FS_Union
    <3>2. Cardinality(WorkOf(p, k) \cap S) \in Nat
      BY <1>3, FS_Intersection, FS_CardinalityType
    <3> QED
      BY <1>3, <2>2, <3>1, <3>2
  <2>4. Cardinality(S) <= Concurrency[k] - Cardinality(WorkOf(p, k))
    BY <1>1 DEF Busy, WorkOf
  <2>5. Concurrency[k] \in Nat /\ Cardinality(WorkOf(p, k) \cup S) \in Nat
    BY <2>3, KindsAssumption, FS_CardinalityType
  <2>6. Cardinality(WorkOf(p, k) \cup S) <= Concurrency[k]
    BY <1>3, <2>2, <2>3, <2>4, <2>5
  <2> QED
    BY <1>5, <2>1, <2>3, <2>6
<1>6. CASE ~(q = p /\ l = k)
  <2>1. WorkOf(q, l)' = WorkOf(q, l)
    BY <1>2, <1>4, <1>6 DEF WorkOf
  <2> QED
    BY <2>1 DEF Bounded
<1> QED
  BY <1>5, <1>6

\* No other step gives a process a handler.
LEMMA BoundedStep == ASSUME IInv, Bounded, [Next]_vars PROVE Bounded'
<1>1. CASE \E p \in Procs, k \in Kinds : Tick(p, k)
  BY <1>1, TickStaysBounded
<1>2. CASE ~\E p \in Procs, k \in Kinds : Tick(p, k)
  <2>1. \A p \in Procs : tasks'[p] \subseteq tasks[p]
    <3>1. CASE Aside
      BY <3>1 DEF Aside, Expire, Publish, Start, Acquire, Abort, Exit, Crash, Fetch, LoseBatch,
                  ReportBlocked, Fence, Elapse, Drop, vars, process, IInv, TypeOK
    <3>2. CASE \E p \in Procs : Recover(p) \/ Ingest(p)
      BY <3>2 DEF Recover, Ingest
    <3>3. CASE \E p \in Procs, j \in Jobs : Enqueue(p, j)
      BY <3>3 DEF Enqueue, process
    <3>4. CASE \E p \in Procs, r \in Rows : EndTask(p, r) /\ ~Fence(p, r)
      BY <3>4, VerdictOfHandler DEF Verdict, IInv, TypeOK
    <3> QED
      BY <1>2, <3>1, <3>2, <3>3, <3>4, StepCases
  <2> QED
    BY <2>1, FewerStayBounded DEF Bounded
<1> QED
  BY <1>1, <1>2

\* Nothing runs at first.
LEMMA BoundedInit == Init => Bounded
<1> SUFFICES ASSUME Init, NEW p \in Procs, NEW k \in Kinds
             PROVE  IsFiniteSet(WorkOf(p, k)) /\ Cardinality(WorkOf(p, k)) <= Concurrency[k]
  BY DEF Bounded
<1>1. WorkOf(p, k) = {}
  BY DEF Init, WorkOf
<1>2. Concurrency[k] \in Nat
  BY KindsAssumption
<1> QED
  BY <1>1, <1>2, FS_EmptySet

\* The property counts the same handlers.
LEMMA BoundedMeans == Bounded => WorkersBounded
  BY DEF Bounded, WorkersBounded, WorkOf, Busy

\* No process ever runs more handlers of a kind than its dispatcher has workers: not one that lost the
\* lease and is replaced, nor one whose rows are put back for another try meanwhile.
THEOREM WorkersStayWithinBounds == ASSUME ~StartupMayStall PROVE Spec => []WorkersBounded
<1>1. IInv /\ [Next]_vars => IInv'
  BY InductiveStep
<1>2. IInv /\ Bounded /\ [Next]_vars => Bounded'
  BY BoundedStep
<1> QED
  BY <1>1, <1>2, InductiveInit, BoundedInit, BoundedMeans, PTL DEF Spec

-----------------------------------------------------------------------------
(***************************************************************************)
(* The delivery to Telegram's topics.  That no message lands behind one of *)
(* newer work rests on two facts: between the claim of a message and its   *)
(* landing nothing else lands (CallClear), since one request is in flight; *)
(* and a work leaves a topic it was started in only when that is deleted,  *)
(* so newer work that spoke there still lives there (Spoken), while a      *)
(* topic made for a work was no older one's (Elsewhere).                   *)
(***************************************************************************)
CONSTANTS
    PostWorks,    \* workspaces
    PostTopics,   \* topics Telegram opens
    PostNotes,    \* messages of the workspaces
    PostEdits,    \* updates of their cards
    PostTries,    \* claims of a row
    PostTouches,  \* topics the owner closes or deletes
    PostLost,     \* answers lost
    PostDeletes   \* whether the owner deletes topics

VARIABLES rows, thread, life, required, link, replaced, call, topic, messages, known, used

Sender == INSTANCE TopicDelivery WITH MaxWorks <- PostWorks, MaxTopics <- PostTopics,
    MaxNotes <- PostNotes, MaxEdits <- PostEdits, MaxTries <- PostTries, MaxTouches <- PostTouches,
    MaxLost <- PostLost, Deletes <- PostDeletes

Spots == Sender!Topics \cup {0}
Someone == Sender!Works \cup {0}
RowIds == {"card", "create", "created", "note", "edit", "retire", "recover"} \X Nat
RowOps == {"send", "edit", "create", "reopen", "close"}
RowLanes == Spots \X {"notes", "control", "topics"}
RowEnds == {"pending", "running", "done", "blocked"}
Spent == [notes : 0..PostNotes, edits : 0..PostEdits, touches : 0..PostTouches, lost : 0..PostLost]
Landed == [at : Spots, for : Someone, text : 0..PostEdits]
Answers == {"none", "ok", "unchanged", "refused", "closed", "missing"}
Calling == [row : Nat \ {0}, op : RowOps, at : Spots, msg : Nat, answer : Answers, made : Nat]

PostShape ==
    /\ rows \in Seq(Sender!RowType) /\ messages \in Seq(Landed)
    /\ thread \in [Sender!Works -> Spots]
    /\ life \in [Sender!Works -> {"unborn", "live", "retired"}]
    /\ required \in [Sender!Works -> BOOLEAN] /\ link \in [Sender!Works -> BOOLEAN]
    /\ replaced \in [Sender!Works -> Nat]
    /\ call \in Calling \cup {Sender!Idle}
    /\ topic \in [Sender!Topics -> {"none", "open", "closed", "deleted"}]
    /\ known \in [Sender!Works -> SUBSET Sender!Topics]
    /\ used \in Spent

\* Cards are messages that landed, and the row that runs is the one of the call.
Carded ==
    /\ \A w \in Sender!Works : replaced[w] <= Len(messages)
    /\ \A i \in 1..Len(rows) : rows[i].msg <= Len(messages)
OneRuns == \A i \in 1..Len(rows) : rows[i].state = "running" <=> call.row = i

Born(w) == life[w] # "unborn"
Opened(t) == topic[t] # "none"
Deleted(t) == topic[t] = "deleted"
Elsewhere(w, t) == \A v \in Sender!Works : v > w => t \notin known[v]
Homeless(w) == thread[w] = 0 \/ thread[w] \in known[w] \/ Deleted(thread[w])

\* A row is for work that was born and names a topic that work had; only work without a topic, or with one
\* of its own making or deleted, waits for a new one.
RowFit(r) ==
    /\ r.for # 0 => Born(r.for)
    /\ r.at # 0 => Opened(r.at)
    /\ r.for # 0 /\ r.at # 0 => thread[r.for] = r.at \/ thread[r.for] \in known[r.for]
    /\ r.for # 0 /\ r.at # 0 => Elsewhere(r.for, r.at)
    /\ r.op = "create" => r.for # 0 /\ Homeless(r.for)
    /\ r.op \in {"reopen", "close"} => r.at # 0
    /\ r.op = "edit" => r.card # 0 /\ Born(r.card)
RowsFit == \A i \in 1..Len(rows) : RowFit(rows[i])

HasCard(w) == \E i \in 1..Len(rows) : rows[i].id = <<"card", w>>
WorkFit(w) ==
    /\ ~Born(w) => thread[w] = 0 /\ known[w] = {}
    /\ Born(w) => HasCard(w) /\ \A v \in Sender!Works : v < w => Born(v)
    /\ thread[w] # 0 => Opened(thread[w]) /\ Elsewhere(w, thread[w])
    /\ \A t \in known[w] : Opened(t)
WorksFit == \A w \in Sender!Works : WorkFit(w)

\* What landed: newer work is still where it spoke, if that is not a topic made for it and not deleted.
SaidFit(m) ==
    /\ m.for # 0 => Born(m.for)
    /\ m.for # 0 /\ m.at # 0 => thread[m.for] = m.at \/ m.at \in known[m.for] \/ Deleted(m.at)
Spoken == \A i \in 1..Len(messages) : SaidFit(messages[i])

\* The request in flight is of its row, and its answer is true of Telegram.
CallFit ==
    call.row # 0 =>
        /\ call.row \in 1..Len(rows)
        /\ call.op = rows[call.row].op /\ call.at = Sender!Thread(rows[call.row])
        /\ call.op = "edit" => call.msg \in 1..Len(messages)
        /\ call.answer = "missing" => call.at # 0 /\ Deleted(call.at)
        /\ call.answer = "closed" => call.op = "send" /\ call.at # 0
        /\ call.op = "create" /\ call.answer = "ok" => call.made \in Sender!Topics /\ Opened(call.made)
        /\ call.op = "send" /\ call.answer = "ok" => call.made <= Len(messages)
\* A topic that was just made is no place of the work it is for, or of older work.
CallNew ==
    call.row # 0 /\ call.op = "create" /\ call.answer = "ok" =>
        /\ \A w \in Sender!Works : call.made \notin known[w]
        /\ \A w \in Sender!Works : w <= rows[call.row].for => thread[w] # call.made
        /\ \A i \in 1..Len(rows) :
              rows[i].for # 0 /\ rows[i].for <= rows[call.row].for => rows[i].at # call.made
\* A message on its way is behind none of newer work, unless its topic is deleted.
Behind(i, t, w) == messages[i].at = t /\ messages[i].for > w /\ life[messages[i].for] = "live"
CallClear ==
    call.row # 0 /\ call.op = "send" /\ call.answer = "none" =>
        \A i \in 1..Len(messages) :
            rows[call.row].for # 0 /\ call.at # 0 /\ Behind(i, call.at, rows[call.row].for)
              => Deleted(call.at)

CallInv == CallFit /\ CallNew /\ CallClear
PlaceInv == RowsFit /\ WorksFit /\ Spoken
PostInv == PostShape /\ Carded /\ OneRuns /\ PlaceInv /\ CallInv

\* A row, part by part.
LEMMA RowParts ==
  ASSUME NEW r \in Sender!RowType
  PROVE  /\ r.id \in RowIds /\ r.op \in RowOps /\ r.for \in Someone /\ r.about \in Someone /\ r.at \in Spots
         /\ r.lane \in RowLanes /\ r.state \in RowEnds /\ r.tries \in 0..(PostTries + 1)
         /\ r.card \in Someone /\ r.text \in 0..PostEdits /\ r.msg \in Nat
BY DEF Sender!RowType, RowIds, RowOps, Someone, Spots, RowLanes, RowEnds

LEMMA RowMade ==
  ASSUME NEW id \in RowIds, NEW op \in RowOps, NEW w \in Someone, NEW a \in Someone, NEW t \in Spots,
         NEW l \in RowLanes, Sender!DeliveryAssumption
  PROVE  /\ Sender!Row(id, op, w, a, t, l) \in Sender!RowType
         /\ Sender!Row(id, op, w, a, t, l).id = id /\ Sender!Row(id, op, w, a, t, l).op = op
         /\ Sender!Row(id, op, w, a, t, l).for = w /\ Sender!Row(id, op, w, a, t, l).at = t
         /\ Sender!Row(id, op, w, a, t, l).state = "pending" /\ Sender!Row(id, op, w, a, t, l).msg = 0
         /\ Sender!Row(id, op, w, a, t, l).card = 0
BY DEF Sender!Row, Sender!RowType, Sender!DeliveryAssumption, RowIds, RowOps, Someone, Spots, RowLanes

\* What changes in a row when its state does, and when it becomes a message.
LEMMA RowInState ==
  ASSUME NEW r \in Sender!RowType, NEW s \in RowEnds
  PROVE  /\ Sender!InState(r, s) \in Sender!RowType
         /\ Sender!InState(r, s).id = r.id /\ Sender!InState(r, s).op = r.op
         /\ Sender!InState(r, s).for = r.for /\ Sender!InState(r, s).at = r.at
         /\ Sender!InState(r, s).state = s /\ Sender!InState(r, s).msg = r.msg
         /\ Sender!InState(r, s).card = r.card
BY DEF Sender!InState, Sender!RowType, RowEnds

LEMMA RowAsMessage ==
  ASSUME NEW r \in Sender!RowType
  PROVE  /\ Sender!AsMessage(r, 0) \in Sender!RowType
         /\ Sender!AsMessage(r, 0).id = r.id /\ Sender!AsMessage(r, 0).op = "send"
         /\ Sender!AsMessage(r, 0).for = r.for /\ Sender!AsMessage(r, 0).at = 0
         /\ Sender!AsMessage(r, 0).state = "pending" /\ Sender!AsMessage(r, 0).msg = r.msg
         /\ Sender!AsMessage(r, 0).card = r.card
<1>1. Sender!InState(r, "pending") \in Sender!RowType
  BY RowInState DEF RowEnds
<1> DEFINE u == Sender!InState(r, "pending")
<1> DEFINE v == [u EXCEPT !.op = "send"]
<1>2. u.id = r.id /\ u.for = r.for /\ u.state = "pending" /\ u.msg = r.msg /\ u.card = r.card
  BY RowInState DEF RowEnds
<1> HIDE DEF u
<1>3. v \in Sender!RowType /\ v.op = "send" /\ v.id = r.id /\ v.for = r.for /\ v.state = "pending" /\ v.msg = r.msg
      /\ v.card = r.card
  BY <1>1, <1>2 DEF Sender!RowType, u
<1> HIDE DEF v
<1> DEFINE x == [v EXCEPT !.at = 0]
<1>4. x \in Sender!RowType /\ x.op = "send" /\ x.id = r.id /\ x.for = r.for /\ x.state = "pending" /\ x.msg = r.msg
      /\ x.card = r.card /\ x.at = 0
  BY <1>3 DEF Sender!RowType
<1> QED
  BY <1>4 DEF Sender!AsMessage, x, v, u

LEMMA RowDelivered ==
  ASSUME NEW r \in Sender!RowType, NEW m \in Nat
  PROVE  /\ Sender!Delivered(r, m) \in Sender!RowType
         /\ Sender!Delivered(r, m).id = r.id /\ Sender!Delivered(r, m).op = r.op
         /\ Sender!Delivered(r, m).for = r.for /\ Sender!Delivered(r, m).at = r.at
         /\ Sender!Delivered(r, m).state = "done" /\ Sender!Delivered(r, m).msg = m
         /\ Sender!Delivered(r, m).card = r.card
<1> DEFINE u == Sender!InState(r, "done")
<1>1. /\ u \in Sender!RowType /\ u.id = r.id /\ u.op = r.op /\ u.for = r.for /\ u.at = r.at /\ u.state = "done"
      /\ u.card = r.card
  BY RowInState DEF RowEnds
<1> HIDE DEF u
<1> DEFINE x == [u EXCEPT !.msg = m]
<1>2. /\ x \in Sender!RowType /\ x.id = r.id /\ x.op = r.op /\ x.for = r.for /\ x.at = r.at /\ x.state = "done"
      /\ x.card = r.card /\ x.msg = m
  BY <1>1 DEF Sender!RowType
<1> QED
  BY <1>2 DEF Sender!Delivered, u

LEMMA RowTried ==
  ASSUME NEW r \in Sender!RowType, Sender!DeliveryAssumption
  PROVE  LET s == [r EXCEPT !.tries = Sender!Tried(@)] IN
         /\ s \in Sender!RowType
         /\ s.id = r.id /\ s.op = r.op /\ s.for = r.for /\ s.at = r.at /\ s.state = r.state /\ s.msg = r.msg
         /\ s.card = r.card
<1>1. r.tries \in 0..(PostTries + 1) /\ PostTries \in Nat
  BY RowParts DEF Sender!DeliveryAssumption
<1>2. Sender!Tried(r.tries) \in 0..(PostTries + 1)
  BY <1>1 DEF Sender!Tried
<1> QED
  BY <1>2 DEF Sender!RowType

\* One place of the queue changes.
LEMMA RowPut ==
  ASSUME NEW rs \in Seq(Sender!RowType), NEW i \in 1..Len(rs), NEW r \in Sender!RowType
  PROVE  /\ [rs EXCEPT ![i] = r] \in Seq(Sender!RowType) /\ Len([rs EXCEPT ![i] = r]) = Len(rs)
         /\ [rs EXCEPT ![i] = r][i] = r
         /\ \A j \in 1..Len(rs) : j # i => [rs EXCEPT ![i] = r][j] = rs[j]
OBVIOUS

\* A row is put at the end, unless its id was used.
LEMMA RowQueued ==
  ASSUME NEW rs \in Seq(Sender!RowType), NEW r \in Sender!RowType
  PROVE  /\ Sender!Queued(rs, r) \in Seq(Sender!RowType) /\ Len(Sender!Queued(rs, r)) \in Nat
         /\ Len(rs) <= Len(Sender!Queued(rs, r))
         /\ \A i \in 1..Len(rs) : Sender!Queued(rs, r)[i] = rs[i]
         /\ \A i \in 1..Len(Sender!Queued(rs, r)) : i \in 1..Len(rs) \/ Sender!Queued(rs, r)[i] = r
         /\ \E i \in 1..Len(Sender!Queued(rs, r)) : Sender!Queued(rs, r)[i].id = r.id
<1>1. CASE \E i \in DOMAIN rs : rs[i].id = r.id
  BY <1>1 DEF Sender!Queued
<1>2. CASE ~\E i \in DOMAIN rs : rs[i].id = r.id
  <2>1. Sender!Queued(rs, r) = Append(rs, r)
    BY <1>2 DEF Sender!Queued
  <2> QED
    BY <2>1
<1> QED
  BY <1>1, <1>2

-----------------------------------------------------------------------------
\* What a row becomes keeps its id and its work, and its place unless it becomes a message to General.
Follows(s, r) == /\ s.id = r.id /\ s.for = r.for /\ s.card = r.card
                 /\ \/ s.op = r.op /\ s.at = r.at
                    \/ s.op = "send" /\ s.at = 0
Followed(rs) ==
    /\ rs \in Seq(Sender!RowType) /\ Len(rows) <= Len(rs)
    /\ \A i \in 1..Len(rows) : Follows(rs[i], rows[i])
Undisturbed(rs) ==
    /\ \A i \in 1..Len(rows) : rows[i].state = "running" => rs[i] = rows[i]
    /\ \A i \in 1..Len(rs) : rs[i].state = "running" => i \in 1..Len(rows) /\ rows[i].state = "running"
    /\ \A i \in 1..Len(rs) : rs[i].msg # 0 => i \in 1..Len(rows) /\ rs[i].msg = rows[i].msg
Kept(rs) == Followed(rs) /\ Undisturbed(rs)

LEMMA KeptRows == ASSUME PostShape PROVE Kept(rows)
BY DEF PostShape, Kept, Followed, Undisturbed, Follows

LEMMA FollowedPut ==
  ASSUME PostShape, NEW i \in 1..Len(rows), NEW r \in Sender!RowType, Follows(r, rows[i])
  PROVE  Followed([rows EXCEPT ![i] = r])
<1>1. /\ [rows EXCEPT ![i] = r] \in Seq(Sender!RowType) /\ Len([rows EXCEPT ![i] = r]) = Len(rows)
      /\ [rows EXCEPT ![i] = r][i] = r
      /\ \A j \in 1..Len(rows) : j # i => [rows EXCEPT ![i] = r][j] = rows[j]
  BY RowPut DEF PostShape
<1>2. Len(rows) \in Nat /\ \A j \in 1..Len(rows) : Follows(rows[j], rows[j])
  BY DEF PostShape, Follows
<1> QED
  BY <1>1, <1>2 DEF Followed

LEMMA FollowedQueued ==
  ASSUME PostShape, NEW rs, Followed(rs), NEW r \in Sender!RowType
  PROVE  /\ Followed(Sender!Queued(rs, r))
         /\ \A i \in 1..Len(Sender!Queued(rs, r)) : i \in 1..Len(rs) \/ Sender!Queued(rs, r)[i] = r
         /\ \A i \in 1..Len(rs) : Sender!Queued(rs, r)[i] = rs[i]
         /\ \E i \in 1..Len(Sender!Queued(rs, r)) : Sender!Queued(rs, r)[i].id = r.id
<1>1. rs \in Seq(Sender!RowType)
  BY DEF Followed
<1> DEFINE q == Sender!Queued(rs, r)
<1>2. /\ q \in Seq(Sender!RowType) /\ Len(rs) <= Len(q) /\ Len(q) \in Nat
      /\ \A i \in 1..Len(rs) : q[i] = rs[i]
      /\ \A i \in 1..Len(q) : i \in 1..Len(rs) \/ q[i] = r
      /\ \E i \in 1..Len(q) : q[i].id = r.id
  BY <1>1, RowQueued
<1> HIDE DEF q
<1>3. Len(rows) \in Nat /\ Len(rs) \in Nat
  BY <1>1 DEF PostShape
<1>4. Followed(q)
  BY <1>2, <1>3 DEF Followed
<1> QED
  BY <1>2, <1>4 DEF q

LEMMA KeptQueued ==
  ASSUME PostShape, NEW rs, Kept(rs), NEW r \in Sender!RowType, r.state = "pending", r.msg = 0
  PROVE  Kept(Sender!Queued(rs, r))
<1> DEFINE q == Sender!Queued(rs, r)
<1>1. /\ Followed(q) /\ \A i \in 1..Len(q) : i \in 1..Len(rs) \/ q[i] = r
      /\ \A i \in 1..Len(rs) : q[i] = rs[i]
  BY FollowedQueued DEF Kept
<1> HIDE DEF q
<1>2. Len(rows) \in Nat /\ Len(rs) \in Nat /\ Len(q) \in Nat /\ Len(rows) <= Len(rs)
  BY <1>1 DEF PostShape, Kept, Followed
<1>3. Undisturbed(q)
  BY <1>1, <1>2 DEF Kept, Undisturbed
<1> QED
  BY <1>1, <1>3 DEF Kept, q

\* Rows that wait are closed.
LEMMA KeptClosed ==
  ASSUME PostShape, NEW rs \in Seq(Sender!RowType), Len(rs) = Len(rows),
         \A i \in 1..Len(rows) : \/ rs[i] = rows[i]
                                 \/ rows[i].state = "pending" /\ rs[i] = Sender!InState(rows[i], "done")
  PROVE  Kept(rs)
<1>1. Len(rows) \in Nat /\ \A i \in 1..Len(rows) : rows[i] \in Sender!RowType
  BY DEF PostShape
<1>2. ASSUME NEW i \in 1..Len(rows)
      PROVE  /\ Follows(rs[i], rows[i]) /\ rs[i].msg = rows[i].msg
             /\ rows[i].state = "running" => rs[i] = rows[i]
             /\ rs[i].state = "running" => rows[i].state = "running"
  <2>1. PICK r \in Sender!RowType : r = rows[i]
    BY <1>1
  <2>2. "done" \in RowEnds
    BY DEF RowEnds
  <2> QED
    BY <2>1, <2>2, RowInState DEF Follows
<1> QED
  BY <1>1, <1>2 DEF Kept, Followed, Undisturbed

LEMMA KeptSuperseded ==
  ASSUME PostShape, NEW w
  PROVE  Kept(Sender!Supersede(rows, w)) /\ Len(Sender!Supersede(rows, w)) = Len(rows)
<1>1. Len(rows) \in Nat /\ DOMAIN rows = 1..Len(rows) /\ \A i \in 1..Len(rows) : rows[i] \in Sender!RowType
  BY DEF PostShape
<1> DEFINE q == Sender!Supersede(rows, w)
<1>2. q = [i \in 1..Len(rows) |-> IF rows[i].op = "edit" /\ rows[i].card = w /\ rows[i].state = "pending"
                                  THEN Sender!InState(rows[i], "done") ELSE rows[i]]
  BY <1>1 DEF Sender!Supersede
<1>3. \A i \in 1..Len(rows) : q[i] \in Sender!RowType
  BY <1>1, <1>2, RowInState DEF RowEnds
<1>4. q \in Seq(Sender!RowType) /\ Len(q) = Len(rows)
  BY <1>1, <1>2, <1>3
<1>5. \A i \in 1..Len(rows) : \/ q[i] = rows[i]
                              \/ rows[i].state = "pending" /\ q[i] = Sender!InState(rows[i], "done")
  BY <1>2
<1> HIDE DEF q
<1>6. Kept(q)
  BY <1>4, <1>5, KeptClosed
<1> QED
  BY <1>4, <1>6 DEF q

-----------------------------------------------------------------------------
\* What most steps keep: a work that was born keeps its place, topics stay made and deleted ones deleted.
Grown == /\ \A w \in Sender!Works : Born(w) => Born(w)' /\ thread'[w] = thread[w]
         /\ known' = known
         /\ \A t \in Sender!Topics : (Opened(t) => Opened(t)') /\ (Deleted(t) => Deleted(t)')

LEMMA FitKept ==
  ASSUME PostShape, PostShape', Grown, NEW r \in Sender!RowType, NEW s \in Sender!RowType, RowFit(r), Follows(s, r)
  PROVE  RowFit(s)'
<1>1. /\ r.for \in Someone /\ r.card \in Someone /\ r.at \in Spots /\ s.for = r.for /\ s.card = r.card
      /\ \/ s.op = r.op /\ s.at = r.at
         \/ s.op = "send" /\ s.at = 0
  BY RowParts DEF Follows
<1>2. s.for # 0 => s.for \in Sender!Works /\ Born(s.for) /\ Born(s.for)' /\ thread'[s.for] = thread[s.for]
                   /\ known'[s.for] = known[s.for]
  BY <1>1 DEF Grown, RowFit, Someone
<1>3. s.at # 0 => s.at \in Sender!Topics /\ Opened(s.at)'
  BY <1>1 DEF Grown, RowFit, Spots
<1>4. s.for # 0 /\ s.at # 0 => /\ thread'[s.for] = s.at \/ thread'[s.for] \in known'[s.for]
                               /\ Elsewhere(s.for, s.at)'
  BY <1>1, <1>2 DEF Grown, RowFit, Elsewhere
<1>5. s.op = "create" => s.for # 0 /\ Homeless(s.for)'
  <2>1. s.op = "create" => s.for # 0 /\ Homeless(s.for)
    BY <1>1 DEF RowFit
  <2>2. s.op = "create" => thread[s.for] \in Spots
    BY <1>2, <2>1 DEF PostShape
  <2>3. s.op = "create" => Homeless(s.for)'
    BY <1>2, <2>1, <2>2 DEF Grown, Homeless, Deleted, Spots
  <2> QED
    BY <2>1, <2>3
<1>6. s.op \in {"reopen", "close"} => s.at # 0
  BY <1>1 DEF RowFit
<1>7. s.op = "edit" => s.card # 0 /\ Born(s.card)'
  BY <1>1 DEF RowFit, Grown, Someone
<1> QED
  BY <1>2, <1>3, <1>4, <1>5, <1>6, <1>7 DEF RowFit

LEMMA RowsStay ==
  ASSUME PostShape, PostShape', RowsFit, Grown, Followed(rows'),
         \A i \in 1..Len(rows') : i \in 1..Len(rows) \/ RowFit(rows[i])'
  PROVE  RowsFit'
<1>1. SUFFICES ASSUME NEW i \in 1..Len(rows'), i \in 1..Len(rows)
               PROVE  RowFit(rows[i])'
  BY DEF RowsFit
<1>2. /\ rows[i] \in Sender!RowType /\ rows'[i] \in Sender!RowType /\ RowFit(rows[i])
      /\ Follows(rows'[i], rows[i])
  BY <1>1 DEF PostShape, RowsFit, Followed
<1>3. PICK r \in Sender!RowType : r = rows[i]
  BY <1>2
<1>4. PICK s \in Sender!RowType : s = rows'[i]
  BY <1>2
<1>5. RowFit(s)'
  BY <1>2, <1>3, <1>4, FitKept
<1> QED
  BY <1>4, <1>5 DEF RowFit

LEMMA CardStays ==
  ASSUME PostShape, Followed(rows'), NEW w, HasCard(w)
  PROVE  HasCard(w)'
<1>1. PICK i \in 1..Len(rows) : rows[i].id = <<"card", w>>
  BY DEF HasCard
<1>2. i \in 1..Len(rows') /\ rows'[i].id = <<"card", w>>
  BY <1>1 DEF Followed, Follows, PostShape
<1> QED
  BY <1>2 DEF HasCard

LEMMA WorksStay ==
  ASSUME PostShape, PostShape', WorksFit, Grown, Followed(rows'), thread' = thread,
         \A w \in Sender!Works : Born(w)' => Born(w)
  PROVE  WorksFit'
<1>1. SUFFICES ASSUME NEW w \in Sender!Works
               PROVE  WorkFit(w)'
  BY DEF WorksFit
<1>2. WorkFit(w) /\ thread[w] \in Spots /\ known[w] \subseteq Sender!Topics
  BY DEF PostShape, WorksFit
<1>3. ~Born(w)' => thread'[w] = 0 /\ known'[w] = {}
  BY <1>2 DEF WorkFit, Grown
<1>4. Born(w)' => HasCard(w)' /\ \A v \in Sender!Works : v < w => Born(v)'
  <2>1. Born(w)' => HasCard(w)'
    BY <1>2, CardStays DEF WorkFit
  <2> QED
    BY <1>2, <2>1 DEF WorkFit, Grown
<1>5. thread'[w] # 0 => Opened(thread[w])' /\ Elsewhere(w, thread[w])'
  BY <1>2 DEF WorkFit, Grown, Elsewhere, Spots, Opened
<1>6. \A t \in known'[w] : Opened(t)'
  BY <1>2 DEF WorkFit, Grown
<1> QED
  BY <1>3, <1>4, <1>5, <1>6 DEF WorkFit

\* A message that fits goes on fitting.
LEMMA SaidKept ==
  ASSUME PostShape, Grown, NEW m \in Landed, SaidFit(m)
  PROVE  SaidFit(m)'
<1>1. m.for \in Someone /\ m.at \in Spots
  BY DEF Landed
<1> QED
  BY <1>1 DEF SaidFit, Grown, Someone, Spots

LEMMA SpokenStays ==
  ASSUME PostShape, Spoken, Grown, messages' = messages
  PROVE  Spoken'
<1>1. SUFFICES ASSUME NEW i \in 1..Len(messages)
               PROVE  SaidFit(messages[i])'
  BY DEF Spoken
<1>2. PICK m \in Landed : m = messages[i] /\ m = messages'[i] /\ SaidFit(m)
  BY DEF PostShape, Spoken
<1>3. SaidFit(m)'
  BY <1>2, SaidKept
<1> QED
  BY <1>2, <1>3 DEF SaidFit

\* A row that is new in the queue names the place its work has.
NewPlace(r) == r.for # 0 /\ r.at # 0 => thread[r.for] = r.at
LEMMA CallStays ==
  ASSUME PostShape, PostShape', OneRuns, RowsFit, WorksFit, Spoken, CallInv, Grown, Kept(rows'),
         call' = call, messages' = messages,
         \A w \in Sender!Works : Born(w) /\ life'[w] = "live" => life[w] = "live",
         \A i \in 1..Len(rows') : i \in 1..Len(rows) \/ NewPlace(rows[i])'
  PROVE  CallInv' /\ OneRuns'
<1>1. /\ Len(rows) \in Nat /\ Len(rows') \in Nat /\ Len(rows) <= Len(rows')
      /\ \A i \in 1..Len(rows) : rows[i] \in Sender!RowType /\ rows'[i] \in Sender!RowType
      /\ \A i \in 1..Len(rows') : rows'[i] \in Sender!RowType
  BY DEF PostShape, Kept, Followed
<1>2. OneRuns'
  <2>1. \A i \in 1..Len(rows') : rows'[i].state = "running" <=> i \in 1..Len(rows) /\ rows[i].state = "running"
    BY <1>1 DEF Kept, Undisturbed
  <2>2. call.row # 0 => call.row \in 1..Len(rows)
    BY DEF CallInv, CallFit
  <2>3. \A i \in 1..Len(rows') : i # 0
    OBVIOUS
  <2> QED
    BY <2>1, <2>2, <2>3 DEF OneRuns
<1>3. CASE call.row = 0
  BY <1>2, <1>3 DEF CallInv, CallFit, CallNew, CallClear
<1>4. CASE call.row # 0
  <2>1. call.row \in 1..Len(rows) /\ call.row \in 1..Len(rows')
    BY <1>1, <1>4 DEF CallInv, CallFit
  <2>2. PICK i \in 1..Len(rows) : i = call.row
    BY <2>1
  <2>3. rows'[i] = rows[i]
    BY <1>1, <2>1, <2>2 DEF Kept, Undisturbed, OneRuns
  <2>4. PICK r \in Sender!RowType : r = rows[i] /\ r = rows'[i] /\ RowFit(r)
    BY <1>1, <2>3 DEF RowsFit
  <2>5. r.for \in Someone /\ r.at \in Spots
    BY RowParts
  <2>6. r.for # 0 => r.for \in Sender!Works /\ Born(r.for) /\ thread'[r.for] = thread[r.for]
    BY <2>4, <2>5 DEF RowFit, Someone, Grown
  <2>7. Sender!Thread(r)' = Sender!Thread(r)
    BY <2>6 DEF Sender!Thread
  <2>8. Sender!Thread(rows[i])' = Sender!Thread(rows[i])
    BY <2>4, <2>7 DEF Sender!Thread
  <2>9. CallFit'
    <3>1. /\ call.op = rows[i].op /\ call.at = Sender!Thread(rows[i])
          /\ call.op = "edit" => call.msg \in 1..Len(messages)
          /\ call.answer = "missing" => call.at # 0 /\ Deleted(call.at)
          /\ call.answer = "closed" => call.op = "send" /\ call.at # 0
          /\ call.op = "create" /\ call.answer = "ok" => call.made \in Sender!Topics /\ Opened(call.made)
          /\ call.op = "send" /\ call.answer = "ok" => call.made <= Len(messages)
      BY <1>4, <2>2 DEF CallInv, CallFit
    <3>2. call.at \in Spots
      <4>1. call # Sender!Idle
        BY <1>4 DEF Sender!Idle
      <4> QED
        BY <4>1 DEF PostShape, Calling
    <3>3. call.answer = "missing" => call.at # 0 /\ Deleted(call.at)'
      BY <3>1, <3>2 DEF Grown, Spots
    <3>4. call.op = "create" /\ call.answer = "ok" => call.made \in Sender!Topics /\ Opened(call.made)'
      BY <3>1 DEF Grown
    <3> QED
      BY <2>1, <2>2, <2>3, <2>8, <3>1, <3>3, <3>4 DEF CallFit, Deleted, Opened
  <2>10. CallNew'
    <3>1. SUFFICES ASSUME call.op = "create", call.answer = "ok"
                   PROVE  /\ \A w \in Sender!Works : call.made \notin known'[w]
                          /\ \A w \in Sender!Works : w <= rows'[i].for => thread'[w] # call.made
                          /\ \A j \in 1..Len(rows') :
                                rows'[j].for # 0 /\ rows'[j].for <= rows'[i].for => rows'[j].at # call.made
      BY <2>2 DEF CallNew
    <3>2. /\ \A w \in Sender!Works : call.made \notin known[w]
          /\ \A w \in Sender!Works : w <= r.for => thread[w] # call.made
          /\ \A j \in 1..Len(rows) : rows[j].for # 0 /\ rows[j].for <= r.for => rows[j].at # call.made
      BY <1>4, <2>2, <2>4, <3>1 DEF CallInv, CallNew
    <3>3. call.made \in Sender!Topics /\ r.for # 0
      BY <1>4, <2>2, <2>4, <3>1 DEF CallInv, CallFit, RowFit
    <3>4. call.made # 0
      BY <3>3 DEF Sender!Topics
    <3>5. \A w \in Sender!Works : w <= r.for => Born(w)
      BY <2>6, <3>3 DEF WorksFit, WorkFit, Sender!Works
    <3>6. \A w \in Sender!Works : w <= r.for => thread'[w] # call.made
      BY <3>2, <3>5 DEF Grown
    <3>7. ASSUME NEW j \in 1..Len(rows'), rows'[j].for # 0, rows'[j].for <= r.for
          PROVE  rows'[j].at # call.made
      <4>1. CASE j \in 1..Len(rows)
        BY <1>1, <3>2, <3>4, <3>7, <4>1 DEF Kept, Followed, Follows
      <4>2. CASE j \notin 1..Len(rows)
        <5>1. rows'[j].for \in Sender!Works
          BY <1>1, <3>7, RowParts DEF Someone
        <5> QED
          BY <3>4, <3>6, <3>7, <4>2, <5>1 DEF NewPlace
      <4> QED
        BY <4>1, <4>2
    <3> QED
      BY <2>4, <3>2, <3>6, <3>7 DEF Grown
  <2>11. CallClear'
    <3>1. SUFFICES ASSUME call.op = "send", call.answer = "none", r.for # 0, call.at # 0,
                          NEW k \in 1..Len(messages), messages[k].at = call.at, messages[k].for > r.for,
                          life'[messages[k].for] = "live"
                   PROVE  Deleted(call.at)'
      BY <2>2, <2>4 DEF CallClear, Behind, Deleted
    <3>2. messages[k] \in Landed /\ SaidFit(messages[k])
      BY DEF PostShape, Spoken
    <3>3. messages[k].for \in Sender!Works
      BY <2>5, <3>1, <3>2 DEF Landed, Someone, Sender!Works
    <3>4. life[messages[k].for] = "live"
      BY <3>2, <3>3, <3>1 DEF SaidFit, Sender!Works
    <3>5. Deleted(call.at)
      BY <1>4, <2>2, <2>4, <3>1, <3>4 DEF CallInv, CallClear, Behind
    <3>6. messages[k].at \in Spots
      BY <3>2 DEF Landed
    <3> QED
      BY <3>1, <3>5, <3>6 DEF Grown, Spots
  <2> QED
    BY <1>2, <2>9, <2>10, <2>11 DEF CallInv
<1> QED
  BY <1>3, <1>4

LEMMA CardedStays ==
  ASSUME PostShape, PostShape', Carded, Kept(rows'), replaced' = replaced, Len(messages) <= Len(messages')
  PROVE  Carded'
<1>1. /\ Len(messages) \in Nat /\ Len(messages') \in Nat /\ Len(rows) \in Nat
      /\ \A i \in 1..Len(rows') : rows'[i] \in Sender!RowType
      /\ \A w \in Sender!Works : replaced[w] \in Nat
  BY DEF PostShape
<1>2. ASSUME NEW i \in 1..Len(rows')
      PROVE  rows'[i].msg <= Len(messages')
  <2>1. rows'[i].msg \in Nat
    BY <1>1, RowParts
  <2>2. rows'[i].msg # 0 => i \in 1..Len(rows) /\ rows'[i].msg = rows[i].msg
    BY DEF Kept, Undisturbed
  <2> QED
    BY <1>1, <2>1, <2>2 DEF Carded
<1> QED
  BY <1>1, <1>2 DEF Carded

\* The queue grows by rows that fit and name the place of their work.
Grows(rs) == /\ Kept(rs)
             /\ \A i \in 1..Len(rs) : i \notin 1..Len(rows) => RowFit(rs[i]) /\ NewPlace(rs[i])

LEMMA GrowsQueued ==
  ASSUME PostShape, NEW rs, Grows(rs), NEW r \in Sender!RowType, r.state = "pending", r.msg = 0,
         RowFit(r), NewPlace(r)
  PROVE  Grows(Sender!Queued(rs, r))
<1> DEFINE q == Sender!Queued(rs, r)
<1>1. Kept(q)
  BY KeptQueued DEF Grows
<1>2. /\ \A i \in 1..Len(q) : i \in 1..Len(rs) \/ q[i] = r
      /\ \A i \in 1..Len(rs) : q[i] = rs[i]
  BY FollowedQueued DEF Grows, Kept
<1> HIDE DEF q
<1>3. \A i \in 1..Len(q) : i \notin 1..Len(rows) => RowFit(q[i]) /\ NewPlace(q[i])
  <2>1. SUFFICES ASSUME NEW i \in 1..Len(q), i \notin 1..Len(rows)
                 PROVE  RowFit(q[i]) /\ NewPlace(q[i])
    OBVIOUS
  <2>2. CASE i \in 1..Len(rs)
    <3>1. q[i] = rs[i] /\ RowFit(rs[i]) /\ NewPlace(rs[i])
      BY <1>2, <2>1, <2>2 DEF Grows
    <3> QED
      BY <3>1
  <2>3. CASE q[i] = r
    BY <2>3
  <2> QED
    BY <1>2, <2>2, <2>3
<1> QED
  BY <1>1, <1>3 DEF Grows, q

LEMMA GrowsSame ==
  ASSUME PostShape, NEW rs, Kept(rs), Len(rs) = Len(rows)
  PROVE  Grows(rs)
BY DEF Grows

\* A step that only puts rows in the queue or closes some, and may retire work.
LEMMA QuietStep ==
  ASSUME PostInv, PostShape', Grows(rows'), thread' = thread, known' = known, topic' = topic, call' = call,
         messages' = messages, replaced' = replaced,
         \A w \in Sender!Works : (Born(w)' <=> Born(w)) /\ (life'[w] = "live" => life[w] = "live")
  PROVE  PostInv'
<1>1. Grown
  BY DEF Grown, Opened, Deleted
<1>2. ASSUME NEW i \in 1..Len(rows'), i \notin 1..Len(rows)
      PROVE  RowFit(rows[i])' /\ NewPlace(rows[i])'
  <2>1. rows'[i] \in Sender!RowType /\ RowFit(rows'[i]) /\ NewPlace(rows'[i])
    BY <1>2 DEF Grows, PostShape
  <2>2. PICK r \in Sender!RowType : r = rows'[i]
    BY <2>1
  <2>3. RowFit(r) /\ NewPlace(r) /\ Follows(r, r)
    BY <2>1, <2>2 DEF Follows
  <2>4. RowFit(r)'
    BY <1>1, <2>3, FitKept DEF PostInv
  <2>5. RowFit(rows[i])'
    BY <2>2, <2>4 DEF RowFit
  <2> QED
    BY <2>2, <2>3, <2>5 DEF NewPlace
<1>3. Kept(rows') /\ Followed(rows')
  BY DEF Grows, Kept
<1>4. RowsFit'
  BY <1>1, <1>2, <1>3, RowsStay DEF PostInv, PlaceInv
<1>5. WorksFit'
  BY <1>1, <1>3, WorksStay DEF PostInv, PlaceInv
<1>6. Spoken'
  BY <1>1, SpokenStays DEF PostInv, PlaceInv
<1>7. CallInv' /\ OneRuns'
  BY <1>1, <1>2, <1>3, CallStays DEF PostInv, PlaceInv
<1>8. Carded'
  <2>1. Len(messages) <= Len(messages')
    BY DEF PostInv, PostShape
  <2> QED
    BY <1>3, <2>1, CardedStays DEF PostInv
<1> QED
  BY <1>4, <1>5, <1>6, <1>7, <1>8 DEF PostInv, PlaceInv

\* A note to its work's topic, and the lanes.
LEMMA SpotLane ==
  ASSUME NEW t \in Spots, NEW k \in {"notes", "control", "topics"}
  PROVE  Sender!Lane(t, k) \in RowLanes
BY DEF Sender!Lane, RowLanes

LEMMA NoteFits ==
  ASSUME PostShape, WorksFit, NEW w \in Sender!Works, Born(w), NEW id \in RowIds, Sender!DeliveryAssumption
  PROVE  /\ Sender!Note(w, id) \in Sender!RowType /\ Sender!Note(w, id).state = "pending"
         /\ Sender!Note(w, id).msg = 0 /\ RowFit(Sender!Note(w, id)) /\ NewPlace(Sender!Note(w, id))
<1>1. thread[w] \in Spots /\ WorkFit(w) /\ w \in Someone /\ 0 \in Someone /\ "send" \in RowOps /\ w # 0
  BY DEF PostShape, WorksFit, Someone, RowOps, Sender!Works
<1>2. Sender!Lane(thread[w], "notes") \in RowLanes
  BY <1>1, SpotLane
<1> DEFINE r == Sender!Row(id, "send", w, 0, thread[w], Sender!Lane(thread[w], "notes"))
<1>3. r \in Sender!RowType /\ r.op = "send" /\ r.for = w /\ r.at = thread[w] /\ r.state = "pending" /\ r.msg = 0
  BY <1>1, <1>2, RowMade
<1> HIDE DEF r
<1>4. RowFit(r) /\ NewPlace(r)
  BY <1>1, <1>3 DEF RowFit, NewPlace, WorkFit
<1> QED
  BY <1>3, <1>4 DEF Sender!Note, r

-----------------------------------------------------------------------------
\* The gateway's own steps.
LEMMA PostOpenTopic ==
  ASSUME PostInv, Sender!DeliveryAssumption, NEW w \in Sender!Works, Sender!OpenTopic(w)
  PROVE  PostInv'
<1>1. /\ PostShape /\ WorksFit /\ Born(w) /\ w \in Someone /\ 0 \in Someone /\ w # 0 /\ 0 \in Spots /\ thread[w] \in Spots
      /\ "create" \in RowOps /\ <<"create", w>> \in RowIds /\ <<"created", w>> \in RowIds
  BY DEF PostInv, PlaceInv, PostShape, Sender!OpenTopic, Born, Someone, Spots, RowOps, RowIds, Sender!Works
<1> DEFINE c == Sender!Row(<<"create", w>>, "create", w, 0, 0, Sender!Lane(0, "topics"))
           opened == IF thread[w] # 0 THEN rows ELSE Sender!Queued(rows, c)
           n == Sender!Note(w, <<"created", w>>)
<1>2. rows' = IF link[w] THEN Sender!Queued(opened, n) ELSE opened
  BY DEF Sender!OpenTopic
<1>3. Sender!Lane(0, "topics") \in RowLanes
  BY <1>1, SpotLane
<1>4. /\ c \in Sender!RowType /\ c.op = "create" /\ c.for = w /\ c.at = 0 /\ c.state = "pending" /\ c.msg = 0
  BY <1>1, <1>3, RowMade
<1>5. n \in Sender!RowType /\ n.state = "pending" /\ n.msg = 0 /\ RowFit(n) /\ NewPlace(n)
  BY <1>1, NoteFits
<1> HIDE DEF n, c
<1>6. thread[w] = 0 => RowFit(c) /\ NewPlace(c)
  BY <1>1, <1>4 DEF RowFit, NewPlace, Homeless
<1>7. Grows(rows)
  BY <1>1, KeptRows, GrowsSame
<1>8. rows \in Seq(Sender!RowType)
  BY <1>1 DEF PostShape
<1>9. Grows(opened)
  BY <1>1, <1>4, <1>6, <1>7, <1>8, GrowsQueued
<1> HIDE DEF opened
<1>10. PICK o : o = opened
  OBVIOUS
<1>11. Grows(Sender!Queued(o, n))
  BY <1>1, <1>5, <1>9, <1>10, GrowsQueued
<1>12. Grows(rows')
  BY <1>2, <1>9, <1>10, <1>11
<1>13. rows' \in Seq(Sender!RowType)
  BY <1>12 DEF Grows, Kept, Followed
<1>14. /\ thread' = thread /\ known' = known /\ topic' = topic /\ call' = call /\ messages' = messages
       /\ replaced' = replaced /\ life' = life /\ used' = used
       /\ required' \in [Sender!Works -> BOOLEAN] /\ link' \in [Sender!Works -> BOOLEAN]
  BY <1>1 DEF Sender!OpenTopic, PostShape
<1>15. PostShape'
  BY <1>1, <1>13, <1>14 DEF PostShape
<1> QED
  BY <1>12, <1>14, <1>15, QuietStep DEF Born

LEMMA PostSpeak ==
  ASSUME PostInv, Sender!DeliveryAssumption, NEW w \in Sender!Works, Sender!Speak(w)
  PROVE  PostInv'
<1>1. PostShape /\ WorksFit /\ Born(w) /\ used \in Spent /\ PostNotes \in Nat
  BY DEF PostInv, PlaceInv, PostShape, Sender!Speak, Born, Sender!DeliveryAssumption
<1>2. used' \in Spent /\ used'.notes \in Nat
  BY <1>1 DEF Sender!Speak, Spent
<1>3. <<"note", used'.notes>> \in RowIds
  BY <1>2 DEF RowIds
<1>4. PICK id \in RowIds : id = <<"note", used'.notes>>
  BY <1>3
<1> DEFINE n == Sender!Note(w, id)
<1>5. n \in Sender!RowType /\ n.state = "pending" /\ n.msg = 0 /\ RowFit(n) /\ NewPlace(n)
  BY <1>1, NoteFits
<1>6. rows' = Sender!Queued(rows, n)
  BY <1>4 DEF Sender!Speak
<1> HIDE DEF n
<1>7. PICK o : o = rows
  OBVIOUS
<1>8. Grows(o)
  BY <1>1, <1>7, KeptRows, GrowsSame
<1>9. Grows(Sender!Queued(o, n))
  BY <1>1, <1>5, <1>8, GrowsQueued
<1>10. Grows(rows')
  BY <1>6, <1>7, <1>9
<1>11. rows' \in Seq(Sender!RowType)
  BY <1>10 DEF Grows, Kept, Followed
<1>12. /\ thread' = thread /\ known' = known /\ topic' = topic /\ call' = call /\ messages' = messages
       /\ replaced' = replaced /\ life' = life /\ required' = required /\ link' = link
  BY DEF Sender!Speak
<1>13. PostShape'
  BY <1>1, <1>2, <1>11, <1>12 DEF PostShape
<1> QED
  BY <1>10, <1>12, <1>13, QuietStep DEF Born

LEMMA PostUpdate ==
  ASSUME PostInv, Sender!DeliveryAssumption, NEW w \in Sender!Works, Sender!Update(w)
  PROVE  PostInv'
<1>1. PostShape /\ WorksFit /\ Born(w) /\ used \in Spent /\ PostEdits \in Nat
  BY DEF PostInv, PlaceInv, PostShape, Sender!Update, Born, Sender!DeliveryAssumption
<1>2. used' \in Spent /\ used'.edits \in 0..PostEdits
  BY <1>1 DEF Sender!Update, Spent
<1>3. PICK n \in 0..PostEdits : n = used'.edits
  BY <1>2
<1>4. /\ <<"edit", n>> \in RowIds /\ "edit" \in RowOps /\ w \in Someone /\ 0 \in Someone /\ 0 \in Spots /\ w # 0
  BY DEF RowIds, RowOps, Someone, Spots, Sender!Works
<1>5. HasCard(w)
  BY <1>1 DEF WorksFit, WorkFit
<1>6. Sender!RowOf(<<"card", w>>) \in 1..Len(rows)
  <2>1. DOMAIN rows = 1..Len(rows)
    BY <1>1 DEF PostShape
  <2> QED
    BY <1>5, <2>1 DEF HasCard, Sender!RowOf
<1>7. rows[Sender!RowOf(<<"card", w>>)] \in Sender!RowType
  BY <1>1, <1>6 DEF PostShape
<1>8. Sender!EditLane(w) \in RowLanes
  BY <1>7, RowParts DEF Sender!EditLane
<1> DEFINE e == Sender!Row(<<"edit", n>>, "edit", w, 0, 0, Sender!EditLane(w))
           f == [e EXCEPT !.card = w]
           g == [f EXCEPT !.text = n]
<1>9. e \in Sender!RowType /\ e.op = "edit" /\ e.for = w /\ e.at = 0 /\ e.state = "pending" /\ e.msg = 0
  BY <1>4, <1>8, RowMade
<1>10. rows' = Sender!Queued(Sender!Supersede(rows, w), g)
  BY <1>3 DEF Sender!Update
<1> HIDE DEF e
<1>11. /\ f \in Sender!RowType /\ f.op = "edit" /\ f.for = w /\ f.at = 0 /\ f.state = "pending" /\ f.msg = 0
       /\ f.card = w
  BY <1>4, <1>9 DEF Sender!RowType, Someone
<1> HIDE DEF f
<1>12. /\ g \in Sender!RowType /\ g.op = "edit" /\ g.for = w /\ g.at = 0 /\ g.state = "pending" /\ g.msg = 0
       /\ g.card = w
  BY <1>11 DEF Sender!RowType
<1> HIDE DEF g
<1>13. RowFit(g) /\ NewPlace(g)
  BY <1>1, <1>4, <1>12 DEF RowFit, NewPlace
<1>14. PICK o : o = Sender!Supersede(rows, w)
  OBVIOUS
<1>15. Grows(o)
  BY <1>1, <1>14, KeptSuperseded, GrowsSame
<1>16. Grows(Sender!Queued(o, g))
  BY <1>1, <1>12, <1>13, <1>15, GrowsQueued
<1>17. Grows(rows')
  BY <1>10, <1>14, <1>16
<1>18. rows' \in Seq(Sender!RowType)
  BY <1>17 DEF Grows, Kept, Followed
<1>19. /\ thread' = thread /\ known' = known /\ topic' = topic /\ call' = call /\ messages' = messages
       /\ replaced' = replaced /\ life' = life /\ required' = required /\ link' = link
  BY DEF Sender!Update
<1>20. PostShape'
  BY <1>1, <1>2, <1>18, <1>19 DEF PostShape
<1> QED
  BY <1>17, <1>19, <1>20, QuietStep DEF Born

LEMMA PostRetire ==
  ASSUME PostInv, Sender!DeliveryAssumption, NEW w \in Sender!Works, Sender!Retire(w)
  PROVE  PostInv'
<1>1. /\ PostShape /\ WorksFit /\ Born(w) /\ w \in Someone /\ 0 \in Someone /\ w # 0
      /\ thread[w] \in Spots /\ rows \in Seq(Sender!RowType) /\ DOMAIN rows = 1..Len(rows)
      /\ \A i \in 1..Len(rows) : rows[i] \in Sender!RowType
  BY DEF PostInv, PlaceInv, PostShape, Sender!Retire, Born, Someone, Sender!Works
<1>2. rows' = Sender!Retired(w)
  BY DEF Sender!Retire
<1>3. Grows(rows)
  BY <1>1, KeptRows, GrowsSame
<1> DEFINE r == Sender!Row(<<"retire", w>>, "close", w, 0, thread[w], Sender!Lane(thread[w], "notes"))
           c == [i \in 1..Len(rows) |-> IF rows[i].for = w /\ rows[i].state = "pending"
                                        THEN Sender!InState(rows[i], "done") ELSE rows[i]]
<1>4. \/ rows' = rows
      \/ thread[w] # 0 /\ rows' = Sender!Queued(rows, r)
      \/ rows' = c
  BY <1>1, <1>2 DEF Sender!Retired
<1>5. ASSUME thread[w] # 0, rows' = Sender!Queued(rows, r)
      PROVE  Grows(rows')
  <2>1. "close" \in RowOps /\ <<"retire", w>> \in RowIds
    BY DEF RowOps, RowIds, Sender!Works
  <2>2. Sender!Lane(thread[w], "notes") \in RowLanes
    BY <1>1, SpotLane
  <2>3. r \in Sender!RowType /\ r.op = "close" /\ r.for = w /\ r.at = thread[w] /\ r.state = "pending" /\ r.msg = 0
    BY <1>1, <2>1, <2>2, RowMade
  <2> HIDE DEF r
  <2>4. RowFit(r) /\ NewPlace(r)
    BY <1>1, <1>5, <2>3 DEF RowFit, NewPlace, WorksFit, WorkFit
  <2>5. PICK o : o = rows
    OBVIOUS
  <2>6. Grows(Sender!Queued(o, r))
    BY <1>1, <1>3, <2>3, <2>4, <2>5, GrowsQueued
  <2> QED
    BY <1>5, <2>5, <2>6
<1>6. ASSUME rows' = c
      PROVE  Grows(rows')
  <2>1. Len(rows) \in Nat
    BY <1>1
  <2>2. ASSUME NEW i \in 1..Len(rows)
        PROVE  /\ c[i] \in Sender!RowType
               /\ \/ c[i] = rows[i]
                  \/ rows[i].state = "pending" /\ c[i] = Sender!InState(rows[i], "done")
    <3>1. PICK x \in Sender!RowType : x = rows[i]
      BY <1>1
    <3>2. Sender!InState(x, "done") \in Sender!RowType
      BY RowInState DEF RowEnds
    <3> QED
      BY <3>1, <3>2
  <2>3. c \in Seq(Sender!RowType) /\ Len(c) = Len(rows)
    BY <2>1, <2>2
  <2>4. \A i \in 1..Len(rows) : \/ c[i] = rows[i]
                                \/ rows[i].state = "pending" /\ c[i] = Sender!InState(rows[i], "done")
    BY <2>2
  <2> HIDE DEF c
  <2>5. Kept(c)
    BY <1>1, <2>3, <2>4, KeptClosed
  <2>6. Grows(c)
    BY <1>1, <2>3, <2>5, GrowsSame
  <2> QED
    BY <1>6, <2>6
<1>7. Grows(rows')
  BY <1>3, <1>4, <1>5, <1>6
<1>8. rows' \in Seq(Sender!RowType)
  BY <1>7 DEF Grows, Kept, Followed
<1>9. /\ thread' = thread /\ known' = known /\ topic' = topic /\ call' = call /\ messages' = messages
      /\ replaced' = replaced /\ used' = used
      /\ life' = [life EXCEPT ![w] = "retired"] /\ life[w] = "live"
      /\ required' \in [Sender!Works -> BOOLEAN] /\ link' \in [Sender!Works -> BOOLEAN]
  BY <1>1 DEF Sender!Retire, PostShape
<1>10. PostShape'
  BY <1>1, <1>8, <1>9 DEF PostShape
<1>11. \A v \in Sender!Works : (Born(v)' <=> Born(v)) /\ (life'[v] = "live" => life[v] = "live")
  BY <1>1, <1>9 DEF PostShape, Born
<1> QED
  BY <1>7, <1>9, <1>10, <1>11, QuietStep

\* The owner's hand on a topic.
LEMMA PostTouch ==
  ASSUME PostInv, Sender!DeliveryAssumption, NEW t \in Sender!Topics, Sender!Touch(t)
  PROVE  PostInv'
<1>1. PostShape /\ used \in Spent /\ PostTouches \in Nat
  BY DEF PostInv, PostShape, Sender!DeliveryAssumption
<1>2. used' \in Spent
  BY <1>1 DEF Sender!Touch, Spent
<1>3. /\ rows' = rows /\ thread' = thread /\ known' = known /\ call' = call /\ messages' = messages
      /\ replaced' = replaced /\ life' = life /\ required' = required /\ link' = link
  BY DEF Sender!Touch, Sender!gateway
<1>4. /\ topic' \in [Sender!Topics -> {"none", "open", "closed", "deleted"}]
      /\ \A s \in Sender!Topics : (Opened(s) => Opened(s)') /\ (Deleted(s) => Deleted(s)')
  BY <1>1 DEF Sender!Touch, PostShape, Opened, Deleted
<1>5. PostShape'
  BY <1>1, <1>2, <1>3, <1>4 DEF PostShape
<1>6. Grown
  BY <1>3, <1>4 DEF Grown, Born
<1>7. Kept(rows') /\ Followed(rows')
  BY <1>1, <1>3, KeptRows DEF Kept
<1>8. RowsFit'
  BY <1>1, <1>3, <1>5, <1>6, <1>7, RowsStay DEF PostInv, PlaceInv
<1>9. WorksFit'
  BY <1>1, <1>3, <1>5, <1>6, <1>7, WorksStay DEF PostInv, PlaceInv, Born
<1>10. Spoken'
  BY <1>1, <1>3, <1>5, <1>6, SpokenStays DEF PostInv, PlaceInv
<1>11. CallInv' /\ OneRuns'
  BY <1>1, <1>3, <1>5, <1>6, <1>7, CallStays DEF PostInv, PlaceInv
<1>12. Carded'
  BY <1>3 DEF PostInv, Carded
<1> QED
  BY <1>5, <1>8, <1>9, <1>10, <1>11, <1>12 DEF PostInv, PlaceInv

\* New work, in a topic of older work or in none.
LEMMA PostStart ==
  ASSUME PostInv, Sender!DeliveryAssumption, NEW w \in Sender!Works, NEW t \in Spots, Sender!Start(w, t)
  PROVE  PostInv'
<1>1. /\ PostShape /\ WorksFit /\ ~Born(w) /\ w \in Someone /\ 0 \in Someone /\ w # 0
      /\ "send" \in RowOps /\ <<"card", w>> \in RowIds
      /\ \A v \in Sender!Works : v < w => Born(v)
      /\ t # 0 => t \in Sender!Topics /\ Opened(t)
  <2>1. "send" \in RowOps /\ <<"card", w>> \in RowIds /\ w \in Someone /\ 0 \in Someone /\ w # 0
    BY DEF Someone, Sender!Works, RowOps, RowIds
  <2>2. t # 0 => t \in Sender!Topics
    BY DEF Spots
  <2> QED
    BY <2>1, <2>2 DEF PostInv, PlaceInv, Sender!Start, Born, Opened
<1>2. Sender!Lane(t, "control") \in RowLanes
  BY SpotLane
<1> DEFINE r == Sender!Row(<<"card", w>>, "send", 0, w, t, Sender!Lane(t, "control"))
<1>3. /\ r \in Sender!RowType /\ r.id = <<"card", w>> /\ r.op = "send" /\ r.for = 0 /\ r.at = t
      /\ r.state = "pending" /\ r.msg = 0
  BY <1>1, <1>2, RowMade
<1>4. rows' = Sender!Queued(rows, r)
  BY DEF Sender!Start
<1> HIDE DEF r
<1>5. PICK o : o = rows
  OBVIOUS
<1>6. Kept(o) /\ Followed(o)
  BY <1>1, <1>5, KeptRows DEF Kept
<1>7. Kept(rows') /\ Followed(rows')
  BY <1>1, <1>3, <1>4, <1>5, <1>6, KeptQueued DEF Kept
<1>8. /\ \A i \in 1..Len(rows') : i \in 1..Len(rows) \/ rows'[i] = r
      /\ \E i \in 1..Len(rows') : rows'[i].id = r.id
  <2>1. PICK x \in Sender!RowType : x = r
    BY <1>3
  <2>2. /\ \A i \in 1..Len(Sender!Queued(o, x)) : i \in 1..Len(o) \/ Sender!Queued(o, x)[i] = x
        /\ \E i \in 1..Len(Sender!Queued(o, x)) : Sender!Queued(o, x)[i].id = x.id
    BY <1>1, <1>6, FollowedQueued
  <2> QED
    BY <1>4, <1>5, <2>1, <2>2
<1>9. /\ known' = known /\ topic' = topic /\ call' = call /\ messages' = messages
      /\ replaced' = replaced /\ used' = used /\ required' = required
      /\ life' = [life EXCEPT ![w] = "live"] /\ thread' = [thread EXCEPT ![w] = t]
      /\ link' \in [Sender!Works -> BOOLEAN]
  BY <1>1 DEF Sender!Start, PostShape
<1>10. rows' \in Seq(Sender!RowType)
  BY <1>7 DEF Followed
<1>11. PostShape'
  BY <1>1, <1>9, <1>10 DEF PostShape
<1>12. \A v \in Sender!Works : /\ v # w => (Born(v)' <=> Born(v)) /\ thread'[v] = thread[v]
                               /\ v # w => life'[v] = life[v]
                               /\ Born(v) => v # w
       /\ Born(w)' /\ thread'[w] = t
  BY <1>1, <1>9 DEF PostShape, Born
<1>13. Grown
  BY <1>9, <1>12 DEF Grown, Opened, Deleted
<1>14. ASSUME NEW i \in 1..Len(rows'), i \notin 1..Len(rows)
       PROVE  RowFit(rows[i])' /\ NewPlace(rows[i])'
  <2>1. rows'[i] = r
    BY <1>8, <1>14
  <2>2. r.at # 0 => Opened(r.at)'
    BY <1>1, <1>3, <1>13 DEF Grown
  <2> QED
    BY <1>3, <2>1, <2>2 DEF RowFit, NewPlace
<1>15. RowsFit'
  BY <1>1, <1>7, <1>11, <1>13, <1>14, RowsStay DEF PostInv, PlaceInv
<1>16. ASSUME NEW v \in Sender!Works
       PROVE  WorkFit(v)'
  <2>1. WorkFit(v) /\ thread[v] \in Spots /\ known[v] \subseteq Sender!Topics
    BY <1>1 DEF WorksFit, PostShape
  <2>2. CASE v = w
    <3>1. HasCard(w)'
      BY <1>3, <1>8 DEF HasCard
    <3>2. \A u \in Sender!Works : u < w => Born(u)'
      BY <1>1, <1>13 DEF Grown
    <3>3. \A u \in Sender!Works : u > w => ~Born(u)
      BY <1>1 DEF WorksFit, WorkFit, Sender!Works
    <3>4. \A u \in Sender!Works : u > w => known[u] = {}
      BY <1>1, <3>3 DEF WorksFit, WorkFit
    <3>5. thread'[w] # 0 => Opened(thread[w])' /\ Elsewhere(w, thread[w])'
      BY <1>1, <1>9, <1>12, <3>4 DEF Elsewhere, Opened
    <3>6. \A s \in known'[w] : Opened(s)'
      BY <1>9, <2>1, <2>2 DEF WorkFit, Opened
    <3> QED
      BY <1>12, <2>2, <3>1, <3>2, <3>5, <3>6 DEF WorkFit
  <2>3. CASE v # w
    <3>1. Born(v) => HasCard(v)'
      BY <1>1, <1>7, <2>1, CardStays DEF WorkFit
    <3>2. Born(v)' => HasCard(v)' /\ \A u \in Sender!Works : u < v => Born(u)'
      BY <1>12, <1>13, <2>1, <2>3, <3>1 DEF WorkFit, Grown
    <3>3. ~Born(v)' => thread'[v] = 0 /\ known'[v] = {}
      BY <1>9, <1>12, <2>1, <2>3 DEF WorkFit
    <3>4. thread'[v] # 0 => Opened(thread[v])' /\ Elsewhere(v, thread[v])'
      BY <1>9, <1>12, <2>1, <2>3 DEF WorkFit, Elsewhere, Opened
    <3>5. \A s \in known'[v] : Opened(s)'
      BY <1>9, <2>1 DEF WorkFit, Opened
    <3> QED
      BY <3>2, <3>3, <3>4, <3>5 DEF WorkFit
  <2> QED
    BY <2>2, <2>3
<1>17. Spoken'
  BY <1>1, <1>9, <1>11, <1>13, SpokenStays DEF PostInv, PlaceInv
<1>18. \A v \in Sender!Works : Born(v) /\ life'[v] = "live" => life[v] = "live"
  BY <1>12
<1>19. CallInv' /\ OneRuns'
  BY <1>1, <1>7, <1>9, <1>11, <1>13, <1>14, <1>18, CallStays DEF PostInv, PlaceInv
<1>20. Carded'
  <2>1. Len(messages) <= Len(messages')
    BY <1>1, <1>9 DEF PostShape
  <2> QED
    BY <1>1, <1>7, <1>9, <1>11, <2>1, CardedStays DEF PostInv
<1> QED
  BY <1>11, <1>15, <1>16, <1>17, <1>19, <1>20 DEF PostInv, PlaceInv, WorksFit

\* The order of the numbers, as a relation.
Sooner == {ss \in Nat \X Nat : ss[1] < ss[2]}

\* A set of numbers that is not empty has a first one.
LEMMA LeastNumber ==
  ASSUME NEW numbers, numbers \subseteq Nat, numbers # {}
  PROVE  \E x \in numbers : \A y \in numbers : x <= y
<1>1. OpToRel(<, Nat) = Sooner
  BY DEF OpToRel, Sooner
<1>2. IsWellFoundedOn(Sooner, Nat)
  BY <1>1, NatLessThanWellFounded, Zenon
<1>3. PICK x \in numbers : \A y \in numbers : ~(<<y, x>> \in Sooner)
  BY <1>2, WFMin
<1>4. \A y, z \in Nat : y < z => <<y, z>> \in Sooner
  BY DEF Sooner
<1>5. ASSUME NEW y \in numbers PROVE x <= y
  <2>1. y \in Nat /\ x \in Nat
    BY <1>3
  <2>2. ~(y < x)
    BY <1>3, <1>4, <2>1
  <2> QED
    BY <2>1, <2>2
<1> QED
  BY <1>5

-----------------------------------------------------------------------------
\* The places, where neither work nor Telegram moves.
LEMMA PlaceStays ==
  ASSUME PostInv, PostShape', Followed(rows'), \A i \in 1..Len(rows') : i \notin 1..Len(rows) => RowFit(rows'[i]),
         thread' = thread, known' = known, topic' = topic, messages' = messages, life' = life
  PROVE  PlaceInv'
<1>1. Grown
  BY DEF Grown, Opened, Deleted, Born
<1>2. ASSUME NEW i \in 1..Len(rows'), i \notin 1..Len(rows)
      PROVE  RowFit(rows[i])'
  <2>1. rows'[i] \in Sender!RowType /\ RowFit(rows'[i])
    BY <1>2 DEF PostShape
  <2>2. PICK r \in Sender!RowType : r = rows'[i]
    BY <2>1
  <2>3. RowFit(r) /\ Follows(r, r)
    BY <2>1, <2>2 DEF Follows
  <2>4. RowFit(r)'
    BY <1>1, <2>3, FitKept DEF PostInv
  <2> QED
    BY <2>2, <2>4 DEF RowFit
<1>3. RowsFit'
  BY <1>1, <1>2, RowsStay DEF PostInv, PlaceInv
<1>4. WorksFit'
  BY <1>1, WorksStay DEF PostInv, PlaceInv, Born
<1>5. Spoken'
  BY <1>1, SpokenStays DEF PostInv, PlaceInv
<1> QED
  BY <1>3, <1>4, <1>5 DEF PlaceInv

\* A step after which no request is in flight.
LEMMA RestStep ==
  ASSUME PostInv, PostShape', Followed(rows'), \A i \in 1..Len(rows') : i \notin 1..Len(rows) => RowFit(rows'[i]),
         \A i \in 1..Len(rows') : rows'[i].state # "running" /\ rows'[i].msg <= Len(messages),
         \A w \in Sender!Works : replaced'[w] <= Len(messages),
         call' = Sender!Idle, thread' = thread, known' = known, topic' = topic, messages' = messages, life' = life
  PROVE  PostInv'
<1>1. PlaceInv'
  BY PlaceStays
<1>2. call'.row = 0
  BY DEF Sender!Idle
<1>3. OneRuns'
  BY <1>2 DEF OneRuns
<1>4. CallInv'
  BY <1>2 DEF CallInv, CallFit, CallNew, CallClear
<1>5. Carded'
  BY DEF Carded
<1> QED
  BY <1>1, <1>3, <1>4, <1>5 DEF PostInv

\* A row is put back or settled.
LEMMA RestPut ==
  ASSUME PostInv, NEW i \in 1..Len(rows), NEW s \in Sender!RowType, Follows(s, rows[i]), s.state # "running",
         s.msg <= Len(messages), call = Sender!Idle \/ call.row = i, rows' = [rows EXCEPT ![i] = s],
         call' = Sender!Idle, thread' = thread, known' = known, topic' = topic, messages' = messages, life' = life,
         required' = required, link' = link, replaced' \in [Sender!Works -> 0..Len(messages)], used' \in Spent
  PROVE  PostInv'
<1>1. PostShape
  BY DEF PostInv
<1>2. /\ rows' \in Seq(Sender!RowType) /\ Len(rows') = Len(rows) /\ Len(rows) \in Nat /\ Len(messages) \in Nat
      /\ rows'[i] = s /\ \A j \in 1..Len(rows) : j # i => rows'[j] = rows[j]
  BY <1>1, RowPut DEF PostShape
<1>3. Followed(rows')
  BY <1>1, FollowedPut
<1>4. \A j \in 1..Len(rows') : rows'[j].state # "running" /\ rows'[j].msg <= Len(messages)
  <2>1. ASSUME NEW j \in 1..Len(rows), j # i
        PROVE  rows[j].state # "running"
    BY <2>1 DEF PostInv, OneRuns, Sender!Idle
  <2> QED
    BY <1>2, <2>1 DEF PostInv, Carded
<1>5. /\ replaced' \in [Sender!Works -> Nat] /\ \A w \in Sender!Works : replaced'[w] <= Len(messages)
  BY <1>2
<1>6. PostShape'
  BY <1>1, <1>2, <1>5 DEF PostShape
<1> QED
  BY <1>2, <1>3, <1>4, <1>5, <1>6, RestStep

\* What the sender leaves alone.
LEMMA CardsLanded == ASSUME PostInv PROVE replaced \in [Sender!Works -> 0..Len(messages)]
BY DEF PostInv, PostShape, Carded

LEMMA RowAt ==
  ASSUME PostInv, NEW i \in 1..Len(rows)
  PROVE  rows[i] \in Sender!RowType /\ rows[i].msg <= Len(messages) /\ RowFit(rows[i])
BY DEF PostInv, PostShape, Carded, PlaceInv, RowsFit

LEMMA CallAt ==
  ASSUME PostInv, call # Sender!Idle
  PROVE  call \in Calling /\ call.row \in 1..Len(rows) /\ call.row # 0
<1>1. call \in Calling
  BY DEF PostInv, PostShape
<1>2. call.row # 0
  BY <1>1 DEF Calling
<1> QED
  BY <1>1, <1>2 DEF PostInv, CallInv, CallFit

-----------------------------------------------------------------------------
\* The newest work of a topic is no older than any that lives there.
LEMMA FollowerNewest ==
  ASSUME PostShape, Sender!DeliveryAssumption, NEW v \in Sender!Works, life[v] = "live", NEW t, t # 0, thread[v] = t
  PROVE  Sender!Follower(t) \in Sender!Works /\ v <= Sender!Follower(t)
<1> DEFINE here == {w \in Sender!Works : life[w] = "live" /\ thread[w] = t}
           back == {PostWorks - w : w \in here}
<1>1. PostWorks \in Nat /\ here \subseteq 1..PostWorks /\ v \in here
  BY DEF Sender!DeliveryAssumption, Sender!Works
<1>2. back \subseteq Nat /\ back # {}
  BY <1>1
<1>3. PICK x \in back : \A y \in back : x <= y
  <2> HIDE DEF back
  <2> QED
    BY <1>2, LeastNumber
<1>4. PICK m \in here : x = PostWorks - m
  BY <1>3
<1>5. \A w \in here : w <= m
  <2>1. SUFFICES ASSUME NEW w \in here
                 PROVE  w <= m
    OBVIOUS
  <2>2. PostWorks - m <= PostWorks - w
    BY <1>3, <1>4, <2>1
  <2>3. w \in Nat /\ m \in Nat
    BY <1>1, <1>4, <2>1
  <2> QED
    BY <1>1, <2>2, <2>3
<1>6. Sender!Follower(t) = CHOOSE w \in here : \A u \in here : u <= w
  BY <1>1 DEF Sender!Follower
<1> HIDE DEF here
<1>7. Sender!Follower(t) \in here /\ \A u \in here : u <= Sender!Follower(t)
  BY <1>4, <1>5, <1>6
<1> QED
  BY <1>1, <1>7 DEF here

\* What is not suppressed is behind no message of newer work.
LEMMA ClaimedClear ==
  ASSUME PostInv, Sender!DeliveryAssumption, NEW r \in Sender!RowType, RowFit(r), r.op = "send", r.for # 0,
         ~Sender!Suppressed(r), Sender!Thread(r) # 0,
         NEW k \in 1..Len(messages), Behind(k, Sender!Thread(r), r.for)
  PROVE  Deleted(Sender!Thread(r))
<1> DEFINE t == Sender!Thread(r)
           v == messages[k].for
<1>1. PostShape /\ WorksFit /\ messages[k] \in Landed /\ SaidFit(messages[k])
  BY DEF PostInv, PlaceInv, PostShape, Spoken
<1>2. r.for \in Sender!Works /\ r.for \in Nat
  <2>1. r.for \in Someone
    BY RowParts
  <2> QED
    BY <2>1 DEF Someone, Sender!Works
<1>3. v \in Sender!Works /\ v > r.for /\ life[v] = "live" /\ messages[k].at = t /\ v # 0
  <2>1. v \in Someone
    BY <1>1 DEF Landed
  <2>2. v > r.for /\ life[v] = "live" /\ messages[k].at = t
    BY DEF Behind
  <2> QED
    BY <1>2, <2>1, <2>2 DEF Someone, Sender!Works
<1>4. \/ t = thread[r.for] /\ thread[r.for] # 0
      \/ t = r.at
  BY DEF Sender!Thread
<1>5. Elsewhere(r.for, t)
  BY <1>1, <1>2, <1>4 DEF RowFit, WorksFit, WorkFit
<1>6. thread[v] = t \/ t \in known[v] \/ Deleted(t)
  BY <1>1, <1>3 DEF SaidFit
<1>7. t \notin known[v]
  BY <1>3, <1>5 DEF Elsewhere
<1>8. thread[v] # t
  <2>1. SUFFICES ASSUME thread[v] = t
                 PROVE  FALSE
    OBVIOUS
  <2>2. Sender!Follower(t) \in Sender!Works /\ v <= Sender!Follower(t)
    <3> HIDE DEF v, t
    <3> QED
      BY <1>1, <1>3, <2>1, FollowerNewest DEF t
  <2>3. Sender!Follower(t) \notin {0, r.for}
    BY <1>2, <1>3, <2>2 DEF Sender!Works
  <2>4. Sender!Adopted(r, t)
    BY <2>3 DEF Sender!Adopted
  <2> HIDE DEF t
  <2> QED
    BY <1>4, <2>4 DEF Sender!Suppressed
<1> QED
  BY <1>6, <1>7, <1>8

\* The message that is a work's card.
LEMMA AnchorLanded ==
  ASSUME PostInv, NEW w \in Sender!Works, Born(w)
  PROVE  Sender!Anchor(w) \in 0..Len(messages)
<1>1. /\ DOMAIN rows = 1..Len(rows) /\ HasCard(w) /\ replaced[w] \in 0..Len(messages) /\ Len(messages) \in Nat
  BY CardsLanded DEF PostInv, PostShape, PlaceInv, WorksFit, WorkFit
<1>2. Sender!RowOf(<<"card", w>>) \in 1..Len(rows)
  BY <1>1 DEF HasCard, Sender!RowOf
<1>3. PICK i \in 1..Len(rows) : i = Sender!RowOf(<<"card", w>>)
  BY <1>2
<1>4. rows[i].msg \in Nat /\ rows[i].msg <= Len(messages)
  BY RowAt, RowParts
<1> QED
  BY <1>1, <1>3, <1>4 DEF Sender!Anchor

LEMMA ThreadSpot ==
  ASSUME PostShape, NEW r \in Sender!RowType
  PROVE  Sender!Thread(r) \in Spots
<1>1. r.for \in Someone /\ r.at \in Spots
  BY RowParts
<1> QED
  BY <1>1 DEF Sender!Thread, Someone, PostShape

\* The claim of a row that makes a request.
LEMMA PostClaim ==
  ASSUME PostInv, Sender!DeliveryAssumption, NEW i \in 1..Len(rows), NEW r \in Sender!RowType, call = Sender!Idle,
         r.id = rows[i].id, r.op = rows[i].op, r.for = rows[i].for, r.at = rows[i].at, r.card = rows[i].card,
         r.msg = rows[i].msg,
         r.op = "edit" => Sender!Anchor(r.card) # 0, ~Sender!Suppressed(r),
         rows' = [rows EXCEPT ![i] = Sender!InState(r, "running")], call' = Sender!Request(i),
         UNCHANGED <<thread, life, required, link, replaced, topic, messages, known, used>>
  PROVE  PostInv'
<1>1. PostShape /\ i # 0 /\ rows[i] \in Sender!RowType /\ rows[i].msg <= Len(messages) /\ RowFit(rows[i])
  BY RowAt DEF PostInv
<1>2. PICK x \in Sender!RowType : x = rows[i] /\ RowFit(x)
  BY <1>1
<1>3. RowFit(r)
  BY <1>2 DEF RowFit
<1> DEFINE s == Sender!InState(r, "running")
<1>4. /\ s \in Sender!RowType /\ s.id = r.id /\ s.op = r.op /\ s.for = r.for /\ s.at = r.at /\ s.state = "running"
      /\ s.msg = r.msg /\ s.card = r.card
  BY RowInState DEF RowEnds
<1>5. rows' = [rows EXCEPT ![i] = s]
  OBVIOUS
<1> HIDE DEF s
<1>6. /\ rows' \in Seq(Sender!RowType) /\ Len(rows') = Len(rows) /\ Len(rows) \in Nat
      /\ rows'[i] = s /\ \A j \in 1..Len(rows) : j # i => rows'[j] = rows[j]
  BY <1>1, <1>4, <1>5, RowPut DEF PostShape
<1>7. Follows(s, rows[i])
  BY <1>4 DEF Follows
<1>8. Followed(rows')
  BY <1>1, <1>4, <1>5, <1>7, FollowedPut
<1>9. Sender!Thread(r) = Sender!Thread(rows[i]) /\ Sender!Thread(r) \in Spots
  BY <1>1, ThreadSpot DEF Sender!Thread
<1>10. r.op = "edit" => Sender!Anchor(rows[i].card) \in 1..Len(messages)
  <2>1. SUFFICES ASSUME r.op = "edit"
                 PROVE  Sender!Anchor(r.card) \in 1..Len(messages)
    OBVIOUS
  <2>2. r.card \in Sender!Works /\ Born(r.card)
    BY <1>3, <2>1, RowParts DEF RowFit, Someone
  <2>3. Sender!Anchor(r.card) \in 0..Len(messages)
    BY <2>2, AnchorLanded
  <2>4. Len(messages) \in Nat
    BY <1>1 DEF PostShape
  <2> QED
    BY <2>1, <2>3, <2>4
<1>11. /\ call'.row = i /\ call'.op = r.op /\ call'.at = Sender!Thread(r) /\ call'.answer = "none"
       /\ call'.made = 0 /\ (r.op = "edit" => call'.msg \in 1..Len(messages)) /\ call' \in Calling
  <2>1. r.op \in RowOps
    BY RowParts
  <2> DEFINE m == IF rows[i].op = "edit" THEN Sender!Anchor(rows[i].card) ELSE 0
  <2>2. call' = [row |-> i, op |-> r.op, at |-> Sender!Thread(r), msg |-> m, answer |-> "none", made |-> 0]
    BY <1>9 DEF Sender!Request
  <2>3. m \in Nat /\ (r.op = "edit" => m \in 1..Len(messages))
    BY <1>10
  <2> HIDE DEF m
  <2>4. "none" \in Answers /\ i \in Nat \ {0} /\ 0 \in Nat
    BY DEF Answers
  <2> QED
    BY <1>9, <2>1, <2>2, <2>3, <2>4 DEF Calling
<1>12. PostShape'
  BY <1>1, <1>6, <1>11 DEF PostShape
<1>13. PlaceInv'
  <2>1. \A j \in 1..Len(rows') : j \notin 1..Len(rows) => RowFit(rows'[j])
    BY <1>6
  <2> QED
    BY <1>8, <1>12, <2>1, PlaceStays
<1>14. Carded'
  BY <1>1, <1>4, <1>6 DEF PostInv, Carded
<1>15. OneRuns'
  <2>1. \A j \in 1..Len(rows) : rows[j].state # "running"
    BY DEF PostInv, OneRuns, Sender!Idle
  <2> QED
    BY <1>4, <1>6, <1>11, <2>1 DEF OneRuns
<1>16. Sender!Thread(rows[i])' = Sender!Thread(r)
  BY <1>4, <1>6 DEF Sender!Thread
<1>17. CallFit'
  BY <1>4, <1>6, <1>11, <1>16 DEF CallFit
<1>18. CallNew'
  BY <1>11 DEF CallNew
<1>19. CallClear'
  <2>1. SUFFICES ASSUME r.op = "send", NEW k \in 1..Len(messages), r.for # 0, Sender!Thread(r) # 0,
                        Behind(k, Sender!Thread(r), r.for)
                 PROVE  Deleted(Sender!Thread(r))
    BY <1>4, <1>6, <1>11 DEF CallClear, Behind, Deleted
  <2> QED
    BY <1>3, <2>1, ClaimedClear
<1> QED
  BY <1>12, <1>13, <1>14, <1>15, <1>17, <1>18, <1>19 DEF PostInv, CallInv

LEMMA PostTick ==
  ASSUME PostInv, Sender!DeliveryAssumption, NEW i \in DOMAIN rows, Sender!Tick(i)
  PROVE  PostInv'
<1>1. i \in 1..Len(rows) /\ rows[i] \in Sender!RowType /\ rows[i].msg <= Len(messages) /\ call = Sender!Idle
  <2>1. i \in 1..Len(rows)
    BY DEF PostInv, PostShape
  <2> QED
    BY <2>1, RowAt DEF Sender!Tick
<1>2. /\ replaced \in [Sender!Works -> 0..Len(messages)] /\ used \in Spent /\ rows[i].state = "pending"
  BY CardsLanded DEF PostInv, PostShape, Sender!Tick, Sender!Foremost
<1> DEFINE r == [rows[i] EXCEPT !.tries = Sender!Tried(@)]
<1>3. PICK x \in Sender!RowType : x = rows[i]
  BY <1>1
<1>4. /\ r \in Sender!RowType /\ r.id = x.id /\ r.op = x.op /\ r.for = x.for /\ r.at = x.at /\ r.state = x.state
      /\ r.msg = x.msg /\ r.card = x.card
  BY <1>3, RowTried
<1>5. /\ UNCHANGED <<thread, life, required, link, replaced, topic, messages, known, used>>
      /\ \/ rows' = [rows EXCEPT ![i] = Sender!AsMessage(r, 0)] /\ call' = call
         \/ rows' = Sender!Finished(i) /\ call' = call
         \/ rows' = [rows EXCEPT ![i] = r] /\ call' = call
         \/ /\ r.op = "edit" => Sender!Anchor(r.card) # 0
            /\ ~Sender!Suppressed(r)
            /\ rows' = [rows EXCEPT ![i] = Sender!InState(r, "running")]
            /\ call' = Sender!Request(i)
  BY DEF Sender!Tick
<1> HIDE DEF r
<1>6. ASSUME rows' = [rows EXCEPT ![i] = Sender!AsMessage(r, 0)], call' = call
      PROVE  PostInv'
  <2> DEFINE s == Sender!AsMessage(r, 0)
  <2>1. /\ s \in Sender!RowType /\ s.id = r.id /\ s.op = "send" /\ s.for = r.for /\ s.at = 0 /\ s.state = "pending"
        /\ s.msg = r.msg /\ s.card = r.card
    BY <1>4, RowAsMessage
  <2> HIDE DEF s
  <2>2. Follows(s, rows[i]) /\ s.state # "running" /\ s.msg <= Len(messages)
    BY <1>1, <1>3, <1>4, <2>1 DEF Follows
  <2>3. rows' = [rows EXCEPT ![i] = s]
    BY <1>6 DEF s
  <2> QED
    BY <1>1, <1>2, <1>5, <1>6, <2>1, <2>2, <2>3, RestPut
<1>7. ASSUME rows' = Sender!Finished(i), call' = call
      PROVE  PostInv'
  <2> DEFINE s == Sender!InState(x, "done")
  <2>1. /\ s \in Sender!RowType /\ s.id = x.id /\ s.op = x.op /\ s.for = x.for /\ s.at = x.at /\ s.state = "done"
        /\ s.msg = x.msg /\ s.card = x.card
    BY RowInState DEF RowEnds
  <2>2. rows' = [rows EXCEPT ![i] = s]
    BY <1>3, <1>7 DEF Sender!Finished
  <2> HIDE DEF s
  <2>3. Follows(s, rows[i]) /\ s.state # "running" /\ s.msg <= Len(messages)
    BY <1>1, <1>3, <2>1 DEF Follows
  <2> QED
    BY <1>1, <1>2, <1>5, <1>7, <2>1, <2>2, <2>3, RestPut
<1>8. ASSUME rows' = [rows EXCEPT ![i] = r], call' = call
      PROVE  PostInv'
  <2>1. Follows(r, rows[i]) /\ r.state # "running" /\ r.msg <= Len(messages)
    BY <1>1, <1>2, <1>3, <1>4 DEF Follows
  <2> QED
    BY <1>1, <1>2, <1>4, <1>5, <1>8, <2>1, RestPut
<1>9. ASSUME r.op = "edit" => Sender!Anchor(r.card) # 0, ~Sender!Suppressed(r),
             rows' = [rows EXCEPT ![i] = Sender!InState(r, "running")], call' = Sender!Request(i)
      PROVE  PostInv'
  BY <1>1, <1>3, <1>4, <1>5, <1>9, PostClaim
<1> QED
  BY <1>5, <1>6, <1>7, <1>8, <1>9

-----------------------------------------------------------------------------
\* Telegram takes the request.
LEMMA CallAnswered ==
  ASSUME NEW c \in Calling, NEW a \in Answers, NEW m \in Nat
  PROVE  LET d == [[c EXCEPT !.answer = a] EXCEPT !.made = m] IN
         /\ d \in Calling /\ d.row = c.row /\ d.op = c.op /\ d.at = c.at /\ d.msg = c.msg /\ d.answer = a
         /\ d.made = m
<1> DEFINE e == [c EXCEPT !.answer = a]
<1>1. e \in Calling /\ e.row = c.row /\ e.op = c.op /\ e.at = c.at /\ e.msg = c.msg /\ e.answer = a
  BY DEF Calling
<1> HIDE DEF e
<1> DEFINE d == [e EXCEPT !.made = m]
<1>2. d \in Calling /\ d.row = e.row /\ d.op = e.op /\ d.at = e.at /\ d.msg = e.msg /\ d.answer = e.answer /\ d.made = m
  BY <1>1 DEF Calling
<1> QED
  BY <1>1, <1>2 DEF e

LEMMA CallTaken ==
  ASSUME PostInv, Sender!Waiting, NEW a \in Answers, NEW m \in Nat, Sender!Answer(a, m)
  PROVE  /\ call' \in Calling /\ call'.row = call.row /\ call'.op = call.op /\ call'.at = call.at
         /\ call'.msg = call.msg /\ call'.answer = a /\ call'.made = m
<1>1. PICK c \in Calling : c = call
  BY CallAt DEF Sender!Waiting
<1> DEFINE d == [[c EXCEPT !.answer = a] EXCEPT !.made = m]
<1>2. d \in Calling /\ d.row = c.row /\ d.op = c.op /\ d.at = c.at /\ d.msg = c.msg /\ d.answer = a /\ d.made = m
  BY CallAnswered
<1>3. call' = d
  BY <1>1 DEF Sender!Answer
<1> HIDE DEF d
<1> QED
  BY <1>1, <1>2, <1>3

\* What stays when the gateway's state does.
LEMMA TakePlaces ==
  ASSUME PostInv, PostShape', Sender!gateway' = Sender!gateway, known' = known,
         \A t \in Sender!Topics : (Opened(t) => Opened(t)') /\ (Deleted(t) => Deleted(t)')
  PROVE  RowsFit' /\ WorksFit' /\ Grown
<1>1. /\ rows' = rows /\ thread' = thread /\ life' = life /\ replaced' = replaced
  BY DEF Sender!gateway
<1>2. Grown
  BY <1>1 DEF Grown, Born
<1>3. Kept(rows') /\ Followed(rows')
  BY <1>1, KeptRows DEF Kept, PostInv
<1>4. RowsFit'
  BY <1>1, <1>2, <1>3, RowsStay DEF PostInv, PlaceInv
<1>5. WorksFit'
  BY <1>1, <1>2, <1>3, WorksStay DEF PostInv, PlaceInv, Born
<1> QED
  BY <1>2, <1>4, <1>5

\* A request that Telegram answered.
LEMMA TakeStep ==
  ASSUME PostInv, NEW a \in Answers, a # "none", NEW m \in Nat, Sender!Waiting, Sender!Answer(a, m),
         Sender!gateway' = Sender!gateway, known' = known, used' = used,
         \A t \in Sender!Topics : (Opened(t) => Opened(t)') /\ (Deleted(t) => Deleted(t)'),
         topic' \in [Sender!Topics -> {"none", "open", "closed", "deleted"}],
         messages' \in Seq(Landed), Len(messages) <= Len(messages'), Spoken',
         a = "missing" => call.at # 0 /\ topic'[call.at] = "deleted", a = "closed" => call.op = "send" /\ call.at # 0,
         call.op = "create" /\ a = "ok" => m \in Sender!Topics /\ ~Opened(m) /\ Opened(m)',
         call.op = "send" /\ a = "ok" => m <= Len(messages')
  PROVE  PostInv'
<1>1. PostShape /\ call \in Calling /\ call.row # 0 /\ call.row \in 1..Len(rows)
  BY CallAt DEF PostInv, Sender!Waiting
<1>2. /\ call' \in Calling /\ call'.row = call.row /\ call'.op = call.op /\ call'.at = call.at
      /\ call'.msg = call.msg /\ call'.answer = a /\ call'.made = m
  BY CallTaken
<1>3. /\ rows' = rows /\ thread' = thread /\ life' = life /\ replaced' = replaced /\ required' = required /\ link' = link
  BY DEF Sender!gateway
<1>4. PostShape'
  BY <1>1, <1>2, <1>3 DEF PostShape
<1>5. RowsFit' /\ WorksFit' /\ Grown
  BY <1>4, TakePlaces
<1>6. Carded'
  <2>1. Kept(rows')
    BY <1>1, <1>3, KeptRows
  <2> QED
    BY <1>1, <1>3, <1>4, <2>1, CardedStays DEF PostInv
<1>7. OneRuns'
  BY <1>2, <1>3 DEF PostInv, OneRuns
<1>8. CallFit'
  <2>1. PICK i \in 1..Len(rows) : i = call.row
    BY <1>1
  <2>2. Sender!Thread(rows[i])' = Sender!Thread(rows[i])
    BY <1>3 DEF Sender!Thread
  <2>3. call.op = rows[i].op /\ call.at = Sender!Thread(rows[i]) /\ (call.op = "edit" => call.msg \in 1..Len(messages))
    BY <1>1, <2>1 DEF PostInv, CallInv, CallFit
  <2>4. call.op = "edit" => call.msg \in 1..Len(messages')
    BY <1>1, <1>4, <2>3 DEF PostShape
  <2> QED
    BY <1>2, <1>3, <2>1, <2>2, <2>3, <2>4 DEF CallFit, Deleted, Opened
<1>9. CallNew'
  <2>1. SUFFICES ASSUME call.op = "create", a = "ok"
                 PROVE  /\ \A w \in Sender!Works : m \notin known[w]
                        /\ \A w \in Sender!Works : thread[w] # m
                        /\ \A i \in 1..Len(rows) : rows[i].at # m
    BY <1>2, <1>3 DEF CallNew
  <2>2. m \in Sender!Topics /\ ~Opened(m) /\ m # 0
    BY <2>1 DEF Sender!Topics
  <2>3. \A w \in Sender!Works : m \notin known[w]
    BY <2>2 DEF PostInv, PlaceInv, WorksFit, WorkFit
  <2>4. \A w \in Sender!Works : thread[w] # m
    BY <2>2 DEF PostInv, PlaceInv, WorksFit, WorkFit
  <2>5. \A i \in 1..Len(rows) : rows[i].at # m
    BY <2>2 DEF PostInv, PlaceInv, RowsFit, RowFit
  <2> QED
    BY <2>3, <2>4, <2>5
<1>10. CallClear'
  BY <1>2 DEF CallClear
<1> QED
  BY <1>4, <1>5, <1>6, <1>7, <1>8, <1>9, <1>10 DEF PostInv, PlaceInv, CallInv

LEMMA PostTakeCreate ==
  ASSUME PostInv, Sender!TakeCreate
  PROVE  PostInv'
<1>1. PICK t \in Sender!Topics : /\ topic[t] = "none" /\ topic' = [topic EXCEPT ![t] = "open"]
                                 /\ Sender!Answer("ok", t)
  BY DEF Sender!TakeCreate
<1>2. /\ PostShape /\ Sender!Waiting /\ call.op = "create" /\ Sender!gateway' = Sender!gateway /\ known' = known
      /\ used' = used /\ messages' = messages
  BY DEF Sender!TakeCreate, PostInv
<1>3. /\ topic' \in [Sender!Topics -> {"none", "open", "closed", "deleted"}] /\ ~Opened(t) /\ Opened(t)'
      /\ \A s \in Sender!Topics : (Opened(s) => Opened(s)') /\ (Deleted(s) => Deleted(s)')
  BY <1>1, <1>2 DEF PostShape, Opened, Deleted
<1>4. t \in Nat /\ "ok" \in Answers
  BY DEF Sender!Topics, Answers
<1>5. messages' \in Seq(Landed) /\ Len(messages) <= Len(messages')
  BY <1>2 DEF PostShape
<1>6. Grown
  BY <1>2, <1>3 DEF Grown, Born, Sender!gateway
<1>7. Spoken'
  BY <1>2, <1>6, SpokenStays DEF PostInv, PlaceInv
<1> QED
  BY <1>1, <1>2, <1>3, <1>4, <1>5, <1>7, TakeStep

LEMMA PostTakeTopicChange ==
  ASSUME PostInv, Sender!TakeTopicChange
  PROVE  PostInv'
<1>1. /\ PostShape /\ Sender!Waiting /\ call.op \in {"reopen", "close"} /\ Sender!gateway' = Sender!gateway
      /\ known' = known /\ used' = used /\ messages' = messages
  BY DEF Sender!TakeTopicChange, PostInv
<1>2. PICK i \in 1..Len(rows) : i = call.row
  BY <1>1, CallAt DEF Sender!Waiting
<1>3. rows[i] \in Sender!RowType /\ RowFit(rows[i]) /\ call.op = rows[i].op /\ call.at = Sender!Thread(rows[i])
  BY <1>1, <1>2, RowAt, CallAt DEF PostInv, CallInv, CallFit, Sender!Waiting
<1>4. call.at # 0 /\ call.at \in Sender!Topics
  <2>1. rows[i].at # 0 /\ rows[i].at \in Spots
    BY <1>1, <1>3, RowParts DEF RowFit
  <2> QED
    BY <1>1, <1>3, <2>1 DEF Sender!Thread, Spots
<1> DEFINE wanted == IF call.op = "close" THEN "closed" ELSE "open"
<1>5. PICK a \in {"missing", "unchanged", "ok"} :
        /\ Sender!Answer(a, 0)
        /\ a = "missing" => topic[call.at] = "deleted"
        /\ \/ topic' = topic
           \/ topic[call.at] \notin {wanted, "deleted"} /\ topic' = [topic EXCEPT ![call.at] = wanted]
  BY DEF Sender!TakeTopicChange
<1>6. PICK t \in Sender!Topics : t = call.at
  BY <1>4
<1>7. topic[t] # "none"
  BY <1>1, <1>3, <1>6 DEF RowFit, Sender!Thread, Opened
<1>8. wanted \in {"open", "closed"}
  OBVIOUS
<1> HIDE DEF wanted
<1>9. /\ topic' \in [Sender!Topics -> {"none", "open", "closed", "deleted"}]
      /\ \A s \in Sender!Topics : (Opened(s) => Opened(s)') /\ (Deleted(s) => Deleted(s)')
      /\ a = "missing" => Deleted(t)'
  BY <1>1, <1>5, <1>6, <1>7, <1>8 DEF PostShape, Opened, Deleted
<1>10. a \in Answers /\ a # "none" /\ 0 \in Nat /\ a # "closed"
  BY DEF Answers
<1>11. messages' \in Seq(Landed) /\ Len(messages) <= Len(messages')
  BY <1>1 DEF PostShape
<1>12. Grown
  BY <1>1, <1>9 DEF Grown, Born, Sender!gateway
<1>13. Spoken'
  BY <1>1, <1>12, SpokenStays DEF PostInv, PlaceInv
<1>14. a = "missing" => call.at # 0 /\ topic'[call.at] = "deleted"
  BY <1>4, <1>5, <1>6, <1>9 DEF Deleted
<1>15. call.op \notin {"create", "send"}
  BY <1>1
<1> QED
  BY <1>1, <1>5, <1>9, <1>10, <1>11, <1>13, <1>14, <1>15, TakeStep

LEMMA PostTakeSend ==
  ASSUME PostInv, Sender!TakeSend
  PROVE  PostInv'
<1>1. /\ PostShape /\ Sender!Waiting /\ call.op = "send" /\ Sender!gateway' = Sender!gateway
      /\ known' = known /\ used' = used /\ topic' = topic
  BY DEF Sender!TakeSend, PostInv
<1>2. PICK i \in 1..Len(rows) : i = call.row
  BY <1>1, CallAt DEF Sender!Waiting
<1>3. rows[i] \in Sender!RowType /\ RowFit(rows[i]) /\ call.op = rows[i].op /\ call.at = Sender!Thread(rows[i])
  BY <1>1, <1>2, RowAt, CallAt DEF PostInv, CallInv, CallFit, Sender!Waiting
<1>4. PICK r \in Sender!RowType : r = rows[i] /\ RowFit(r)
  BY <1>3
<1>5. call.at \in Spots /\ r.for \in Someone /\ r.text \in 0..PostEdits /\ r.op = "send" /\ call.at = Sender!Thread(r)
  BY <1>1, <1>3, <1>4, ThreadSpot, RowParts
<1> DEFINE m == [at |-> call.at, for |-> r.for, text |-> r.text]
<1>6. m \in Landed /\ m.at = call.at /\ m.for = r.for
  BY <1>5 DEF Landed
<1>7. SaidFit(m)
  <2>1. r.for # 0 => r.for \in Sender!Works /\ Born(r.for)
    BY <1>4, <1>5 DEF RowFit, Someone
  <2>2. r.for # 0 /\ call.at # 0 => thread[r.for] = call.at
    <3>1. SUFFICES ASSUME r.for # 0, call.at # 0, thread[r.for] = 0
                   PROVE  FALSE
      BY <1>5 DEF Sender!Thread
    <3>2. r.at = call.at
      BY <1>5, <3>1 DEF Sender!Thread
    <3>3. 0 \in known[r.for]
      BY <1>4, <3>1, <3>2 DEF RowFit
    <3>4. known[r.for] \subseteq Sender!Topics
      BY <1>1, <2>1, <3>1 DEF PostShape
    <3> QED
      BY <3>3, <3>4 DEF Sender!Topics
  <2> HIDE DEF m
  <2> QED
    BY <1>6, <2>1, <2>2 DEF SaidFit
<1> HIDE DEF m
<1>8. PICK a \in {"missing", "closed", "ok"}, n \in Nat :
        /\ Sender!Answer(a, n)
        /\ a = "missing" => call.at # 0 /\ topic[call.at] = "deleted"
        /\ a = "closed" => call.at # 0
        /\ \/ messages' = messages /\ a # "ok"
           \/ messages' = Append(messages, m) /\ n = Len(messages')
  <2>1. Len(Append(messages, m)) \in Nat
    BY <1>1, <1>6 DEF PostShape
  <2>2. \/ call.at # 0 /\ topic[call.at] = "deleted" /\ Sender!Answer("missing", 0) /\ messages' = messages
        \/ call.at # 0 /\ topic[call.at] = "closed" /\ Sender!Answer("closed", 0) /\ messages' = messages
        \/ messages' = Append(messages, m) /\ Sender!Answer("ok", Len(messages'))
    BY <1>2, <1>4 DEF Sender!TakeSend, m
  <2> QED
    BY <2>1, <2>2
<1>9. messages' \in Seq(Landed) /\ Len(messages) <= Len(messages') /\ (a = "ok" => n <= Len(messages'))
  <2>1. messages \in Seq(Landed)
    BY <1>1 DEF PostShape
  <2>2. CASE messages' = messages /\ a # "ok"
    BY <2>1, <2>2
  <2>3. CASE messages' = Append(messages, m) /\ n = Len(messages')
    <3>1. messages' \in Seq(Landed) /\ Len(messages') = Len(messages) + 1
      BY <1>6, <2>1, <2>3
    <3> QED
      BY <2>1, <2>3, <3>1
  <2> QED
    BY <1>8, <2>2, <2>3
<1>10. \A s \in Sender!Topics : (Opened(s) => Opened(s)') /\ (Deleted(s) => Deleted(s)')
  BY <1>1 DEF Opened, Deleted
<1>11. Grown
  BY <1>1, <1>10 DEF Grown, Born, Sender!gateway
<1>12. Spoken'
  <2>1. CASE messages' = messages
    BY <1>1, <1>11, <2>1, SpokenStays DEF PostInv, PlaceInv
  <2>2. CASE messages' = Append(messages, m)
    <3>1. SUFFICES ASSUME NEW k \in 1..Len(messages')
                   PROVE  SaidFit(messages[k])'
      BY DEF Spoken
    <3>2. PICK x \in Landed : x = messages'[k] /\ SaidFit(x)
      <4>1. CASE k \in 1..Len(messages)
        BY <1>1, <2>2, <4>1 DEF PostShape, PostInv, PlaceInv, Spoken
      <4>2. CASE k = Len(messages) + 1
        BY <1>1, <1>6, <1>7, <2>2, <4>2 DEF PostShape
      <4> QED
        BY <1>1, <1>6, <2>2, <4>1, <4>2 DEF PostShape
    <3>3. SaidFit(x)'
      BY <1>1, <1>11, <3>2, SaidKept
    <3> QED
      BY <3>2, <3>3 DEF SaidFit
  <2> QED
    BY <1>8, <2>1, <2>2
<1>13. a \in Answers /\ a # "none" /\ topic' \in [Sender!Topics -> {"none", "open", "closed", "deleted"}]
  BY <1>1 DEF Answers, PostShape
<1>14. (a = "missing" => call.at # 0 /\ topic'[call.at] = "deleted") /\ (a = "closed" => call.op = "send" /\ call.at # 0)
  BY <1>1, <1>8 DEF Deleted
<1> QED
  BY <1>1, <1>8, <1>9, <1>10, <1>12, <1>13, <1>14, TakeStep

LEMMA PostTakeEdit ==
  ASSUME PostInv, Sender!TakeEdit
  PROVE  PostInv'
<1>1. /\ PostShape /\ Sender!Waiting /\ call.op = "edit" /\ Sender!gateway' = Sender!gateway
      /\ known' = known /\ used' = used /\ topic' = topic
  BY DEF Sender!TakeEdit, PostInv
<1>2. PICK i \in 1..Len(rows) : i = call.row
  BY <1>1, CallAt DEF Sender!Waiting
<1>3. rows[i] \in Sender!RowType /\ call.msg \in 1..Len(messages)
  BY <1>1, <1>2, RowAt, CallAt DEF PostInv, CallInv, CallFit, Sender!Waiting
<1>4. PICK n \in 1..Len(messages) : n = call.msg
  BY <1>3
<1>5. PICK x \in Landed : x = messages[n] /\ SaidFit(x)
  BY <1>1 DEF PostShape, PostInv, PlaceInv, Spoken
<1>6. PICK text \in 0..PostEdits : text = rows[i].text
  BY <1>3, RowParts
<1> DEFINE y == [x EXCEPT !.text = text]
<1>7. y \in Landed /\ y.at = x.at /\ y.for = x.for
  BY DEF Landed
<1> HIDE DEF y
<1>8. SaidFit(y)
  BY <1>5, <1>7 DEF SaidFit
<1>9. n \in Nat /\ 0 \in Nat
  OBVIOUS
<1>10. PICK a \in {"refused", "unchanged", "ok"}, k \in Nat :
        /\ Sender!Answer(a, k)
        /\ \/ messages' = messages
           \/ messages' = [messages EXCEPT ![n] = y]
  <2>1. \/ Sender!Answer("refused", 0) /\ messages' = messages
        \/ Sender!Answer("unchanged", 0) /\ messages' = messages
        \/ messages' = [messages EXCEPT ![n] = y] /\ Sender!Answer("ok", n)
    BY <1>2, <1>4, <1>5, <1>6 DEF Sender!TakeEdit, y
  <2> QED
    BY <1>9, <2>1
<1>11. /\ messages' \in Seq(Landed) /\ Len(messages) = Len(messages') /\ Len(messages) \in Nat
       /\ \A j \in 1..Len(messages) : messages'[j] = messages[j] \/ messages'[j] = y
  <2>1. messages \in Seq(Landed)
    BY <1>1 DEF PostShape
  <2>2. CASE messages' = messages
    BY <2>1, <2>2
  <2>3. CASE messages' = [messages EXCEPT ![n] = y]
    BY <1>7, <2>1, <2>3
  <2> QED
    BY <1>10, <2>2, <2>3
<1>12. \A s \in Sender!Topics : (Opened(s) => Opened(s)') /\ (Deleted(s) => Deleted(s)')
  BY <1>1 DEF Opened, Deleted
<1>13. Grown
  BY <1>1, <1>12 DEF Grown, Born, Sender!gateway
<1>14. Spoken'
  <2>1. SUFFICES ASSUME NEW j \in 1..Len(messages)
                 PROVE  SaidFit(messages[j])'
    BY <1>11 DEF Spoken
  <2>2. PICK z \in Landed : z = messages'[j] /\ SaidFit(z)
    <3>1. CASE messages'[j] = messages[j]
      BY <1>1, <3>1 DEF PostShape, PostInv, PlaceInv, Spoken
    <3>2. CASE messages'[j] = y
      BY <1>7, <1>8, <3>2
    <3> QED
      BY <1>11, <3>1, <3>2
  <2>3. SaidFit(z)'
    BY <1>1, <1>13, <2>2, SaidKept
  <2> QED
    BY <2>2, <2>3 DEF SaidFit
<1>15. a \in Answers /\ a # "none" /\ topic' \in [Sender!Topics -> {"none", "open", "closed", "deleted"}]
  BY <1>1 DEF Answers, PostShape
<1>16. a \notin {"missing", "closed"} /\ call.op \notin {"create", "send"} /\ Len(messages) <= Len(messages')
  BY <1>1, <1>11
<1> QED
  BY <1>1, <1>10, <1>11, <1>12, <1>14, <1>15, <1>16, TakeStep

\* The request is put back, or its answer settles it.
LEMMA PostLose ==
  ASSUME PostInv, Sender!DeliveryAssumption, Sender!Lose
  PROVE  PostInv'
<1>1. /\ call # Sender!Idle /\ call' = Sender!Idle /\ used \in Spent /\ PostLost \in Nat
      /\ UNCHANGED <<thread, life, required, link, replaced, topic, messages, known>>
  BY DEF Sender!Lose, PostInv, PostShape, Sender!DeliveryAssumption
<1>2. used' \in Spent
  BY <1>1 DEF Sender!Lose, Spent
<1>3. PICK i \in 1..Len(rows) : i = call.row
  BY <1>1, CallAt
<1>4. PICK x \in Sender!RowType : x = rows[i] /\ x.msg <= Len(messages)
  BY RowAt
<1> DEFINE s == Sender!InState(x, "pending")
<1>5. /\ s \in Sender!RowType /\ s.id = x.id /\ s.op = x.op /\ s.for = x.for /\ s.at = x.at /\ s.state = "pending"
      /\ s.msg = x.msg /\ s.card = x.card
  BY RowInState DEF RowEnds
<1>6. rows' = [rows EXCEPT ![i] = s]
  BY <1>3, <1>4 DEF Sender!Lose
<1> HIDE DEF s
<1>7. Follows(s, rows[i]) /\ s.state # "running" /\ s.msg <= Len(messages)
  BY <1>4, <1>5 DEF Follows
<1>8. replaced' \in [Sender!Works -> 0..Len(messages)]
  BY <1>1, CardsLanded
<1> QED
  BY <1>1, <1>2, <1>3, <1>5, <1>6, <1>7, <1>8, RestPut

LEMMA PostFinished ==
  ASSUME PostInv, call # Sender!Idle, call' = Sender!Idle, rows' = Sender!Finished(call.row),
         UNCHANGED <<thread, life, required, link, replaced, topic, messages, known, used>>
  PROVE  PostInv'
<1>1. used' \in Spent /\ replaced' \in [Sender!Works -> 0..Len(messages)]
  BY CardsLanded DEF PostInv, PostShape
<1>2. PICK i \in 1..Len(rows) : i = call.row
  BY CallAt
<1>3. PICK x \in Sender!RowType : x = rows[i] /\ x.msg <= Len(messages)
  BY RowAt
<1> DEFINE s == Sender!InState(x, "done")
<1>4. /\ s \in Sender!RowType /\ s.id = x.id /\ s.op = x.op /\ s.for = x.for /\ s.at = x.at /\ s.state = "done"
      /\ s.msg = x.msg /\ s.card = x.card
  BY RowInState DEF RowEnds
<1>5. rows' = [rows EXCEPT ![i] = s]
  BY <1>2, <1>3 DEF Sender!Finished
<1> HIDE DEF s
<1>6. Follows(s, rows[i]) /\ s.state # "running" /\ s.msg <= Len(messages)
  BY <1>3, <1>4 DEF Follows
<1> QED
  BY <1>1, <1>2, <1>4, <1>5, <1>6, RestPut

LEMMA PostAsMessage ==
  ASSUME PostInv, call # Sender!Idle, call' = Sender!Idle,
         rows' = [rows EXCEPT ![call.row] = Sender!AsMessage(rows[call.row], 0)],
         UNCHANGED <<thread, life, required, link, replaced, topic, messages, known, used>>
  PROVE  PostInv'
<1>1. used' \in Spent /\ replaced' \in [Sender!Works -> 0..Len(messages)]
  BY CardsLanded DEF PostInv, PostShape
<1>2. PICK i \in 1..Len(rows) : i = call.row
  BY CallAt
<1>3. PICK x \in Sender!RowType : x = rows[i] /\ x.msg <= Len(messages)
  BY RowAt
<1> DEFINE s == Sender!AsMessage(x, 0)
<1>4. /\ s \in Sender!RowType /\ s.id = x.id /\ s.op = "send" /\ s.for = x.for /\ s.at = 0 /\ s.state = "pending"
      /\ s.msg = x.msg /\ s.card = x.card
  BY RowAsMessage
<1>5. rows' = [rows EXCEPT ![i] = s]
  BY <1>2, <1>3
<1> HIDE DEF s
<1>6. Follows(s, rows[i]) /\ s.state # "running" /\ s.msg <= Len(messages)
  BY <1>3, <1>4 DEF Follows
<1> QED
  BY <1>1, <1>2, <1>4, <1>5, <1>6, RestPut

\* What finishing a row leaves.
LEMMA FinishedRows ==
  ASSUME PostInv, call # Sender!Idle, NEW n \in {"done", "pending", "blocked"}
  PROVE  LET q == [rows EXCEPT ![call.row] = Sender!InState(rows[call.row], n)] IN
         /\ q \in Seq(Sender!RowType) /\ Len(q) = Len(rows) /\ Followed(q)
         /\ \A i \in 1..Len(q) : q[i].state # "running" /\ q[i].msg <= Len(messages)
<1>1. PICK i \in 1..Len(rows) : i = call.row
  BY CallAt
<1>2. PICK x \in Sender!RowType : x = rows[i] /\ x.msg <= Len(messages)
  BY RowAt
<1> DEFINE s == Sender!InState(x, n)
<1>3. /\ s \in Sender!RowType /\ s.id = x.id /\ s.op = x.op /\ s.for = x.for /\ s.at = x.at /\ s.state = n
      /\ s.msg = x.msg /\ s.card = x.card
  <2>1. n \in RowEnds
    BY DEF RowEnds
  <2> QED
    BY <2>1, RowInState
<1> DEFINE q == [rows EXCEPT ![i] = s]
<1>4. q = [rows EXCEPT ![call.row] = Sender!InState(rows[call.row], n)]
  BY <1>1, <1>2
<1> HIDE DEF s
<1>5. /\ q \in Seq(Sender!RowType) /\ Len(q) = Len(rows) /\ q[i] = s
      /\ \A j \in 1..Len(rows) : j # i => q[j] = rows[j]
  BY <1>3, RowPut DEF PostInv, PostShape
<1>6. Followed(q)
  BY <1>2, <1>3, FollowedPut DEF Follows, PostInv
<1>7. \A j \in 1..Len(q) : q[j].state # "running" /\ q[j].msg <= Len(messages)
  <2>1. \A j \in 1..Len(rows) : j # i => rows[j].state # "running"
    BY <1>1 DEF PostInv, OneRuns
  <2>2. \A j \in 1..Len(rows) : rows[j].msg <= Len(messages)
    BY DEF PostInv, Carded
  <2>3. s.state # "running" /\ s.msg <= Len(messages)
    BY <1>2, <1>3
  <2> HIDE DEF q
  <2> QED
    BY <1>5, <2>1, <2>2, <2>3
<1> HIDE DEF q
<1> QED
  BY <1>4, <1>5, <1>6, <1>7

\* And with a row more, that waits.
LEMMA FinishedQueued ==
  ASSUME PostInv, NEW q \in Seq(Sender!RowType), Followed(q), Len(q) = Len(rows), NEW r \in Sender!RowType,
         r.state = "pending", r.msg = 0,
         \A i \in 1..Len(q) : q[i].state # "running" /\ q[i].msg <= Len(messages)
  PROVE  /\ Sender!Queued(q, r) \in Seq(Sender!RowType) /\ Followed(Sender!Queued(q, r))
         /\ \A i \in 1..Len(Sender!Queued(q, r)) : i \in 1..Len(rows) \/ Sender!Queued(q, r)[i] = r
         /\ \A i \in 1..Len(Sender!Queued(q, r)) :
               Sender!Queued(q, r)[i].state # "running" /\ Sender!Queued(q, r)[i].msg <= Len(messages)
<1> DEFINE u == Sender!Queued(q, r)
<1>1. u \in Seq(Sender!RowType)
  BY RowQueued
<1>2. /\ Followed(u) /\ \A i \in 1..Len(u) : i \in 1..Len(q) \/ u[i] = r
      /\ \A i \in 1..Len(q) : u[i] = q[i]
  BY FollowedQueued DEF PostInv
<1>3. Len(messages) \in Nat
  BY DEF PostInv, PostShape
<1> HIDE DEF u
<1>4. \A i \in 1..Len(u) : u[i].state # "running" /\ u[i].msg <= Len(messages)
  BY <1>2, <1>3
<1> QED
  BY <1>1, <1>2, <1>4 DEF u

\* A topic of its own is answered for a work that has none, or whose own is gone.
LEMMA PlacesMade ==
  ASSUME PostInv, PostShape', NEW w \in Sender!Works, NEW t \in Sender!Topics, Born(w), Homeless(w), Opened(t),
         \A v \in Sender!Works : t \notin known[v], \A v \in Sender!Works : v <= w => thread[v] # t,
         \A i \in 1..Len(rows) : rows[i].for # 0 /\ rows[i].for <= w => rows[i].at # t,
         thread' = [thread EXCEPT ![w] = t], known' = [known EXCEPT ![w] = @ \cup {t}],
         Followed(rows'), \A i \in 1..Len(rows') : i \notin 1..Len(rows) =>
             rows'[i].op = "close" /\ rows'[i].for = w /\ rows'[i].at = t,
         topic' = topic, messages' = messages, life' = life
  PROVE  PlaceInv'
<1>1. PostShape /\ t # 0 /\ w # 0 /\ w \in Nat
  BY DEF PostInv, Sender!Topics, Sender!Works
<1>2. /\ thread'[w] = t /\ \A v \in Sender!Works : v # w => thread'[v] = thread[v]
      /\ t \in known'[w] /\ known[w] \subseteq known'[w]
      /\ \A v \in Sender!Works : v # w => known'[v] = known[v]
      /\ \A v \in Sender!Works, s \in Spots : s \in known'[v] => s \in known[v] \/ (v = w /\ s = t)
  BY <1>1 DEF PostShape
<1>3. \A v \in Sender!Works, s \in Spots : Elsewhere(v, s) /\ (v <= w => s # t) => Elsewhere(v, s)'
  <2>1. SUFFICES ASSUME NEW v \in Sender!Works, NEW s \in Spots, Elsewhere(v, s), v <= w => s # t,
                        NEW u \in Sender!Works, u > v, s \in known'[u]
                 PROVE  FALSE
    BY DEF Elsewhere
  <2>2. s \notin known[u]
    BY <2>1 DEF Elsewhere
  <2>3. u = w /\ s = t
    BY <1>2, <2>1, <2>2
  <2> QED
    BY <2>1, <2>3 DEF Sender!Works
<1>4. Elsewhere(w, t)'
  BY <1>2 DEF Elsewhere, Sender!Works
<1>5. ASSUME NEW v \in Sender!Works
      PROVE  Homeless(v) => Homeless(v)'
  BY <1>2 DEF Homeless, Deleted
<1>6. ASSUME NEW r \in Sender!RowType, NEW s \in Sender!RowType, RowFit(r), Follows(s, r),
             r.for # 0 /\ r.for <= w => r.at # t
      PROVE  RowFit(s)'
  <2>1. /\ r.for \in Someone /\ r.card \in Someone /\ r.at \in Spots /\ s.for = r.for /\ s.card = r.card
        /\ \/ s.op = r.op /\ s.at = r.at
           \/ s.op = "send" /\ s.at = 0
    BY <1>6, RowParts DEF Follows
  <2>2. s.for # 0 => s.for \in Sender!Works /\ Born(s.for) /\ Born(s.for)'
    BY <1>6, <2>1 DEF RowFit, Someone, Born
  <2>3. s.at # 0 => s.at = r.at /\ s.at \in Sender!Topics /\ Opened(s.at)'
    BY <1>6, <2>1 DEF RowFit, Spots, Opened
  <2>4. s.for # 0 /\ s.at # 0 => thread'[s.for] = s.at \/ thread'[s.for] \in known'[s.for]
    BY <1>2, <1>6, <2>1, <2>2 DEF RowFit
  <2>5. s.for # 0 /\ s.at # 0 => Elsewhere(s.for, s.at)'
    <3>1. SUFFICES ASSUME s.for # 0, s.at # 0
                   PROVE  Elsewhere(s.for, s.at)'
      OBVIOUS
    <3>2. s.at = r.at /\ s.for \in Sender!Works /\ s.at \in Spots /\ Elsewhere(s.for, s.at) /\ (s.for <= w => s.at # t)
      BY <1>6, <2>1, <2>2, <2>3, <3>1 DEF RowFit
    <3> QED
      BY <1>3, <3>2
  <2>6. s.op = "create" => s.for # 0 /\ Homeless(s.for)'
    BY <1>5, <1>6, <2>1, <2>2 DEF RowFit
  <2>7. (s.op \in {"reopen", "close"} => s.at # 0) /\ (s.op = "edit" => s.card # 0 /\ Born(s.card)')
    BY <1>6, <2>1 DEF RowFit, Born
  <2> QED
    BY <2>2, <2>3, <2>4, <2>5, <2>6, <2>7 DEF RowFit
<1>7. RowsFit'
  <2>1. SUFFICES ASSUME NEW i \in 1..Len(rows')
                 PROVE  RowFit(rows[i])'
    BY DEF RowsFit
  <2>2. CASE i \in 1..Len(rows)
    <3>1. PICK r \in Sender!RowType : r = rows[i] /\ RowFit(r)
      BY <2>2, RowAt
    <3>2. PICK s \in Sender!RowType : s = rows'[i]
      BY DEF PostShape
    <3>3. Follows(s, r) /\ (r.for # 0 /\ r.for <= w => r.at # t)
      BY <2>2, <3>1, <3>2 DEF Followed
    <3>4. RowFit(s)'
      BY <1>6, <3>1, <3>3
    <3> QED
      BY <3>2, <3>4 DEF RowFit
  <2>3. CASE i \notin 1..Len(rows)
    <3>1. rows'[i].op = "close" /\ rows'[i].for = w /\ rows'[i].at = t
      BY <2>3
    <3>2. Opened(t)' /\ Born(w)'
      BY DEF Opened, Born
    <3> QED
      BY <1>1, <1>2, <1>4, <3>1, <3>2 DEF RowFit, Elsewhere, Opened, Born
  <2> QED
    BY <2>2, <2>3
<1>8. WorksFit'
  <2>1. SUFFICES ASSUME NEW v \in Sender!Works
                 PROVE  WorkFit(v)'
    BY DEF WorksFit
  <2>2. WorkFit(v) /\ thread[v] \in Spots /\ known[v] \subseteq Sender!Topics
    BY <1>1 DEF PostShape, PostInv, PlaceInv, WorksFit
  <2>3. ~Born(v)' => thread'[v] = 0 /\ known'[v] = {}
    BY <1>2, <2>2 DEF WorkFit, Born
  <2>4. Born(v)' => HasCard(v)' /\ \A u \in Sender!Works : u < v => Born(u)'
    <3>1. Born(v) => HasCard(v)'
      BY <1>1, <2>2, CardStays DEF WorkFit
    <3> QED
      BY <2>2, <3>1 DEF WorkFit, Born
  <2>5. thread'[v] # 0 => Opened(thread[v])' /\ Elsewhere(v, thread[v])'
    <3>1. CASE v = w
      BY <1>2, <1>4, <3>1 DEF Elsewhere, Opened
    <3>2. CASE v # w
      <4>1. PICK s \in Spots : s = thread[v] /\ s = thread'[v]
        BY <1>2, <2>2, <3>2
      <4>2. s # 0 => Opened(s)' /\ Elsewhere(v, s)'
        BY <1>3, <2>2, <4>1 DEF WorkFit, Opened
      <4> QED
        BY <4>1, <4>2 DEF Elsewhere, Opened
    <3> QED
      BY <3>1, <3>2
  <2>6. \A s \in known'[v] : Opened(s)'
    BY <1>2, <2>2 DEF WorkFit, Opened, Spots
  <2> QED
    BY <2>3, <2>4, <2>5, <2>6 DEF WorkFit
<1>9. Spoken'
  <2>1. SUFFICES ASSUME NEW i \in 1..Len(messages)
                 PROVE  SaidFit(messages[i])'
    BY DEF Spoken
  <2>2. PICK m \in Landed : m = messages[i] /\ m = messages'[i] /\ SaidFit(m)
    BY <1>1 DEF PostShape, PostInv, PlaceInv, Spoken
  <2>3. m.for \in Someone /\ m.at \in Spots
    BY DEF Landed
  <2>4. m.for # 0 => m.for \in Sender!Works /\ Born(m.for)'
    BY <2>2, <2>3 DEF SaidFit, Someone, Born
  <2>5. m.for # 0 /\ m.at # 0 => thread'[m.for] = m.at \/ m.at \in known'[m.for] \/ Deleted(m.at)'
    <3>1. CASE m.for = w
      BY <1>2, <2>2, <3>1 DEF SaidFit, Homeless, Deleted
    <3>2. CASE m.for # w
      BY <1>2, <2>2, <2>4, <3>2 DEF SaidFit, Deleted
    <3> QED
      BY <3>1, <3>2
  <2>6. SaidFit(m)'
    BY <2>4, <2>5 DEF SaidFit
  <2> QED
    BY <2>2, <2>6 DEF SaidFit
<1> QED
  BY <1>7, <1>8, <1>9 DEF PlaceInv

LEMMA PostCreated ==
  ASSUME PostInv, Sender!DeliveryAssumption, Sender!AnswerOk, call.op = "create"
  PROVE  PostInv'
<1>1. /\ PostShape /\ WorksFit /\ call # Sender!Idle /\ call' = Sender!Idle /\ call.answer = "ok"
      /\ UNCHANGED <<life, required, link, topic, messages, used>>
  BY DEF Sender!AnswerOk, Sender!Settle, PostInv, PlaceInv
<1>2. PICK i \in 1..Len(rows) : i = call.row /\ i # 0
  BY <1>1, CallAt
<1>3. PICK r \in Sender!RowType : r = rows[i] /\ RowFit(r)
  BY RowAt
<1>4. call.row # 0 /\ call.op = r.op /\ call.made \in Sender!Topics /\ Opened(call.made)
  BY <1>1, <1>2, <1>3 DEF PostInv, CallInv, CallFit
<1>5. r.for \in Sender!Works /\ Born(r.for) /\ Homeless(r.for)
  BY <1>3, <1>4, RowParts DEF RowFit, Someone
<1>6. PICK w \in Sender!Works : w = r.for
  BY <1>5
<1>7. PICK t \in Sender!Topics : t = call.made
  BY <1>4
<1>8. /\ \A v \in Sender!Works : t \notin known[v]
      /\ \A v \in Sender!Works : v <= w => thread[v] # t
      /\ \A j \in 1..Len(rows) : rows[j].for # 0 /\ rows[j].for <= w => rows[j].at # t
  BY <1>1, <1>2, <1>3, <1>4, <1>6, <1>7 DEF PostInv, CallInv, CallNew
<1>9. /\ thread' = [thread EXCEPT ![w] = t] /\ known' = [known EXCEPT ![w] = @ \cup {t}]
      /\ rows' = Sender!Created(w, t) /\ replaced' = replaced
  BY <1>2, <1>3, <1>6, <1>7 DEF Sender!AnswerOk
<1> DEFINE q == Sender!Finished(i)
           c == Sender!Row(<<"retire", w>>, "close", w, 0, t, Sender!Lane(t, "topics"))
<1>10. /\ q \in Seq(Sender!RowType) /\ Len(q) = Len(rows) /\ Followed(q)
       /\ \A j \in 1..Len(q) : q[j].state # "running" /\ q[j].msg <= Len(messages)
  BY <1>1, <1>2, FinishedRows DEF Sender!Finished
<1>11. /\ c \in Sender!RowType /\ c.op = "close" /\ c.for = w /\ c.at = t /\ c.state = "pending" /\ c.msg = 0
  <2>1. /\ "close" \in RowOps /\ <<"retire", w>> \in RowIds /\ w \in Someone /\ 0 \in Someone /\ t \in Spots
    BY DEF RowOps, RowIds, Someone, Spots, Sender!Works
  <2>2. Sender!Lane(t, "topics") \in RowLanes
    BY <2>1, SpotLane
  <2> QED
    BY <2>1, <2>2, RowMade
<1>12. rows' = q \/ rows' = Sender!Queued(q, c)
  BY <1>2, <1>9 DEF Sender!Created
<1> HIDE DEF q, c
<1>13. /\ rows' \in Seq(Sender!RowType) /\ Followed(rows')
       /\ \A j \in 1..Len(rows') : j \in 1..Len(rows) \/ rows'[j] = c
       /\ \A j \in 1..Len(rows') : rows'[j].state # "running" /\ rows'[j].msg <= Len(messages)
  <2>1. CASE rows' = q
    BY <1>10, <2>1
  <2>2. CASE rows' = Sender!Queued(q, c)
    BY <1>10, <1>11, <2>2, FinishedQueued
  <2> QED
    BY <1>12, <2>1, <2>2
<1>14. thread' \in [Sender!Works -> Spots] /\ known' \in [Sender!Works -> SUBSET Sender!Topics]
  BY <1>1, <1>9 DEF PostShape, Spots
<1>15. PostShape'
  BY <1>1, <1>9, <1>13, <1>14 DEF PostShape
<1>16. PlaceInv'
  BY <1>1, <1>5, <1>6, <1>7, <1>4, <1>8, <1>9, <1>11, <1>13, <1>15, PlacesMade
<1>17. call'.row = 0
  BY <1>1 DEF Sender!Idle
<1>18. OneRuns' /\ CallInv'
  BY <1>13, <1>17 DEF OneRuns, CallInv, CallFit, CallNew, CallClear
<1>19. Carded'
  BY <1>1, <1>9, <1>13 DEF PostInv, Carded
<1> QED
  BY <1>15, <1>16, <1>18, <1>19 DEF PostInv

LEMMA PostSent ==
  ASSUME PostInv, Sender!AnswerOk, call.op = "send"
  PROVE  PostInv'
<1>1. /\ PostShape /\ call # Sender!Idle /\ call' = Sender!Idle /\ call.answer = "ok"
      /\ UNCHANGED <<life, required, link, topic, messages, used, thread, known>>
  BY DEF Sender!AnswerOk, Sender!Settle, PostInv
<1>2. PICK i \in 1..Len(rows) : i = call.row /\ i # 0
  BY <1>1, CallAt
<1>3. PICK r \in Sender!RowType : r = rows[i]
  BY RowAt
<1>4. PICK m \in 0..Len(messages) : m = call.made
  <2>1. call.made \in Nat /\ Len(messages) \in Nat
    BY <1>1, CallAt DEF Calling, PostShape
  <2>2. call.made <= Len(messages)
    BY <1>1, <1>2 DEF PostInv, CallInv, CallFit
  <2> QED
    BY <2>1, <2>2
<1>5. /\ rows' = [rows EXCEPT ![i] = Sender!Delivered(r, m)]
      /\ replaced' = IF r.card = 0 THEN replaced ELSE [replaced EXCEPT ![r.card] = m]
  BY <1>2, <1>3, <1>4 DEF Sender!AnswerOk
<1> DEFINE s == Sender!Delivered(r, m)
<1>6. /\ s \in Sender!RowType /\ s.id = r.id /\ s.op = r.op /\ s.for = r.for /\ s.at = r.at /\ s.state = "done"
      /\ s.msg = m /\ s.card = r.card
  <2>1. m \in Nat
    BY <1>1 DEF PostShape
  <2> QED
    BY <2>1, RowDelivered
<1>7. rows' = [rows EXCEPT ![i] = s]
  BY <1>5
<1> HIDE DEF s
<1>8. replaced' \in [Sender!Works -> 0..Len(messages)]
  BY <1>5, CardsLanded
<1>9. Follows(s, rows[i]) /\ s.state # "running" /\ s.msg <= Len(messages)
  BY <1>1, <1>3, <1>6 DEF Follows, PostShape
<1>10. used' \in Spent
  BY <1>1 DEF PostShape
<1> QED
  BY <1>1, <1>2, <1>6, <1>7, <1>8, <1>9, <1>10, RestPut

LEMMA PostAnswerOk ==
  ASSUME PostInv, Sender!DeliveryAssumption, Sender!AnswerOk
  PROVE  PostInv'
<1>1. CASE call.op \notin {"create", "send"}
  <2>1. /\ call # Sender!Idle /\ call' = Sender!Idle /\ rows' = Sender!Finished(call.row)
        /\ UNCHANGED <<thread, life, required, link, replaced, topic, messages, known, used>>
    BY <1>1 DEF Sender!AnswerOk, Sender!Settle
  <2> QED
    BY <2>1, PostFinished
<1> QED
  BY <1>1, PostCreated, PostSent

\* What a work needs when its topic is closed or gone.
LEMMA RecoveryFits ==
  ASSUME PostInv, Sender!DeliveryAssumption, call # Sender!Idle, call.answer \in {"closed", "missing"},
         NEW i \in 1..Len(rows), i = call.row, rows[i].for # 0
  PROVE  LET c == Sender!Recovery(i, call.answer) IN
         c \in Sender!RowType /\ c.state = "pending" /\ c.msg = 0 /\ RowFit(c)
<1>1. PICK r \in Sender!RowType : r = rows[i] /\ RowFit(r)
  BY RowAt
<1>2. /\ call.row # 0 /\ call.op = r.op /\ call.at = Sender!Thread(r) /\ call.at # 0
      /\ call.answer = "missing" => Deleted(call.at)
      /\ call.answer = "closed" => call.op = "send"
  <2>1. call.row # 0
    BY CallAt
  <2>2. Sender!Thread(rows[i]) = Sender!Thread(r)
    BY <1>1 DEF Sender!Thread
  <2> QED
    BY <1>1, <2>1, <2>2 DEF PostInv, CallInv, CallFit
<1>3. PICK w \in Sender!Works : w = r.for /\ Born(w)
  BY <1>1, RowParts DEF RowFit, Someone
<1>4. /\ thread[w] \in Spots /\ known[w] \subseteq Sender!Topics /\ WorkFit(w) /\ w # 0 /\ w \in Someone /\ 0 \in Someone
      /\ 0 \in Spots /\ 0 \notin known[w]
  BY DEF PostInv, PostShape, PlaceInv, WorksFit, Someone, Spots, Sender!Works, Sender!Topics
<1>5. thread[w] = call.at \/ thread[w] \in known[w]
  <2>1. CASE Sender!Thread(r) = thread[w]
    BY <1>2, <2>1
  <2>2. CASE Sender!Thread(r) = r.at
    BY <1>1, <1>2, <1>3, <1>4, <2>2 DEF RowFit
  <2> QED
    BY <1>3, <2>1, <2>2 DEF Sender!Thread
<1>6. thread[w] # 0
  BY <1>2, <1>4, <1>5
<1>7. <<"recover", i>> \in RowIds /\ "reopen" \in RowOps /\ "create" \in RowOps
  BY DEF RowIds, RowOps
<1>8. Sender!Lane(thread[w], "topics") \in RowLanes /\ Sender!Lane(0, "topics") \in RowLanes
  BY <1>4, SpotLane
<1> DEFINE b == Sender!Row(<<"recover", i>>, "reopen", w, 0, thread[w], Sender!Lane(thread[w], "topics"))
           c == Sender!Row(<<"recover", i>>, "create", w, 0, 0, Sender!Lane(0, "topics"))
<1>9. b \in Sender!RowType /\ b.op = "reopen" /\ b.for = w /\ b.at = thread[w] /\ b.state = "pending" /\ b.msg = 0
  BY <1>4, <1>7, <1>8, RowMade
<1>10. c \in Sender!RowType /\ c.op = "create" /\ c.for = w /\ c.at = 0 /\ c.state = "pending" /\ c.msg = 0
  BY <1>4, <1>7, <1>8, RowMade
<1>11. Sender!Recovery(i, call.answer) = IF call.answer = "closed" THEN b ELSE c
  BY <1>1, <1>3 DEF Sender!Recovery
<1> HIDE DEF b, c
<1>12. RowFit(b)
  BY <1>3, <1>4, <1>6, <1>9 DEF RowFit, WorkFit
<1>13. call.answer = "missing" => RowFit(c)
  BY <1>2, <1>3, <1>4, <1>5, <1>10 DEF RowFit, Homeless
<1> QED
  BY <1>9, <1>10, <1>11, <1>12, <1>13

LEMMA PostAnswerTopicGone ==
  ASSUME PostInv, Sender!DeliveryAssumption, Sender!AnswerTopicGone
  PROVE  PostInv'
<1>1. /\ PostShape /\ call # Sender!Idle /\ call' = Sender!Idle /\ call.answer \in {"closed", "missing"}
      /\ UNCHANGED <<thread, life, required, link, replaced, topic, messages, known, used>>
  BY DEF Sender!AnswerTopicGone, Sender!Settle, PostInv
<1>2. PICK i \in 1..Len(rows) : i = call.row
  BY <1>1, CallAt
<1> DEFINE n == IF rows[i].tries > PostTries THEN "blocked" ELSE "pending"
           q == [rows EXCEPT ![i] = Sender!InState(rows[i], n)]
           c == Sender!Recovery(i, call.answer)
<1>3. \/ rows[i].for # 0 /\ rows' = Sender!Queued(q, c)
      \/ rows' = [rows EXCEPT ![call.row] = Sender!AsMessage(rows[call.row], 0)]
      \/ rows' = Sender!Finished(call.row)
  BY <1>2 DEF Sender!AnswerTopicGone
<1>4. ASSUME rows[i].for # 0, rows' = Sender!Queued(q, c)
      PROVE  PostInv'
  <2>1. n \in {"done", "pending", "blocked"}
    OBVIOUS
  <2>2. /\ q \in Seq(Sender!RowType) /\ Len(q) = Len(rows) /\ Followed(q)
        /\ \A j \in 1..Len(q) : q[j].state # "running" /\ q[j].msg <= Len(messages)
    <3> HIDE DEF n
    <3> QED
      BY <1>1, <1>2, <2>1, FinishedRows
  <2>3. c \in Sender!RowType /\ c.state = "pending" /\ c.msg = 0 /\ RowFit(c)
    BY <1>1, <1>2, <1>4, RecoveryFits
  <2>4. rows' = Sender!Queued(q, c)
    BY <1>4
  <2> HIDE DEF q, c
  <2>5. /\ rows' \in Seq(Sender!RowType) /\ Followed(rows')
        /\ \A j \in 1..Len(rows') : j \in 1..Len(rows) \/ rows'[j] = c
        /\ \A j \in 1..Len(rows') : rows'[j].state # "running" /\ rows'[j].msg <= Len(messages)
    BY <2>2, <2>3, <2>4, FinishedQueued
  <2>6. \A j \in 1..Len(rows') : j \notin 1..Len(rows) => RowFit(rows'[j])
    BY <2>3, <2>5
  <2>7. PostShape'
    BY <1>1, <2>5 DEF PostShape
  <2>8. \A w \in Sender!Works : replaced'[w] <= Len(messages)
    BY <1>1 DEF PostInv, Carded
  <2> QED
    BY <1>1, <2>5, <2>6, <2>7, <2>8, RestStep
<1>5. CASE rows' = [rows EXCEPT ![call.row] = Sender!AsMessage(rows[call.row], 0)]
  BY <1>1, <1>5, PostAsMessage
<1>6. CASE rows' = Sender!Finished(call.row)
  BY <1>1, <1>6, PostFinished
<1> QED
  BY <1>3, <1>4, <1>5, <1>6

-----------------------------------------------------------------------------
LEMMA PostInit == ASSUME Sender!DeliveryAssumption PROVE Sender!Init => PostInv
<1> SUFFICES ASSUME Sender!Init
             PROVE  PostInv
  OBVIOUS
<1>1. rows = << >> /\ messages = << >> /\ Len(rows) = 0 /\ Len(messages) = 0 /\ call = Sender!Idle /\ call.row = 0
  BY DEF Sender!Init, Sender!Idle
<1>2. used \in Spent
  BY DEF Sender!Init, Sender!DeliveryAssumption, Spent
<1>3. PostShape
  BY <1>1, <1>2 DEF Sender!Init, PostShape, Spots
<1>4. Carded /\ OneRuns /\ RowsFit /\ Spoken
  BY <1>1 DEF Sender!Init, Carded, OneRuns, RowsFit, Spoken
<1>5. WorksFit
  BY DEF Sender!Init, WorksFit, WorkFit, Born
<1>6. CallInv
  BY <1>1 DEF CallInv, CallFit, CallNew, CallClear
<1> QED
  BY <1>3, <1>4, <1>5, <1>6 DEF PostInv, PlaceInv

LEMMA PostRest == ASSUME PostInv, UNCHANGED Sender!vars PROVE PostInv'
<1>1. /\ rows' = rows /\ thread' = thread /\ life' = life /\ required' = required /\ link' = link
      /\ replaced' = replaced /\ call' = call /\ topic' = topic /\ messages' = messages /\ known' = known
      /\ used' = used
  BY DEF Sender!vars
<1>2. PostShape'
  BY <1>1 DEF PostInv, PostShape
<1>3. Grows(rows')
  BY <1>1, KeptRows, GrowsSame DEF PostInv
<1> QED
  BY <1>1, <1>2, <1>3, QuietStep DEF Born

LEMMA PostStep ==
  ASSUME Sender!DeliveryAssumption
  PROVE  PostInv /\ [Sender!Next]_(Sender!vars) => PostInv'
<1> SUFFICES ASSUME PostInv, Sender!Next
             PROVE  PostInv'
  BY PostRest
<1>1. ASSUME NEW w \in Sender!Works, NEW t \in Sender!Topics \cup {0}, Sender!Start(w, t) PROVE PostInv'
  <2>1. t \in Spots
    BY DEF Spots
  <2> QED
    BY <1>1, <2>1, PostStart
<1>2. ASSUME NEW w \in Sender!Works, Sender!OpenTopic(w) \/ Sender!Speak(w) \/ Sender!Update(w) \/ Sender!Retire(w)
      PROVE  PostInv'
  BY <1>2, PostOpenTopic, PostSpeak, PostUpdate, PostRetire
<1>3. ASSUME NEW i \in DOMAIN rows, Sender!Tick(i) PROVE PostInv'
  BY <1>3, PostTick
<1>4. CASE Sender!AnyTick
  BY <1>3, <1>4 DEF Sender!AnyTick
<1>5. CASE Sender!AnswerUnchanged
  <2>1. /\ call # Sender!Idle /\ call' = Sender!Idle /\ rows' = Sender!Finished(call.row)
        /\ UNCHANGED <<thread, life, required, link, replaced, topic, messages, known, used>>
    BY <1>5 DEF Sender!AnswerUnchanged, Sender!Settle
  <2> QED
    BY <2>1, PostFinished
<1>6. CASE Sender!AnswerRefused
  <2>1. /\ call # Sender!Idle /\ call' = Sender!Idle
        /\ rows' = [rows EXCEPT ![call.row] = Sender!AsMessage(rows[call.row], 0)]
        /\ UNCHANGED <<thread, life, required, link, replaced, topic, messages, known, used>>
    BY <1>6 DEF Sender!AnswerRefused, Sender!Settle
  <2> QED
    BY <2>1, PostAsMessage
<1>7. ASSUME NEW t \in Sender!Topics, Sender!Touch(t) PROVE PostInv'
  BY <1>7, PostTouch
<1> QED
  BY <1>1, <1>2, <1>4, <1>5, <1>6, <1>7, PostTakeCreate, PostTakeTopicChange, PostTakeSend, PostTakeEdit, PostLose,
     PostAnswerOk, PostAnswerTopicGone DEF Sender!Next

\* What is typed, and that the row that runs is the one of the call.
LEMMA PostTyped ==
  ASSUME PostInv, Sender!DeliveryAssumption
  PROVE  Sender!TypeOK
<1>1. DOMAIN rows = 1..Len(rows) /\ \A i \in 1..Len(rows) : rows[i] \in Sender!RowType
  BY DEF PostInv, PostShape
<1>2. /\ thread \in [Sender!Works -> Sender!Topics \cup {0}]
      /\ life \in [Sender!Works -> {"unborn", "live", "retired"}]
      /\ {required, link} \subseteq [Sender!Works -> BOOLEAN]
      /\ topic \in [Sender!Topics -> {"none", "open", "closed", "deleted"}]
      /\ known \in [Sender!Works -> SUBSET Sender!Topics]
  BY DEF PostInv, PostShape, Spots
<1>3. replaced \in [Sender!Works -> 0..Len(messages)]
  BY CardsLanded
<1>4. \A i \in DOMAIN rows : rows[i].state = "running" <=> (call # Sender!Idle /\ call.row = i)
  <2>1. call.row # 0 => call # Sender!Idle
    BY DEF Sender!Idle
  <2> QED
    BY <1>1, <2>1 DEF PostInv, OneRuns
<1> QED
  BY <1>1, <1>2, <1>3, <1>4 DEF Sender!TypeOK

\* The messages that land are those of TakeSend.
LEMMA PostSpeaks ==
  ASSUME PostInv, Sender!Next
  PROVE  Sender!SpeaksInTurn
<1>1. messages \in Seq(Landed) /\ Len(messages) \in Nat /\ DOMAIN messages = 1..Len(messages)
  BY DEF PostInv, PostShape
<1>2. CASE messages' = messages
  BY <1>1, <1>2 DEF Sender!SpeaksInTurn
<1>3. CASE Sender!TakeEdit
  <2>1. messages' = messages \/ \E x : messages' = [messages EXCEPT ![call.msg] = x]
    BY <1>3 DEF Sender!TakeEdit
  <2>2. Len(messages') = Len(messages)
    BY <1>1, <2>1
  <2> QED
    BY <1>1, <2>2 DEF Sender!SpeaksInTurn
<1>4. CASE Sender!TakeSend
  <2>1. PICK i \in 1..Len(rows) : i = call.row
    BY <1>4, CallAt DEF Sender!TakeSend, Sender!Waiting
  <2>2. call.row # 0 /\ call.op = "send" /\ call.answer = "none" /\ rows[i] \in Sender!RowType
    BY <1>4, CallAt, RowAt DEF Sender!TakeSend, Sender!Waiting
  <2>3. PICK r \in Sender!RowType : r = rows[i]
    BY <2>2
  <2> DEFINE m == [at |-> call.at, for |-> r.for, text |-> r.text]
  <2>4. \/ messages' = messages
        \/ messages' = Append(messages, m) /\ (call.at # 0 => topic[call.at] = "open")
    BY <2>1, <2>3, <1>4 DEF Sender!TakeSend
  <2>5. CASE messages' = Append(messages, m) /\ (call.at # 0 => topic[call.at] = "open")
    <3>1. messages'[Len(messages')] = m /\ Len(messages') = Len(messages) + 1
      BY <1>1, <2>5
    <3>2. m.for # 0 /\ m.at # 0 => \A k \in 1..Len(messages) : ~Behind(k, m.at, m.for)
      <4>1. SUFFICES ASSUME r.for # 0, call.at # 0, NEW k \in 1..Len(messages), Behind(k, call.at, r.for)
                     PROVE  FALSE
        OBVIOUS
      <4>2. Deleted(call.at)
        BY <2>1, <2>2, <2>3, <4>1 DEF PostInv, CallInv, CallClear
      <4> QED
        BY <2>5, <4>1, <4>2 DEF Deleted
    <3> HIDE DEF m
    <3> QED
      BY <1>1, <3>1, <3>2 DEF Sender!SpeaksInTurn, Behind
  <2> QED
    BY <1>2, <2>4, <2>5
<1> QED
  BY <1>2, <1>3, <1>4 DEF Sender!Next, Sender!Start, Sender!OpenTopic, Sender!Speak, Sender!Update, Sender!Retire,
     Sender!AnyTick, Sender!Tick, Sender!TakeCreate, Sender!TakeTopicChange, Sender!Lose, Sender!AnswerOk,
     Sender!AnswerUnchanged, Sender!AnswerRefused, Sender!AnswerTopicGone, Sender!Touch

LEMMA PostHolds ==
  ASSUME Sender!DeliveryAssumption
  PROVE  Sender!Spec => []PostInv
<1> QED
  BY PostInit, PostStep, PTL DEF Sender!Spec

\* What the sender keeps is of its type, and only the row of its request runs.
THEOREM DeliveriesAreTyped ==
  ASSUME Sender!DeliveryAssumption
  PROVE  Sender!Spec => []Sender!TypeOK
<1>1. PostInv => Sender!TypeOK
  BY PostTyped
<1> QED
  BY <1>1, PostHolds, PTL

\* No message of older work lands behind one of newer work that lives in the topic.
THEOREM NewestStaysLast ==
  ASSUME Sender!DeliveryAssumption
  PROVE  Sender!Spec => Sender!NewestSpeaks
<1>1. PostInv /\ [Sender!Next]_(Sender!vars) => [Sender!SpeaksInTurn]_(Sender!vars)
  BY PostSpeaks
<1> QED
  BY <1>1, PostHolds, PTL DEF Sender!Spec, Sender!NewestSpeaks
-----------------------------------------------------------------------------
(***************************************************************************)
(* The files of an album.  That a file is sent once rests on its being in  *)
(* one job at most: the updates of an album are handled in order, and one  *)
(* that was absorbed by the leader is done before it could make a job of   *)
(* its own.  A turn at work was released, with all the files of its job.   *)
(***************************************************************************)
CONSTANTS
    AlbumSize,    \* files of the album
    MaxWaits,     \* waits of its leader
    MaxRestarts,  \* restarts of the gateway
    MaxFailures,  \* failed downloads and requests, answers lost
    OwnerActs     \* whether the owner may stop or move on from the work

VARIABLES update, at, leader, joinable, settles, members, resend, job, flight, failed, saved, post,
    workers, attempted, sent, halted, gone, restarts, lapses

Photos == INSTANCE Attachments WITH Album <- AlbumSize, MaxSettles <- MaxWaits,
    MaxCrashes <- MaxRestarts, MaxTrouble <- MaxFailures, Stops <- OwnerActs, told <- resend,
    turn <- post, stop <- halted, crashes <- restarts, trouble <- lapses

FileStates == {"none", "pending", "running", "done", "blocked"}
PhotoJob == [state : FileStates \cup {"released"}, files : SUBSET Photos!Files]
PhotoTurn == [state : FileStates, waits : BOOLEAN, files : SUBSET Photos!Files]
PhotoWorker == [row : Photos!Files \cup {0}, at : {"idle", "find", "post", "end"}, found : BOOLEAN]

AlbumShape ==
    /\ update \in [Photos!Files -> FileStates] /\ at \in {"rest", "collect", "handle", "finish"}
    /\ leader \in Photos!Files \cup {0} /\ members \subseteq Photos!Files
    /\ job \in [Photos!Files -> PhotoJob] /\ flight \subseteq Photos!Files
    /\ saved \in [Photos!Files -> Nat]
    /\ post \in [Photos!Files -> PhotoTurn] /\ workers \in [Photos!Workers -> PhotoWorker]
    /\ attempted \subseteq Photos!Files /\ sent \in [Photos!Files -> Nat]

\* Updates arrive in order, and whatever is before one that ran has been settled for good.
PutAway(f) == update[f] \in {"done", "blocked"}
InTurn == \A f \in Photos!Files : \A g \in 1..(f - 1) :
              /\ update[f] # "none" => update[g] # "none"
              /\ update[f] = "running" \/ job[f].state # "none" => PutAway(g)

\* There is a leader once somebody handled the album, and it is who handles it.
Led == /\ \A f \in Photos!Files : /\ job[f].state # "none" => leader # 0
                                  /\ update[f] = "running" /\ at = "handle" => leader = f
       /\ \A i \in members : update[i] = "done" /\ job[i].state = "none" /\ i # leader

\* The leader's job has files of those it absorbed, every other job its own file.
Carries == \A f \in Photos!Files :
               /\ job[f].state = "none" => job[f].files = {}
               /\ f # leader => job[f].files \subseteq {f}
               /\ f = leader => job[f].files \subseteq {f} \cup members

\* A turn comes with its job, and once released it has the files of the job.
Reserved == \A f \in Photos!Files :
                /\ post[f].state = "none" <=> job[f].state = "none"
                /\ post[f].state # "none" /\ ~post[f].waits => post[f].files = job[f].files

\* Handlers work on turns that were released.
AtWork(w) == workers[w].at # "idle" =>
                 /\ workers[w].row \in Photos!Files
                 /\ post[workers[w].row].state # "none" /\ ~post[workers[w].row].waits

\* What is fetched was not saved; what was submitted are the files of the turns that were attempted.
SavedOnce == \A i \in Photos!Files : saved[i] <= 1 /\ (i \in flight => saved[i] = 0)
SentOnce == /\ \A f \in attempted : job[f].state # "none" /\ \A i \in job[f].files : sent[i] = 1
            /\ \A i \in Photos!Files :
                   sent[i] = 0 \/ (sent[i] = 1 /\ \E f \in attempted : i \in job[f].files)

AlbumInv == /\ AlbumShape /\ InTurn /\ Led /\ Carries /\ Reserved
            /\ (\A w \in Photos!Workers : AtWork(w)) /\ SavedOnce /\ SentOnce

LEMMA FilesAre ==
  ASSUME Photos!AttachmentsAssumption
  PROVE  Photos!Files \subseteq Nat \ {0} /\ \A f \in Photos!Files : 1..(f - 1) \subseteq Photos!Files
BY DEF Photos!AttachmentsAssumption, Photos!Files

LEMMA AlbumInit == ASSUME Photos!AttachmentsAssumption PROVE Photos!Init => AlbumInv
<1> SUFFICES ASSUME Photos!Init PROVE AlbumInv
  OBVIOUS
<1> USE FilesAre DEF Photos!Init, Photos!NoJob, Photos!NoTurn, Photos!Idle
<1>1. AlbumShape
  BY DEF AlbumShape, FileStates, PhotoJob, PhotoTurn, PhotoWorker
<1>2. InTurn /\ Led /\ Carries /\ Reserved
  BY DEF InTurn, Led, Carries, Reserved
<1>3. \A w \in Photos!Workers : AtWork(w)
  BY DEF AtWork
<1>4. SavedOnce
  BY DEF SavedOnce
<1>5. attempted = {} /\ \A i \in Photos!Files : sent[i] = 0
  OBVIOUS
<1>6. SentOnce
  BY <1>5 DEF SentOnce
<1> QED
  BY <1>1, <1>2, <1>3, <1>4, <1>6 DEF AlbumInv

-----------------------------------------------------------------------------
\* Only the row of one update moves, and none of the jobs, turns and files.
UpdateMoves(f) ==
    /\ update' \in [Photos!Files -> FileStates] /\ \A g \in Photos!Files \ {f} : update'[g] = update[g]
    /\ at' \in {"rest", "collect", "handle", "finish"}
    /\ UNCHANGED <<leader, members, job, flight, saved, post, workers, attempted, sent>>

LEMMA PUpdates ==
  ASSUME Photos!AttachmentsAssumption, AlbumInv, NEW f \in Photos!Files, UpdateMoves(f),
         ~PutAway(f), update'[f] # "none",
         \A g \in 1..(f - 1) : update[g] # "none" /\ (update'[f] = "running" => PutAway(g)),
         at' # "handle"
  PROVE  AlbumInv'
<1> USE FilesAre DEF AlbumInv, UpdateMoves
<1>1. AlbumShape'
  BY DEF AlbumShape
<1>2. InTurn'
  BY DEF InTurn, PutAway, AlbumShape, FileStates
<1>3. Led'
  BY DEF Led, PutAway, AlbumShape
<1>4. Carries' /\ Reserved' /\ (\A w \in Photos!Workers : AtWork(w))' /\ SavedOnce' /\ SentOnce'
  BY DEF Carries, Reserved, AtWork, SavedOnce, SentOnce
<1> QED
  BY <1>1, <1>2, <1>3, <1>4

\* Arrives, Claims, Finishes and UpdateFails.
LEMMA PRows ==
  ASSUME Photos!AttachmentsAssumption, AlbumInv, NEW f \in Photos!Files,
         \/ Photos!Arrives(f) \/ Photos!Claims(f) \/ Photos!Finishes(f) \/ Photos!UpdateFails(f)
  PROVE  AlbumInv'
<1> USE FilesAre
<1>0. /\ update \in [Photos!Files -> FileStates] /\ at \in {"rest", "collect", "handle", "finish"}
      /\ \A g \in 1..(f - 1) : /\ update[f] # "none" => update[g] # "none"
                               /\ update[f] = "running" => PutAway(g)
  BY DEF AlbumInv, AlbumShape, InTurn
<1>1. CASE Photos!Arrives(f)
  <2>1. UpdateMoves(f) /\ update'[f] = "pending" /\ ~PutAway(f) /\ at' = at
        /\ \A g \in 1..(f - 1) : update[g] # "none"
    BY <1>0, <1>1 DEF Photos!Arrives, UpdateMoves, Photos!media, Photos!turns, FileStates, PutAway
  <2>2. CASE at' # "handle"
    BY <2>1, <2>2, PUpdates
  <2>3. CASE at' = "handle"
    <3>1. AlbumShape' /\ InTurn'
      BY <2>1 DEF AlbumInv, AlbumShape, InTurn, UpdateMoves, PutAway, FileStates
    <3>2. Led'
      BY <2>1 DEF AlbumInv, Led, UpdateMoves, PutAway, AlbumShape
    <3>3. Carries' /\ Reserved' /\ (\A w \in Photos!Workers : AtWork(w))' /\ SavedOnce' /\ SentOnce'
      BY <2>1 DEF AlbumInv, UpdateMoves, Carries, Reserved, AtWork, SavedOnce, SentOnce
    <3> QED
      BY <3>1, <3>2, <3>3 DEF AlbumInv
  <2> QED
    BY <2>2, <2>3
<1>2. CASE Photos!Claims(f)
  <2>1. UpdateMoves(f) /\ update'[f] = "running" /\ ~PutAway(f) /\ at' = "collect"
    BY <1>0, <1>2 DEF Photos!Claims, UpdateMoves, Photos!media, Photos!turns, FileStates, PutAway
  <2>2. \A g \in 1..(f - 1) : update[g] # "none" /\ PutAway(g)
    BY <1>0, <1>2 DEF Photos!Claims, Photos!FirstOf, Photos!Open, FileStates, PutAway
  <2> QED
    BY <2>1, <2>2, PUpdates
<1>3. CASE Photos!Finishes(f)
  <2>1. UpdateMoves(f) /\ update'[f] = "done" /\ ~PutAway(f) /\ at' = "rest" /\ update[f] # "none"
    BY <1>0, <1>3 DEF Photos!Finishes, UpdateMoves, Photos!media, Photos!turns, FileStates, PutAway
  <2> QED
    BY <1>0, <2>1, PUpdates
<1>4. CASE Photos!UpdateFails(f)
  <2>1. UpdateMoves(f) /\ update'[f] \in {"pending", "blocked"} /\ ~PutAway(f) /\ at' = "rest"
        /\ update[f] # "none"
    BY <1>0, <1>4 DEF Photos!UpdateFails, UpdateMoves, Photos!media, Photos!turns, FileStates, PutAway
  <2> QED
    BY <1>0, <2>1, PUpdates
<1> QED
  BY <1>1, <1>2, <1>3, <1>4

LEMMA PCollects ==
  ASSUME Photos!AttachmentsAssumption, AlbumInv, NEW f \in Photos!Files, Photos!Collects(f)
  PROVE  AlbumInv'
<1> USE FilesAre DEF AlbumInv
<1> DEFINE absorbed == Photos!Absorbed(f)
<1>1. /\ absorbed \subseteq Photos!Files /\ f \notin absorbed
      /\ \A g \in absorbed : update[g] = "pending" /\ f \in 1..(g - 1)
  BY DEF Photos!Absorbed, Photos!Files, Photos!AttachmentsAssumption
<1>2. /\ update[f] = "running" /\ at = "collect" /\ leader \in {0, f} /\ leader' = f
      /\ members' = members \cup absorbed
      /\ UNCHANGED <<job, flight, saved, post, workers, attempted, sent>>
      /\ \A g \in Photos!Files : /\ g \in absorbed => update'[g] = "done"
                                 /\ g \notin absorbed /\ g # f => update'[g] = update[g]
      /\ \/ update'[f] = "running" /\ at' = "handle"
         \/ update'[f] = "pending" /\ at' = "rest"
      /\ update' \in [Photos!Files -> FileStates]
  BY <1>1 DEF Photos!Collects, Photos!Noted, Photos!media, Photos!turns, AlbumShape, FileStates
<1> HIDE DEF absorbed
<1>3. \A g \in absorbed : job[g].state = "none"
  BY <1>1, <1>2 DEF InTurn, PutAway
<1>4. \A g \in Photos!Files : update[g] = "running" => g = f
  BY <1>2 DEF InTurn, PutAway
<1>5. AlbumShape'
  BY <1>1, <1>2 DEF AlbumShape
<1>6. InTurn'
  BY <1>1, <1>2 DEF InTurn, PutAway, AlbumShape, FileStates
<1>7. Led'
  BY <1>1, <1>2, <1>3, <1>4 DEF Led, AlbumShape
<1>8. Carries'
  BY <1>1, <1>2 DEF Carries, Led, AlbumShape
<1>9. Reserved' /\ (\A w \in Photos!Workers : AtWork(w))' /\ SavedOnce' /\ SentOnce'
  BY <1>2 DEF Reserved, AtWork, SavedOnce, SentOnce
<1> QED
  BY <1>5, <1>6, <1>7, <1>8, <1>9

\* A turn is reserved, and its job queued, for an update that runs.
LEMMA PEnqueues ==
  ASSUME Photos!AttachmentsAssumption, AlbumInv, NEW f \in Photos!Files, NEW files \in SUBSET Photos!Files,
         update[f] = "running", leader # 0, at' = "finish",
         files \subseteq IF f = leader THEN {f} \cup members ELSE {f},
         Photos!EnqueueTurn(f, files),
         UNCHANGED <<update, leader, members, flight, saved, workers, attempted, sent>>
  PROVE  AlbumInv'
<1> USE FilesAre DEF AlbumInv
<1>1. CASE job[f].state # "none"
  <2>1. job' = job /\ post' = post
    BY <1>1 DEF Photos!EnqueueTurn, Reserved, AlbumShape
  <2> QED
    BY <2>1 DEF AlbumShape, InTurn, PutAway, Led, Carries, Reserved, AtWork, SavedOnce, SentOnce
<1>2. CASE job[f].state = "none"
  <2>1. /\ post[f].state = "none"
        /\ post' = [post EXCEPT ![f] = [state |-> "pending", waits |-> TRUE, files |-> {}]]
        /\ job' = [job EXCEPT ![f] = [state |-> "pending", files |-> files]]
    BY <1>2 DEF Photos!EnqueueTurn, Reserved, AlbumShape
  <2>2. /\ job'[f].state = "pending" /\ job'[f].files = files /\ post'[f].state = "pending"
        /\ post'[f].waits /\ job'[f] \in PhotoJob /\ post'[f] \in PhotoTurn
        /\ \A g \in Photos!Files \ {f} : job'[g] = job[g] /\ post'[g] = post[g]
    BY <2>1 DEF AlbumShape, PhotoJob, PhotoTurn, FileStates
  <2>3. AlbumShape'
    BY <2>1, <2>2 DEF AlbumShape
  <2>4. InTurn'
    BY <2>2 DEF InTurn, PutAway
  <2>5. Led'
    BY <2>2 DEF Led, AlbumShape
  <2>6. Carries'
    BY <2>2 DEF Carries
  <2>7. Reserved'
    BY <2>2 DEF Reserved
  <2>8. (\A w \in Photos!Workers : AtWork(w))'
    BY <2>1, <2>2 DEF AtWork
  <2>9. SavedOnce' /\ SentOnce'
    <3>1. \A g \in attempted : g # f /\ g \in Photos!Files
      BY <1>2 DEF SentOnce, AlbumShape
    <3>2. \A g \in attempted : job'[g] = job[g]
      BY <2>2, <3>1
    <3> QED
      BY <3>1, <3>2 DEF SavedOnce, SentOnce
  <2> QED
    BY <2>3, <2>4, <2>5, <2>6, <2>7, <2>8, <2>9
<1> QED
  BY <1>1, <1>2

\* Leads, Refuses and Late.
LEMMA PHandles ==
  ASSUME Photos!AttachmentsAssumption, AlbumInv, NEW f \in Photos!Files,
         Photos!Leads(f) \/ Photos!Refuses(f) \/ Photos!Late(f)
  PROVE  AlbumInv'
<1>0. f \in Nat \ {0} /\ members \subseteq Photos!Files
  BY FilesAre DEF AlbumInv, AlbumShape
<1>1. CASE Photos!Leads(f)
  <2>1. leader = f
    BY <1>1 DEF Photos!Leads, AlbumInv, Led
  <2> QED
    BY <1>0, <1>1, <2>1, PEnqueues DEF Photos!Leads
<1>2. CASE \/ Photos!Refuses(f)
           \/ Photos!Late(f) /\ UNCHANGED <<post, job>>
  <2>1. at' = "finish" /\ UNCHANGED <<update, leader, members, job, flight, saved, post, workers, attempted, sent>>
    BY <1>2 DEF Photos!Refuses, Photos!Late, Photos!media, Photos!turns
  <2> QED
    BY <2>1 DEF AlbumInv, AlbumShape, InTurn, PutAway, Led, Carries, Reserved, AtWork, SavedOnce, SentOnce
<1>3. CASE Photos!Late(f) /\ Photos!EnqueueTurn(f, {f})
  BY <1>0, <1>3, PEnqueues DEF Photos!Late
<1> QED
  BY <1>1, <1>2, <1>3 DEF Photos!Late

-----------------------------------------------------------------------------
\* The states of jobs and turns move; what they are of stays.
StatesMove ==
    /\ job' \in [Photos!Files -> PhotoJob] /\ post' \in [Photos!Files -> PhotoTurn]
    /\ \A f \in Photos!Files : /\ job'[f].files = job[f].files
                               /\ job'[f].state = "none" <=> job[f].state = "none"
                               /\ post'[f].state = "none" <=> post[f].state = "none"
                               /\ \/ post'[f].files = post[f].files /\ post'[f].waits = post[f].waits
                                  \/ ~post'[f].waits /\ post'[f].files = job[f].files

LEMMA PStates ==
  ASSUME Photos!AttachmentsAssumption, AlbumInv, StatesMove,
         UNCHANGED <<update, at, leader, members, attempted, sent>>,
         flight' \subseteq Photos!Files, saved' \in [Photos!Files -> Nat], SavedOnce',
         workers' \in [Photos!Workers -> PhotoWorker], (\A w \in Photos!Workers : AtWork(w))'
  PROVE  AlbumInv'
<1> USE FilesAre DEF AlbumInv, StatesMove
<1>1. AlbumShape'
  BY DEF AlbumShape
<1>2. InTurn'
  BY DEF InTurn, PutAway
<1>3. Led' /\ Carries'
  BY DEF Led, Carries, AlbumShape
<1>4. Reserved'
  BY DEF Reserved
<1>5. SentOnce'
  BY DEF SentOnce, AlbumShape
<1> QED
  BY <1>1, <1>2, <1>3, <1>4, <1>5

\* A handler at work stays so when only states move.
LEMMA WorkGoesOn ==
  ASSUME AlbumInv, StatesMove, NEW w \in Photos!Workers, workers'[w].row = workers[w].row,
         workers'[w].at # "idle" => workers[w].at # "idle"
  PROVE  AtWork(w)'
BY DEF AlbumInv, StatesMove, AtWork

LEMMA PMedia ==
  ASSUME Photos!AttachmentsAssumption, AlbumInv, NEW f \in Photos!Files, NEW i \in Photos!Files,
         \/ Photos!JobClaims(f) \/ Photos!JobFails(f) \/ Photos!Releases(f) \/ Photos!JobFinishes(f)
         \/ Photos!FetchStarts(f, i) \/ Photos!FetchSaves(f, i) \/ Photos!FetchFails(f, i)
  PROVE  AlbumInv'
<1> USE FilesAre
<1>0. /\ job \in [Photos!Files -> PhotoJob] /\ post \in [Photos!Files -> PhotoTurn] /\ SavedOnce
      /\ saved \in [Photos!Files -> Nat] /\ flight \subseteq Photos!Files
      /\ workers \in [Photos!Workers -> PhotoWorker]
  BY DEF AlbumInv, AlbumShape
<1>1. UNCHANGED <<update, at, leader, members, attempted, sent, workers>>
  BY DEF Photos!JobClaims, Photos!JobFails, Photos!Releases, Photos!JobFinishes, Photos!FetchStarts,
         Photos!FetchSaves, Photos!FetchFails, Photos!queue, Photos!turns
<1>2. flight' \subseteq Photos!Files /\ saved' \in [Photos!Files -> Nat] /\ SavedOnce'
  BY <1>0 DEF Photos!JobClaims, Photos!JobFails, Photos!Releases, Photos!JobFinishes, Photos!FetchStarts,
         Photos!FetchSaves, Photos!FetchFails, Photos!Fetches, SavedOnce
<1>3. StatesMove
  <2>1. ASSUME NEW s \in FileStates \cup {"released"}, job' = [job EXCEPT ![f].state = s],
               s # "none", job[f].state # "none", post' = post
        PROVE  StatesMove
    BY <1>0, <2>1 DEF StatesMove, PhotoJob
  <2>2. CASE Photos!JobClaims(f) \/ Photos!JobFails(f) \/ Photos!JobFinishes(f)
    <3>1. PICK s \in FileStates \cup {"released"} :
             /\ s # "none" /\ job' = [job EXCEPT ![f].state = s] /\ job[f].state # "none" /\ post' = post
      BY <2>2 DEF Photos!JobClaims, Photos!JobFails, Photos!JobFinishes, Photos!turns, FileStates
    <3> QED
      BY <2>1, <3>1
  <2>3. CASE Photos!FetchStarts(f, i) \/ Photos!FetchSaves(f, i) \/ Photos!FetchFails(f, i)
    BY <1>0, <2>3 DEF Photos!FetchStarts, Photos!FetchSaves, Photos!FetchFails, Photos!turns, StatesMove
  <2>4. CASE Photos!Releases(f)
    <3>1. job' = [job EXCEPT ![f].state = "released"] /\ job[f].state # "none"
      BY <2>4 DEF Photos!Releases
    <3>2. {k \in job[f].files : saved[k] > 0} = job[f].files
      BY <2>4 DEF Photos!Releases, Photos!Ready
    <3>3. CASE post[f].state \notin Photos!Open
      <4>1. post' = post
        BY <1>0, <2>4, <3>3 DEF Photos!Releases
      <4> QED
        BY <2>1, <3>1, <4>1
    <3>4. CASE post[f].state \in Photos!Open
      <4>1. post' = [post EXCEPT ![f] = [state |-> "pending", waits |-> FALSE, files |-> job[f].files]]
        BY <2>4, <3>2, <3>4 DEF Photos!Releases
      <4>2. /\ post'[f] = [state |-> "pending", waits |-> FALSE, files |-> job[f].files]
            /\ \A g \in Photos!Files \ {f} : post'[g] = post[g]
            /\ post' \in [Photos!Files -> PhotoTurn]
        BY <1>0, <4>1 DEF PhotoTurn, PhotoJob, FileStates
      <4>3. post'[f].state = "pending" /\ ~post'[f].waits /\ post'[f].files = job[f].files
            /\ post[f].state # "none"
        BY <3>4, <4>2 DEF Photos!Open
      <4>4. /\ job' \in [Photos!Files -> PhotoJob]
            /\ \A g \in Photos!Files : job'[g].files = job[g].files
                                       /\ (job'[g].state = "none" <=> job[g].state = "none")
        BY <1>0, <3>1 DEF PhotoJob
      <4> QED
        BY <4>2, <4>3, <4>4 DEF StatesMove
    <3> QED
      BY <3>3, <3>4
  <2> QED
    BY <2>2, <2>3, <2>4
<1>4. (\A w \in Photos!Workers : AtWork(w))'
  BY <1>1, <1>3, WorkGoesOn
<1> QED
  BY <1>0, <1>1, <1>2, <1>3, <1>4, PStates

-----------------------------------------------------------------------------
\* No file is in two jobs.
LEMMA JobsApart ==
  ASSUME AlbumInv, NEW f \in Photos!Files, NEW g \in Photos!Files, f # g,
         NEW i \in job[f].files \cap job[g].files
  PROVE  FALSE
<1>1. job[f].state # "none" /\ job[g].state # "none"
  BY DEF AlbumInv, Carries
<1>2. f \notin members /\ g \notin members
  BY <1>1 DEF AlbumInv, Led
<1> QED
  BY <1>2 DEF AlbumInv, Carries

\* One turn changes its state.
PostMoves(f, s) == post' = [post EXCEPT ![f].state = s]

LEMMA PostMoving ==
  ASSUME AlbumInv, NEW f \in Photos!Files, NEW s \in FileStates \ {"none"}, PostMoves(f, s),
         post[f].state # "none", UNCHANGED job
  PROVE  StatesMove
BY DEF AlbumInv, AlbumShape, PostMoves, StatesMove, PhotoTurn

LEMMA PClaims ==
  ASSUME Photos!AttachmentsAssumption, AlbumInv, NEW f \in Photos!Files, NEW w \in Photos!Workers,
         Photos!TurnClaims(f, w)
  PROVE  AlbumInv'
<1>0. post[f].state # "none"
  BY DEF Photos!TurnClaims
<1>1. UNCHANGED <<update, at, leader, members, attempted, sent, job, flight, saved>>
  BY DEF Photos!TurnClaims, Photos!queue, Photos!media
<1>2. PICK s \in {"done", "blocked", "running"} :
         /\ PostMoves(f, s)
         /\ \/ workers' = workers
            \/ /\ ~post[f].waits
               /\ workers' = [workers EXCEPT ![w] = [row |-> f, at |-> "find", found |-> FALSE]]
  BY DEF Photos!TurnClaims, PostMoves
<1>3. StatesMove
  BY <1>0, <1>1, <1>2, PostMoving DEF FileStates
<1>4. /\ workers' \in [Photos!Workers -> PhotoWorker]
      /\ \A v \in Photos!Workers \ {w} : workers'[v] = workers[v]
      /\ \/ workers'[w] = workers[w]
         \/ (~post[f].waits /\ workers'[w].row = f)
  <2>1. workers \in [Photos!Workers -> PhotoWorker]
    BY DEF AlbumInv, AlbumShape
  <2>2. CASE workers' = workers
    BY <2>1, <2>2
  <2>3. CASE /\ ~post[f].waits
             /\ workers' = [workers EXCEPT ![w] = [row |-> f, at |-> "find", found |-> FALSE]]
    BY <2>1, <2>3 DEF PhotoWorker
  <2> QED
    BY <1>2, <2>2, <2>3
<1>5. (\A v \in Photos!Workers : AtWork(v))'
  <2>1. ASSUME NEW v \in Photos!Workers, workers'[v] = workers[v] PROVE AtWork(v)'
    BY <1>3, <2>1, WorkGoesOn
  <2>2. ASSUME ~post[f].waits, workers'[w].row = f PROVE AtWork(w)'
    BY <1>0, <1>3, <2>2 DEF AtWork, StatesMove
  <2> QED
    BY <1>4, <2>1, <2>2
<1> QED
  BY <1>1, <1>3, <1>4, <1>5, PStates DEF AlbumInv, AlbumShape, SavedOnce

\* Finds, and what a handler does without submitting: it waits for the end, leaves, or has it tried again.
LEMMA PWorks ==
  ASSUME Photos!AttachmentsAssumption, AlbumInv, NEW w \in Photos!Workers,
         workers[w].at # "idle",
         UNCHANGED <<update, at, leader, members, attempted, sent, job, flight, saved>>,
         \/ UNCHANGED post
         \/ \E s \in FileStates \ {"none"} : PostMoves(workers[w].row, s),
         workers' \in [Photos!Workers -> PhotoWorker],
         \A v \in Photos!Workers \ {w} : workers'[v] = workers[v],
         workers'[w].at # "idle" => workers'[w].row = workers[w].row
  PROVE  AlbumInv'
<1>0. workers[w].row \in Photos!Files /\ post[workers[w].row].state # "none" /\ ~post[workers[w].row].waits
  BY DEF AlbumInv, AtWork
<1>1. StatesMove
  <2>1. CASE UNCHANGED post
    BY <2>1 DEF AlbumInv, AlbumShape, StatesMove
  <2> QED
    BY <1>0, <2>1, PostMoving
<1>2. (\A v \in Photos!Workers : AtWork(v))'
  <2>1. ASSUME NEW v \in Photos!Workers \ {w} PROVE AtWork(v)'
    BY <1>1, <2>1, WorkGoesOn
  <2>2. AtWork(w)'
    BY <1>0, <1>1, WorkGoesOn DEF AtWork
  <2> QED
    BY <2>1, <2>2
<1> QED
  BY <1>1, <1>2, PStates DEF AlbumInv, AlbumShape, SavedOnce

LEMMA PFinds ==
  ASSUME Photos!AttachmentsAssumption, AlbumInv, NEW w \in Photos!Workers, Photos!Finds(w)
  PROVE  AlbumInv'
<1>0. workers \in [Photos!Workers -> PhotoWorker]
  BY DEF AlbumInv, AlbumShape
<1>1. PICK seen \in BOOLEAN :
         workers' = [workers EXCEPT ![w] = [row |-> workers[w].row, at |-> "post", found |-> seen]]
  <2> DEFINE seen == \E i \in post[workers[w].row].files : sent[i] > 0
  <2>1. workers' = [workers EXCEPT ![w] = [row |-> workers[w].row, at |-> "post", found |-> seen]]
    BY <1>0 DEF Photos!Finds
  <2>2. seen \in BOOLEAN
    OBVIOUS
  <2> HIDE DEF seen
  <2> QED
    BY <2>1, <2>2
<1>2. /\ workers' \in [Photos!Workers -> PhotoWorker] /\ workers'[w].row = workers[w].row
      /\ \A v \in Photos!Workers \ {w} : workers'[v] = workers[v]
  BY <1>0, <1>1 DEF PhotoWorker
<1>3. /\ workers[w].at # "idle"
      /\ UNCHANGED <<update, at, leader, members, attempted, sent, job, flight, saved, post>>
  BY DEF Photos!Finds, Photos!queue, Photos!media
<1> QED
  BY <1>2, <1>3, PWorks

LEMMA PEnds ==
  ASSUME Photos!AttachmentsAssumption, AlbumInv, NEW w \in Photos!Workers,
         Photos!TurnEnds(w) \/ Photos!TurnFails(w)
  PROVE  AlbumInv'
<1>0. /\ workers \in [Photos!Workers -> PhotoWorker] /\ post \in [Photos!Files -> PhotoTurn]
      /\ workers[w].at # "idle" /\ Photos!Idle \in PhotoWorker /\ Photos!Idle.at = "idle"
  BY DEF AlbumInv, AlbumShape, Photos!TurnEnds, Photos!TurnFails, Photos!Idle, PhotoWorker
<1>1. UNCHANGED <<update, at, leader, members, attempted, sent, job, flight, saved>>
  BY DEF Photos!TurnEnds, Photos!TurnFails, Photos!queue, Photos!media
<1>2. /\ workers' \in [Photos!Workers -> PhotoWorker] /\ workers'[w].at = "idle"
      /\ \A v \in Photos!Workers \ {w} : workers'[v] = workers[v]
  BY <1>0 DEF Photos!TurnEnds, Photos!TurnFails, Photos!Leaves
<1>3. workers[w].row \in Photos!Files /\ post[workers[w].row].state \in FileStates \ {"none"}
  BY <1>0 DEF AlbumInv, AtWork, PhotoTurn
<1>4. \E s \in FileStates \ {"none"} : PostMoves(workers[w].row, s)
  <2>1. CASE Photos!TurnEnds(w)
    BY <1>3, <2>1 DEF Photos!TurnEnds, PostMoves, FileStates
  <2>2. CASE Photos!TurnFails(w)
    BY <1>3, <2>2 DEF Photos!TurnFails, PostMoves, FileStates
  <2> QED
    BY <2>1, <2>2
<1> QED
  BY <1>0, <1>1, <1>2, <1>4, PWorks

\* A handler submits the files of a turn that was never attempted: no turn has sent them.
LEMMA PPosts ==
  ASSUME Photos!AttachmentsAssumption, AlbumInv, NEW w \in Photos!Workers, Photos!Posts(w)
  PROVE  AlbumInv'
<1> DEFINE f == workers[w].row
<1>0. /\ workers \in [Photos!Workers -> PhotoWorker] /\ workers[w].at = "post"
      /\ Photos!Idle \in PhotoWorker /\ Photos!Idle.at = "idle"
  BY DEF AlbumInv, AlbumShape, Photos!Posts, Photos!Idle, PhotoWorker
<1>1. UNCHANGED <<update, at, leader, members, job, flight, saved>>
  BY DEF Photos!Posts, Photos!queue, Photos!media
<1>2. CASE /\ workers' = [workers EXCEPT ![w].at = "end"] /\ UNCHANGED <<post, attempted, sent>>
  <2>1. /\ workers' \in [Photos!Workers -> PhotoWorker] /\ workers'[w].row = workers[w].row
        /\ \A v \in Photos!Workers \ {w} : workers'[v] = workers[v]
    BY <1>0, <1>2 DEF PhotoWorker
  <2> QED
    BY <1>0, <1>1, <1>2, <2>1, PWorks
<1>3. CASE Photos!ReTry(f) /\ Photos!Leaves(w) /\ UNCHANGED <<attempted, sent>>
  <2>1. /\ workers' \in [Photos!Workers -> PhotoWorker] /\ workers'[w].at = "idle"
        /\ \A v \in Photos!Workers \ {w} : workers'[v] = workers[v]
    BY <1>0, <1>3 DEF Photos!Leaves
  <2>2. \E s \in FileStates \ {"none"} : PostMoves(f, s)
    BY <1>3 DEF Photos!ReTry, PostMoves, FileStates
  <2> QED
    BY <1>0, <1>1, <1>3, <2>1, <2>2, PWorks
<1>4. CASE /\ f \notin attempted /\ attempted' = attempted \cup {f}
           /\ sent' = [i \in Photos!Files |-> sent[i] + (IF i \in post[f].files THEN 1 ELSE 0)]
           /\ workers' = [workers EXCEPT ![w].at = "end"] /\ UNCHANGED post
  <2>0. /\ f \in Photos!Files /\ job[f].state # "none" /\ post[f].files = job[f].files
        /\ job[f].files \subseteq Photos!Files
    BY <1>0 DEF AlbumInv, AlbumShape, AtWork, Reserved, PhotoJob
  <2>1. /\ workers' \in [Photos!Workers -> PhotoWorker] /\ workers'[w].row = workers[w].row
        /\ \A v \in Photos!Workers \ {w} : workers'[v] = workers[v]
    BY <1>0, <1>4 DEF PhotoWorker
  <2>2. \A v \in Photos!Workers : workers'[v].row = workers[v].row
                                  /\ (workers'[v].at # "idle" => workers[v].at # "idle")
    BY <1>0, <2>1
  <2>3. \A i \in Photos!Files : sent'[i] = IF i \in job[f].files THEN 1 ELSE sent[i]
    <3>1. ASSUME NEW i \in job[f].files PROVE sent[i] = 0
      <4>1. ASSUME NEW g \in attempted, i \in job[g].files PROVE FALSE
        BY <1>4, <2>0, <3>1, <4>1, JobsApart DEF AlbumInv, AlbumShape
      <4> QED
        BY <2>0, <4>1 DEF AlbumInv, SentOnce
    <3> QED
      BY <1>4, <2>0, <3>1 DEF AlbumInv, AlbumShape
  <2>4. AlbumShape'
    BY <1>1, <1>4, <2>0, <2>1, <2>3 DEF AlbumInv, AlbumShape
  <2>5. InTurn' /\ Led' /\ Carries' /\ Reserved' /\ SavedOnce'
    BY <1>1, <1>4 DEF AlbumInv, InTurn, PutAway, Led, Carries, Reserved, SavedOnce
  <2>6. (\A v \in Photos!Workers : AtWork(v))'
    BY <1>4, <2>2 DEF AlbumInv, AtWork
  <2>7. SentOnce'
    <3>1. ASSUME NEW g \in attempted' PROVE job[g].state # "none" /\ \A i \in job[g].files : sent'[i] = 1
      BY <1>4, <2>0, <2>3, <3>1 DEF AlbumInv, AlbumShape, SentOnce, PhotoJob
    <3>2. ASSUME NEW i \in Photos!Files
          PROVE  sent'[i] = 0 \/ (sent'[i] = 1 /\ \E g \in attempted' : i \in job[g].files)
      BY <1>4, <2>3 DEF AlbumInv, SentOnce
    <3> QED
      BY <1>1, <3>1, <3>2 DEF SentOnce
  <2> QED
    BY <2>4, <2>5, <2>6, <2>7 DEF AlbumInv
<1> QED
  BY <1>2, <1>3, <1>4 DEF Photos!Posts, Photos!MaySend

\* A restart: what was at work is pending again, and nothing else is forgotten.
LEMMA PCrashes ==
  ASSUME Photos!AttachmentsAssumption, AlbumInv, Photos!Crashes
  PROVE  AlbumInv'
<1> USE FilesAre
<1>0. /\ update \in [Photos!Files -> FileStates] /\ job \in [Photos!Files -> PhotoJob]
      /\ post \in [Photos!Files -> PhotoTurn] /\ saved \in [Photos!Files -> Nat]
  BY DEF AlbumInv, AlbumShape
<1>1. /\ update' = [f \in Photos!Files |-> IF update[f] = "running" THEN "pending" ELSE update[f]]
      /\ at' = "rest" /\ flight' = {} /\ UNCHANGED <<leader, members, saved, attempted, sent>>
  BY DEF Photos!Crashes
<1>2. /\ update' \in [Photos!Files -> FileStates]
      /\ \A f \in Photos!Files : /\ update'[f] = "none" <=> update[f] = "none"
                                 /\ update'[f] # "running" /\ (PutAway(f) => update'[f] = update[f])
  BY <1>0, <1>1 DEF FileStates, PutAway
<1>3. /\ job' \in [Photos!Files -> PhotoJob]
      /\ \A f \in Photos!Files : job'[f].files = job[f].files /\ (job'[f].state = "none" <=> job[f].state = "none")
  <2>1. job' = [f \in Photos!Files |-> IF job[f].state \in {"running", "released"}
                                       THEN [job[f] EXCEPT !.state = "pending"] ELSE job[f]]
    BY DEF Photos!Crashes
  <2>2. ASSUME NEW f \in Photos!Files
        PROVE  /\ job'[f] \in PhotoJob /\ job'[f].files = job[f].files
               /\ job'[f].state = "none" <=> job[f].state = "none"
    <3>1. job[f] \in PhotoJob
      BY <1>0
    <3>2. CASE job[f].state \in {"running", "released"}
      BY <2>1, <3>1, <3>2 DEF PhotoJob, FileStates
    <3>3. CASE job[f].state \notin {"running", "released"}
      BY <2>1, <3>1, <3>3
    <3> QED
      BY <3>2, <3>3
  <2> QED
    BY <2>1, <2>2
<1>4. /\ post' \in [Photos!Files -> PhotoTurn]
      /\ \A f \in Photos!Files : /\ post'[f].files = post[f].files /\ post'[f].waits = post[f].waits
                                 /\ post'[f].state = "none" <=> post[f].state = "none"
  BY <1>0 DEF Photos!Crashes, PhotoTurn, FileStates
<1>5. workers' \in [Photos!Workers -> PhotoWorker] /\ (\A w \in Photos!Workers : AtWork(w))'
  BY DEF Photos!Crashes, Photos!Idle, PhotoWorker, AtWork
<1>6. AlbumShape'
  BY <1>1, <1>2, <1>3, <1>4, <1>5 DEF AlbumInv, AlbumShape
<1>7. InTurn'
  BY <1>2, <1>3 DEF AlbumInv, InTurn, PutAway
<1>8. Led' /\ Carries'
  BY <1>1, <1>2, <1>3 DEF AlbumInv, AlbumShape, Led, Carries, PutAway
<1>9. Reserved'
  BY <1>3, <1>4 DEF AlbumInv, Reserved
<1>10. SavedOnce' /\ SentOnce'
  BY <1>1, <1>3 DEF AlbumInv, AlbumShape, SavedOnce, SentOnce
<1> QED
  BY <1>5, <1>6, <1>7, <1>8, <1>9, <1>10 DEF AlbumInv

LEMMA AlbumStep ==
  ASSUME Photos!AttachmentsAssumption
  PROVE  AlbumInv /\ [Photos!Next]_(Photos!vars) => AlbumInv'
<1> SUFFICES ASSUME AlbumInv, [Photos!Next]_(Photos!vars) PROVE AlbumInv'
  OBVIOUS
<1>1. ASSUME NEW f \in Photos!Files,
             \/ Photos!Arrives(f) \/ Photos!Update(f) \/ Photos!Refuses(f) \/ Photos!UpdateFails(f)
             \/ Photos!Media(f) \/ \E i \in Photos!Files : Photos!FetchFails(f, i)
      PROVE  AlbumInv'
  BY <1>1, PRows, PCollects, PHandles, PMedia DEF Photos!Update, Photos!Media
<1>2. ASSUME NEW w \in Photos!Workers, Photos!Turn(w) \/ Photos!TurnFails(w) PROVE AlbumInv'
  BY <1>2, PFinds, PPosts, PEnds, PClaims DEF Photos!Turn
<1>3. CASE Photos!Crashes
  BY <1>3, PCrashes
<1>4. CASE Photos!Expires \/ Photos!OwnerStops \/ Photos!MovesOn \/ UNCHANGED Photos!vars
  <2>1. UNCHANGED <<update, at, leader, members, job, flight, saved, post, workers, attempted, sent>>
    BY <1>4 DEF Photos!Expires, Photos!OwnerStops, Photos!MovesOn, Photos!vars, Photos!queue,
                Photos!media, Photos!turns
  <2> QED
    BY <2>1 DEF AlbumInv, AlbumShape, InTurn, PutAway, Led, Carries, Reserved, AtWork, SavedOnce, SentOnce
<1> QED
  BY <1>1, <1>2, <1>3, <1>4 DEF Photos!Next

LEMMA AlbumMeans == AlbumInv => Photos!FilesOnce /\ Photos!SentWhole
BY DEF AlbumInv, AlbumShape, SavedOnce, SentOnce, Photos!FilesOnce, Photos!SentWhole, PhotoJob

\* Every file of an album is saved once and submitted once, and a turn that was submitted carried every
\* file collected for it, whatever is tried again, absorbed, late or at work when the gateway dies: for
\* any number of files, waits, restarts and failures.
THEOREM FilesAreSentOnce ==
  ASSUME Photos!AttachmentsAssumption
  PROVE  Photos!Spec => [](Photos!FilesOnce /\ Photos!SentWhole)
BY AlbumInit, AlbumStep, AlbumMeans, PTL DEF Photos!Spec

-----------------------------------------------------------------------------
\* The rest of the types: what the owner hears of are files, the leader waits no longer than it may, and
\* two files are fetched at a time.
AlbumBounds == /\ resend \subseteq Photos!Files /\ settles \in 0..MaxWaits
               /\ Photos!Cardinality(flight) <= 2

LEMMA PhotoCounts == ASSUME NEW S PROVE Photos!Cardinality(S) = Cardinality(S)
BY DEF Photos!Cardinality, Cardinality

LEMMA AlbumBoundsInit ==
  ASSUME Photos!AttachmentsAssumption
  PROVE  Photos!Init => AlbumBounds
<1>1. MaxWaits \in Nat
  BY DEF Photos!AttachmentsAssumption
<1>2. Photos!Cardinality({}) = 0
  BY PhotoCounts, FS_EmptySet
<1> QED
  BY <1>1, <1>2 DEF Photos!Init, AlbumBounds

LEMMA AlbumBoundsStep ==
  ASSUME Photos!AttachmentsAssumption, AlbumInv, AlbumBounds, [Photos!Next]_(Photos!vars)
  PROVE  AlbumBounds'
<1>1. MaxWaits \in Nat
  BY DEF Photos!AttachmentsAssumption
<1>2. members \subseteq Photos!Files /\ flight \subseteq Photos!Files
  BY DEF AlbumInv, AlbumShape
<1>3. IsFiniteSet(flight)
  <2>1. IsFiniteSet(Photos!Files)
    BY FS_Interval DEF Photos!Files, Photos!AttachmentsAssumption
  <2> QED
    BY <1>2, <2>1, FS_Subset
<1>4. Cardinality(flight) \in Nat /\ Cardinality(flight) <= 2
  BY <1>3, PhotoCounts, FS_CardinalityType DEF AlbumBounds
<1>5. resend' \subseteq Photos!Files
  <2>1. CASE \E f \in Photos!Files : Photos!Refuses(f) \/ Photos!Late(f)
    BY <1>2, <2>1 DEF AlbumBounds, Photos!Refuses, Photos!Late
  <2>2. CASE resend' = resend
    BY <2>2 DEF AlbumBounds
  <2> QED
    BY <2>1, <2>2 DEF Photos!Next, Photos!Update, Photos!Media, Photos!Turn, Photos!Arrives, Photos!Claims,
       Photos!Collects, Photos!Leads, Photos!Finishes, Photos!UpdateFails, Photos!JobClaims,
       Photos!JobFails, Photos!Releases, Photos!JobFinishes, Photos!FetchStarts, Photos!FetchSaves,
       Photos!FetchFails, Photos!Finds, Photos!Posts, Photos!TurnEnds, Photos!TurnClaims,
       Photos!TurnFails, Photos!Expires, Photos!OwnerStops, Photos!MovesOn, Photos!Crashes, Photos!vars,
       Photos!queue
<1>6. settles' \in 0..MaxWaits
  <2>1. CASE \E f \in Photos!Files : Photos!Collects(f)
    BY <1>1, <2>1 DEF AlbumBounds, Photos!Collects
  <2>2. CASE settles' = settles
    BY <2>2 DEF AlbumBounds
  <2> QED
    BY <2>1, <2>2 DEF Photos!Next, Photos!Update, Photos!Media, Photos!Turn, Photos!Arrives, Photos!Claims,
       Photos!Leads, Photos!Refuses, Photos!Late, Photos!Finishes, Photos!UpdateFails, Photos!JobClaims,
       Photos!JobFails, Photos!Releases, Photos!JobFinishes, Photos!FetchStarts, Photos!FetchSaves,
       Photos!FetchFails, Photos!Finds, Photos!Posts, Photos!TurnEnds, Photos!TurnClaims,
       Photos!TurnFails, Photos!Expires, Photos!OwnerStops, Photos!MovesOn, Photos!Crashes, Photos!vars,
       Photos!queue
<1>7. Cardinality(flight') <= 2
  <2>1. ASSUME NEW f \in Photos!Files, NEW i \in Photos!Files, Photos!FetchStarts(f, i)
        PROVE  Cardinality(flight') <= 2
    <3>1. flight' = flight \cup {i} /\ i \notin flight /\ Cardinality(flight) < 2
      BY <2>1, PhotoCounts DEF Photos!FetchStarts
    <3>2. Cardinality(flight \cup {i}) = Cardinality(flight) + 1
      BY <1>3, <3>1, FS_AddElement
    <3> QED
      BY <1>4, <3>1, <3>2
  <2>2. CASE flight' \subseteq flight
    <3>1. Cardinality(flight') <= Cardinality(flight) /\ Cardinality(flight') \in Nat
      BY <1>3, <2>2, FS_Subset, FS_CardinalityType
    <3> QED
      BY <1>4, <3>1
  <2>3. ASSUME NEW f \in Photos!Files, NEW i \in Photos!Files,
               Photos!FetchSaves(f, i) \/ Photos!FetchFails(f, i)
        PROVE  flight' \subseteq flight
    BY <2>3 DEF Photos!FetchSaves, Photos!FetchFails
  <2>4. ASSUME NEW f \in Photos!Files, Photos!JobClaims(f) \/ Photos!JobFails(f) \/ Photos!Releases(f)
                                       \/ Photos!JobFinishes(f)
        PROVE  flight' \subseteq flight
    BY <2>4 DEF Photos!JobClaims, Photos!JobFails, Photos!Releases, Photos!JobFinishes
  <2>5. ASSUME NEW f \in Photos!Files, Photos!Arrives(f) \/ Photos!Update(f) \/ Photos!Refuses(f)
                                       \/ Photos!UpdateFails(f)
        PROVE  flight' \subseteq flight
    BY <2>5 DEF Photos!Arrives, Photos!Update, Photos!Claims, Photos!Collects, Photos!Leads, Photos!Late,
       Photos!Finishes, Photos!Refuses, Photos!UpdateFails, Photos!media
  <2>6. CASE \/ \E w \in Photos!Workers : Photos!Turn(w) \/ Photos!TurnFails(w)
             \/ Photos!Expires \/ Photos!OwnerStops \/ Photos!MovesOn \/ Photos!Crashes
             \/ UNCHANGED Photos!vars
    <3>1. flight' \subseteq flight
      BY <2>6 DEF Photos!Turn, Photos!Finds, Photos!Posts, Photos!TurnEnds, Photos!TurnClaims,
         Photos!TurnFails, Photos!Expires, Photos!OwnerStops, Photos!MovesOn, Photos!Crashes, Photos!vars,
         Photos!media
    <3> QED
      BY <2>2, <3>1
  <2> QED
    BY <2>1, <2>2, <2>3, <2>4, <2>5, <2>6 DEF Photos!Next, Photos!Media
<1> QED
  BY <1>5, <1>6, <1>7, PhotoCounts DEF AlbumBounds

LEMMA AlbumTyped ==
  ASSUME Photos!AttachmentsAssumption
  PROVE  AlbumInv /\ AlbumBounds => Photos!TypeOK
BY DEF Photos!AttachmentsAssumption, AlbumInv, AlbumShape, AlbumBounds, PhotoJob, PhotoTurn, FileStates,
   Photos!Open, Photos!TypeOK

-----------------------------------------------------------------------------
(***************************************************************************)
(* The sessions of a cloud workspace.  What keeps a task in one place is    *)
(* the order of the rows: each has a turn of its own, they are worked one   *)
(* after the other, and a turn is continued at most once, by a row that     *)
(* comes behind all others.  So of the turns of an episode only the newest  *)
(* can still be queued, and a session is replaced only when it is the       *)
(* newest, its agent has had it, and nothing of the episode is left.        *)
(***************************************************************************)
CONSTANTS
    ChatSends,      \* messages of the owner
    ChatProviders,  \* the ladder of providers
    ChatPage,       \* rows of the transcript that are read at a time
    ChatFaults,     \* turns that fail
    ChatSleeps,     \* times the workspace is put to sleep
    ChatStops,      \* whether the owner may stop
    ErrorsClear,    \* whether a session's error is dropped once a message waits
    ChatTrouble     \* calls without an answer, and restarts

VARIABLES tape, requested, chapter, hand, chats, reach, laddered, carried, cards, newest, ended, glance,
    talk, doing, behind, faulty, slept, result, budget

Cloud == INSTANCE CloudPoll WITH MaxSends <- ChatSends, Providers <- ChatProviders, Page <- ChatPage,
    MaxFaults <- ChatFaults, MaxSleeps <- ChatSleeps, Stops <- ChatStops, ErrorClears <- ErrorsClear,
    MaxTrouble <- ChatTrouble, rows <- tape, asked <- requested, episode <- chapter, pc <- hand,
    sess <- chats, cursor <- reach, tried <- laddered, resumed <- carried, notices <- cards,
    current <- newest, stop <- ended, visit <- glance, transcript <- talk, work <- doing,
    waiting <- behind, err <- faulty, asleep <- slept, outcome <- result, used <- budget

CloudRow == [turn : Nat, type : {"send", "thread"}, session : Nat, recovery : BOOLEAN, prev : Nat,
             prevTurn : Nat, provider : Nat]
Chat == [provider : Nat, sent : Nat, terminal : BOOLEAN, stopped : BOOLEAN, seenReply : BOOLEAN,
         seenWorking : BOOLEAN, edge : BOOLEAN, continued : BOOLEAN, completed : BOOLEAN,
         failure : {"none", "interrupted", "spent", "other"}]
Said == [turn : Nat, kind : {"prompt", "text", "completed", "interrupted", "spent", "other"}]
Glance == [at : {"rest", "list", "status", "confirm", "tail"}, session : Nat, upto : Nat, full : BOOLEAN,
           dormant : BOOLEAN, sent : Nat, detail : {"none", "interrupted", "spent", "other"}]

ChatShape ==
    /\ tape \in Seq(CloudRow) /\ chapter \in Seq(Nat) /\ Len(tape) <= Len(chapter)
    /\ hand \in [at : {"rest", "post", "record"}, working : BOOLEAN]
    /\ chats \in [Cloud!Sessions -> Chat] /\ reach \in [Cloud!Sessions -> Nat]
    /\ newest \in Cloud!Sessions /\ glance \in Glance /\ slept \in BOOLEAN
    /\ talk \in [Cloud!Sessions -> Seq(Said)] /\ doing \in [Cloud!Sessions -> Nat]
    /\ behind \in [Cloud!Sessions -> Seq(Nat)]
    /\ faulty \in [Cloud!Sessions -> {"none", "interrupted", "spent", "other"}]

\* The rows that are done, and the turns a session has been given.
Passed == Len(chapter) - Len(tape)
Given(s) == Cloud!Busy(s) \cup Cloud!PromptsIn(s)

\* A row's turn is its place in the line, and an episode begins with a turn of its own.
InLine == /\ \A i \in 1..Len(tape) : tape[i].turn = Passed + i
          /\ \A n \in 1..Len(chapter) : chapter[n] \in 1..n

\* Where a row goes.  Only the first has begun; a replacement's session is new to everybody.
Going ==
    /\ \A i \in 1..Len(tape) :
          /\ tape[i].session \in {0} \cup Cloud!Sessions
          /\ tape[i].session # 0 => chats[tape[i].session].provider # 0
          /\ tape[i].type = "thread" => /\ tape[i].prev \in Cloud!Sessions
                                        /\ tape[i].prevTurn # 0 /\ tape[i].provider # 0
          /\ tape[i].type = "thread" /\ tape[i].session # 0 =>
                i = 1 /\ chats[tape[i].session].sent = 0
    /\ hand.at # "rest" => tape # << >> /\ tape[1].session \in Cloud!Sessions
    /\ chats[newest].provider # 0
    /\ \A s \in Cloud!Sessions : chats[s].sent # 0 => chats[s].provider # 0

\* A session has a turn from its row, and has it before that row is done.
Homes ==
    \A s \in Cloud!Sessions : \A n \in Given(s) :
        /\ n \in 1..(Passed + 1)
        /\ n = Passed + 1 => tape # << >> /\ tape[1].session = s
OwnTurns == \A s, t \in Cloud!Sessions : \A n \in Given(s) : n \in Given(t) => s = t

\* An agent takes its turns in their order.
TurnOrder ==
    \A s \in Cloud!Sessions :
        /\ \A i, j \in 1..Len(behind[s]) : i < j => behind[s][i] < behind[s][j]
        /\ \A i \in 1..Len(behind[s]), j \in 1..Len(talk[s]) : talk[s][j].turn < behind[s][i]
        /\ doing[s] # 0 => /\ doing[s] \in Cloud!PromptsIn(s)
                           /\ \A n \in Cloud!PromptsIn(s) : n <= doing[s]
        /\ faulty[s] # "none" => doing[s] = 0

\* The turn a session's state is about was its row's alone.
Sent == /\ \A s \in Cloud!Sessions : chats[s].sent <= Passed
        /\ \A s, t \in Cloud!Sessions : chats[s].sent = chats[t].sent /\ chats[s].sent # 0 => s = t

\* The turns behind n belong to other episodes than n.
Newest(n) == \A m \in 1..Len(chapter) : chapter[m] = chapter[n] => m <= n
\* Of episode e, nothing is at an agent; or it is at that of session s.
Left(e) == \A t \in Cloud!Sessions, m \in 1..Len(chapter) : chapter[m] = e => m \notin Cloud!Busy(t)
Only(e, s) ==
    \A t \in Cloud!Sessions, m \in 1..Len(chapter) : m \in Cloud!Busy(t) /\ chapter[m] = e => t = s

OneRowEach == \A m, n \in (Passed + 1)..Len(chapter) : chapter[m] = chapter[n] => m = n
OnePlace ==
    /\ \A s \in Cloud!Sessions, n \in 1..Len(chapter) : n \in Cloud!Busy(s) => Only(chapter[n], s)
    /\ \A i \in 1..Len(tape) : Only(chapter[Passed + i], tape[i].session)
    /\ \A s \in Cloud!Sessions : chats[s].sent # 0 /\ ~chats[s].continued =>
          Newest(chats[s].sent) /\ Only(chapter[chats[s].sent], s)

\* What a visit has read, and what it may rely on while its turn is still the session's.
Reads ==
    /\ glance.at # "rest" => glance.session \in Cloud!Sessions
    /\ glance.at = "status" => glance.upto <= Len(talk[glance.session])
    /\ glance.at \in {"confirm", "tail"} => glance.sent # 0 /\ glance.sent <= Passed
    /\ glance.at \in {"confirm", "tail"} /\ chats[glance.session].sent = glance.sent =>
          ~chats[glance.session].continued
    /\ glance.at = "tail" /\ chats[glance.session].sent = glance.sent => Left(chapter[glance.sent])
Bad == {"interrupted", "spent", "other"}
FailureRead ==
    \A s \in Cloud!Sessions : chats[s].failure # "none" =>
        \E j \in 1..Len(talk[s]) : talk[s][j].turn = chats[s].sent /\ talk[s][j].kind \in Bad

ChatInv == /\ ChatShape /\ InLine /\ Going /\ Homes /\ OwnTurns /\ TurnOrder /\ Sent
           /\ OneRowEach /\ OnePlace /\ Reads /\ FailureRead

\* What failed: a line that says so is true, and a session's error is that of its last turn.
Failures ==
    \A s \in Cloud!Sessions :
        /\ \A j \in 1..Len(talk[s]) : talk[s][j].kind \in Bad => <<talk[s][j].turn, "failed">> \in result
        /\ faulty[s] # "none" => \E n \in Cloud!PromptsIn(s) :
              (\A m \in Cloud!PromptsIn(s) : m <= n) /\ <<n, "failed">> \in result
\* Until a stop, the turn of a session's state is the last it was given, but for the one of the first row.
LastSent ==
    ~ended => /\ \A s \in Cloud!Sessions : chats[s].sent # 0 =>
                    chats[s].sent \in Given(s) /\ \A m \in Given(s) : m <= chats[s].sent \/ m = Passed + 1
              /\ hand.at = "record" => tape[1].turn \in Given(tape[1].session)
FailInv == Failures /\ LastSent

\* What most steps leave: sessions are given no turn, and their states keep to their turns.
AgentsKeep == \A s \in Cloud!Sessions : /\ Given(s)' \subseteq Given(s)
                                       /\ Cloud!Busy(s)' \subseteq Cloud!Busy(s)
ChatKept(s) == /\ chats'[s].provider = chats[s].provider /\ chats'[s].sent = chats[s].sent
               /\ chats[s].continued => chats'[s].continued
ChatsKeep == \A s \in Cloud!Sessions : ChatKept(s)

\* The turn of the first row is recorded, and the row is done.
TurnDone(s) == /\ tape # << >> /\ tape' = Tail(tape) /\ s = tape[1].session
               /\ chats'[s].provider = chats[s].provider /\ chats'[s].provider # 0
               /\ chats'[s].sent = Passed + 1

LEMMA LineCounts == ASSUME ChatShape
                    PROVE  /\ Len(tape) \in Nat /\ Len(chapter) \in Nat /\ Passed \in Nat
                           /\ Len(tape) = 0 <=> tape = << >>
                           /\ Passed + Len(tape) = Len(chapter)
BY DEF ChatShape, Passed

\* The turns of sessions are turns of the line.
LEMMA GivenInLine ==
  ASSUME ChatShape, Homes, NEW s \in Cloud!Sessions, NEW n \in Given(s)
  PROVE  n \in 1..Len(chapter) /\ n \in Nat
<1>1. n \in 1..(Passed + 1) /\ (n = Passed + 1 => tape # << >>)
  BY DEF Homes
<1> QED
  BY <1>1, LineCounts

LEMMA BusyGiven == ASSUME NEW s \in Cloud!Sessions PROVE Cloud!Busy(s) \subseteq Given(s)
BY DEF Given

\* Of an episode, the agents' turns only become fewer.
LEMMA PlacesStay ==
  ASSUME ChatShape, AgentsKeep, chapter' = chapter, NEW e
  PROVE  /\ Left(e) => Left(e)'
         /\ \A s : Only(e, s) => Only(e, s)'
<1>1. \A t \in Cloud!Sessions : Cloud!Busy(t)' \subseteq Cloud!Busy(t)
  BY DEF AgentsKeep
<1>2. ASSUME Left(e) PROVE Left(e)'
  BY <1>1, <1>2 DEF Left
<1>3. ASSUME NEW s, Only(e, s) PROVE Only(e, s)'
  BY <1>1, <1>3 DEF Only
<1> QED
  BY <1>2, <1>3

\* The first row starts over, or is done.
LEMMA LineKept ==
  ASSUME ChatInv, ChatShape', AgentsKeep, chapter' = chapter, newest' = newest,
         \A s \in Cloud!Sessions : ChatKept(s) \/ TurnDone(s),
         \/ tape' = tape /\ (hand' = hand \/ hand'.at = "rest")
         \/ tape # << >> /\ tape' = Tail(tape) /\ hand'.at = "rest"
  PROVE  InLine' /\ Going' /\ Homes' /\ OwnTurns' /\ Sent' /\ OneRowEach' /\ OnePlace'
<1>1. ChatShape /\ InLine /\ Going /\ Homes /\ OwnTurns /\ Sent /\ OneRowEach /\ OnePlace
  BY DEF ChatInv
<1> DEFINE Dropped(d) ==
        /\ Len(tape') = Len(tape) - d
        /\ \A i \in 1..Len(tape') : tape'[i] = tape[i + d] /\ i + d \in 1..Len(tape)
        /\ d = 0 => tape' = tape /\ (hand' = hand \/ hand'.at = "rest")
        /\ d = 1 => tape # << >> /\ hand'.at = "rest"
        /\ tape' # tape => d = 1
<1>2. PICK d \in {0, 1} : Dropped(d)
  <2>1. CASE tape' = tape /\ (hand' = hand \/ hand'.at = "rest")
    <3>1. Dropped(0)
      BY <1>1, <2>1, LineCounts
    <3> HIDE DEF Dropped
    <3> QED
      BY <3>1
  <2>2. CASE tape # << >> /\ tape' = Tail(tape) /\ hand'.at = "rest"
    <3>1. tape \in Seq(CloudRow)
      BY <1>1 DEF ChatShape
    <3>2. Len(tape') = Len(tape) - 1 /\ \A i \in 1..Len(tape') : tape'[i] = tape[i + 1] /\ i + 1 \in 1..Len(tape)
      BY <2>2, <3>1
    <3>3. tape # << >> /\ hand'.at = "rest"
      BY <2>2
    <3>4. Dropped(1)
      BY <3>2, <3>3
    <3> HIDE DEF Dropped
    <3> QED
      BY <3>4
  <2> QED
    BY <2>1, <2>2
<1>3. /\ Len(tape) \in Nat /\ Len(chapter) \in Nat /\ Passed \in Nat /\ Passed' = Passed + d
      /\ Passed + Len(tape) = Len(chapter) /\ (tape = << >> <=> Len(tape) = 0)
  <2>1. Len(chapter') = Len(chapter)
    OBVIOUS
  <2> QED
    BY <1>1, <1>2, <2>1, LineCounts DEF Passed
<1>30. \A s \in Cloud!Sessions : chats[s].sent \in Nat /\ chats[s].provider = chats'[s].provider
  BY <1>1 DEF ChatShape, Chat, ChatKept, TurnDone
<1>31. ASSUME NEW s \in Cloud!Sessions, ~ChatKept(s)
       PROVE  d = 1 /\ s = tape[1].session /\ chats'[s].sent = Passed + 1 /\ chats'[s].provider # 0
  <2>1. TurnDone(s)
    BY <1>31
  <2>2. tape' # tape
    <3>1. tape \in Seq(CloudRow) /\ tape # << >> /\ tape' = Tail(tape)
      BY <1>1, <2>1 DEF ChatShape, TurnDone
    <3>2. Len(tape') = Len(tape) - 1
      BY <3>1
    <3> QED
      BY <1>3, <3>2
  <2> QED
    BY <1>2, <2>1, <2>2 DEF TurnDone
<1>4. InLine'
  <2>1. \A i \in 1..Len(tape') : tape'[i].turn = Passed' + i
    <3> TAKE i \in 1..Len(tape')
    <3>1. i + d \in 1..Len(tape) /\ tape'[i] = tape[i + d] /\ i \in Nat
      BY <1>2, <1>3
    <3>2. tape[i + d].turn = Passed + (i + d)
      BY <1>1, <3>1 DEF InLine
    <3> QED
      BY <1>3, <3>1, <3>2
  <2> QED
    BY <1>1, <2>1 DEF InLine
<1>5. Going'
  <2>1. \A i \in 1..Len(tape') :
          /\ tape'[i].session \in {0} \cup Cloud!Sessions
          /\ tape'[i].session # 0 => chats'[tape'[i].session].provider # 0
          /\ tape'[i].type = "thread" => /\ tape'[i].prev \in Cloud!Sessions
                                         /\ tape'[i].prevTurn # 0 /\ tape'[i].provider # 0
          /\ tape'[i].type = "thread" /\ tape'[i].session # 0 =>
                i = 1 /\ chats'[tape'[i].session].sent = 0
    <3> TAKE i \in 1..Len(tape')
    <3>1. i + d \in 1..Len(tape) /\ tape'[i] = tape[i + d] /\ i \in Nat \ {0}
      BY <1>2, <1>3
    <3>2. /\ tape[i + d].session \in {0} \cup Cloud!Sessions
          /\ tape[i + d].session # 0 => chats[tape[i + d].session].provider # 0
          /\ tape[i + d].type = "thread" => /\ tape[i + d].prev \in Cloud!Sessions
                                            /\ tape[i + d].prevTurn # 0 /\ tape[i + d].provider # 0
          /\ tape[i + d].type = "thread" /\ tape[i + d].session # 0 =>
                i + d = 1 /\ chats[tape[i + d].session].sent = 0
      BY <1>1, <3>1 DEF Going
    <3>3. PICK x : x = tape[i + d].session
      OBVIOUS
    <3>4. x \in Cloud!Sessions => chats'[x].provider = chats[x].provider
      BY <1>30
    <3>5. x \in Cloud!Sessions /\ d = 0 => chats'[x].sent = chats[x].sent
      BY <1>31 DEF ChatKept
    <3>6. i + d = 1 => d = 0
      BY <1>2, <3>1
    <3> QED
      BY <1>3, <3>1, <3>2, <3>3, <3>4, <3>5, <3>6
  <2>2. (hand.at # "rest" => tape # << >> /\ tape[1].session \in Cloud!Sessions)'
    BY <1>1, <1>2 DEF Going
  <2>3. newest \in Cloud!Sessions /\ chats[newest].provider # 0
        /\ \A s \in Cloud!Sessions : chats[s].sent # 0 => chats[s].provider # 0
    BY <1>1 DEF Going, ChatShape
  <2>4. \A s \in Cloud!Sessions : chats'[s].sent # 0 => chats'[s].provider # 0
    BY <1>30, <1>31, <2>3 DEF ChatKept
  <2> QED
    BY <1>30, <2>1, <2>2, <2>3, <2>4 DEF Going
<1>6. Homes'
  <2> SUFFICES ASSUME NEW s \in Cloud!Sessions, NEW n \in Given(s)'
               PROVE  /\ n \in 1..(Passed' + 1)
                      /\ n = Passed' + 1 => tape' # << >> /\ tape'[1].session = s
    BY DEF Homes
  <2>1. n \in Given(s)
    BY DEF AgentsKeep
  <2>2. n \in 1..(Passed + 1) /\ (n = Passed + 1 => tape # << >> /\ tape[1].session = s)
    BY <1>1, <2>1 DEF Homes
  <2> QED
    BY <1>2, <1>3, <2>2
<1>7. OwnTurns'
  BY <1>1 DEF OwnTurns, AgentsKeep
<1>8. Sent'
  <2>1. \A s \in Cloud!Sessions : chats[s].sent <= Passed
    BY <1>1 DEF Sent
  <2>2. \A s \in Cloud!Sessions :
          chats'[s].sent = chats[s].sent \/ (d = 1 /\ s = tape[1].session /\ chats'[s].sent = Passed + 1)
    BY <1>31 DEF ChatKept
  <2>3. \A s \in Cloud!Sessions : chats'[s].sent <= Passed'
    BY <1>3, <1>30, <2>1, <2>2
  <2>4. \A s, t \in Cloud!Sessions : chats'[s].sent = chats'[t].sent /\ chats'[s].sent # 0 => s = t
    <3> SUFFICES ASSUME NEW s \in Cloud!Sessions, NEW t \in Cloud!Sessions,
                        chats'[s].sent = chats'[t].sent, chats'[s].sent # 0
                 PROVE  s = t
      OBVIOUS
    <3>1. CASE chats'[s].sent = chats[s].sent /\ chats'[t].sent = chats[t].sent
      BY <1>1, <3>1 DEF Sent
    <3>2. CASE ~(chats'[s].sent = chats[s].sent /\ chats'[t].sent = chats[t].sent)
      <4>1. chats'[s].sent = Passed + 1 /\ chats[s].sent # Passed + 1 /\ chats[t].sent # Passed + 1
        BY <1>3, <1>30, <2>1, <2>2, <3>2
      <4> QED
        BY <2>2, <4>1
    <3> QED
      BY <3>1, <3>2
  <2> QED
    BY <2>3, <2>4 DEF Sent
<1>9. OneRowEach'
  BY <1>1, <1>3 DEF OneRowEach
<1>10. OnePlace'
  <2>1. \A s \in Cloud!Sessions, n \in 1..Len(chapter) : n \in Cloud!Busy(s)' => Only(chapter[n], s)'
    BY <1>1, PlacesStay DEF OnePlace, AgentsKeep
  <2>2. (\A i \in 1..Len(tape) : Only(chapter[Passed + i], tape[i].session))'
    <3> SUFFICES ASSUME NEW i \in 1..Len(tape') PROVE Only(chapter[Passed + i], tape[i].session)'
      OBVIOUS
    <3>1. i + d \in 1..Len(tape) /\ tape'[i] = tape[i + d] /\ i \in Nat \ {0} /\ Passed' + i = Passed + (i + d)
      BY <1>2, <1>3
    <3>2. PICK x : x = tape[i + d].session
      OBVIOUS
    <3>3. PICK e : e = chapter[Passed + (i + d)]
      OBVIOUS
    <3>4. Only(e, x)
      BY <1>1, <3>1, <3>2, <3>3 DEF OnePlace
    <3>5. Only(e, x)'
      BY <1>1, <3>4, PlacesStay
    <3> QED
      BY <3>1, <3>2, <3>3, <3>5 DEF Only
  <2>3. \A s \in Cloud!Sessions : chats'[s].sent # 0 /\ ~chats'[s].continued =>
          Newest(chats[s].sent)' /\ Only(chapter[chats[s].sent], s)'
    <3> SUFFICES ASSUME NEW s \in Cloud!Sessions, chats'[s].sent # 0, ~chats'[s].continued
                 PROVE  Newest(chats[s].sent)' /\ Only(chapter[chats[s].sent], s)'
      OBVIOUS
    <3>1. PICK n : n = chats'[s].sent
      OBVIOUS
    <3>2. ASSUME ChatKept(s) PROVE Newest(n) /\ Only(chapter[n], s)
      <4>1. chats'[s].sent = chats[s].sent /\ chats[s].sent # 0 /\ ~chats[s].continued
        BY <3>2 DEF ChatKept
      <4>2. PICK k : k = chats[s].sent
        OBVIOUS
      <4>3. Newest(k) /\ Only(chapter[k], s)
        BY <1>1, <4>1, <4>2 DEF OnePlace
      <4> QED
        BY <3>1, <4>1, <4>2, <4>3
    <3>6. ASSUME ~ChatKept(s) PROVE Newest(n) /\ Only(chapter[n], s)
      <4>1. n = Passed + 1 /\ s = tape[1].session /\ 1 \in 1..Len(tape)
        BY <1>2, <1>3, <1>31, <3>1, <3>6
      <4>2. Only(chapter[n], s)
        BY <1>1, <4>1 DEF OnePlace
      <4>3. Newest(n)
        <5> SUFFICES ASSUME NEW m \in 1..Len(chapter), chapter[m] = chapter[n], ~(m <= n) PROVE FALSE
          BY DEF Newest
        <5>1. m \in (Passed + 1)..Len(chapter) /\ n \in (Passed + 1)..Len(chapter)
          BY <1>3, <4>1
        <5>2. m = n
          BY <1>1, <5>1 DEF OneRowEach
        <5> QED
          BY <1>3, <4>1, <5>2
      <4> QED
        BY <4>2, <4>3
    <3>3. Newest(n) /\ Only(chapter[n], s)
      BY <3>2, <3>6
    <3>4. PICK e : e = chapter[n]
      OBVIOUS
    <3>5. Only(e, s)'
      BY <1>1, <3>3, <3>4, PlacesStay
    <3> QED
      BY <3>1, <3>2, <3>3, <3>4, <3>5 DEF Newest, Only
  <2> QED
    BY <2>1, <2>2, <2>3 DEF OnePlace
<1> QED
  BY <1>4, <1>5, <1>6, <1>7, <1>8, <1>9, <1>10

\* A row is queued that begins an episode, or goes on with the newest turn of one.
LEMMA PlacesQueued ==
  ASSUME ChatShape, Homes, AgentsKeep, NEW e0 \in Nat, chapter' = Append(chapter, e0), NEW e
  PROVE  /\ Left(e) => Left(e)'
         /\ \A s : Only(e, s) => Only(e, s)'
<1>1. chapter \in Seq(Nat) /\ Len(chapter) \in Nat
  BY DEF ChatShape
<1>2. Len(chapter') = Len(chapter) + 1 /\ \A m \in 1..Len(chapter) : chapter'[m] = chapter[m]
  BY <1>1
<1>3. \A t \in Cloud!Sessions : \A m \in Cloud!Busy(t)' :
        m \in Cloud!Busy(t) /\ m \in 1..Len(chapter) /\ chapter'[m] = chapter[m]
  BY <1>2, GivenInLine, BusyGiven DEF AgentsKeep
<1>4. ASSUME Left(e) PROVE Left(e)'
  BY <1>3, <1>4 DEF Left
<1>5. ASSUME NEW s, Only(e, s) PROVE Only(e, s)'
  BY <1>3, <1>5 DEF Only
<1> QED
  BY <1>4, <1>5

LEMMA TurnQueued ==
  ASSUME ChatInv, ChatShape', AgentsKeep, ChatsKeep, newest' = newest, hand' = hand,
         NEW msg \in CloudRow, NEW e \in 1..(Len(chapter) + 1),
         tape' = Append(tape, msg), chapter' = Append(chapter, e), msg.turn = Len(chapter) + 1,
         msg.session \in {0} \cup Cloud!Sessions,
         msg.session # 0 => chats[msg.session].provider # 0,
         msg.type = "thread" => /\ msg.prev \in Cloud!Sessions /\ msg.prevTurn # 0
                                /\ msg.provider # 0 /\ msg.session = 0,
         \/ e = Len(chapter) + 1
         \/ /\ Only(e, msg.session)
            /\ \E n \in 1..Passed : /\ chapter[n] = e /\ Newest(n)
                                    /\ \A t \in Cloud!Sessions : chats[t].sent = n => chats'[t].continued
  PROVE  InLine' /\ Going' /\ Homes' /\ OwnTurns' /\ Sent' /\ OneRowEach' /\ OnePlace'
<1>1. /\ ChatShape /\ InLine /\ Going /\ Homes /\ OwnTurns /\ Sent /\ OneRowEach /\ OnePlace
      /\ tape \in Seq(CloudRow) /\ chapter \in Seq(Nat)
  BY DEF ChatInv, ChatShape
<1>2. /\ Len(tape) \in Nat /\ Len(chapter) \in Nat /\ Passed \in Nat /\ Passed + Len(tape) = Len(chapter)
      /\ Len(tape) = 0 <=> tape = << >>
  BY <1>1, LineCounts
<1>3. PICK N \in Nat : N = Len(chapter) + 1 /\ e \in Nat
  BY <1>2
<1>end. Passed + (Len(tape) + 1) = N
  BY <1>2, <1>3
<1>4. /\ Len(tape') = Len(tape) + 1 /\ tape'[Len(tape) + 1] = msg /\ tape' # << >>
      /\ \A i \in 1..Len(tape) : tape'[i] = tape[i]
  BY <1>1, <1>2
<1>5. Len(chapter') = N /\ chapter'[N] = e /\ \A n \in 1..Len(chapter) : chapter'[n] = chapter[n]
  BY <1>1, <1>2, <1>3
<1>6. Passed' = Passed
  BY <1>2, <1>3, <1>4, <1>5 DEF Passed
<1>7. \A i \in 1..Len(tape') : i \in 1..Len(tape) \/ i = Len(tape) + 1
  BY <1>2, <1>4
<1>8. \A n \in 1..N : n \in 1..Len(chapter) \/ n = N
  BY <1>2, <1>3
<1>9. InLine'
  <2>1. \A i \in 1..Len(tape') : tape'[i].turn = Passed' + i
    BY <1>1, <1>2, <1>4, <1>6, <1>7 DEF InLine
  <2>2. \A n \in 1..Len(chapter') : chapter'[n] \in 1..n
    BY <1>1, <1>3, <1>5, <1>8 DEF InLine
  <2> QED
    BY <2>1, <2>2 DEF InLine
<1>10. Going'
  <2>1. \A i \in 1..Len(tape') :
          /\ tape'[i].session \in {0} \cup Cloud!Sessions
          /\ tape'[i].session # 0 => chats'[tape'[i].session].provider # 0
          /\ tape'[i].type = "thread" => /\ tape'[i].prev \in Cloud!Sessions
                                         /\ tape'[i].prevTurn # 0 /\ tape'[i].provider # 0
          /\ tape'[i].type = "thread" /\ tape'[i].session # 0 =>
                i = 1 /\ chats'[tape'[i].session].sent = 0
    <3> TAKE i \in 1..Len(tape')
    <3>1. CASE i \in 1..Len(tape)
      <4>1. /\ tape[i].session \in {0} \cup Cloud!Sessions
            /\ tape[i].session # 0 => chats[tape[i].session].provider # 0
            /\ tape[i].type = "thread" => /\ tape[i].prev \in Cloud!Sessions
                                          /\ tape[i].prevTurn # 0 /\ tape[i].provider # 0
            /\ tape[i].type = "thread" /\ tape[i].session # 0 =>
                  i = 1 /\ chats[tape[i].session].sent = 0
        BY <1>1, <3>1 DEF Going
      <4>2. tape'[i] = tape[i]
        BY <1>4, <3>1
      <4> QED
        BY <4>1, <4>2 DEF ChatsKeep, ChatKept
    <3>2. CASE i = Len(tape) + 1
      BY <1>4, <3>2 DEF ChatsKeep, ChatKept
    <3> QED
      BY <1>7, <3>1, <3>2
  <2>2. (hand.at # "rest" => tape # << >> /\ tape[1].session \in Cloud!Sessions)'
    BY <1>1, <1>2, <1>4 DEF Going
  <2>3. newest \in Cloud!Sessions /\ chats[newest].provider # 0
        /\ \A s \in Cloud!Sessions : chats[s].sent # 0 => chats[s].provider # 0
    BY <1>1 DEF Going, ChatShape
  <2> QED
    BY <2>1, <2>2, <2>3 DEF Going, ChatsKeep, ChatKept
<1>11. Homes'
  <2> SUFFICES ASSUME NEW s \in Cloud!Sessions, NEW n \in Given(s)'
               PROVE  /\ n \in 1..(Passed' + 1)
                      /\ n = Passed' + 1 => tape' # << >> /\ tape'[1].session = s
    BY DEF Homes
  <2>1. n \in Given(s)
    BY DEF AgentsKeep
  <2>2. n \in 1..(Passed + 1) /\ (n = Passed + 1 => tape # << >> /\ tape[1].session = s)
    BY <1>1, <2>1 DEF Homes
  <2> QED
    BY <1>2, <1>4, <1>6, <2>2
<1>12. OwnTurns'
  BY <1>1 DEF OwnTurns, AgentsKeep
<1>13. \A s \in Cloud!Sessions : chats[s].sent \in Nat /\ chats[s].sent <= Passed /\ chats'[s].sent = chats[s].sent
  BY <1>1 DEF ChatShape, Chat, ChatsKeep, ChatKept, Sent
<1>14. Sent'
  BY <1>1, <1>6, <1>13 DEF Sent
\* The episode's turns are all done when one is added.
<1>15. \A m \in (Passed + 1)..Len(chapter) : chapter'[m] # e
  <2> TAKE m \in (Passed + 1)..Len(chapter)
  <2>1. m \in 1..Len(chapter) /\ m > Passed /\ chapter'[m] = chapter[m] /\ chapter[m] \in 1..m
    BY <1>1, <1>2, <1>5 DEF InLine
  <2>2. CASE e = N
    BY <1>2, <1>3, <2>1, <2>2
  <2>3. ASSUME NEW n \in 1..Passed, chapter[n] = e, Newest(n), chapter[m] = e PROVE FALSE
    BY <1>2, <2>1, <2>3 DEF Newest
  <2> QED
    BY <1>3, <2>1, <2>2, <2>3
<1>16. OneRowEach'
  <2> SUFFICES ASSUME NEW m \in (Passed + 1)..N, NEW n \in (Passed + 1)..N, chapter'[m] = chapter'[n]
               PROVE  m = n
    BY <1>5, <1>6 DEF OneRowEach
  <2>1. \A k \in (Passed + 1)..N : k = N \/ (k \in (Passed + 1)..Len(chapter) /\ chapter'[k] = chapter[k])
    BY <1>2, <1>3, <1>5
  <2>2. CASE m = N \/ n = N
    <3>1. chapter'[m] = e
      BY <1>5, <2>2
    <3>2. m \notin (Passed + 1)..Len(chapter) /\ n \notin (Passed + 1)..Len(chapter)
      BY <1>15, <3>1
    <3> QED
      BY <2>1, <3>2
  <2>3. CASE m # N /\ n # N
    BY <1>1, <2>1, <2>3 DEF OneRowEach
  <2> QED
    BY <2>2, <2>3
<1>17. OnePlace'
  <2>1. \A s \in Cloud!Sessions : \A n \in Cloud!Busy(s)' :
          n \in 1..Len(chapter) /\ n \in Cloud!Busy(s) /\ chapter'[n] = chapter[n]
    BY <1>1, <1>5, GivenInLine, BusyGiven DEF AgentsKeep
  <2>2. (\A s \in Cloud!Sessions, n \in 1..Len(chapter) : n \in Cloud!Busy(s) => Only(chapter[n], s))'
    <3> SUFFICES ASSUME NEW s \in Cloud!Sessions, NEW n \in Cloud!Busy(s)' PROVE Only(chapter[n], s)'
      BY <2>1
    <3>1. PICK f : f = chapter[n]
      OBVIOUS
    <3>2. Only(f, s)
      BY <1>1, <2>1, <3>1 DEF OnePlace
    <3> QED
      BY <1>1, <1>3, <2>1, <3>1, <3>2, PlacesQueued
  <2>3. (\A i \in 1..Len(tape) : Only(chapter[Passed + i], tape[i].session))'
    <3> SUFFICES ASSUME NEW i \in 1..Len(tape') PROVE Only(chapter[Passed + i], tape[i].session)'
      OBVIOUS
    <3>1. CASE i \in 1..Len(tape)
      <4>1. Passed + i \in 1..Len(chapter) /\ chapter'[Passed + i] = chapter[Passed + i] /\ tape'[i] = tape[i]
        BY <1>2, <1>4, <1>5, <3>1
      <4>2. PICK f : f = chapter[Passed + i]
        OBVIOUS
      <4>3. PICK x : x = tape[i].session
        OBVIOUS
      <4>4. Only(f, x)
        BY <1>1, <3>1, <4>2, <4>3 DEF OnePlace
      <4>5. Only(f, x)'
        BY <1>1, <1>3, <4>4, PlacesQueued
      <4> QED
        BY <1>6, <4>1, <4>2, <4>3, <4>5 DEF Only
    <3>2. CASE i = Len(tape) + 1
      <4>1. tape'[i] = msg
        BY <1>4, <3>2
      <4>2. PICK x : x = msg.session
        OBVIOUS
      <4>3. Only(e, x)
        <5>1. CASE e = N
          <6>1. ASSUME NEW m \in 1..Len(chapter), chapter[m] = N PROVE FALSE
            <7>1. chapter[m] \in 1..m /\ m < N
              BY <1>1, <1>2, <1>3 DEF InLine
            <7> QED
              BY <1>2, <1>3, <6>1, <7>1
          <6> QED
            BY <5>1, <6>1 DEF Only
        <5> QED
          BY <1>3, <4>2, <5>1
      <4>4. Only(e, x)'
        BY <1>1, <1>3, <4>3, PlacesQueued
      <4> QED
        BY <1>5, <1>6, <1>end, <3>2, <4>1, <4>2, <4>4 DEF Only
    <3> QED
      BY <1>7, <3>1, <3>2
  <2>4. (\A s \in Cloud!Sessions : chats[s].sent # 0 /\ ~chats[s].continued =>
          Newest(chats[s].sent) /\ Only(chapter[chats[s].sent], s))'
    <3> SUFFICES ASSUME NEW s \in Cloud!Sessions, chats'[s].sent # 0, ~chats'[s].continued
                 PROVE  Newest(chats[s].sent)' /\ Only(chapter[chats[s].sent], s)'
      OBVIOUS
    <3>1. chats'[s].sent = chats[s].sent /\ chats[s].sent # 0 /\ ~chats[s].continued
      BY DEF ChatsKeep, ChatKept
    <3>2. PICK n : n = chats[s].sent
      OBVIOUS
    <3>3. Newest(n) /\ Only(chapter[n], s)
      BY <1>1, <3>1, <3>2 DEF OnePlace
    <3>4. n \in 1..Len(chapter) /\ chapter'[n] = chapter[n] /\ chapter[n] \in 1..n /\ n < N
      <4>1. n \in Nat \ {0} /\ n <= Passed
        BY <1>13, <3>1, <3>2
      <4>2. n \in 1..Len(chapter) /\ n < N
        BY <1>2, <1>3, <4>1
      <4> QED
        BY <1>1, <1>5, <4>2 DEF InLine
    <3>5. chapter[n] # e
      <4>1. CASE e = N
        BY <3>4, <4>1
      <4>2. ASSUME NEW k \in 1..Passed, chapter[k] = e, Newest(k), chapter[n] = e,
                   \A t \in Cloud!Sessions : chats[t].sent = k => chats'[t].continued
            PROVE  FALSE
        <5>1. k \in 1..Len(chapter)
          BY <1>2
        <5>2. n <= k /\ k <= n
          BY <3>3, <3>4, <4>2, <5>1 DEF Newest
        <5>3. n = k
          BY <3>4, <5>2
        <5> QED
          BY <3>2, <4>2, <5>3
      <4> QED
        BY <1>3, <4>1, <4>2
    <3>6. Newest(n)'
      BY <1>5, <1>8, <3>3, <3>4, <3>5 DEF Newest
    <3>7. PICK f : f = chapter[n]
      OBVIOUS
    <3>8. Only(f, s)'
      BY <1>1, <1>3, <3>3, <3>7, PlacesQueued
    <3> QED
      BY <3>1, <3>2, <3>4, <3>6, <3>7, <3>8 DEF Newest, Only
  <2> QED
    BY <2>2, <2>3, <2>4 DEF OnePlace
<1> QED
  BY <1>9, <1>10, <1>11, <1>12, <1>14, <1>16, <1>17

\* What a visit has read stays true of a turn that is still its session's.
LEMMA ReadsKept ==
  ASSUME ChatInv, ChatShape', glance' = glance, Passed <= Passed',
         \A n \in 1..Passed : chapter'[n] = chapter[n],
         \A s \in Cloud!Sessions : Len(talk[s]) <= Len(talk'[s]),
         \A s \in Cloud!Sessions :
            \/ chats'[s].sent > Passed
            \/ chats'[s].sent = chats[s].sent /\ (chats'[s].continued => chats[s].continued),
         \A n \in 1..Passed : Newest(n) /\ Left(chapter[n]) => Left(chapter[n])'
  PROVE  Reads'
<1>1. ChatShape /\ Reads /\ OnePlace /\ Passed \in Nat /\ Passed' \in Nat
  <2>1. /\ (Len(tape) \in Nat /\ Len(chapter) \in Nat /\ Len(tape) <= Len(chapter))'
    BY DEF ChatShape
  <2>2. Passed' \in Nat
    BY <2>1 DEF Passed
  <2>3. ChatShape /\ Reads /\ OnePlace
    BY DEF ChatInv
  <2> QED
    BY <2>2, <2>3, LineCounts
<1>2. \A s \in Cloud!Sessions : Len(talk[s]) \in Nat /\ Len(talk'[s]) \in Nat
  <2> TAKE s \in Cloud!Sessions
  <2>1. talk[s] \in Seq(Said) /\ talk'[s] \in Seq(Said)
    BY <1>1 DEF ChatShape
  <2> QED
    BY <2>1
<1>3. /\ glance.at \in {"rest", "list", "status", "confirm", "tail"} /\ glance.upto \in Nat /\ glance.sent \in Nat
  BY <1>1 DEF ChatShape, Glance
<1>4. /\ (glance.at # "rest" => glance.session \in Cloud!Sessions)'
      /\ (glance.at = "status" => glance.upto <= Len(talk[glance.session]))'
      /\ (glance.at \in {"confirm", "tail"} => glance.sent # 0 /\ glance.sent <= Passed)'
  BY <1>1, <1>2, <1>3 DEF Reads
<1>5. ASSUME glance.at \in {"confirm", "tail"}, chats'[glance.session].sent = glance.sent
      PROVE  /\ ~chats'[glance.session].continued
             /\ glance.at = "tail" => Left(chapter[glance.sent])'
  <2>1. PICK s, n : s = glance.session /\ n = glance.sent
    OBVIOUS
  <2>2. s \in Cloud!Sessions /\ n # 0 /\ n <= Passed /\ n \in Nat /\ chats'[s].sent = n
    BY <1>1, <1>3, <1>5, <2>1 DEF Reads
  <2>3. chats[s].sent = n /\ (chats'[s].continued => chats[s].continued)
    BY <1>1, <2>2
  <2>4. ~chats[s].continued /\ (glance.at = "tail" => Left(chapter[n]))
    BY <1>1, <1>5, <2>1, <2>3 DEF Reads
  <2>5. Newest(n) /\ n \in 1..Passed
    BY <1>1, <2>2, <2>3, <2>4 DEF OnePlace
  <2> QED
    BY <2>1, <2>3, <2>4, <2>5
<1> QED
  BY <1>4, <1>5 DEF Reads

LEMMA NothingRead == ASSUME glance'.at = "rest" PROVE Reads'
BY DEF Reads

\* A failure that was read stays in the transcript.
LEMMA FailureKept ==
  ASSUME ChatInv,
         \A s \in Cloud!Sessions :
            /\ Len(talk[s]) \in Nat /\ Len(talk'[s]) \in Nat /\ Len(talk[s]) <= Len(talk'[s])
            /\ \A j \in 1..Len(talk[s]) : talk'[s][j] = talk[s][j],
         \A s \in Cloud!Sessions :
            chats'[s].failure # "none" => chats'[s].failure = chats[s].failure /\ chats'[s].sent = chats[s].sent
  PROVE  FailureRead'
<1> SUFFICES ASSUME NEW s \in Cloud!Sessions, chats'[s].failure # "none"
             PROVE  \E j \in 1..Len(talk'[s]) : talk'[s][j].turn = chats'[s].sent /\ talk'[s][j].kind \in Bad
  BY DEF FailureRead
<1>1. chats[s].failure # "none" /\ chats'[s].sent = chats[s].sent
  OBVIOUS
<1>2. PICK j \in 1..Len(talk[s]) : talk[s][j].turn = chats[s].sent /\ talk[s][j].kind \in Bad
  BY <1>1 DEF ChatInv, FailureRead
<1>3. j \in 1..Len(talk'[s]) /\ talk'[s][j] = talk[s][j]
  BY <1>2
<1> QED
  BY <1>1, <1>2, <1>3

CloudInv == ChatInv /\ FailInv
GivenSame == \A s \in Cloud!Sessions : Given(s)' = Given(s)

\* The turns of a session, place by place.
LEMMA Prompts ==
  ASSUME ChatShape, NEW s \in Cloud!Sessions
  PROVE  /\ Len(talk[s]) \in Nat /\ Len(behind[s]) \in Nat /\ doing[s] \in Nat
         /\ \A j \in 1..Len(talk[s]) : talk[s][j] \in Said /\ talk[s][j].turn \in Nat
         /\ \A i \in 1..Len(behind[s]) : behind[s][i] \in Nat
         /\ \A n : n \in Cloud!PromptsIn(s) <=> \E j \in 1..Len(talk[s]) : n = talk[s][j].turn
         /\ \A n : n \in Cloud!Busy(s) <=> \/ \E i \in 1..Len(behind[s]) : n = behind[s][i]
                                           \/ n = doing[s] /\ n # 0
         /\ \A n : n \in Given(s) <=> n \in Cloud!Busy(s) \/ n \in Cloud!PromptsIn(s)
<1>1. talk[s] \in Seq(Said) /\ behind[s] \in Seq(Nat) /\ doing[s] \in Nat
  BY DEF ChatShape
<1>2. DOMAIN talk[s] = 1..Len(talk[s]) /\ DOMAIN behind[s] = 1..Len(behind[s])
  BY <1>1
<1>3. \A j \in 1..Len(talk[s]) : talk[s][j] \in Said /\ talk[s][j].turn \in Nat
  <2>1. \A j \in 1..Len(talk[s]) : talk[s][j] \in Said
    BY <1>1
  <2>2. \A x \in Said : x.turn \in Nat
    BY DEF Said
  <2> QED
    BY <2>1, <2>2
<1>4. \A n : n \in Cloud!PromptsIn(s) <=> \E j \in 1..Len(talk[s]) : n = talk[s][j].turn
  BY <1>2 DEF Cloud!PromptsIn
<1>5. \A n : n \in Cloud!Busy(s) <=> \/ \E i \in 1..Len(behind[s]) : n = behind[s][i]
                                     \/ n = doing[s] /\ n # 0
  BY <1>2 DEF Cloud!Busy, Cloud!WaitingIn
<1> QED
  BY <1>1, <1>3, <1>4, <1>5 DEF Given

LEMMA PromptsNext ==
  ASSUME ChatShape', NEW s \in Cloud!Sessions
  PROVE  /\ Len(talk'[s]) \in Nat /\ Len(behind'[s]) \in Nat /\ doing'[s] \in Nat
         /\ \A j \in 1..Len(talk'[s]) : talk'[s][j] \in Said /\ talk'[s][j].turn \in Nat
         /\ \A i \in 1..Len(behind'[s]) : behind'[s][i] \in Nat
         /\ \A n : n \in Cloud!PromptsIn(s)' <=> \E j \in 1..Len(talk'[s]) : n = talk'[s][j].turn
         /\ \A n : n \in Cloud!Busy(s)' <=> \/ \E i \in 1..Len(behind'[s]) : n = behind'[s][i]
                                            \/ n = doing'[s] /\ n # 0
         /\ \A n : n \in Given(s)' <=> n \in Cloud!Busy(s)' \/ n \in Cloud!PromptsIn(s)'
<1>1. talk'[s] \in Seq(Said) /\ behind'[s] \in Seq(Nat) /\ doing'[s] \in Nat
  BY DEF ChatShape
<1>2. DOMAIN talk'[s] = 1..Len(talk'[s]) /\ DOMAIN behind'[s] = 1..Len(behind'[s])
  BY <1>1
<1>3. \A j \in 1..Len(talk'[s]) : talk'[s][j] \in Said /\ talk'[s][j].turn \in Nat
  <2>1. \A j \in 1..Len(talk'[s]) : talk'[s][j] \in Said
    BY <1>1
  <2>2. \A x \in Said : x.turn \in Nat
    BY DEF Said
  <2> QED
    BY <2>1, <2>2
<1>4. \A n : n \in Cloud!PromptsIn(s)' <=> \E j \in 1..Len(talk'[s]) : n = talk'[s][j].turn
  BY <1>2 DEF Cloud!PromptsIn
<1>5. \A n : n \in Cloud!Busy(s)' <=> \/ \E i \in 1..Len(behind'[s]) : n = behind'[s][i]
                                      \/ n = doing'[s] /\ n # 0
  BY <1>2 DEF Cloud!Busy, Cloud!WaitingIn
<1> QED
  BY <1>1, <1>3, <1>4, <1>5 DEF Given

LEMMA AgentsRest ==
  ASSUME UNCHANGED <<talk, doing, behind>>
  PROVE  AgentsKeep /\ GivenSame
BY DEF AgentsKeep, GivenSame, Given, Cloud!Busy, Cloud!WaitingIn, Cloud!PromptsIn

LEMMA LastKept ==
  ASSUME ChatInv, LastSent,
         ~ended' => /\ ~ended /\ GivenSame /\ Passed' = Passed
                    /\ \A s \in Cloud!Sessions : chats'[s].sent = chats[s].sent
                    /\ hand'.at = "record" => hand.at = "record" /\ tape'[1] = tape[1]
  PROVE  LastSent'
<1> SUFFICES ASSUME ~ended' PROVE LastSent'
  BY DEF LastSent
<1>1. /\ \A s \in Cloud!Sessions : chats[s].sent # 0 =>
            chats[s].sent \in Given(s) /\ \A m \in Given(s) : m <= chats[s].sent \/ m = Passed + 1
      /\ hand.at = "record" => tape[1].turn \in Given(tape[1].session)
  BY DEF LastSent
<1>2. hand'.at = "record" => tape[1].session \in Cloud!Sessions
  BY DEF ChatInv, Going
<1>3. hand'.at = "record" => (tape[1].turn \in Given(tape[1].session))'
  BY <1>1, <1>2 DEF GivenSame
<1> QED
  BY <1>1, <1>3 DEF LastSent, GivenSame

LEMMA FailuresKept ==
  ASSUME Failures, talk' = talk, faulty' = faulty, result \subseteq result'
  PROVE  Failures'
<1>1. \A s \in Cloud!Sessions : Cloud!PromptsIn(s)' = Cloud!PromptsIn(s)
  BY DEF Cloud!PromptsIn
<1> QED
  BY <1>1 DEF Failures

\* A step of the agents, or of the owner: nothing of the gateway moves.
LEMMA GatewayRests ==
  ASSUME CloudInv, UNCHANGED <<tape, chapter, hand, chats, newest, glance, reach>>,
         ended' = ended \/ ended', ended => ended',
         AgentsKeep, ended' \/ GivenSame, slept' \in BOOLEAN,
         talk' \in [Cloud!Sessions -> Seq(Said)], doing' \in [Cloud!Sessions -> Nat],
         behind' \in [Cloud!Sessions -> Seq(Nat)],
         faulty' \in [Cloud!Sessions -> {"none", "interrupted", "spent", "other"}],
         \A s \in Cloud!Sessions :
            Len(talk[s]) <= Len(talk'[s]) /\ \A j \in 1..Len(talk[s]) : talk'[s][j] = talk[s][j],
         TurnOrder', Failures'
  PROVE  CloudInv'
<1>1. ChatInv /\ FailInv /\ ChatShape /\ LastSent
  BY DEF CloudInv, ChatInv, FailInv
<1>2. ChatShape'
  BY <1>1 DEF ChatShape
<1>3. Passed' = Passed
  BY DEF Passed
<1>4. ChatsKeep
  BY DEF ChatsKeep, ChatKept
<1>5. InLine' /\ Going' /\ Homes' /\ OwnTurns' /\ Sent' /\ OneRowEach' /\ OnePlace'
  BY <1>1, <1>2, <1>4, LineKept DEF ChatsKeep
<1>6. Reads'
  <2>1. \A n \in 1..Passed : Left(chapter[n]) => Left(chapter[n])'
    <3> SUFFICES ASSUME NEW n \in 1..Passed, Left(chapter[n]) PROVE Left(chapter[n])'
      OBVIOUS
    <3>1. PICK e : e = chapter[n]
      OBVIOUS
    <3>2. Left(e)'
      BY <1>1, <3>1, PlacesStay
    <3> QED
      BY <3>1, <3>2 DEF Left
  <2>2. Passed \in Nat
    BY <1>1, LineCounts
  <2> QED
    BY <1>1, <1>2, <1>3, <2>1, <2>2, ReadsKept
<1>7. FailureRead'
  <2>1. \A s \in Cloud!Sessions : Len(talk[s]) \in Nat /\ Len(talk'[s]) \in Nat
    BY <1>1, <1>2, Prompts, PromptsNext
  <2> QED
    BY <1>1, <2>1, FailureKept
<1>8. LastSent'
  BY <1>1, <1>3, LastKept
<1> QED
  BY <1>2, <1>5, <1>6, <1>7, <1>8 DEF CloudInv, ChatInv, FailInv

\* An agent writes lines of the turn it is at, ends it perhaps, and perhaps as a failure.
LEMMA AgentWrites ==
  ASSUME CloudInv, UNCHANGED <<tape, chapter, hand, chats, newest, glance, reach, ended, slept, behind>>,
         NEW s \in Cloud!Sessions, doing[s] # 0, NEW lines \in Seq(Said),
         \A j \in 1..Len(lines) :
            /\ lines[j].turn = doing[s]
            /\ lines[j].kind \in Bad => <<doing[s], "failed">> \in result',
         talk' = [talk EXCEPT ![s] = @ \o lines], result \subseteq result',
         doing' = doing \/ doing' = [doing EXCEPT ![s] = 0],
         \/ faulty' = faulty
         \/ /\ doing' = [doing EXCEPT ![s] = 0] /\ <<doing[s], "failed">> \in result'
            /\ \E how \in {"interrupted", "spent", "other"} : faulty' = [faulty EXCEPT ![s] = how]
  PROVE  CloudInv'
<1>1. ChatShape /\ TurnOrder /\ Failures
  BY DEF CloudInv, ChatInv, FailInv
<1>2. /\ talk' \in [Cloud!Sessions -> Seq(Said)] /\ doing' \in [Cloud!Sessions -> Nat]
      /\ behind' \in [Cloud!Sessions -> Seq(Nat)] /\ slept' \in BOOLEAN
      /\ faulty' \in [Cloud!Sessions -> {"none", "interrupted", "spent", "other"}]
      /\ \A t \in Cloud!Sessions \ {s} : talk'[t] = talk[t] /\ doing'[t] = doing[t] /\ faulty'[t] = faulty[t]
      /\ talk'[s] = talk[s] \o lines /\ doing'[s] \in {doing[s], 0}
      /\ faulty'[s] = faulty[s] \/ (doing'[s] = 0 /\ <<doing[s], "failed">> \in result')
  <2>1. talk[s] \in Seq(Said) /\ talk[s] \o lines \in Seq(Said)
    BY <1>1 DEF ChatShape
  <2>2. /\ talk' \in [Cloud!Sessions -> Seq(Said)] /\ talk'[s] = talk[s] \o lines
        /\ \A t \in Cloud!Sessions \ {s} : talk'[t] = talk[t]
    BY <1>1, <2>1 DEF ChatShape
  <2>3. /\ doing' \in [Cloud!Sessions -> Nat] /\ doing'[s] \in {doing[s], 0}
        /\ \A t \in Cloud!Sessions \ {s} : doing'[t] = doing[t]
    <3>1. doing \in [Cloud!Sessions -> Nat]
      BY <1>1 DEF ChatShape
    <3>2. CASE doing' = doing
      BY <3>1, <3>2
    <3>3. CASE doing' = [doing EXCEPT ![s] = 0]
      BY <3>1, <3>3
    <3> QED
      BY <3>2, <3>3
  <2>4. /\ faulty' \in [Cloud!Sessions -> {"none", "interrupted", "spent", "other"}]
        /\ faulty'[s] = faulty[s] \/ (doing'[s] = 0 /\ <<doing[s], "failed">> \in result')
        /\ \A t \in Cloud!Sessions \ {s} : faulty'[t] = faulty[t]
    BY <1>1 DEF ChatShape
  <2> QED
    BY <1>1, <2>2, <2>3, <2>4 DEF ChatShape
<1>3. /\ Len(talk[s]) \in Nat /\ Len(lines) \in Nat /\ Len(talk'[s]) = Len(talk[s]) + Len(lines)
      /\ \A j \in 1..Len(talk[s]) : talk'[s][j] = talk[s][j]
      /\ \A j \in 1..Len(talk'[s]) : j \in 1..Len(talk[s]) \/ j - Len(talk[s]) \in 1..Len(lines)
      /\ \A j \in 1..Len(talk'[s]) : j \notin 1..Len(talk[s]) => talk'[s][j] = lines[j - Len(talk[s])]
  <2>1. talk[s] \in Seq(Said)
    BY <1>1 DEF ChatShape
  <2> QED
    BY <1>2, <2>1
<1>4. \A j \in 1..Len(talk'[s]) :
        \/ j \in 1..Len(talk[s]) /\ talk'[s][j] = talk[s][j]
        \/ talk'[s][j].turn = doing[s] /\ (talk'[s][j].kind \in Bad => <<doing[s], "failed">> \in result')
  BY <1>3
<1>5. ChatShape'
  BY <1>1, <1>2 DEF ChatShape
<1>6. doing[s] \in Cloud!PromptsIn(s) /\ \A n \in Cloud!PromptsIn(s) : n <= doing[s]
  BY <1>1 DEF TurnOrder
<1>7. \A n : n \in Cloud!PromptsIn(s)' <=> n \in Cloud!PromptsIn(s)
  <2>1. ASSUME NEW n \in Cloud!PromptsIn(s)' PROVE n \in Cloud!PromptsIn(s)
    <3>1. PICK j \in 1..Len(talk'[s]) : n = talk'[s][j].turn
      <4>1. \A m : m \in Cloud!PromptsIn(s)' <=> \E j \in 1..Len(talk'[s]) : m = talk'[s][j].turn
        BY <1>5, PromptsNext
      <4> QED
        BY <2>1, <4>1
    <3>2. CASE j \in 1..Len(talk[s]) /\ talk'[s][j] = talk[s][j]
      BY <1>1, <3>1, <3>2, Prompts
    <3>3. CASE talk'[s][j].turn = doing[s]
      BY <1>6, <3>1, <3>3
    <3> QED
      BY <1>4, <3>2, <3>3
  <2>2. ASSUME NEW n \in Cloud!PromptsIn(s) PROVE n \in Cloud!PromptsIn(s)'
    <3>1. PICK j \in 1..Len(talk[s]) : n = talk[s][j].turn
      BY <1>1, Prompts
    <3>2. j \in 1..Len(talk'[s]) /\ talk'[s][j] = talk[s][j]
      BY <1>3
    <3> QED
      BY <1>5, <3>1, <3>2, PromptsNext
  <2> QED
    BY <2>1, <2>2
<1>8. \A t \in Cloud!Sessions \ {s} : Cloud!Busy(t)' = Cloud!Busy(t) /\ Cloud!PromptsIn(t)' = Cloud!PromptsIn(t)
  BY <1>2 DEF Cloud!Busy, Cloud!WaitingIn, Cloud!PromptsIn
<1>9. Cloud!Busy(s)' \subseteq Cloud!Busy(s) /\ Cloud!Busy(s) \subseteq Cloud!Busy(s)' \cup {doing[s]}
  BY <1>2 DEF Cloud!Busy, Cloud!WaitingIn
<1>10. AgentsKeep /\ GivenSame
  <2>1. \A t \in Cloud!Sessions : Given(t)' = Given(t) /\ Cloud!Busy(t)' \subseteq Cloud!Busy(t)
    BY <1>6, <1>7, <1>8, <1>9 DEF Given
  <2> QED
    BY <2>1 DEF AgentsKeep, GivenSame
<1>11. TurnOrder'
  <2> SUFFICES ASSUME NEW t \in Cloud!Sessions
      PROVE  /\ \A i, j \in 1..Len(behind[t]) : i < j => behind[t][i] < behind[t][j]
             /\ \A i \in 1..Len(behind[t]), j \in 1..Len(talk'[t]) : talk'[t][j].turn < behind[t][i]
             /\ doing'[t] # 0 => /\ doing'[t] \in Cloud!PromptsIn(t)'
                                 /\ \A n \in Cloud!PromptsIn(t)' : n <= doing'[t]
             /\ faulty'[t] # "none" => doing'[t] = 0
    BY DEF TurnOrder
  <2>1. /\ \A i, j \in 1..Len(behind[t]) : i < j => behind[t][i] < behind[t][j]
        /\ \A i \in 1..Len(behind[t]), j \in 1..Len(talk[t]) : talk[t][j].turn < behind[t][i]
        /\ doing[t] # 0 => /\ doing[t] \in Cloud!PromptsIn(t)
                           /\ \A n \in Cloud!PromptsIn(t) : n <= doing[t]
        /\ faulty[t] # "none" => doing[t] = 0
    BY <1>1 DEF TurnOrder
  <2>2. CASE t # s
    BY <1>2, <1>8, <2>1, <2>2
  <2>3. CASE t = s
    <3>1. \A i \in 1..Len(behind[s]), j \in 1..Len(talk'[s]) : talk'[s][j].turn < behind[s][i]
      <4> TAKE i \in 1..Len(behind[s]), j \in 1..Len(talk'[s])
      <4>1. PICK k \in 1..Len(talk[s]) : talk'[s][j].turn = talk[s][k].turn
        <5>1. PICK n : n = talk'[s][j].turn
          OBVIOUS
        <5>2. n \in Cloud!PromptsIn(s)
          BY <1>5, <1>7, <5>1, PromptsNext
        <5>3. PICK k \in 1..Len(talk[s]) : n = talk[s][k].turn
          BY <1>1, <5>2, Prompts
        <5> QED
          BY <5>1, <5>3
      <4> QED
        BY <2>1, <2>3, <4>1
    <3> QED
      BY <1>2, <1>7, <2>1, <2>3, <3>1
  <2> QED
    BY <2>2, <2>3
<1>12. Failures'
  <2> SUFFICES ASSUME NEW t \in Cloud!Sessions
      PROVE  /\ \A j \in 1..Len(talk'[t]) : talk'[t][j].kind \in Bad => <<talk'[t][j].turn, "failed">> \in result'
             /\ faulty'[t] # "none" => \E n \in Cloud!PromptsIn(t)' :
                   (\A m \in Cloud!PromptsIn(t)' : m <= n) /\ <<n, "failed">> \in result'
    BY DEF Failures
  <2>1. /\ \A j \in 1..Len(talk[t]) : talk[t][j].kind \in Bad => <<talk[t][j].turn, "failed">> \in result
        /\ faulty[t] # "none" => \E n \in Cloud!PromptsIn(t) :
              (\A m \in Cloud!PromptsIn(t) : m <= n) /\ <<n, "failed">> \in result
    BY <1>1 DEF Failures
  <2>2. CASE t # s
    <3>1. talk'[t] = talk[t] /\ faulty'[t] = faulty[t] /\ Cloud!PromptsIn(t)' = Cloud!PromptsIn(t)
      BY <1>2, <1>8, <2>2
    <3> QED
      BY <2>1, <3>1
  <2>3. CASE t = s
    <3>1. \A j \in 1..Len(talk'[s]) : talk'[s][j].kind \in Bad => <<talk'[s][j].turn, "failed">> \in result'
      BY <1>4, <2>1, <2>3
    <3>2. faulty[s] = "none"
      BY <1>1 DEF TurnOrder
    <3>3. faulty'[s] # "none" => <<doing[s], "failed">> \in result'
      BY <1>2, <3>2
    <3> QED
      BY <1>6, <1>7, <2>3, <3>1, <3>3
  <2> QED
    BY <2>2, <2>3
<1>13. \A t \in Cloud!Sessions :
         Len(talk[t]) <= Len(talk'[t]) /\ \A j \in 1..Len(talk[t]) : talk'[t][j] = talk[t][j]
  <2> TAKE t \in Cloud!Sessions
  <2>1. Len(talk[t]) \in Nat
    BY <1>1, Prompts
  <2> QED
    BY <1>2, <1>3, <2>1
<1> QED
  BY <1>2, <1>10, <1>11, <1>12, <1>13, GatewayRests

LEMMA WritingStep ==
  ASSUME CloudInv, NEW s \in Cloud!Sessions,
         \/ Cloud!AgentSpeaks(s) \/ Cloud!AgentFinishes(s)
         \/ \E how \in {"interrupted", "spent", "other"} : Cloud!AgentFails(s, how)
  PROVE  CloudInv'
<1>1. ChatShape
  BY DEF CloudInv, ChatInv
<1>2. talk \in [Cloud!Sessions -> Seq(Said)] /\ talk[s] \in Seq(Said) /\ doing[s] \in Nat
  BY <1>1 DEF ChatShape
<1> DEFINE Writ(lines) ==
      /\ lines \in Seq(Said)
      /\ \A j \in 1..Len(lines) : /\ lines[j].turn = doing[s]
                                  /\ lines[j].kind \in Bad => <<doing[s], "failed">> \in result'
<1>3. \A kind \in {"prompt", "text", "completed", "interrupted", "spent", "other"} :
        [turn |-> doing[s], kind |-> kind] \in Said
  BY <1>2 DEF Said
<1>4. CASE Cloud!AgentSpeaks(s)
  <2>1. /\ UNCHANGED <<tape, chapter, hand, chats, newest, glance, reach, ended, slept, behind, doing, faulty, result>>
        /\ doing[s] # 0 /\ talk' = [talk EXCEPT ![s] = Append(@, [turn |-> doing[s], kind |-> "text"])]
    BY <1>4 DEF Cloud!AgentSpeaks, Cloud!handler, Cloud!store
  <2>2. PICK line : line = [turn |-> doing[s], kind |-> "text"]
    OBVIOUS
  <2>3. line \in Said /\ line.turn = doing[s] /\ line.kind \notin Bad
    BY <1>3, <2>2 DEF Bad
  <2>4. PICK lines : lines = <<line>>
    OBVIOUS
  <2>5. Writ(lines)
    BY <2>3, <2>4
  <2>6. talk[s] \o lines = Append(talk[s], line)
    BY <1>2, <2>3, <2>4
  <2>7. talk' = [talk EXCEPT ![s] = @ \o lines]
    BY <2>1, <2>2, <2>6
  <2> QED
    BY <2>1, <2>5, <2>7, AgentWrites
<1>5. CASE Cloud!AgentFinishes(s)
  <2>1. /\ UNCHANGED <<tape, chapter, hand, chats, newest, glance, reach, ended, slept, behind, faulty>>
        /\ doing[s] # 0 /\ result \subseteq result' /\ doing' = [doing EXCEPT ![s] = 0]
        /\ talk' = [talk EXCEPT ![s] =
             @ \o << [turn |-> doing[s], kind |-> "text"], [turn |-> doing[s], kind |-> "completed"] >>]
    BY <1>5 DEF Cloud!AgentFinishes, Cloud!Ends, Cloud!handler, Cloud!store
  <2>2. PICK one, two : /\ one = [turn |-> doing[s], kind |-> "text"]
                        /\ two = [turn |-> doing[s], kind |-> "completed"]
    OBVIOUS
  <2>3. /\ one \in Said /\ one.turn = doing[s] /\ one.kind \notin Bad
        /\ two \in Said /\ two.turn = doing[s] /\ two.kind \notin Bad
    BY <1>3, <2>2 DEF Bad
  <2>4. PICK lines : lines = <<one, two>>
    OBVIOUS
  <2>5. Writ(lines)
    BY <2>3, <2>4
  <2>6. talk' = [talk EXCEPT ![s] = @ \o lines]
    BY <2>1, <2>2, <2>4
  <2> QED
    BY <2>1, <2>5, <2>6, AgentWrites
<1>6. ASSUME NEW how \in {"interrupted", "spent", "other"}, Cloud!AgentFails(s, how) PROVE CloudInv'
  <2>1. /\ UNCHANGED <<tape, chapter, hand, chats, newest, glance, reach, ended, slept, behind>>
        /\ doing[s] # 0 /\ result' = result \cup {<<doing[s], "failed">>}
        /\ doing' = [doing EXCEPT ![s] = 0]
        /\ \/ talk' = [talk EXCEPT ![s] = Append(@, [turn |-> doing[s], kind |-> how])] /\ faulty' = faulty
           \/ faulty' = [faulty EXCEPT ![s] = how] /\ talk' = talk
    BY <1>6 DEF Cloud!AgentFails, Cloud!Ends, Cloud!handler, Cloud!store
  <2>2. PICK line : line = [turn |-> doing[s], kind |-> how]
    OBVIOUS
  <2>3. line \in Said /\ line.turn = doing[s] /\ <<doing[s], "failed">> \in result'
    BY <1>3, <2>1, <2>2
  <2>4. CASE talk' = [talk EXCEPT ![s] = Append(@, [turn |-> doing[s], kind |-> how])] /\ faulty' = faulty
    <3>1. PICK lines : lines = <<line>>
      OBVIOUS
    <3>2. Writ(lines)
      BY <2>3, <3>1
    <3>3. talk[s] \o lines = Append(talk[s], line)
      BY <1>2, <2>3, <3>1
    <3>4. talk' = [talk EXCEPT ![s] = @ \o lines]
      BY <2>2, <2>4, <3>3
    <3>5. result \subseteq result'
      BY <2>1
    <3> QED
      BY <2>1, <2>4, <3>2, <3>4, <3>5, AgentWrites
  <2>5. CASE faulty' = [faulty EXCEPT ![s] = how] /\ talk' = talk
    <3>1. PICK lines : lines = << >>
      OBVIOUS
    <3>2. Writ(lines)
      BY <3>1
    <3>3. talk[s] \o lines = talk[s]
      BY <1>2, <3>1
    <3>4. talk' = [talk EXCEPT ![s] = @ \o lines]
      BY <1>2, <2>5, <3>3
    <3>5. result \subseteq result'
      BY <2>1
    <3> QED
      BY <2>1, <2>3, <2>5, <3>2, <3>4, <3>5, AgentWrites
  <2> QED
    BY <2>1, <2>4, <2>5
<1> QED
  BY <1>4, <1>5, <1>6

LEMMA TakingStep == ASSUME CloudInv, NEW s \in Cloud!Sessions, Cloud!AgentTakes(s) PROVE CloudInv'
<1>1. ChatShape /\ TurnOrder /\ Failures /\ Homes
  BY DEF CloudInv, ChatInv, FailInv
<1>2. /\ UNCHANGED <<tape, chapter, hand, chats, newest, glance, reach, ended, slept, result>>
      /\ doing[s] = 0 /\ behind[s] # << >>
      /\ doing' = [doing EXCEPT ![s] = behind[s][1]] /\ behind' = [behind EXCEPT ![s] = Tail(@)]
      /\ talk' = [talk EXCEPT ![s] = Append(@, [turn |-> behind[s][1], kind |-> "prompt"])]
      /\ faulty' = [faulty EXCEPT ![s] = "none"]
  BY DEF Cloud!AgentTakes, Cloud!handler, Cloud!store
<1>3. talk[s] \in Seq(Said) /\ behind[s] \in Seq(Nat)
  BY <1>1 DEF ChatShape
<1>4. PICK n \in Nat : n = behind[s][1] /\ 1 \in 1..Len(behind[s])
  BY <1>2, <1>3
<1>5. PICK line \in Said : line = [turn |-> n, kind |-> "prompt"]
  BY DEF Said
<1>6. line.turn = n /\ line.kind \notin Bad
  BY <1>5 DEF Bad
<1>7. /\ Append(talk[s], line) \in Seq(Said) /\ Len(Append(talk[s], line)) = Len(talk[s]) + 1
      /\ \A j \in 1..Len(talk[s]) : Append(talk[s], line)[j] = talk[s][j]
      /\ Append(talk[s], line)[Len(talk[s]) + 1] = line
      /\ Len(talk[s]) \in Nat
  BY <1>3
<1>8. /\ Tail(behind[s]) \in Seq(Nat) /\ Len(Tail(behind[s])) = Len(behind[s]) - 1
      /\ \A i \in 1..(Len(behind[s]) - 1) : Tail(behind[s])[i] = behind[s][i + 1]
      /\ Len(behind[s]) \in Nat \ {0}
  BY <1>2, <1>3
<1>9. /\ talk' \in [Cloud!Sessions -> Seq(Said)] /\ doing' \in [Cloud!Sessions -> Nat]
      /\ behind' \in [Cloud!Sessions -> Seq(Nat)]
      /\ faulty' \in [Cloud!Sessions -> {"none", "interrupted", "spent", "other"}]
      /\ \A t \in Cloud!Sessions \ {s} : /\ talk'[t] = talk[t] /\ doing'[t] = doing[t]
                                         /\ faulty'[t] = faulty[t] /\ behind'[t] = behind[t]
      /\ talk'[s] = Append(talk[s], line) /\ doing'[s] = n /\ faulty'[s] = "none"
      /\ behind'[s] = Tail(behind[s])
  <2>1. /\ talk' \in [Cloud!Sessions -> Seq(Said)] /\ talk'[s] = Append(talk[s], line)
        /\ \A t \in Cloud!Sessions \ {s} : talk'[t] = talk[t]
    BY <1>1, <1>2, <1>4, <1>5, <1>7 DEF ChatShape
  <2>2. /\ doing' \in [Cloud!Sessions -> Nat] /\ doing'[s] = n
        /\ \A t \in Cloud!Sessions \ {s} : doing'[t] = doing[t]
    BY <1>1, <1>2, <1>4 DEF ChatShape
  <2>3. /\ behind' \in [Cloud!Sessions -> Seq(Nat)] /\ behind'[s] = Tail(behind[s])
        /\ \A t \in Cloud!Sessions \ {s} : behind'[t] = behind[t]
    BY <1>1, <1>2, <1>8 DEF ChatShape
  <2>4. /\ faulty' \in [Cloud!Sessions -> {"none", "interrupted", "spent", "other"}] /\ faulty'[s] = "none"
        /\ \A t \in Cloud!Sessions \ {s} : faulty'[t] = faulty[t]
    BY <1>1, <1>2 DEF ChatShape
  <2> QED
    BY <2>1, <2>2, <2>3, <2>4
<1>10. /\ Len(talk'[s]) = Len(talk[s]) + 1 /\ talk'[s][Len(talk[s]) + 1] = line
       /\ \A j \in 1..Len(talk[s]) : talk'[s][j] = talk[s][j]
  BY <1>7, <1>9
<1>11. /\ Len(behind'[s]) = Len(behind[s]) - 1
       /\ \A i \in 1..Len(behind'[s]) : behind'[s][i] = behind[s][i + 1] /\ i + 1 \in 1..Len(behind[s])
  BY <1>8, <1>9
<1>12. ChatShape' /\ slept' \in BOOLEAN
  BY <1>1, <1>2, <1>9 DEF ChatShape
<1>13. \A i \in 1..Len(behind[s]) :
         i = 1 \/ (i - 1 \in 1..Len(behind'[s]) /\ behind[s][i] = behind'[s][i - 1])
  <2> TAKE i \in 1..Len(behind[s])
  <2>1. i = 1 \/ i - 1 \in 1..Len(behind'[s])
    BY <1>8, <1>11
  <2>2. ASSUME i - 1 \in 1..Len(behind'[s]) PROVE behind[s][i] = behind'[s][i - 1]
    <3>1. behind'[s][i - 1] = behind[s][(i - 1) + 1] /\ (i - 1) + 1 = i
      BY <1>8, <1>11, <2>2
    <3> QED
      BY <3>1
  <2> QED
    BY <2>1, <2>2
<1>14. n \in Given(s) /\ n \in Cloud!Busy(s) /\ n # 0
  <2>1. n \in Cloud!Busy(s)
    BY <1>1, <1>4, Prompts
  <2>2. n \in Given(s)
    BY <2>1 DEF Given
  <2> QED
    BY <1>1, <2>1, <2>2 DEF Homes
<1>15. \A m : m \in Cloud!Busy(s)' => m \in Cloud!Busy(s)
  <2> SUFFICES ASSUME NEW m \in Cloud!Busy(s)' PROVE m \in Cloud!Busy(s)
    OBVIOUS
  <2>1. (\E i \in 1..Len(behind'[s]) : m = behind'[s][i]) \/ m = n
    BY <1>9, <1>12, PromptsNext
  <2>2. CASE m = n
    BY <1>14, <2>2
  <2>3. ASSUME NEW i \in 1..Len(behind'[s]), m = behind'[s][i] PROVE m \in Cloud!Busy(s)
    <3>1. i + 1 \in 1..Len(behind[s]) /\ m = behind[s][i + 1]
      BY <1>11, <2>3
    <3> QED
      BY <1>1, <3>1, Prompts
  <2> QED
    BY <2>1, <2>2, <2>3
<1>16. \A m : m \in Cloud!PromptsIn(s)' <=> m \in Cloud!PromptsIn(s) \/ m = n
  <2>1. \A j \in 1..Len(talk'[s]) : j \in 1..Len(talk[s]) \/ j = Len(talk[s]) + 1
    BY <1>7, <1>10
  <2>2. ASSUME NEW m, m \in Cloud!PromptsIn(s)' PROVE m \in Cloud!PromptsIn(s) \/ m = n
    <3>1. PICK j \in 1..Len(talk'[s]) : m = talk'[s][j].turn
      BY <1>12, <2>2, PromptsNext
    <3>2. CASE j \in 1..Len(talk[s])
      <4>1. m = talk[s][j].turn
        BY <1>10, <3>1, <3>2
      <4> QED
        BY <1>1, <3>2, <4>1, Prompts
    <3> QED
      BY <1>6, <1>10, <2>1, <3>1, <3>2
  <2>3. ASSUME NEW m, m \in Cloud!PromptsIn(s) PROVE m \in Cloud!PromptsIn(s)'
    <3>1. PICK j \in 1..Len(talk[s]) : m = talk[s][j].turn
      BY <1>1, <2>3, Prompts
    <3>2. j \in 1..Len(talk'[s]) /\ m = talk'[s][j].turn
      BY <1>7, <1>10, <3>1
    <3> QED
      BY <1>12, <3>2, PromptsNext
  <2>4. n \in Cloud!PromptsIn(s)'
    <3>1. PICK j : j = Len(talk[s]) + 1
      OBVIOUS
    <3>2. j \in 1..Len(talk'[s]) /\ n = talk'[s][j].turn
      BY <1>6, <1>7, <1>10, <3>1
    <3> QED
      BY <1>12, <3>2, PromptsNext
  <2> QED
    BY <2>2, <2>3, <2>4
<1>17. \A m : m \in Cloud!Busy(s) => m \in Cloud!Busy(s)' \/ m = n
  <2> SUFFICES ASSUME NEW m \in Cloud!Busy(s), m # n PROVE m \in Cloud!Busy(s)'
    OBVIOUS
  <2>1. PICK i \in 1..Len(behind[s]) : m = behind[s][i]
    BY <1>1, <1>2, Prompts
  <2>2. i - 1 \in 1..Len(behind'[s]) /\ m = behind'[s][i - 1]
    BY <1>4, <1>13, <2>1
  <2> QED
    BY <1>12, <2>2, PromptsNext
<1>18. \A t \in Cloud!Sessions \ {s} : Cloud!Busy(t)' = Cloud!Busy(t) /\ Cloud!PromptsIn(t)' = Cloud!PromptsIn(t)
  <2> TAKE t \in Cloud!Sessions \ {s}
  <2>1. talk'[t] = talk[t] /\ doing'[t] = doing[t] /\ behind'[t] = behind[t]
    BY <1>9
  <2> QED
    BY <2>1 DEF Cloud!Busy, Cloud!WaitingIn, Cloud!PromptsIn
<1>19. AgentsKeep /\ GivenSame
  <2>1. Given(s)' = Given(s) /\ Cloud!Busy(s)' \subseteq Cloud!Busy(s)
    BY <1>14, <1>15, <1>16, <1>17 DEF Given
  <2>2. \A t \in Cloud!Sessions : Given(t)' = Given(t) /\ Cloud!Busy(t)' \subseteq Cloud!Busy(t)
    BY <1>18, <2>1 DEF Given
  <2> QED
    BY <2>2 DEF AgentsKeep, GivenSame
<1>20. TurnOrder'
  <2> SUFFICES ASSUME NEW t \in Cloud!Sessions
      PROVE  /\ \A i, j \in 1..Len(behind'[t]) : i < j => behind'[t][i] < behind'[t][j]
             /\ \A i \in 1..Len(behind'[t]), j \in 1..Len(talk'[t]) : talk'[t][j].turn < behind'[t][i]
             /\ doing'[t] # 0 => /\ doing'[t] \in Cloud!PromptsIn(t)'
                                 /\ \A m \in Cloud!PromptsIn(t)' : m <= doing'[t]
             /\ faulty'[t] # "none" => doing'[t] = 0
    BY DEF TurnOrder
  <2>1. /\ \A i, j \in 1..Len(behind[t]) : i < j => behind[t][i] < behind[t][j]
        /\ \A i \in 1..Len(behind[t]), j \in 1..Len(talk[t]) : talk[t][j].turn < behind[t][i]
        /\ doing[t] # 0 => /\ doing[t] \in Cloud!PromptsIn(t)
                           /\ \A m \in Cloud!PromptsIn(t) : m <= doing[t]
        /\ faulty[t] # "none" => doing[t] = 0
    BY <1>1 DEF TurnOrder
  <2>2. CASE t # s
    BY <1>9, <1>18, <2>1, <2>2
  <2>3. CASE t = s
    <3>1. \A i, j \in 1..Len(behind'[s]) : i < j => behind'[s][i] < behind'[s][j]
      <4> SUFFICES ASSUME NEW i \in 1..Len(behind'[s]), NEW j \in 1..Len(behind'[s]), i < j
                   PROVE  behind'[s][i] < behind'[s][j]
        OBVIOUS
      <4>1. i + 1 \in 1..Len(behind[s]) /\ j + 1 \in 1..Len(behind[s]) /\ i + 1 < j + 1
        BY <1>8, <1>11
      <4>2. behind[s][i + 1] < behind[s][j + 1]
        BY <2>1, <2>3, <4>1
      <4> QED
        BY <1>11, <4>2
    <3>2. \A m \in Cloud!PromptsIn(s) : m < n
      <4> TAKE m \in Cloud!PromptsIn(s)
      <4>1. PICK j \in 1..Len(talk[s]) : m = talk[s][j].turn
        BY <1>1, Prompts
      <4> QED
        BY <1>4, <2>1, <2>3, <4>1
    <3>3. \A i \in 1..Len(behind'[s]), j \in 1..Len(talk'[s]) : talk'[s][j].turn < behind'[s][i]
      <4> TAKE i \in 1..Len(behind'[s]), j \in 1..Len(talk'[s])
      <4>1. i + 1 \in 1..Len(behind[s]) /\ 1 < i + 1 /\ behind'[s][i] = behind[s][i + 1]
        BY <1>8, <1>11
      <4>2. n < behind[s][i + 1]
        BY <1>4, <2>1, <2>3, <4>1
      <4>3. PICK m : m = talk'[s][j].turn
        OBVIOUS
      <4>4. m \in Cloud!PromptsIn(s)'
        BY <1>12, <4>3, PromptsNext
      <4>5. CASE m = n
        BY <4>1, <4>2, <4>3, <4>5
      <4>6. CASE m \in Cloud!PromptsIn(s)
        <5>1. PICK k \in 1..Len(talk[s]) : m = talk[s][k].turn
          BY <1>1, <4>6, Prompts
        <5> QED
          BY <2>1, <2>3, <4>1, <4>3, <5>1
      <4> QED
        BY <1>16, <4>4, <4>5, <4>6
    <3>4. /\ doing'[s] = n /\ faulty'[s] = "none"
          /\ n \in Cloud!PromptsIn(s)' /\ \A m \in Cloud!PromptsIn(s)' : m <= n
      <4>1. ASSUME NEW m \in Cloud!PromptsIn(s)' PROVE m <= n
        <5>1. m \in Nat
          BY <1>12, <4>1, PromptsNext
        <5>2. m < n \/ m = n
          BY <1>16, <3>2, <4>1
        <5> QED
          BY <5>1, <5>2
      <4> QED
        BY <1>9, <1>16, <4>1
    <3> QED
      BY <2>3, <3>1, <3>3, <3>4
  <2> QED
    BY <2>2, <2>3
<1>21. Failures'
  <2> SUFFICES ASSUME NEW t \in Cloud!Sessions
      PROVE  /\ \A j \in 1..Len(talk'[t]) : talk'[t][j].kind \in Bad => <<talk'[t][j].turn, "failed">> \in result'
             /\ faulty'[t] # "none" => \E m \in Cloud!PromptsIn(t)' :
                   (\A k \in Cloud!PromptsIn(t)' : k <= m) /\ <<m, "failed">> \in result'
    BY DEF Failures
  <2>1. /\ \A j \in 1..Len(talk[t]) : talk[t][j].kind \in Bad => <<talk[t][j].turn, "failed">> \in result
        /\ faulty[t] # "none" => \E m \in Cloud!PromptsIn(t) :
              (\A k \in Cloud!PromptsIn(t) : k <= m) /\ <<m, "failed">> \in result
    BY <1>1 DEF Failures
  <2>2. CASE t # s
    <3>1. talk'[t] = talk[t] /\ faulty'[t] = faulty[t] /\ Cloud!PromptsIn(t)' = Cloud!PromptsIn(t)
      BY <1>9, <1>18, <2>2
    <3>2. result' = result
      BY <1>2
    <3> QED
      BY <2>1, <3>1, <3>2
  <2>3. CASE t = s
    <3>1. \A j \in 1..Len(talk'[s]) : j \in 1..Len(talk[s]) \/ j = Len(talk[s]) + 1
      BY <1>7, <1>10
    <3> QED
      BY <1>2, <1>6, <1>9, <1>10, <2>1, <2>3, <3>1
  <2> QED
    BY <2>2, <2>3
<1>22. \A t \in Cloud!Sessions :
         Len(talk[t]) <= Len(talk'[t]) /\ \A j \in 1..Len(talk[t]) : talk'[t][j] = talk[t][j]
  <2> TAKE t \in Cloud!Sessions
  <2>1. Len(talk[t]) \in Nat
    BY <1>1, Prompts
  <2>2. CASE t # s
    BY <1>9, <2>1, <2>2
  <2>3. CASE t = s
    BY <1>10, <2>1, <2>3
  <2> QED
    BY <2>2, <2>3
<1> QED
  BY <1>2, <1>9, <1>12, <1>19, <1>20, <1>21, <1>22, GatewayRests

LEMMA AgentsStep ==
  ASSUME CloudInv, Cloud!Sleeps \/ Cloud!Woken \/ Cloud!OwnerStops
  PROVE  CloudInv'
<1>1. ChatShape /\ TurnOrder /\ Failures
  BY DEF CloudInv, ChatInv, FailInv
<1>2. /\ UNCHANGED <<tape, chapter, hand, chats, newest, glance, reach, talk, behind, faulty, result>>
      /\ ended' = ended \/ ended'
      /\ slept' = slept \/ slept' \in BOOLEAN
      /\ doing' = doing \/ doing' = [t \in Cloud!Sessions |-> 0]
  BY DEF Cloud!Sleeps, Cloud!Woken, Cloud!OwnerStops, Cloud!handler, Cloud!store, Cloud!agents
<1>3. /\ slept' \in BOOLEAN
      /\ talk' \in [Cloud!Sessions -> Seq(Said)] /\ doing' \in [Cloud!Sessions -> Nat]
      /\ behind' \in [Cloud!Sessions -> Seq(Nat)]
      /\ faulty' \in [Cloud!Sessions -> {"none", "interrupted", "spent", "other"}]
      /\ \A t \in Cloud!Sessions : doing'[t] = doing[t] \/ doing'[t] = 0
  <2>1. doing' \in [Cloud!Sessions -> Nat] /\ \A t \in Cloud!Sessions : doing'[t] = doing[t] \/ doing'[t] = 0
    <3>1. CASE doing' = doing
      BY <1>1, <3>1 DEF ChatShape
    <3>2. CASE doing' = [t \in Cloud!Sessions |-> 0]
      BY <3>2
    <3> QED
      BY <1>2, <3>1, <3>2
  <2> QED
    BY <1>1, <1>2, <2>1 DEF ChatShape
<1>4. \A t \in Cloud!Sessions :
        /\ Cloud!PromptsIn(t)' = Cloud!PromptsIn(t)
        /\ Cloud!Busy(t)' \subseteq Cloud!Busy(t)
        /\ Cloud!Busy(t) \subseteq Cloud!Busy(t)' \cup ({doing[t]} \ {0})
  BY <1>2, <1>3 DEF Cloud!Busy, Cloud!WaitingIn, Cloud!PromptsIn
<1>5. \A t \in Cloud!Sessions : doing[t] # 0 => doing[t] \in Cloud!PromptsIn(t)
  BY <1>1 DEF TurnOrder
<1>6. AgentsKeep /\ GivenSame
  <2>1. \A t \in Cloud!Sessions : Given(t)' = Given(t)
    BY <1>4, <1>5 DEF Given
  <2> QED
    BY <1>4, <2>1 DEF AgentsKeep, GivenSame
<1>7. TurnOrder'
  BY <1>1, <1>2, <1>3, <1>4 DEF TurnOrder
<1>8. Failures'
  BY <1>1, <1>2, FailuresKept
<1>9. \A t \in Cloud!Sessions :
        Len(talk[t]) <= Len(talk'[t]) /\ \A j \in 1..Len(talk[t]) : talk'[t][j] = talk[t][j]
  <2> TAKE t \in Cloud!Sessions
  <2>1. Len(talk[t]) \in Nat
    BY <1>1, Prompts
  <2> QED
    BY <1>2, <2>1
<1> QED
  BY <1>2, <1>3, <1>6, <1>7, <1>8, <1>9, GatewayRests

-----------------------------------------------------------------------------
\* A session's state, field by field.
LEMMA ChatFields ==
  ASSUME NEW c \in Chat
  PROVE  c = [provider |-> c.provider, sent |-> c.sent, terminal |-> c.terminal, stopped |-> c.stopped,
              seenReply |-> c.seenReply, seenWorking |-> c.seenWorking, edge |-> c.edge,
              continued |-> c.continued, completed |-> c.completed, failure |-> c.failure]
BY DEF Chat

\* What is marked of a turn while it stays the session's.
Marks(c, d) == /\ d \in Chat /\ d.provider = c.provider /\ d.sent = c.sent /\ d.failure = c.failure
               /\ c.continued => d.continued

LEMMA ChatMarks ==
  ASSUME NEW c \in Chat
  PROVE  /\ Marks(c, c)
         /\ Marks(c, [c EXCEPT !.terminal = TRUE]) /\ [c EXCEPT !.terminal = TRUE].continued = c.continued
         /\ Marks(c, [c EXCEPT !.stopped = TRUE]) /\ [c EXCEPT !.stopped = TRUE].continued = c.continued
         /\ Marks(c, [c EXCEPT !.continued = TRUE]) /\ [c EXCEPT !.continued = TRUE].continued
         /\ Marks(c, Cloud!Over(c)) /\ Cloud!Over(c).continued = c.continued
BY ChatFields DEF Chat, Marks, Cloud!Over

LEMMA ChatWritten ==
  ASSUME ChatShape, NEW s \in Cloud!Sessions, NEW c \in Chat, chats' = [chats EXCEPT ![s] = c]
  PROVE  /\ chats' \in [Cloud!Sessions -> Chat] /\ chats'[s] = c
         /\ \A t \in Cloud!Sessions \ {s} : chats'[t] = chats[t]
BY DEF ChatShape

\* The turns of a session are cancelled.
LEMMA TurnsCleared ==
  ASSUME ChatShape, TurnOrder, NEW s \in Cloud!Sessions, UNCHANGED <<talk, faulty>>,
         doing' = [doing EXCEPT ![s] = 0], behind' = [behind EXCEPT ![s] = << >>]
  PROVE  /\ AgentsKeep /\ TurnOrder'
         /\ doing' \in [Cloud!Sessions -> Nat] /\ behind' \in [Cloud!Sessions -> Seq(Nat)]
<1>1. /\ doing' \in [Cloud!Sessions -> Nat] /\ doing'[s] = 0
      /\ \A t \in Cloud!Sessions \ {s} : doing'[t] = doing[t]
  BY DEF ChatShape
<1>2. << >> \in Seq(Nat)
  OBVIOUS
<1>3. /\ behind' \in [Cloud!Sessions -> Seq(Nat)] /\ behind'[s] = << >>
      /\ \A t \in Cloud!Sessions \ {s} : behind'[t] = behind[t]
  BY <1>2 DEF ChatShape
<1>4. \A t \in Cloud!Sessions : Cloud!PromptsIn(t)' = Cloud!PromptsIn(t)
  BY DEF Cloud!PromptsIn
<1>5. \A t \in Cloud!Sessions : Cloud!Busy(t)' \subseteq Cloud!Busy(t)
  <2> TAKE t \in Cloud!Sessions
  <2>1. CASE t = s
    <3>1. Len(behind'[s]) = 0 /\ DOMAIN behind'[s] = {}
      BY <1>3
    <3> QED
      BY <1>1, <2>1, <3>1 DEF Cloud!Busy, Cloud!WaitingIn
  <2>2. CASE t # s
    BY <1>1, <1>3, <2>2 DEF Cloud!Busy, Cloud!WaitingIn
  <2> QED
    BY <2>1, <2>2
<1>6. AgentsKeep
  BY <1>4, <1>5 DEF AgentsKeep, Given
<1>7. TurnOrder'
  <2> SUFFICES ASSUME NEW t \in Cloud!Sessions
      PROVE  /\ \A i, j \in 1..Len(behind'[t]) : i < j => behind'[t][i] < behind'[t][j]
             /\ \A i \in 1..Len(behind'[t]), j \in 1..Len(talk'[t]) : talk'[t][j].turn < behind'[t][i]
             /\ doing'[t] # 0 => /\ doing'[t] \in Cloud!PromptsIn(t)'
                                 /\ \A m \in Cloud!PromptsIn(t)' : m <= doing'[t]
             /\ faulty'[t] # "none" => doing'[t] = 0
    BY DEF TurnOrder
  <2>1. /\ \A i, j \in 1..Len(behind[t]) : i < j => behind[t][i] < behind[t][j]
        /\ \A i \in 1..Len(behind[t]), j \in 1..Len(talk[t]) : talk[t][j].turn < behind[t][i]
        /\ doing[t] # 0 => /\ doing[t] \in Cloud!PromptsIn(t)
                           /\ \A m \in Cloud!PromptsIn(t) : m <= doing[t]
        /\ faulty[t] # "none" => doing[t] = 0
    BY DEF TurnOrder
  <2>2. CASE t # s
    <3>1. /\ doing'[t] = doing[t] /\ behind'[t] = behind[t] /\ talk'[t] = talk[t] /\ faulty'[t] = faulty[t]
      BY <1>1, <1>3, <2>2
    <3> QED
      BY <1>4, <2>1, <3>1
  <2>3. CASE t = s
    <3>1. Len(behind'[s]) = 0 /\ doing'[s] = 0
      BY <1>1, <1>3
    <3> QED
      BY <2>3, <3>1
  <2> QED
    BY <2>2, <2>3
<1> QED
  BY <1>1, <1>3, <1>6, <1>7

\* The transcripts stay: so does what was read of them.
LEMMA ReadsStay ==
  ASSUME ChatInv, ChatShape', AgentsKeep, UNCHANGED <<chapter, talk>>, Passed <= Passed',
         glance' = glance \/ glance'.at = "rest",
         \A s \in Cloud!Sessions :
            \/ chats'[s].sent > Passed
            \/ chats'[s].sent = chats[s].sent /\ (chats'[s].continued => chats[s].continued)
  PROVE  Reads'
<1>1. ChatShape /\ Passed \in Nat
  BY LineCounts DEF ChatInv
<1>2. CASE glance'.at = "rest"
  BY <1>2, NothingRead
<1>3. CASE glance' = glance
  <2>1. \A n \in 1..Passed : Left(chapter[n]) => Left(chapter[n])'
    <3> SUFFICES ASSUME NEW n \in 1..Passed, Left(chapter[n]) PROVE Left(chapter[n])'
      OBVIOUS
    <3>1. PICK e : e = chapter[n]
      OBVIOUS
    <3>2. Left(e)'
      BY <1>1, <3>1, PlacesStay
    <3> QED
      BY <3>1, <3>2 DEF Left
  <2>2. \A s \in Cloud!Sessions : Len(talk[s]) <= Len(talk'[s])
    <3> TAKE s \in Cloud!Sessions
    <3>1. Len(talk[s]) \in Nat
      BY <1>1, Prompts
    <3> QED
      BY <3>1
  <2> QED
    BY <1>3, <2>1, <2>2, ReadsKept
<1> QED
  BY <1>2, <1>3

LEMMA FailureStays ==
  ASSUME ChatInv, talk' = talk,
         \A s \in Cloud!Sessions :
            chats'[s].failure # "none" => chats'[s].failure = chats[s].failure /\ chats'[s].sent = chats[s].sent
  PROVE  FailureRead'
<1>1. \A s \in Cloud!Sessions : Len(talk[s]) \in Nat /\ Len(talk[s]) <= Len(talk[s])
  BY Prompts DEF ChatInv
<1> QED
  BY <1>1, FailureKept

\* A step that queues no row and gives no session a turn.
LEMMA GatewayStep ==
  ASSUME CloudInv, ChatShape', UNCHANGED <<chapter, newest, talk, faulty, result>>, AgentsKeep, TurnOrder',
         ChatsKeep, \A s \in Cloud!Sessions : chats'[s].failure = chats[s].failure,
         \/ tape' = tape /\ (hand' = hand \/ hand'.at = "rest")
         \/ tape # << >> /\ tape' = Tail(tape) /\ hand'.at = "rest",
         Reads', LastSent'
  PROVE  CloudInv'
<1>1. ChatInv /\ Failures
  BY DEF CloudInv, FailInv
<1>2. InLine' /\ Going' /\ Homes' /\ OwnTurns' /\ Sent' /\ OneRowEach' /\ OnePlace'
  BY <1>1, LineKept DEF ChatsKeep
<1>3. FailureRead'
  BY <1>1, FailureStays DEF ChatsKeep, ChatKept
<1>4. Failures'
  BY <1>1, FailuresKept
<1> QED
  BY <1>2, <1>3, <1>4 DEF CloudInv, ChatInv, FailInv

LEMMA CancelingStep == ASSUME CloudInv, NEW s \in Cloud!Sessions, Cloud!StopCancels(s) PROVE CloudInv'
<1>1. ChatInv /\ ChatShape /\ TurnOrder /\ LastSent
  BY DEF CloudInv, ChatInv, FailInv
<1>2. PICK c : c = [Cloud!Over(chats[s]) EXCEPT !.stopped = TRUE]
  OBVIOUS
<1>3. /\ UNCHANGED <<tape, chapter, hand, newest, glance, reach, talk, faulty, result, ended, slept>> /\ ended
      /\ doing' = [doing EXCEPT ![s] = 0] /\ behind' = [behind EXCEPT ![s] = << >>]
      /\ chats' = [chats EXCEPT ![s] = c]
  BY <1>2 DEF Cloud!StopCancels, Cloud!handler
<1>4. chats[s] \in Chat
  BY <1>1 DEF ChatShape
<1>5. Marks(chats[s], c) /\ c.continued = chats[s].continued
  <2>1. PICK d : d = Cloud!Over(chats[s])
    OBVIOUS
  <2>2. Marks(chats[s], d) /\ d.continued = chats[s].continued
    BY <1>4, <2>1, ChatMarks
  <2>3. Marks(d, c) /\ c.continued = d.continued
    BY <1>2, <2>1, <2>2, ChatMarks DEF Marks
  <2> QED
    BY <2>2, <2>3 DEF Marks
<1>6. /\ chats' \in [Cloud!Sessions -> Chat] /\ chats'[s] = c
      /\ \A t \in Cloud!Sessions \ {s} : chats'[t] = chats[t]
  BY <1>1, <1>3, <1>5, ChatWritten DEF Marks
<1>7. ChatsKeep /\ \A t \in Cloud!Sessions : /\ chats'[t].failure = chats[t].failure
                                             /\ chats'[t].sent = chats[t].sent
                                             /\ chats'[t].continued => chats[t].continued
  BY <1>5, <1>6 DEF ChatsKeep, ChatKept, Marks
<1>8. /\ AgentsKeep /\ TurnOrder'
      /\ doing' \in [Cloud!Sessions -> Nat] /\ behind' \in [Cloud!Sessions -> Seq(Nat)]
  BY <1>1, <1>3, TurnsCleared
<1>9. ChatShape'
  BY <1>1, <1>3, <1>6, <1>8 DEF ChatShape
<1>10. Passed' = Passed /\ Passed \in Nat
  BY <1>1, <1>3, LineCounts DEF Passed
<1>11. Reads'
  BY <1>1, <1>3, <1>7, <1>8, <1>9, <1>10, ReadsStay
<1>12. LastSent'
  BY <1>1, <1>3 DEF LastSent
<1> QED
  BY <1>3, <1>7, <1>8, <1>9, <1>11, <1>12, GatewayStep

\* A step that only moves the handler or the visit.
LEMMA MovingStep ==
  ASSUME CloudInv, UNCHANGED <<chapter, newest, talk, doing, behind, faulty, result, chats, reach, ended, slept>>,
         \/ tape' = tape /\ hand' = hand
         \/ hand'.at = "rest" /\ hand' \in [at : {"rest", "post", "record"}, working : BOOLEAN] /\ tape' = tape
         \/ /\ hand'.at = "rest" /\ hand' \in [at : {"rest", "post", "record"}, working : BOOLEAN]
            /\ tape # << >> /\ tape' = Tail(tape)
            /\ ended \/ \A s \in Cloud!Sessions :
                          chats[s].sent # 0 => \A n \in Given(s) : n # Passed + 1,
         glance' \in Glance, Reads'
  PROVE  CloudInv'
<1>1. ChatInv /\ ChatShape /\ TurnOrder /\ LastSent /\ Homes
  BY DEF CloudInv, ChatInv, FailInv
<1>2. tape' \in Seq(CloudRow) /\ Len(tape') <= Len(chapter)
      /\ (tape' = tape \/ (tape # << >> /\ Len(tape') = Len(tape) - 1))
  <2>1. tape \in Seq(CloudRow) /\ Len(tape) <= Len(chapter) /\ Len(tape) \in Nat /\ Len(chapter) \in Nat
    BY <1>1, LineCounts DEF ChatShape
  <2>2. CASE tape' = tape
    BY <2>1, <2>2
  <2>3. CASE tape # << >> /\ tape' = Tail(tape)
    <3>1. tape' \in Seq(CloudRow) /\ Len(tape') = Len(tape) - 1
      BY <2>1, <2>3
    <3>2. Len(tape') <= Len(chapter)
      BY <2>1, <3>1
    <3> QED
      BY <2>3, <3>1, <3>2
  <2> QED
    BY <2>2, <2>3
<1>3. ChatShape'
  BY <1>1, <1>2 DEF ChatShape
<1>4. AgentsKeep /\ GivenSame
  BY AgentsRest
<1>5. TurnOrder' /\ ChatsKeep
  BY <1>1 DEF TurnOrder, ChatsKeep, ChatKept, Cloud!PromptsIn
<1>6. LastSent'
  <2>1. CASE tape' = tape
    <3>1. Passed' = Passed
      BY <2>1 DEF Passed
    <3>2. hand'.at = "record" => hand.at = "record"
      OBVIOUS
    <3> QED
      BY <1>1, <1>4, <2>1, <3>1, <3>2, LastKept
  <2>2. CASE /\ hand'.at = "rest"
             /\ ended \/ \A s \in Cloud!Sessions : chats[s].sent # 0 => \A n \in Given(s) : n # Passed + 1
    BY <1>1, <1>4, <2>2 DEF LastSent, GivenSame
  <2> QED
    BY <2>1, <2>2
<1> QED
  BY <1>3, <1>4, <1>5, <1>6, GatewayStep

LEMMA RestIsRest == /\ Cloud!Rest.at = "rest" /\ Cloud!Rest \in [at : {"rest", "post", "record"}, working : BOOLEAN]
                    /\ Cloud!NoVisit.at = "rest" /\ Cloud!NoVisit \in Glance
BY DEF Cloud!Rest, Cloud!NoVisit, Glance

LEMMA GlanceFields ==
  ASSUME NEW g \in Glance
  PROVE  g = [at |-> g.at, session |-> g.session, upto |-> g.upto, full |-> g.full, dormant |-> g.dormant,
              sent |-> g.sent, detail |-> g.detail]
BY DEF Glance

LEMMA LookingStep ==
  ASSUME CloudInv, Cloud!CloudPollAssumption,
         \/ Cloud!RowBreaks \/ Cloud!VisitBreaks \/ Cloud!VisitLists
         \/ \E s \in Cloud!Sessions : Cloud!VisitStarts(s)
  PROVE  CloudInv'
<1>1. ChatInv /\ ChatShape /\ Reads /\ glance \in Glance /\ slept \in BOOLEAN
  BY DEF CloudInv, ChatInv, ChatShape
<1>2. Passed \in Nat
  BY <1>1, LineCounts
<1>3. CASE Cloud!RowBreaks
  <2>1. /\ UNCHANGED <<tape, chapter, newest, glance, talk, doing, behind, faulty, result, chats, reach, ended, slept>>
        /\ hand' = Cloud!Rest
    BY <1>3 DEF Cloud!RowBreaks, Cloud!store, Cloud!agents
  <2>2. Passed' = Passed /\ Left(chapter[glance.sent])' = Left(chapter[glance.sent])
    BY <2>1 DEF Passed, Left, Cloud!Busy, Cloud!WaitingIn
  <2>3. Reads'
    BY <1>1, <2>1, <2>2 DEF Reads
  <2> QED
    BY <1>1, <2>1, <2>3, RestIsRest, MovingStep
<1>4. CASE Cloud!VisitBreaks
  <2>1. /\ UNCHANGED <<tape, chapter, newest, hand, talk, doing, behind, faulty, result, chats, reach, ended, slept>>
        /\ glance' = Cloud!NoVisit
    BY <1>4 DEF Cloud!VisitBreaks, Cloud!store, Cloud!agents, Cloud!handler
  <2>2. Reads'
    BY <2>1, RestIsRest, NothingRead
  <2> QED
    BY <2>1, <2>2, RestIsRest, MovingStep
<1>5. ASSUME NEW s \in Cloud!Sessions, Cloud!VisitStarts(s) PROVE CloudInv'
  <2>1. /\ UNCHANGED <<tape, chapter, newest, hand, talk, doing, behind, faulty, result, chats, reach, ended, slept>>
        /\ glance' = [[[Cloud!NoVisit EXCEPT !.at = "list"] EXCEPT !.session = s] EXCEPT !.dormant = slept]
    BY <1>5 DEF Cloud!VisitStarts, Cloud!store, Cloud!agents, Cloud!handler
  <2>2. glance' = [at |-> "list", session |-> s, upto |-> 0, full |-> FALSE, dormant |-> slept, sent |-> 0,
                   detail |-> "none"]
    BY <2>1 DEF Cloud!NoVisit
  <2>3. s \in Nat
    BY <1>5 DEF Cloud!Sessions
  <2>4. glance' \in Glance
    BY <1>1, <2>2, <2>3 DEF Glance
  <2>5. Reads'
    BY <1>5, <2>2 DEF Reads
  <2> QED
    BY <2>1, <2>4, <2>5, MovingStep
<1>6. CASE Cloud!VisitLists
  <2>1. PICK s : s = glance.session
    OBVIOUS
  <2>2. PICK upto, full : /\ upto = Cloud!Lesser(Len(talk[s]), reach[s] + ChatPage)
                          /\ full = (upto = reach[s] + ChatPage)
    OBVIOUS
  <2>3. /\ UNCHANGED <<tape, chapter, newest, hand, talk, doing, behind, faulty, result, chats, reach, ended, slept>>
        /\ glance.at = "list"
        /\ glance' = [[[glance EXCEPT !.at = "status"] EXCEPT !.upto = upto] EXCEPT !.full = full]
    BY <1>6, <2>1, <2>2 DEF Cloud!VisitLists, Cloud!store, Cloud!agents, Cloud!handler
  <2>4. s \in Cloud!Sessions
    BY <1>1, <2>1, <2>3 DEF Reads
  <2>5. Len(talk[s]) \in Nat /\ reach[s] \in Nat /\ ChatPage \in Nat
    BY <1>1, <2>4, Prompts DEF ChatShape, Cloud!CloudPollAssumption
  <2>6. upto \in Nat /\ upto <= Len(talk[s]) /\ full \in BOOLEAN
    BY <2>2, <2>5 DEF Cloud!Lesser
  <2>7. glance' = [at |-> "status", session |-> s, upto |-> upto, full |-> full, dormant |-> glance.dormant,
                   sent |-> glance.sent, detail |-> glance.detail]
    <3>1. glance = [at |-> glance.at, session |-> glance.session, upto |-> glance.upto, full |-> glance.full,
                    dormant |-> glance.dormant, sent |-> glance.sent, detail |-> glance.detail]
      BY <1>1, GlanceFields
    <3> QED
      BY <2>1, <2>3, <3>1
  <2>8. glance' \in Glance
    BY <1>1, <2>1, <2>6, <2>7 DEF Glance
  <2>9. Reads'
    <3>1. glance'.at = "status" /\ glance'.session = s /\ glance'.upto = upto
      BY <2>7
    <3>2. talk' = talk
      BY <2>3
    <3> QED
      BY <2>4, <2>6, <3>1, <3>2 DEF Reads
  <2> QED
    BY <2>3, <2>8, <2>9, MovingStep
<1> QED
  BY <1>3, <1>4, <1>5, <1>6

-----------------------------------------------------------------------------
\* Sequences whose places are known.
LEMMA Sequenced == ASSUME NEW S, NEW k \in Nat, NEW f \in [1..k -> S] PROVE f \in Seq(S)
BY DEF Seq

LEMMA Appended == ASSUME NEW S, NEW q \in Seq(S), NEW x \in S PROVE Append(q, x) \in Seq(S)
OBVIOUS

\* The first row goes to a session of its own, or to the thread, or to one made for it.
LEMMA RowGoes ==
  ASSUME CloudInv, UNCHANGED <<chapter, glance, reach, talk, doing, behind, faulty, slept, result, ended>>,
         tape # << >>, NEW s \in Cloud!Sessions, NEW w \in BOOLEAN, tape[1].session \in {0, s},
         tape' = [tape EXCEPT ![1].session = s], hand' = [at |-> "post", working |-> w],
         chats' \in [Cloud!Sessions -> Chat], newest' \in Cloud!Sessions,
         \A t \in Cloud!Sessions :
            /\ chats'[t].sent = chats[t].sent /\ chats'[t].failure = chats[t].failure
            /\ chats'[t].continued = chats[t].continued
            /\ chats[t].provider # 0 => chats'[t].provider # 0,
         chats'[newest'].provider # 0, chats'[s].provider # 0,
         tape[1].type = "thread" => chats[s].sent = 0
  PROVE  CloudInv'
<1>1. /\ ChatInv /\ ChatShape /\ InLine /\ Going /\ Homes /\ OwnTurns /\ TurnOrder /\ Sent /\ OneRowEach
      /\ OnePlace /\ Failures /\ LastSent /\ tape \in Seq(CloudRow)
  BY DEF CloudInv, ChatInv, FailInv, ChatShape
<1>2. /\ Len(tape) \in Nat /\ Len(chapter) \in Nat /\ Passed \in Nat /\ Passed + Len(tape) = Len(chapter)
      /\ 1 \in 1..Len(tape)
  BY <1>1, LineCounts
<1>3. PICK msg \in CloudRow : msg = tape[1]
  BY <1>1, <1>2
<1>4. PICK new : new = [msg EXCEPT !.session = s]
  OBVIOUS
<1>5. /\ new \in CloudRow /\ new.session = s
      /\ new.turn = msg.turn /\ new.type = msg.type /\ new.prev = msg.prev
      /\ new.prevTurn = msg.prevTurn /\ new.provider = msg.provider
  <2>1. s \in Nat
    BY DEF Cloud!Sessions
  <2>2. msg = [turn |-> msg.turn, type |-> msg.type, session |-> msg.session, recovery |-> msg.recovery,
               prev |-> msg.prev, prevTurn |-> msg.prevTurn, provider |-> msg.provider]
    BY DEF CloudRow
  <2>3. new = [turn |-> msg.turn, type |-> msg.type, session |-> s, recovery |-> msg.recovery,
               prev |-> msg.prev, prevTurn |-> msg.prevTurn, provider |-> msg.provider]
    BY <1>4, <2>2
  <2> QED
    BY <2>1, <2>3 DEF CloudRow
<1>6. tape' = [tape EXCEPT ![1] = new]
  BY <1>3, <1>4
<1>7. /\ tape' \in Seq(CloudRow) /\ Len(tape') = Len(tape) /\ tape'[1] = new /\ tape' # << >>
      /\ \A i \in 1..Len(tape) : i # 1 => tape'[i] = tape[i]
  <2>1. tape \in [1..Len(tape) -> CloudRow]
    BY <1>1
  <2>2. tape' \in [1..Len(tape) -> CloudRow] /\ tape'[1] = new
        /\ \A i \in 1..Len(tape) : i # 1 => tape'[i] = tape[i]
    BY <1>2, <1>5, <1>6, <2>1
  <2>3. tape' \in Seq(CloudRow) /\ Len(tape') = Len(tape)
    <3>1. tape' \in Seq(CloudRow)
      <4>1. PICK k \in Nat : k = Len(tape)
        BY <1>2
      <4>2. tape' \in [1..k -> CloudRow]
        BY <2>2, <4>1
      <4> QED
        BY <4>2, Sequenced
    <3>2. DOMAIN tape' = 1..Len(tape) /\ DOMAIN tape' = 1..Len(tape') /\ Len(tape') \in Nat
      BY <2>2, <3>1
    <3> QED
      BY <1>2, <3>1, <3>2
  <2>4. tape' # << >>
    BY <1>2, <2>3
  <2> QED
    BY <2>2, <2>3, <2>4
<1>8. ChatShape'
  BY <1>1, <1>7 DEF ChatShape
<1>9. Passed' = Passed
  BY <1>7 DEF Passed
<1>10. AgentsKeep /\ GivenSame
  BY AgentsRest
<1>11. InLine'
  <2>1. \A i \in 1..Len(tape') : tape'[i].turn = Passed' + i
    <3> TAKE i \in 1..Len(tape')
    <3>1. tape[i].turn = Passed + i
      BY <1>1, <1>7 DEF InLine
    <3> QED
      BY <1>3, <1>5, <1>7, <1>9, <3>1
  <2> QED
    BY <1>1, <2>1 DEF InLine
<1>12. Going'
  <2>1. \A i \in 1..Len(tape') :
          /\ tape'[i].session \in {0} \cup Cloud!Sessions
          /\ tape'[i].session # 0 => chats'[tape'[i].session].provider # 0
          /\ tape'[i].type = "thread" => /\ tape'[i].prev \in Cloud!Sessions
                                         /\ tape'[i].prevTurn # 0 /\ tape'[i].provider # 0
          /\ tape'[i].type = "thread" /\ tape'[i].session # 0 =>
                i = 1 /\ chats'[tape'[i].session].sent = 0
    <3> TAKE i \in 1..Len(tape')
    <3>1. i \in 1..Len(tape)
      BY <1>7
    <3>2. /\ tape[i].session \in {0} \cup Cloud!Sessions
          /\ tape[i].session # 0 => chats[tape[i].session].provider # 0
          /\ tape[i].type = "thread" => /\ tape[i].prev \in Cloud!Sessions
                                        /\ tape[i].prevTurn # 0 /\ tape[i].provider # 0
          /\ tape[i].type = "thread" /\ tape[i].session # 0 =>
                i = 1 /\ chats[tape[i].session].sent = 0
      BY <1>1, <3>1 DEF Going
    <3>3. CASE i = 1
      BY <1>3, <1>5, <1>7, <3>2, <3>3
    <3>4. CASE i # 1
      BY <1>7, <3>1, <3>2, <3>4
    <3> QED
      BY <3>3, <3>4
  <2>2. tape'[1].session \in Cloud!Sessions
    BY <1>5, <1>7
  <2> QED
    BY <1>1, <1>7, <2>1, <2>2 DEF Going
<1>13. Homes'
  <2> SUFFICES ASSUME NEW t \in Cloud!Sessions, NEW n \in Given(t)'
               PROVE  n \in 1..(Passed + 1) /\ (n = Passed + 1 => tape'[1].session = t)
    BY <1>7, <1>9 DEF Homes
  <2>1. n \in 1..(Passed + 1) /\ (n = Passed + 1 => tape[1].session = t)
    BY <1>1, <1>10 DEF Homes, GivenSame
  <2>2. t # 0
    BY DEF Cloud!Sessions
  <2> QED
    BY <1>5, <1>7, <2>1, <2>2
<1>14. OwnTurns' /\ Sent' /\ OneRowEach'
  BY <1>1, <1>9, <1>10 DEF OwnTurns, GivenSame, Sent, OneRowEach
<1>15. TurnOrder'
  BY <1>1 DEF TurnOrder, Cloud!PromptsIn
<1>16. OnePlace'
  <2>1. (\A t \in Cloud!Sessions, n \in 1..Len(chapter) : n \in Cloud!Busy(t) => Only(chapter[n], t))'
    <3> SUFFICES ASSUME NEW t \in Cloud!Sessions, NEW n \in 1..Len(chapter), n \in Cloud!Busy(t)'
                 PROVE  Only(chapter[n], t)'
      OBVIOUS
    <3>1. PICK e : e = chapter[n]
      OBVIOUS
    <3>2. Only(e, t)
      BY <1>1, <1>10, <3>1 DEF OnePlace, AgentsKeep
    <3>3. Only(e, t)'
      BY <1>1, <1>10, <3>2, PlacesStay
    <3> QED
      BY <3>1, <3>3 DEF Only
  <2>2. (\A i \in 1..Len(tape) : Only(chapter[Passed + i], tape[i].session))'
    <3> SUFFICES ASSUME NEW i \in 1..Len(tape') PROVE Only(chapter[Passed + i], tape[i].session)'
      OBVIOUS
    <3>1. PICK e, x, y : e = chapter[Passed + i] /\ x = tape[i].session /\ y = tape'[i].session
      OBVIOUS
    <3>2. Only(e, x)
      BY <1>1, <1>7, <3>1 DEF OnePlace
    <3>3. x = y \/ x = 0
      BY <1>3, <1>5, <1>7, <3>1
    <3>4. Only(e, y)
      <4>1. CASE x = 0
        BY <3>2, <4>1 DEF Only, Cloud!Sessions
      <4> QED
        BY <3>2, <3>3, <4>1
    <3>5. Only(e, y)'
      BY <1>1, <1>10, <3>4, PlacesStay
    <3> QED
      BY <1>9, <3>1, <3>5 DEF Only
  <2>3. (\A t \in Cloud!Sessions : chats[t].sent # 0 /\ ~chats[t].continued =>
          Newest(chats[t].sent) /\ Only(chapter[chats[t].sent], t))'
    <3> SUFFICES ASSUME NEW t \in Cloud!Sessions, chats'[t].sent # 0, ~chats'[t].continued
                 PROVE  (Newest(chats[t].sent) /\ Only(chapter[chats[t].sent], t))'
      OBVIOUS
    <3>1. PICK n : n = chats[t].sent
      OBVIOUS
    <3>2. PICK e : e = chapter[n]
      OBVIOUS
    <3>3. n = chats'[t].sent /\ Newest(n) /\ Only(e, t)
      BY <1>1, <3>1, <3>2 DEF OnePlace
    <3>4. Newest(n)' /\ Only(e, t)'
      BY <1>1, <1>10, <3>3, PlacesStay DEF Newest
    <3> QED
      BY <3>2, <3>3, <3>4 DEF Newest, Only
  <2> QED
    BY <2>1, <2>2, <2>3 DEF OnePlace
<1>17. Reads'
  BY <1>1, <1>2, <1>8, <1>9, <1>10, ReadsStay
<1>18. FailureRead'
  BY <1>1, FailureStays
<1>19. Failures' /\ LastSent'
  <2>1. LastSent'
    BY <1>1, <1>9, <1>10, LastKept
  <2> QED
    BY <1>1, <2>1, FailuresKept
<1> QED
  BY <1>8, <1>11, <1>12, <1>13, <1>14, <1>15, <1>16, <1>17, <1>18, <1>19 DEF CloudInv, ChatInv, FailInv

\* What is left of a row that is done: the visit's reading holds.
LEMMA RowDone ==
  ASSUME CloudInv, UNCHANGED <<chapter, newest, glance, talk, doing, behind, faulty, slept, result, chats, reach,
                               ended>>,
         tape # << >>, tape' = Tail(tape), hand' = Cloud!Rest,
         ended \/ \A s \in Cloud!Sessions : chats[s].sent # 0 => \A n \in Given(s) : n # Passed + 1
  PROVE  CloudInv'
<1>1. ChatInv /\ ChatShape /\ tape \in Seq(CloudRow)
  BY DEF CloudInv, ChatInv, ChatShape
<1>2. Passed \in Nat /\ Len(tape') = Len(tape) - 1 /\ Len(tape) \in Nat /\ Len(chapter) \in Nat
  BY <1>1, LineCounts
<1>3. Passed <= Passed'
  BY <1>2 DEF Passed
<1>4. tape' \in Seq(CloudRow) /\ Len(tape') <= Len(chapter)
  <2>1. tape' \in Seq(CloudRow)
    BY <1>1
  <2>2. Len(tape) <= Len(chapter)
    BY <1>1 DEF ChatShape
  <2> QED
    BY <1>2, <2>1, <2>2
<1>5. ChatShape'
  BY <1>1, <1>4, RestIsRest DEF ChatShape
<1>6. Reads'
  BY <1>1, <1>3, <1>5, AgentsRest, ReadsStay
<1> QED
  BY <1>1, <1>6, RestIsRest, MovingStep DEF ChatShape

LEMMA StartingStep == ASSUME CloudInv, Cloud!RowStarts PROVE CloudInv'
<1>1. /\ ChatInv /\ ChatShape /\ Going /\ Homes /\ tape \in Seq(CloudRow)
      /\ chats \in [Cloud!Sessions -> Chat] /\ newest \in Cloud!Sessions
  BY DEF CloudInv, ChatInv, ChatShape
<1>2. /\ UNCHANGED <<chapter, glance, reach, talk, doing, behind, faulty, slept, result, ended>>
      /\ tape # << >>
  BY DEF Cloud!RowStarts, Cloud!agents
<1>3. 1 \in 1..Len(tape) /\ tape[1] \in CloudRow
  BY <1>1, <1>2
<1>4. CASE (ended \/ tape[1].type = "thread") /\ Cloud!RowDone /\ UNCHANGED <<chats, newest>>
  <2>1. tape' = Tail(tape) /\ hand' = Cloud!Rest
    BY <1>4 DEF Cloud!RowDone
  <2>2. ASSUME tape[1].type = "thread", NEW s \in Cloud!Sessions, chats[s].sent # 0, NEW n \in Given(s),
               n = Passed + 1
        PROVE  FALSE
    <3>1. tape[1].session = s
      BY <1>1, <2>2 DEF Homes
    <3>2. s # 0
      BY DEF Cloud!Sessions
    <3> QED
      BY <1>1, <1>3, <2>2, <3>1, <3>2 DEF Going
  <2> QED
    BY <1>2, <1>4, <2>1, <2>2, RowDone
<1>5. ASSUME NEW s \in Cloud!Sessions, s = (IF tape[1].session = 0 THEN newest ELSE tape[1].session),
             tape[1].session # 0 \/ tape[1].type = "send",
             Cloud!Goes("post", s, Cloud!Status(s) = "working"), UNCHANGED <<chats, newest>>
      PROVE  CloudInv'
  <2>1. PICK w \in BOOLEAN : w = (Cloud!Status(s) = "working")
    OBVIOUS
  <2>2. tape' = [tape EXCEPT ![1].session = s] /\ hand' = [at |-> "post", working |-> w]
    BY <1>5, <2>1 DEF Cloud!Goes
  <2>3. /\ tape[1].session \in {0, s} /\ chats[s].provider # 0 /\ chats[newest].provider # 0
        /\ tape[1].type = "thread" => chats[s].sent = 0
    BY <1>1, <1>3, <1>5 DEF Going, CloudRow
  <2>4. \A t \in Cloud!Sessions :
          /\ chats'[t].sent = chats[t].sent /\ chats'[t].failure = chats[t].failure
          /\ chats'[t].continued = chats[t].continued
          /\ chats[t].provider # 0 => chats'[t].provider # 0
    BY <1>5
  <2>5. chats' \in [Cloud!Sessions -> Chat] /\ newest' \in Cloud!Sessions /\ chats'[newest'].provider # 0
        /\ chats'[s].provider # 0
    BY <1>1, <1>5, <2>3
  <2> HIDE DEF Cloud!Status
  <2> QED
    BY <1>2, <2>2, <2>3, <2>4, <2>5, RowGoes
<1>6. ASSUME NEW s \in Cloud!Sessions, ~Cloud!Made(s), tape[1].session = 0, tape[1].type = "thread",
             chats' = [chats EXCEPT ![s].provider = tape[1].provider], newest' = s,
             Cloud!Goes("post", s, FALSE)
      PROVE  CloudInv'
  <2>1. PICK w \in BOOLEAN : w = FALSE
    OBVIOUS
  <2>2. tape' = [tape EXCEPT ![1].session = s] /\ hand' = [at |-> "post", working |-> w]
    BY <1>6, <2>1 DEF Cloud!Goes
  <2>3. PICK p \in Nat : p = tape[1].provider /\ p # 0
    BY <1>1, <1>3, <1>6 DEF Going, CloudRow
  <2>4. PICK c : c = [chats[s] EXCEPT !.provider = p]
    OBVIOUS
  <2>5. chats[s] \in Chat
    BY <1>1
  <2>6. /\ c \in Chat /\ c.provider = p /\ c.sent = chats[s].sent /\ c.continued = chats[s].continued
        /\ c.failure = chats[s].failure
    BY <2>4, <2>5, ChatFields DEF Chat
  <2>7. chats' = [chats EXCEPT ![s] = c]
    BY <1>6, <2>3, <2>4
  <2>8. /\ chats' \in [Cloud!Sessions -> Chat] /\ chats'[s] = c
        /\ \A t \in Cloud!Sessions \ {s} : chats'[t] = chats[t]
    BY <1>1, <2>6, <2>7, ChatWritten
  <2>9. chats[s].sent = 0
    BY <1>1, <1>6 DEF Going, Cloud!Made
  <2>10. \A t \in Cloud!Sessions :
          /\ chats'[t].sent = chats[t].sent /\ chats'[t].failure = chats[t].failure
          /\ chats'[t].continued = chats[t].continued
          /\ chats[t].provider # 0 => chats'[t].provider # 0
    BY <2>3, <2>6, <2>8
  <2>11. newest' \in Cloud!Sessions /\ chats'[newest'].provider # 0 /\ chats'[s].provider # 0
    BY <1>6, <2>3, <2>6, <2>8
  <2> QED
    BY <1>2, <1>6, <2>2, <2>8, <2>9, <2>10, <2>11, RowGoes
<1> QED
  <2>1. CASE (ended \/ (tape[1].type = "thread" /\ ~Cloud!StillFailed)) /\ Cloud!RowDone
             /\ UNCHANGED <<chats, newest>>
    BY <1>4, <2>1
  <2>2. ASSUME tape[1].session # 0 \/ tape[1].type = "send",
               Cloud!Goes("post", IF tape[1].session = 0 THEN newest ELSE tape[1].session,
                          Cloud!Status(IF tape[1].session = 0 THEN newest ELSE tape[1].session) = "working"),
               UNCHANGED <<chats, newest>>
        PROVE  CloudInv'
    <3>1. PICK s : s = IF tape[1].session = 0 THEN newest ELSE tape[1].session
      OBVIOUS
    <3>2. s \in Cloud!Sessions
      BY <1>1, <1>3, <3>1 DEF Going
    <3>3. Cloud!Goes("post", s, Cloud!Status(s) = "working")
      BY <2>2, <3>1
    <3> QED
      BY <1>5, <2>2, <3>1, <3>2, <3>3
  <2>3. ASSUME tape[1].session = 0, tape[1].type = "thread",
               NEW s \in Cloud!Sessions, ~Cloud!Made(s),
               chats' = [chats EXCEPT ![s].provider = tape[1].provider], newest' = s,
               Cloud!Goes("post", s, FALSE)
        PROVE  CloudInv'
    BY <1>6, <2>3
  <2> QED
    BY <2>1, <2>2, <2>3 DEF Cloud!RowStarts, Cloud!Row

LEMMA RecordingStep == ASSUME CloudInv, Cloud!RowRecords PROVE CloudInv'
<1>1. /\ ChatInv /\ ChatShape /\ InLine /\ Going /\ Homes /\ TurnOrder /\ Sent /\ LastSent /\ Failures
      /\ tape \in Seq(CloudRow) /\ chats \in [Cloud!Sessions -> Chat]
  BY DEF CloudInv, ChatInv, FailInv, ChatShape
<1>2. /\ UNCHANGED <<chapter, newest, glance, reach, talk, faulty, slept, result, ended>>
      /\ hand.at = "record" /\ tape' = Tail(tape) /\ hand' = Cloud!Rest
  BY DEF Cloud!RowRecords, Cloud!RowDone
<1>3. tape # << >> /\ tape[1].session \in Cloud!Sessions
  BY <1>1, <1>2 DEF Going
<1>4. PICK s \in Cloud!Sessions : s = tape[1].session
  BY <1>3
<1>5. /\ Len(tape) \in Nat /\ Len(chapter) \in Nat /\ Passed \in Nat /\ 1 \in 1..Len(tape)
      /\ Len(tape') = Len(tape) - 1 /\ tape' \in Seq(CloudRow)
  BY <1>1, <1>2, <1>3, LineCounts
<1>6. Passed' = Passed + 1 /\ tape[1].turn = Passed + 1 /\ Len(tape') <= Len(chapter')
  <2>1. Passed' = Passed + 1
    BY <1>2, <1>5 DEF Passed
  <2>2. tape[1].turn = Passed + 1
    BY <1>1, <1>5 DEF InLine
  <2>3. Len(tape) <= Len(chapter)
    BY <1>1 DEF ChatShape
  <2> QED
    BY <1>2, <1>5, <2>1, <2>2, <2>3
<1>7. CASE ended /\ doing' = [doing EXCEPT ![s] = 0] /\ behind' = [behind EXCEPT ![s] = << >>]
           /\ chats' = chats
  <2>1. /\ AgentsKeep /\ TurnOrder'
        /\ doing' \in [Cloud!Sessions -> Nat] /\ behind' \in [Cloud!Sessions -> Seq(Nat)]
    BY <1>1, <1>2, <1>7, TurnsCleared
  <2>2. ChatShape'
    BY <1>1, <1>2, <1>5, <1>6, <1>7, <2>1, RestIsRest DEF ChatShape
  <2>3. Reads'
    BY <1>1, <1>2, <1>5, <1>6, <1>7, <2>1, <2>2, ReadsStay
  <2>4. LastSent'
    BY <1>2, <1>7 DEF LastSent
  <2>5. ChatsKeep /\ \A t \in Cloud!Sessions : chats'[t].failure = chats[t].failure
    BY <1>7 DEF ChatsKeep, ChatKept
  <2> QED
    BY <1>2, <1>3, <2>1, <2>2, <2>3, <2>4, <2>5, RestIsRest, GatewayStep
<1>8. CASE ~ended /\ chats' = [chats EXCEPT ![s] = Cloud!Submitted(s, chats[s])] /\ UNCHANGED <<doing, behind>>
  <2>1. PICK edge \in BOOLEAN :
          Cloud!Submitted(s, chats[s]) =
            [[[Cloud!NoState EXCEPT !.provider = chats[s].provider] EXCEPT !.sent = tape[1].turn]
               EXCEPT !.edge = edge]
    <3>1. chats[s] \in Chat /\ hand.working \in BOOLEAN
      BY <1>1 DEF ChatShape
    <3>2. chats[s].terminal \in BOOLEAN
      BY <3>1 DEF Chat
    <3> QED
      BY <3>1, <3>2 DEF Cloud!Submitted, Cloud!Row
  <2>2. PICK c : c = Cloud!Submitted(s, chats[s])
    OBVIOUS
  <2>3. chats[s].provider \in Nat /\ chats[s].provider # 0
    BY <1>1, <1>4, <1>5 DEF Chat, Going, Cloud!Sessions
  <2>4. c = [provider |-> chats[s].provider, sent |-> Passed + 1, terminal |-> FALSE, stopped |-> FALSE,
             seenReply |-> FALSE, seenWorking |-> FALSE, edge |-> edge, continued |-> FALSE,
             completed |-> FALSE, failure |-> "none"]
    BY <1>6, <2>1, <2>2 DEF Cloud!NoState
  <2>5. c \in Chat /\ c.provider = chats[s].provider /\ c.sent = Passed + 1 /\ c.failure = "none"
    BY <1>5, <2>3, <2>4 DEF Chat
  <2>6. chats' = [chats EXCEPT ![s] = c]
    BY <1>8, <2>2
  <2>7. /\ chats' \in [Cloud!Sessions -> Chat] /\ chats'[s] = c
        /\ \A t \in Cloud!Sessions \ {s} : chats'[t] = chats[t]
    BY <1>1, <2>5, <2>6, ChatWritten
  <2>8. ChatShape'
    BY <1>1, <1>2, <1>5, <1>6, <1>8, <2>7, RestIsRest DEF ChatShape
  <2>9. TurnDone(s) /\ \A t \in Cloud!Sessions \ {s} : ChatKept(t)
    BY <1>2, <1>3, <1>4, <2>3, <2>5, <2>7 DEF TurnDone, ChatKept
  <2>10. AgentsKeep /\ GivenSame
    BY <1>2, <1>8, AgentsRest
  <2>11. InLine' /\ Going' /\ Homes' /\ OwnTurns' /\ Sent' /\ OneRowEach' /\ OnePlace'
    <3>1. \A t \in Cloud!Sessions : ChatKept(t) \/ TurnDone(t)
      BY <2>9
    <3> QED
      BY <1>1, <1>2, <1>3, <2>8, <2>10, <3>1, RestIsRest, LineKept
  <2>12. TurnOrder'
    BY <1>1, <1>2, <1>8 DEF TurnOrder, Cloud!PromptsIn
  <2>13. \A t \in Cloud!Sessions :
            \/ chats'[t].sent > Passed
            \/ chats'[t].sent = chats[t].sent /\ (chats'[t].continued => chats[t].continued)
    <3> TAKE t \in Cloud!Sessions
    <3>1. CASE t = s
      BY <1>5, <2>5, <2>7, <3>1
    <3>2. CASE t # s
      BY <2>7, <3>2
    <3> QED
      BY <3>1, <3>2
  <2>14. Reads'
    BY <1>1, <1>2, <1>5, <1>6, <2>8, <2>10, <2>13, ReadsStay
  <2>15. FailureRead'
    BY <1>1, <1>2, <2>5, <2>7, FailureStays
  <2>16. Failures'
    BY <1>1, <1>2, FailuresKept
  <2>17. LastSent'
    <3> SUFFICES ASSUME NEW t \in Cloud!Sessions, chats'[t].sent # 0
                 PROVE  chats'[t].sent \in Given(t) /\ \A m \in Given(t) : m <= chats'[t].sent \/ m = Passed' + 1
      BY <1>2, <2>10, RestIsRest DEF LastSent, GivenSame
    <3>1. \A m \in Given(t) : m \in 1..(Passed + 1) /\ (m = Passed + 1 => t = s)
      BY <1>1, <1>4 DEF Homes
    <3>2. CASE t = s
      <4>1. chats'[t].sent \in Given(t)
        BY <1>1, <1>2, <1>4, <1>6, <1>8, <2>5, <2>7, <3>2 DEF LastSent
      <4> QED
        BY <1>5, <2>5, <2>7, <3>1, <3>2, <4>1
    <3>3. CASE t # s
      <4>1. /\ chats'[t].sent = chats[t].sent /\ chats[t].sent \in Given(t)
            /\ \A m \in Given(t) : m <= chats[t].sent \/ m = Passed + 1
        BY <1>1, <1>8, <2>7, <3>3 DEF LastSent
      <4> QED
        BY <3>1, <3>3, <4>1
    <3> QED
      BY <3>2, <3>3
  <2> QED
    BY <2>8, <2>11, <2>12, <2>14, <2>15, <2>16, <2>17 DEF CloudInv, ChatInv, FailInv
<1> QED
  BY <1>4, <1>7, <1>8 DEF Cloud!RowRecords, Cloud!Row

\* Conductor takes a turn: behind all those the session was given.
LEMMA TurnTaken ==
  ASSUME CloudInv, UNCHANGED <<tape, chapter, newest, glance, reach, talk, doing, faulty, slept, result, chats,
                               ended>>,
         hand.at = "post", hand' = [hand EXCEPT !.at = "record"],
         NEW s \in Cloud!Sessions, s = tape[1].session, NEW n \in Nat, n = tape[1].turn, n \notin Given(s),
         behind' = [behind EXCEPT ![s] = Append(@, n)]
  PROVE  CloudInv'
<1>1. /\ ChatInv /\ ChatShape /\ InLine /\ Going /\ Homes /\ OwnTurns /\ TurnOrder /\ Sent /\ OneRowEach
      /\ OnePlace /\ Failures /\ LastSent /\ Reads
  BY DEF CloudInv, ChatInv, FailInv
<1>2. /\ Len(tape) \in Nat /\ Len(chapter) \in Nat /\ Passed \in Nat /\ Passed + Len(tape) = Len(chapter)
      /\ tape # << >> /\ 1 \in 1..Len(tape)
  BY <1>1, LineCounts DEF Going
<1>3. n = Passed + 1 /\ n \in 1..Len(chapter)
  BY <1>1, <1>2 DEF InLine
<1>4. behind[s] \in Seq(Nat) /\ Len(behind[s]) \in Nat
  BY <1>1 DEF ChatShape
<1>5. /\ behind' \in [Cloud!Sessions -> Seq(Nat)] /\ behind'[s] = Append(behind[s], n)
      /\ \A t \in Cloud!Sessions \ {s} : behind'[t] = behind[t]
  <2>1. PICK b \in Seq(Nat) : b = Append(behind[s], n)
    BY <1>4, Appended
  <2>2. behind' = [behind EXCEPT ![s] = b]
    BY <2>1
  <2>3. behind \in [Cloud!Sessions -> Seq(Nat)]
    BY <1>1 DEF ChatShape
  <2>4. behind'[s] = b /\ \A t \in Cloud!Sessions \ {s} : behind'[t] = behind[t]
    BY <2>2, <2>3
  <2>5. behind' \in [Cloud!Sessions -> Seq(Nat)]
    BY <2>1, <2>2, <2>3
  <2> QED
    BY <2>1, <2>4, <2>5
<1>6. /\ Len(behind'[s]) = Len(behind[s]) + 1 /\ behind'[s][Len(behind[s]) + 1] = n
      /\ \A i \in 1..Len(behind[s]) : behind'[s][i] = behind[s][i]
      /\ \A i \in 1..Len(behind'[s]) : i \in 1..Len(behind[s]) \/ i = Len(behind[s]) + 1
  BY <1>4, <1>5
<1>7. hand' \in [at : {"rest", "post", "record"}, working : BOOLEAN] /\ hand'.at = "record"
  BY <1>1 DEF ChatShape
<1>8. ChatShape'
  BY <1>1, <1>5, <1>7 DEF ChatShape
<1>9. Passed' = Passed
  BY DEF Passed
<1>10. \A t \in Cloud!Sessions : Cloud!PromptsIn(t)' = Cloud!PromptsIn(t)
  BY DEF Cloud!PromptsIn
<1>11. \A m : m \in Cloud!Busy(s)' <=> m \in Cloud!Busy(s) \/ m = n
  <2>1. ASSUME NEW m, m \in Cloud!Busy(s)' PROVE m \in Cloud!Busy(s) \/ m = n
    <3>1. (\E i \in 1..Len(behind'[s]) : m = behind'[s][i]) \/ (m = doing[s] /\ m # 0)
      BY <1>8, <2>1, PromptsNext
    <3>2. CASE m = doing[s] /\ m # 0
      BY <1>1, <3>2, Prompts
    <3>3. ASSUME NEW i \in 1..Len(behind'[s]), m = behind'[s][i] PROVE m \in Cloud!Busy(s) \/ m = n
      <4>1. CASE i \in 1..Len(behind[s])
        <5>1. m = behind[s][i]
          BY <1>6, <3>3, <4>1
        <5> QED
          BY <1>1, <4>1, <5>1, Prompts
      <4> QED
        BY <1>6, <3>3, <4>1
    <3> QED
      BY <3>1, <3>2, <3>3
  <2>2. ASSUME NEW m, m \in Cloud!Busy(s) PROVE m \in Cloud!Busy(s)'
    <3>1. (\E i \in 1..Len(behind[s]) : m = behind[s][i]) \/ (m = doing[s] /\ m # 0)
      BY <1>1, <2>2, Prompts
    <3>2. CASE m = doing[s] /\ m # 0
      BY <1>8, <3>2, PromptsNext
    <3>3. ASSUME NEW i \in 1..Len(behind[s]), m = behind[s][i] PROVE m \in Cloud!Busy(s)'
      <4>1. i \in 1..Len(behind'[s]) /\ m = behind'[s][i]
        BY <1>4, <1>6, <3>3
      <4> QED
        BY <1>8, <4>1, PromptsNext
    <3> QED
      BY <3>1, <3>2, <3>3
  <2>3. n \in Cloud!Busy(s)'
    <3>1. PICK i : i = Len(behind[s]) + 1
      OBVIOUS
    <3>2. i \in 1..Len(behind'[s]) /\ n = behind'[s][i]
      BY <1>4, <1>6, <3>1
    <3> QED
      BY <1>8, <3>2, PromptsNext
  <2> QED
    BY <2>1, <2>2, <2>3
<1>12. \A t \in Cloud!Sessions \ {s} : Cloud!Busy(t)' = Cloud!Busy(t)
  <2> TAKE t \in Cloud!Sessions \ {s}
  <2>1. behind'[t] = behind[t]
    BY <1>5
  <2> QED
    BY <2>1 DEF Cloud!Busy, Cloud!WaitingIn
<1>13. \A t \in Cloud!Sessions : \A m : m \in Given(t)' <=> m \in Given(t) \/ (m = n /\ t = s)
  BY <1>10, <1>11, <1>12 DEF Given
<1>14. \A t \in Cloud!Sessions : \A m : m \in Cloud!Busy(t)' <=> m \in Cloud!Busy(t) \/ (m = n /\ t = s)
  BY <1>11, <1>12
<1>15. \A t \in Cloud!Sessions : \A m \in Given(t) : m \in Nat /\ m <= Passed
  <2> TAKE t \in Cloud!Sessions
  <2> TAKE m \in Given(t)
  <2>1. m \in 1..(Passed + 1) /\ (m = Passed + 1 => t = s)
    BY <1>1 DEF Homes
  <2> QED
    BY <1>2, <1>3, <2>1
<1>16. InLine' /\ Going' /\ Sent' /\ OneRowEach'
  BY <1>1, <1>7, <1>9 DEF InLine, Going, Sent, OneRowEach
<1>17. Homes'
  <2> SUFFICES ASSUME NEW t \in Cloud!Sessions, NEW m \in Given(t)'
               PROVE  m \in 1..(Passed + 1) /\ (m = Passed + 1 => tape[1].session = t)
    BY <1>2, <1>9 DEF Homes
  <2>1. m \in Given(t) \/ (m = n /\ t = s)
    BY <1>13
  <2>2. CASE m \in Given(t)
    BY <1>1, <2>2 DEF Homes
  <2>3. CASE m = n /\ t = s
    BY <1>2, <1>3, <2>3
  <2> QED
    BY <2>1, <2>2, <2>3
<1>18. OwnTurns'
  <2> SUFFICES ASSUME NEW t \in Cloud!Sessions, NEW r \in Cloud!Sessions, NEW m, m \in Given(t)', m \in Given(r)'
               PROVE  t = r
    BY DEF OwnTurns
  <2>1. \A x \in Cloud!Sessions : n \notin Given(x)
    BY <1>2, <1>3, <1>15
  <2> QED
    BY <1>1, <1>13, <2>1 DEF OwnTurns
<1>19. TurnOrder'
  <2> SUFFICES ASSUME NEW t \in Cloud!Sessions
      PROVE  /\ \A i, j \in 1..Len(behind'[t]) : i < j => behind'[t][i] < behind'[t][j]
             /\ \A i \in 1..Len(behind'[t]), j \in 1..Len(talk[t]) : talk[t][j].turn < behind'[t][i]
             /\ doing[t] # 0 => /\ doing[t] \in Cloud!PromptsIn(t)'
                                /\ \A m \in Cloud!PromptsIn(t)' : m <= doing[t]
             /\ faulty[t] # "none" => doing[t] = 0
    BY DEF TurnOrder
  <2>1. /\ \A i, j \in 1..Len(behind[t]) : i < j => behind[t][i] < behind[t][j]
        /\ \A i \in 1..Len(behind[t]), j \in 1..Len(talk[t]) : talk[t][j].turn < behind[t][i]
        /\ doing[t] # 0 => /\ doing[t] \in Cloud!PromptsIn(t)
                           /\ \A m \in Cloud!PromptsIn(t) : m <= doing[t]
        /\ faulty[t] # "none" => doing[t] = 0
    BY <1>1 DEF TurnOrder
  <2>2. CASE t # s
    BY <1>5, <1>10, <2>1, <2>2
  <2>3. CASE t = s
    <3>1. \A i \in 1..Len(behind[s]) : behind[s][i] < n
      <4> TAKE i \in 1..Len(behind[s])
      <4>1. PICK m : m = behind[s][i]
        OBVIOUS
      <4>2. m \in Given(s)
        BY <1>1, <4>1, Prompts
      <4> QED
        BY <1>2, <1>3, <1>15, <4>1, <4>2
    <3>2. \A j \in 1..Len(talk[s]) : talk[s][j].turn < n
      <4> TAKE j \in 1..Len(talk[s])
      <4>1. PICK m : m = talk[s][j].turn
        OBVIOUS
      <4>2. m \in Given(s)
        BY <1>1, <4>1, Prompts
      <4> QED
        BY <1>2, <1>3, <1>15, <4>1, <4>2
    <3>3. \A i, j \in 1..Len(behind'[s]) : i < j => behind'[s][i] < behind'[s][j]
      <4> SUFFICES ASSUME NEW i \in 1..Len(behind'[s]), NEW j \in 1..Len(behind'[s]), i < j
                   PROVE  behind'[s][i] < behind'[s][j]
        OBVIOUS
      <4>1. i \in 1..Len(behind[s])
        BY <1>4, <1>6
      <4>2. CASE j \in 1..Len(behind[s])
        BY <1>6, <2>1, <2>3, <4>1, <4>2
      <4>3. CASE j = Len(behind[s]) + 1
        BY <1>6, <3>1, <4>1, <4>3
      <4> QED
        BY <1>6, <4>2, <4>3
    <3>4. \A i \in 1..Len(behind'[s]), j \in 1..Len(talk[s]) : talk[s][j].turn < behind'[s][i]
      BY <1>6, <2>1, <2>3, <3>2
    <3> QED
      BY <1>10, <2>1, <2>3, <3>3, <3>4
  <2> QED
    BY <2>2, <2>3
<1>20. Only(chapter[n], s)
  BY <1>1, <1>2, <1>3 DEF OnePlace
<1>21. ASSUME NEW e, NEW x, Only(e, x), e = chapter[n] => x = s PROVE Only(e, x)'
  <2> SUFFICES ASSUME NEW t \in Cloud!Sessions, NEW m \in 1..Len(chapter), m \in Cloud!Busy(t)', chapter[m] = e
               PROVE  t = x
    BY DEF Only
  <2>1. CASE m \in Cloud!Busy(t)
    BY <1>21, <2>1 DEF Only
  <2>2. CASE m = n /\ t = s
    BY <1>21, <2>2
  <2> QED
    BY <1>14, <2>1, <2>2
<1>22. OnePlace'
  <2>1. (\A t \in Cloud!Sessions, m \in 1..Len(chapter) : m \in Cloud!Busy(t) => Only(chapter[m], t))'
    <3> SUFFICES ASSUME NEW t \in Cloud!Sessions, NEW m \in 1..Len(chapter), m \in Cloud!Busy(t)'
                 PROVE  Only(chapter[m], t)'
      OBVIOUS
    <3>1. PICK e : e = chapter[m]
      OBVIOUS
    <3>2. Only(e, t) /\ (e = chapter[n] => t = s)
      <4>1. CASE m \in Cloud!Busy(t)
        <5>1. Only(e, t)
          BY <1>1, <3>1, <4>1 DEF OnePlace
        <5>2. e = chapter[n] => t = s
          BY <1>20, <3>1, <4>1 DEF Only
        <5> QED
          BY <5>1, <5>2
      <4>2. CASE m = n /\ t = s
        BY <1>20, <3>1, <4>2
      <4> QED
        BY <1>14, <4>1, <4>2
    <3>3. Only(e, t)'
      BY <1>21, <3>2
    <3> QED
      BY <3>1, <3>3 DEF Only
  <2>2. (\A i \in 1..Len(tape) : Only(chapter[Passed + i], tape[i].session))'
    <3> SUFFICES ASSUME NEW i \in 1..Len(tape) PROVE Only(chapter[Passed + i], tape[i].session)'
      OBVIOUS
    <3>1. PICK e, x : e = chapter[Passed + i] /\ x = tape[i].session
      OBVIOUS
    <3>2. Only(e, x)
      BY <1>1, <3>1 DEF OnePlace
    <3>3. e = chapter[n] => x = s
      <4>1. Passed + i \in (Passed + 1)..Len(chapter) /\ n \in (Passed + 1)..Len(chapter)
        BY <1>2, <1>3
      <4>2. e = chapter[n] => Passed + i = n
        BY <1>1, <3>1, <4>1 DEF OneRowEach
      <4>3. Passed + i = n => i = 1
        BY <1>2, <1>3
      <4> QED
        BY <3>1, <4>2, <4>3
    <3>4. Only(e, x)'
      BY <1>21, <3>2, <3>3
    <3> QED
      BY <1>9, <3>1, <3>4 DEF Only
  <2>3. (\A t \in Cloud!Sessions : chats[t].sent # 0 /\ ~chats[t].continued =>
          Newest(chats[t].sent) /\ Only(chapter[chats[t].sent], t))'
    <3> SUFFICES ASSUME NEW t \in Cloud!Sessions, chats[t].sent # 0, ~chats[t].continued
                 PROVE  (Newest(chats[t].sent) /\ Only(chapter[chats[t].sent], t))'
      OBVIOUS
    <3>1. PICK k : k = chats[t].sent
      OBVIOUS
    <3>2. PICK e : e = chapter[k]
      OBVIOUS
    <3>3. Newest(k) /\ Only(e, t)
      BY <1>1, <3>1, <3>2 DEF OnePlace
    <3>4. chapter[n] # e
      <4>1. k \in Nat /\ k <= Passed
        BY <1>1, <3>1 DEF Sent, ChatShape, Chat
      <4>2. chapter[n] = e => n <= k
        BY <1>3, <3>2, <3>3 DEF Newest
      <4> QED
        BY <1>2, <1>3, <4>1, <4>2
    <3>5. Only(e, t)'
      BY <1>21, <3>3, <3>4
    <3>6. Newest(k)'
      BY <3>3 DEF Newest
    <3> QED
      BY <3>1, <3>2, <3>5, <3>6 DEF Newest, Only
  <2> QED
    BY <2>1, <2>2, <2>3 DEF OnePlace
<1>23. Reads'
  <2>1. \A k \in 1..Passed : Newest(k) /\ Left(chapter[k]) => Left(chapter[k])'
    <3> SUFFICES ASSUME NEW k \in 1..Passed, Newest(k), Left(chapter[k]),
                        NEW t \in Cloud!Sessions, NEW m \in 1..Len(chapter), chapter[m] = chapter[k],
                        m \in Cloud!Busy(t)'
                 PROVE  FALSE
      BY DEF Left
    <3>1. m <= k
      BY DEF Newest
    <3>2. m # n
      BY <1>2, <1>3, <3>1
    <3>3. m \in Cloud!Busy(t)
      BY <1>14, <3>2
    <3> QED
      BY <3>3 DEF Left
  <2>2. \A t \in Cloud!Sessions : Len(talk[t]) <= Len(talk'[t])
    <3> TAKE t \in Cloud!Sessions
    <3>1. Len(talk[t]) \in Nat
      BY <1>1, Prompts
    <3> QED
      BY <3>1
  <2> QED
    BY <1>1, <1>2, <1>8, <1>9, <2>1, <2>2, ReadsKept
<1>24. FailureRead' /\ Failures'
  BY <1>1, FailureStays, FailuresKept
<1>25. LastSent'
  <2> SUFFICES ASSUME ~ended PROVE LastSent'
    BY DEF LastSent
  <2>1. \A t \in Cloud!Sessions : chats[t].sent # 0 =>
          chats[t].sent \in Given(t) /\ \A m \in Given(t) : m <= chats[t].sent \/ m = Passed + 1
    BY <1>1 DEF LastSent
  <2>2. \A t \in Cloud!Sessions : chats[t].sent # 0 =>
          chats[t].sent \in Given(t)' /\ \A m \in Given(t)' : m <= chats[t].sent \/ m = Passed + 1
    BY <1>3, <1>13, <2>1
  <2>3. PICK x : x = tape[1].turn
    OBVIOUS
  <2>4. x \in Given(s)'
    BY <1>13, <2>3
  <2>5. (tape[1].turn \in Given(tape[1].session))'
    BY <2>3, <2>4 DEF Given, Cloud!Busy, Cloud!WaitingIn, Cloud!PromptsIn
  <2> QED
    BY <1>9, <2>2, <2>5 DEF LastSent
<1> QED
  BY <1>8, <1>16, <1>17, <1>18, <1>19, <1>22, <1>23, <1>24, <1>25 DEF CloudInv, ChatInv, FailInv

LEMMA PostingStep == ASSUME CloudInv, Cloud!RowPosts PROVE CloudInv'
<1>1. /\ ChatInv /\ ChatShape /\ InLine /\ Going /\ TurnOrder /\ LastSent /\ Failures /\ tape \in Seq(CloudRow)
  BY DEF CloudInv, ChatInv, FailInv, ChatShape
<1>2. /\ UNCHANGED <<chapter, newest, glance, reach, talk, doing, faulty, slept, result, chats, ended>>
      /\ hand.at = "post"
  BY DEF Cloud!RowPosts, Cloud!store
<1>3. tape # << >> /\ tape[1].session \in Cloud!Sessions
  BY <1>1, <1>2 DEF Going
<1>4. CASE ended /\ Cloud!RowDone /\ behind' = behind
  BY <1>2, <1>3, <1>4, RowDone DEF Cloud!RowDone
<1>5. PICK s, n : s \in Cloud!Sessions /\ s = tape[1].session /\ n = tape[1].turn
  BY <1>3
<1>6. n \in Nat
  <2>1. tape[1] \in CloudRow
    BY <1>1, <1>3
  <2> QED
    BY <1>5, <2>1 DEF CloudRow
<1>7. CASE /\ tape' = tape /\ hand' = [hand EXCEPT !.at = "record"]
           /\ n \notin Given(s) /\ behind' = [behind EXCEPT ![s] = Append(@, n)]
  BY <1>2, <1>5, <1>6, <1>7, TurnTaken
<1>8. CASE tape' = tape /\ hand' = [hand EXCEPT !.at = "record"] /\ n \in Given(s) /\ behind' = behind
  <2>1. hand' \in [at : {"rest", "post", "record"}, working : BOOLEAN]
    BY <1>1, <1>8 DEF ChatShape
  <2>2. ChatShape'
    BY <1>1, <1>2, <1>8, <2>1 DEF ChatShape
  <2>3. AgentsKeep /\ GivenSame /\ Passed' = Passed /\ Passed \in Nat
    BY <1>1, <1>2, <1>8, AgentsRest, LineCounts DEF Passed
  <2>4. Reads'
    BY <1>1, <1>2, <2>2, <2>3, ReadsStay
  <2>5. LastSent'
    <3>1. n \in Given(s)'
      <4>1. Given(s)' = Given(s)
        BY <1>5, <2>3 DEF GivenSame
      <4> QED
        BY <1>8, <4>1
    <3>2. (tape[1].turn \in Given(tape[1].session))'
      BY <1>5, <1>8, <3>1 DEF Given, Cloud!Busy, Cloud!WaitingIn, Cloud!PromptsIn
    <3> QED
      BY <1>1, <1>2, <2>3, <3>2 DEF LastSent, GivenSame
  <2>6. InLine' /\ Going' /\ Homes' /\ OwnTurns' /\ Sent' /\ OneRowEach' /\ OnePlace'
    BY <1>1, <1>2, <1>3, <1>8, <2>3
    DEF ChatInv, InLine, Going, Homes, OwnTurns, Sent, OneRowEach, OnePlace, Newest, Only, GivenSame,
        Cloud!Busy, Cloud!WaitingIn
  <2>7. TurnOrder'
    BY <1>1, <1>2, <1>8 DEF TurnOrder, Cloud!PromptsIn
  <2>8. FailureRead' /\ Failures'
    BY <1>1, <1>2, FailureStays, FailuresKept
  <2> QED
    BY <2>2, <2>4, <2>5, <2>6, <2>7, <2>8 DEF CloudInv, ChatInv, FailInv
<1> QED
  BY <1>4, <1>5, <1>7, <1>8 DEF Cloud!RowPosts, Cloud!Row, Given

-----------------------------------------------------------------------------
\* A step that queues a row.
LEMMA QueueStep ==
  ASSUME CloudInv, UNCHANGED <<newest, hand, talk, doing, behind, faulty, slept, result, ended>>, ChatsKeep,
         chats' \in [Cloud!Sessions -> Chat], reach' \in [Cloud!Sessions -> Nat], glance' \in Glance,
         NEW msg \in CloudRow, NEW e \in 1..(Len(chapter) + 1),
         tape' = Append(tape, msg), chapter' = Append(chapter, e), msg.turn = Len(chapter) + 1,
         msg.session \in {0} \cup Cloud!Sessions,
         msg.session # 0 => chats[msg.session].provider # 0,
         msg.type = "thread" => /\ msg.prev \in Cloud!Sessions /\ msg.prevTurn # 0
                                /\ msg.provider # 0 /\ msg.session = 0,
         \/ e = Len(chapter) + 1
         \/ /\ Only(e, msg.session)
            /\ \E n \in 1..Passed : /\ chapter[n] = e /\ Newest(n)
                                    /\ \A t \in Cloud!Sessions : chats[t].sent = n => chats'[t].continued,
         \/ glance'.at = "rest"
         \/ glance' = glance /\ \A t \in Cloud!Sessions : chats'[t].continued => chats[t].continued,
         FailureRead'
  PROVE  CloudInv'
<1>1. /\ ChatInv /\ ChatShape /\ Homes /\ Going /\ LastSent /\ Failures /\ TurnOrder
      /\ tape \in Seq(CloudRow) /\ chapter \in Seq(Nat)
  BY DEF CloudInv, ChatInv, FailInv, ChatShape
<1>2. /\ Len(tape) \in Nat /\ Len(chapter) \in Nat /\ Passed \in Nat /\ Passed + Len(tape) = Len(chapter)
      /\ e \in Nat
  BY <1>1, LineCounts
<1>3. /\ tape' \in Seq(CloudRow) /\ Len(tape') = Len(tape) + 1
      /\ chapter' \in Seq(Nat) /\ Len(chapter') = Len(chapter) + 1
      /\ \A i \in 1..Len(tape) : tape'[i] = tape[i]
      /\ \A i \in 1..Len(chapter) : chapter'[i] = chapter[i]
  BY <1>1, <1>2
<1>4. ChatShape'
  <2>1. Len(tape') <= Len(chapter')
    BY <1>2, <1>3
  <2> QED
    BY <1>1, <1>3, <2>1 DEF ChatShape
<1>5. Passed' = Passed
  BY <1>2, <1>3 DEF Passed
<1>6. AgentsKeep /\ GivenSame
  BY AgentsRest
<1>7. InLine' /\ Going' /\ Homes' /\ OwnTurns' /\ Sent' /\ OneRowEach' /\ OnePlace'
  BY <1>1, <1>4, <1>6, TurnQueued
<1>8. TurnOrder' /\ Failures'
  BY <1>1, FailuresKept DEF TurnOrder, Cloud!PromptsIn
<1>9. Reads'
  <2>1. CASE glance'.at = "rest"
    BY <2>1, NothingRead
  <2>2. CASE glance' = glance /\ \A t \in Cloud!Sessions : chats'[t].continued => chats[t].continued
    <3>1. \A n \in 1..Passed : chapter'[n] = chapter[n]
      BY <1>2, <1>3
    <3>2. \A n \in 1..Passed : Left(chapter[n]) => Left(chapter[n])'
      <4> SUFFICES ASSUME NEW n \in 1..Passed, Left(chapter[n]) PROVE Left(chapter[n])'
        OBVIOUS
      <4>1. PICK f : f = chapter[n]
        OBVIOUS
      <4>2. Left(f)'
        BY <1>1, <1>2, <1>6, <4>1, PlacesQueued
      <4> QED
        BY <3>1, <4>1, <4>2 DEF Left
    <3>3. \A t \in Cloud!Sessions : Len(talk[t]) <= Len(talk'[t])
      <4> TAKE t \in Cloud!Sessions
      <4>1. Len(talk[t]) \in Nat
        BY <1>1, Prompts
      <4> QED
        BY <4>1
    <3> QED
      BY <1>1, <1>2, <1>4, <1>5, <2>2, <3>1, <3>2, <3>3, ReadsKept DEF ChatsKeep, ChatKept
  <2> QED
    BY <2>1, <2>2
<1>10. LastSent'
  <2>1. hand'.at = "record" => hand.at = "record" /\ tape'[1] = tape[1]
    <3>1. hand.at = "record" => 1 \in 1..Len(tape)
      BY <1>1, <1>2, LineCounts DEF Going
    <3> QED
      BY <1>3, <3>1
  <2> QED
    BY <1>1, <1>5, <1>6, <2>1, LastKept DEF ChatsKeep, ChatKept
<1> QED
  BY <1>4, <1>7, <1>8, <1>9, <1>10 DEF CloudInv, ChatInv, FailInv

\* The rows as they are queued.
WithTurn(msg, n) == [msg EXCEPT !.turn = n]
OwnersRow(s, n) == WithTurn(Cloud!Send(s, FALSE), n)
PollersRow(s, n) == WithTurn(Cloud!Send(s, TRUE), n)
LEMMA SendIs ==
  ASSUME NEW s \in {0} \cup Cloud!Sessions, NEW n \in Nat, NEW r,
         r = OwnersRow(s, n) \/ r = PollersRow(s, n)
  PROVE  r \in CloudRow /\ r.turn = n /\ r.session = s /\ r.type = "send"
<1>1. PICK b \in BOOLEAN :
        r = [turn |-> n, type |-> "send", session |-> s, recovery |-> b, prev |-> 0, prevTurn |-> 0,
             provider |-> 0]
  <2>1. \/ r = [turn |-> n, type |-> "send", session |-> s, recovery |-> FALSE, prev |-> 0, prevTurn |-> 0,
                provider |-> 0]
        \/ r = [turn |-> n, type |-> "send", session |-> s, recovery |-> TRUE, prev |-> 0, prevTurn |-> 0,
                provider |-> 0]
    BY DEF Cloud!Send, WithTurn, OwnersRow, PollersRow
  <2> QED
    BY <2>1
<1>2. s \in Nat
  BY DEF Cloud!Sessions
<1> QED
  BY <1>1, <1>2 DEF CloudRow

LEMMA ReplacementIs ==
  ASSUME NEW s \in Cloud!Sessions, NEW m \in Nat, NEW p \in Nat, NEW n \in Nat, NEW r,
         r = WithTurn(Cloud!Replacement(s, m, p), n)
  PROVE  /\ r \in CloudRow /\ r.turn = n /\ r.session = 0 /\ r.prev = s /\ r.prevTurn = m
         /\ r.provider = p
<1>1. r = [turn |-> n, type |-> "thread", session |-> 0, recovery |-> TRUE, prev |-> s,
           prevTurn |-> m, provider |-> p]
  BY DEF Cloud!Replacement, WithTurn
<1>2. s \in Nat
  BY DEF Cloud!Sessions
<1> QED
  BY <1>1, <1>2 DEF CloudRow

LEMMA SendingStep ==
  ASSUME CloudInv, NEW s \in {0} \cup Cloud!Sessions, Cloud!OwnerSends(s)
  PROVE  CloudInv'
<1>1. ChatInv /\ ChatShape /\ Len(chapter) \in Nat
  BY LineCounts DEF CloudInv, ChatInv
<1>2. PICK n \in Nat : n = Len(chapter) + 1 /\ n \in 1..n
  BY <1>1
<1>3. PICK msg : msg = OwnersRow(s, n)
  OBVIOUS
<1>4. msg \in CloudRow /\ msg.turn = n /\ msg.session = s /\ msg.type = "send"
  BY <1>3, SendIs
<1>5. /\ UNCHANGED <<newest, hand, talk, doing, behind, faulty, slept, result, ended, chats, reach, glance>>
      /\ tape' = Append(tape, msg) /\ chapter' = Append(chapter, n)
      /\ s # 0 => chats[s].provider # 0
  BY <1>2, <1>3 DEF OwnersRow, WithTurn, Cloud!OwnerSends, Cloud!Queue, Cloud!store, Cloud!agents, Cloud!Made
<1>6. /\ chats' \in [Cloud!Sessions -> Chat] /\ reach' \in [Cloud!Sessions -> Nat] /\ glance' \in Glance
      /\ ChatsKeep
  BY <1>1, <1>5 DEF ChatShape, ChatsKeep, ChatKept
<1>7. FailureRead'
  BY <1>1, <1>5, FailureStays
<1> QED
  BY <1>2, <1>4, <1>5, <1>6, <1>7, QueueStep

-----------------------------------------------------------------------------
\* What a visit makes of the rows it read.
LEMMA Observing ==
  ASSUME CloudInv, NEW s \in Cloud!Sessions, glance.at = "status", glance.session = s
  PROVE  /\ Cloud!Observed(s) \in Chat
         /\ Cloud!Observed(s).provider = chats[s].provider /\ Cloud!Observed(s).sent = chats[s].sent
         /\ Cloud!Observed(s).continued = chats[s].continued
         /\ Cloud!Observed(s).failure # "none" =>
              \E j \in 1..Len(talk[s]) : talk[s][j].turn = chats[s].sent /\ talk[s][j].kind \in Bad
<1>1. ChatShape /\ Reads /\ FailureRead
  BY DEF CloudInv, ChatInv
<1>2. chats[s] \in Chat /\ reach[s] \in Nat /\ glance.upto \in Nat /\ glance.upto <= Len(talk[s])
      /\ Len(talk[s]) \in Nat
  BY <1>1, Prompts DEF ChatShape, Reads, Glance
<1>3. PICK own : own = IF chats[s].sent = 0 THEN {} ELSE Cloud!Own(s)
  OBVIOUS
<1>4. \A k \in own : \E j \in 1..Len(talk[s]) : talk[s][j].turn = chats[s].sent /\ talk[s][j].kind = k
  <2> SUFFICES ASSUME NEW k \in Cloud!Own(s)
               PROVE  \E j \in 1..Len(talk[s]) : talk[s][j].turn = chats[s].sent /\ talk[s][j].kind = k
    BY <1>3
  <2>1. PICK j \in (reach[s] + 1)..glance.upto : talk[s][j].turn = chats[s].sent /\ talk[s][j].kind = k
    BY DEF Cloud!Own
  <2>2. j \in 1..Len(talk[s])
    BY <1>2
  <2> QED
    BY <2>1, <2>2
<1>5. PICK c : c = chats[s]
  OBVIOUS
<1>6. PICK read : read = [[c EXCEPT !.seenReply = @ \/ "text" \in own] EXCEPT !.completed = @ \/ "completed" \in own]
  OBVIOUS
<1>7. PICK seen :
        seen = [[read EXCEPT !.seenWorking = @ \/ (Cloud!Status(s) = "working" /\ ~c.edge)]
                  EXCEPT !.edge = @ /\ Cloud!Status(s) = "working"]
  OBVIOUS
<1>8. PICK broken : broken = own \cap Bad
  OBVIOUS
<1>9. Cloud!Observed(s) = IF broken = {} THEN seen ELSE [seen EXCEPT !.failure = CHOOSE f \in broken : TRUE]
  BY <1>3, <1>5, <1>6, <1>7, <1>8 DEF Cloud!Observed, Bad
<1>10. c \in Chat /\ c.failure = chats[s].failure
  BY <1>2, <1>5
<1>11. PICK a, b \in BOOLEAN : a = (c.seenReply \/ "text" \in own) /\ b = (c.completed \/ "completed" \in own)
  OBVIOUS
<1>12. read = [[c EXCEPT !.seenReply = a] EXCEPT !.completed = b]
  BY <1>6, <1>11
<1>13. read = [provider |-> c.provider, sent |-> c.sent, terminal |-> c.terminal, stopped |-> c.stopped,
               seenReply |-> a, seenWorking |-> c.seenWorking, edge |-> c.edge,
               continued |-> c.continued, completed |-> b, failure |-> c.failure]
  <2>1. c = [provider |-> c.provider, sent |-> c.sent, terminal |-> c.terminal, stopped |-> c.stopped,
             seenReply |-> c.seenReply, seenWorking |-> c.seenWorking, edge |-> c.edge,
             continued |-> c.continued, completed |-> c.completed, failure |-> c.failure]
    BY <1>10, ChatFields
  <2> QED
    BY <1>12, <2>1
<1>14. PICK g, h \in BOOLEAN : /\ g = (read.seenWorking \/ (Cloud!Status(s) = "working" /\ ~c.edge))
                               /\ h = (read.edge /\ Cloud!Status(s) = "working")
  OBVIOUS
<1>15. seen = [[read EXCEPT !.seenWorking = g] EXCEPT !.edge = h]
  BY <1>7, <1>14
<1>16. seen = [provider |-> c.provider, sent |-> c.sent, terminal |-> c.terminal, stopped |-> c.stopped,
               seenReply |-> a, seenWorking |-> g, edge |-> h,
               continued |-> c.continued, completed |-> b, failure |-> c.failure]
  BY <1>13, <1>15
<1>17. seen \in Chat /\ seen.provider = c.provider /\ seen.sent = c.sent /\ seen.continued = c.continued
       /\ seen.failure = c.failure
  BY <1>10, <1>16 DEF Chat
<1>18. CASE broken = {}
  BY <1>1, <1>5, <1>9, <1>17, <1>18 DEF FailureRead
<1>19. CASE broken # {}
  <2>1. PICK f : f = CHOOSE x \in broken : TRUE
    OBVIOUS
  <2>2. f \in own /\ f \in Bad
    BY <1>8, <1>19, <2>1
  <2>3. Cloud!Observed(s) = [seen EXCEPT !.failure = f]
    BY <1>9, <1>19, <2>1
  <2>4. Cloud!Observed(s) =
          [provider |-> c.provider, sent |-> c.sent, terminal |-> c.terminal, stopped |-> c.stopped,
           seenReply |-> a, seenWorking |-> g, edge |-> h,
           continued |-> c.continued, completed |-> b, failure |-> f]
    BY <1>16, <2>3
  <2>5. Cloud!Observed(s) \in Chat
    BY <1>10, <2>2, <2>4 DEF Chat, Bad
  <2> QED
    BY <1>4, <1>5, <2>2, <2>4, <2>5
<1> QED
  BY <1>18, <1>19

-----------------------------------------------------------------------------
\* What a visit's reading alone changes.
LEMMA AppliedStep ==
  ASSUME CloudInv, UNCHANGED <<tape, chapter, hand, newest, talk, doing, behind, faulty, slept, result, ended>>,
         NEW s \in Cloud!Sessions, NEW c \in Chat, chats' = [chats EXCEPT ![s] = c],
         c.provider = chats[s].provider, c.sent = chats[s].sent, chats[s].continued => c.continued,
         c.failure # "none" =>
            \E j \in 1..Len(talk[s]) : talk[s][j].turn = chats[s].sent /\ talk[s][j].kind \in Bad,
         reach' \in [Cloud!Sessions -> Nat], glance' \in Glance, Reads'
  PROVE  CloudInv'
<1>1. ChatInv /\ ChatShape /\ LastSent /\ Failures /\ FailureRead /\ TurnOrder
  BY DEF CloudInv, ChatInv, FailInv
<1>2. /\ chats' \in [Cloud!Sessions -> Chat] /\ chats'[s] = c
      /\ \A t \in Cloud!Sessions \ {s} : chats'[t] = chats[t]
  BY <1>1, ChatWritten
<1>3. ChatShape'
  BY <1>1, <1>2 DEF ChatShape
<1>4. ChatsKeep
  <2> SUFFICES ASSUME NEW t \in Cloud!Sessions PROVE ChatKept(t)
    BY DEF ChatsKeep
  <2>1. CASE t = s
    BY <1>2, <2>1 DEF ChatKept
  <2>2. CASE t # s
    BY <1>2, <2>2 DEF ChatKept
  <2> QED
    BY <2>1, <2>2
<1>5. AgentsKeep /\ GivenSame /\ Passed' = Passed
  BY AgentsRest DEF Passed
<1>6. InLine' /\ Going' /\ Homes' /\ OwnTurns' /\ Sent' /\ OneRowEach' /\ OnePlace'
  <2>1. \A t \in Cloud!Sessions : ChatKept(t) \/ TurnDone(t)
    BY <1>4 DEF ChatsKeep
  <2> QED
    BY <1>1, <1>3, <1>5, <2>1, LineKept
<1>7. TurnOrder' /\ Failures'
  BY <1>1, FailuresKept DEF TurnOrder, Cloud!PromptsIn
<1>8. LastSent'
  BY <1>1, <1>4, <1>5, LastKept DEF ChatsKeep, ChatKept
<1>9. FailureRead'
  <2> SUFFICES ASSUME NEW t \in Cloud!Sessions, chats'[t].failure # "none"
               PROVE  \E j \in 1..Len(talk[t]) : talk[t][j].turn = chats'[t].sent /\ talk[t][j].kind \in Bad
    BY DEF FailureRead
  <2>1. CASE t = s
    BY <1>2, <2>1
  <2>2. CASE t # s
    BY <1>1, <1>2, <2>2 DEF FailureRead
  <2> QED
    BY <2>1, <2>2
<1> QED
  BY <1>3, <1>6, <1>7, <1>8, <1>9 DEF CloudInv, ChatInv, FailInv

\* A failure is read a second time before anything is done about it.
Confirming(g, n, d) == [[[g EXCEPT !.at = "confirm"] EXCEPT !.sent = n] EXCEPT !.detail = d]
Details == {"none", "interrupted", "spent", "other"}
LEMMA ConfirmIs ==
  ASSUME NEW g \in Glance, NEW n \in Nat, NEW d \in Details, NEW h,
         h = Confirming(g, n, d)
  PROVE  h \in Glance /\ h.at = "confirm" /\ h.sent = n /\ h.session = g.session
<1>1. g = [at |-> g.at, session |-> g.session, upto |-> g.upto, full |-> g.full, dormant |-> g.dormant,
           sent |-> g.sent, detail |-> g.detail]
  BY GlanceFields
<1>2. h = [at |-> "confirm", session |-> g.session, upto |-> g.upto, full |-> g.full, dormant |-> g.dormant,
           sent |-> n, detail |-> d]
  BY <1>1 DEF Confirming
<1> QED
  BY <1>2 DEF Glance, Details

\* What every visit does with what it read.
LEMMA VisitReads ==
  ASSUME CloudInv, NEW s \in Cloud!Sessions, NEW new, new = Cloud!Observed(s), Cloud!Applies(s, new)
  PROVE  /\ glance.at = "status" /\ glance.session = s /\ reach' \in [Cloud!Sessions -> Nat]
         /\ UNCHANGED <<hand, newest, talk, doing, behind, faulty, slept, result, ended>>
<1>1. reach \in [Cloud!Sessions -> Nat] /\ glance \in Glance
  BY DEF CloudInv, ChatInv, ChatShape
<1>2. glance.upto \in Nat
  BY <1>1 DEF Glance
<1> QED
  BY <1>1, <1>2 DEF Cloud!Applies, Cloud!agents

LEMMA ApplyingStep == ASSUME CloudInv, Cloud!VisitApplies PROVE CloudInv'
<1>1. ChatInv /\ ChatShape /\ Reads /\ Sent /\ Going
  BY DEF CloudInv, ChatInv
<1>2. PICK s \in Cloud!Sessions :
        LET new == Cloud!Observed(s)
            n == chats[s].sent
            detail == IF new.failure # "none" THEN new.failure ELSE faulty[s]
        IN /\ Cloud!Applies(s, new)
           /\ UNCHANGED <<tape, requested, chapter>>
           /\ \/ /\ chats' = [chats EXCEPT ![s] = new] /\ glance' = Cloud!NoVisit
              \/ /\ chats' = [chats EXCEPT ![s] = [new EXCEPT !.terminal = TRUE]]
                 /\ glance' = Cloud!NoVisit
              \/ /\ chats' = [chats EXCEPT ![s] = new]
                 /\ Cloud!Judged(s) /\ ~new.continued
                 /\ glance' = [[[glance EXCEPT !.at = "confirm"] EXCEPT !.sent = n] EXCEPT !.detail = detail]
  BY DEF Cloud!VisitApplies
<1>3. PICK new : new = Cloud!Observed(s)
  OBVIOUS
<1>4. PICK n, detail : n = chats[s].sent /\ detail = IF new.failure # "none" THEN new.failure ELSE faulty[s]
  OBVIOUS
<1>5. /\ Cloud!Applies(s, new) /\ tape' = tape /\ chapter' = chapter
      /\ \/ /\ chats' = [chats EXCEPT ![s] = new] /\ glance' = Cloud!NoVisit
         \/ /\ chats' = [chats EXCEPT ![s] = [new EXCEPT !.terminal = TRUE]]
            /\ glance' = Cloud!NoVisit
         \/ /\ chats' = [chats EXCEPT ![s] = new]
            /\ Cloud!Judged(s) /\ ~new.continued
            /\ glance' = Confirming(glance, n, detail)
  BY <1>2, <1>3, <1>4 DEF Confirming
<1>6. /\ glance.at = "status" /\ glance.session = s /\ reach' \in [Cloud!Sessions -> Nat]
      /\ UNCHANGED <<hand, newest, talk, doing, behind, faulty, slept, result, ended>>
  BY <1>3, <1>5, VisitReads
<1>7. /\ new \in Chat /\ new.provider = chats[s].provider /\ new.sent = chats[s].sent
      /\ new.continued = chats[s].continued
      /\ new.failure # "none" =>
           \E j \in 1..Len(talk[s]) : talk[s][j].turn = chats[s].sent /\ talk[s][j].kind \in Bad
  BY <1>3, <1>6, Observing
<1>8. ASSUME chats' = [chats EXCEPT ![s] = new], glance' \in Glance, Reads' PROVE CloudInv'
  BY <1>5, <1>6, <1>7, <1>8, AppliedStep
<1>9. CASE chats' = [chats EXCEPT ![s] = new] /\ glance' = Cloud!NoVisit
  <2>1. glance' \in Glance /\ Reads'
    BY <1>9, RestIsRest, NothingRead
  <2> QED
    BY <1>8, <1>9, <2>1
<1>10. CASE /\ chats' = [chats EXCEPT ![s] = [new EXCEPT !.terminal = TRUE]]
            /\ glance' = Cloud!NoVisit
  <2>1. glance' \in Glance /\ Reads'
    BY <1>10, RestIsRest, NothingRead
  <2>2. PICK c : c = [new EXCEPT !.terminal = TRUE]
    OBVIOUS
  <2>3. Marks(new, c) /\ c.continued = new.continued
    BY <1>7, <2>2, ChatMarks
  <2>4. /\ c \in Chat /\ c.provider = chats[s].provider /\ c.sent = chats[s].sent
        /\ c.failure = new.failure /\ chats' = [chats EXCEPT ![s] = c]
    BY <1>7, <1>10, <2>2, <2>3 DEF Marks
  <2> QED
    BY <1>5, <1>6, <1>7, <2>1, <2>3, <2>4, AppliedStep
<1>11. CASE /\ chats' = [chats EXCEPT ![s] = new]
            /\ Cloud!Judged(s) /\ ~new.continued
            /\ glance' = Confirming(glance, n, detail)
  <2>1. n \in Nat /\ n # 0 /\ detail \in Details /\ glance \in Glance
    BY <1>1, <1>4, <1>7, <1>11 DEF ChatShape, Chat, Details, Cloud!Judged
  <2>2. glance' \in Glance /\ glance'.at = "confirm" /\ glance'.sent = n /\ glance'.session = s
    <3>1. PICK g, h : g = glance /\ h = glance'
      OBVIOUS
    <3>2. h = Confirming(g, n, detail) /\ g \in Glance
      BY <1>11, <2>1, <3>1
    <3>3. h \in Glance /\ h.at = "confirm" /\ h.sent = n /\ h.session = g.session
      BY <2>1, <3>2, ConfirmIs
    <3> QED
      BY <1>6, <3>1, <3>3
  <2>3. chats'[s] = new
    BY <1>1, <1>7, <1>11, ChatWritten
  <2>4. n <= Passed /\ Passed' = Passed
    BY <1>1, <1>4, <1>5 DEF Sent, Passed
  <2>5. Reads'
    BY <1>11, <2>1, <2>2, <2>3, <2>4 DEF Reads
  <2> QED
    BY <1>8, <1>11, <2>2, <2>5
<1> QED
  BY <1>5, <1>9, <1>10, <1>11

-----------------------------------------------------------------------------
\* The poller continues the newest turn of an episode, and marks its session.
LEMMA ContinuingStep ==
  ASSUME CloudInv, UNCHANGED <<newest, hand, talk, doing, behind, faulty, slept, result, ended>>,
         NEW s \in Cloud!Sessions, NEW n, n = chats[s].sent, n # 0, ~chats[s].continued,
         NEW c \in Chat, chats' = [chats EXCEPT ![s] = c],
         c.provider = chats[s].provider, c.sent = n, c.continued,
         c.failure # "none" => \E j \in 1..Len(talk[s]) : talk[s][j].turn = n /\ talk[s][j].kind \in Bad,
         reach' \in [Cloud!Sessions -> Nat], glance' \in Glance, glance'.at = "rest",
         NEW msg \in CloudRow, tape' = Append(tape, msg), msg.turn = Len(chapter) + 1,
         \/ msg.type = "send" /\ msg.session = s
         \/ /\ msg.session = 0 /\ msg.prev = s /\ msg.prevTurn # 0 /\ msg.provider # 0
            /\ Left(chapter[n]),
         NEW e, e = chapter[n], chapter' = Append(chapter, e)
  PROVE  CloudInv'
<1>1. ChatInv /\ ChatShape /\ InLine /\ Going /\ Sent /\ OnePlace /\ FailureRead
  BY DEF CloudInv, ChatInv
<1>2. /\ chats' \in [Cloud!Sessions -> Chat] /\ chats'[s] = c
      /\ \A t \in Cloud!Sessions \ {s} : chats'[t] = chats[t]
  BY <1>1, ChatWritten
<1>3. ChatsKeep
  <2> SUFFICES ASSUME NEW t \in Cloud!Sessions PROVE ChatKept(t)
    BY DEF ChatsKeep
  <2>1. CASE t = s
    BY <1>2, <2>1 DEF ChatKept
  <2>2. CASE t # s
    BY <1>2, <2>2 DEF ChatKept
  <2> QED
    BY <2>1, <2>2
<1>4. /\ n \in 1..Passed /\ n \in 1..Len(chapter) /\ Len(chapter) \in Nat /\ Newest(n) /\ Only(e, s)
      /\ chats[s].provider # 0
  <2>1. n \in Nat /\ n <= Passed /\ Passed \in Nat /\ Len(tape) \in Nat /\ Passed + Len(tape) = Len(chapter)
    BY <1>1, LineCounts DEF Sent, ChatShape, Chat
  <2> QED
    BY <1>1, <2>1 DEF OnePlace, Going
<1>5. e \in 1..(Len(chapter) + 1)
  <2>1. e \in 1..n
    BY <1>1, <1>4 DEF InLine
  <2> QED
    BY <1>4, <2>1
<1>6. \A t \in Cloud!Sessions : chats[t].sent = n => chats'[t].continued
  BY <1>1, <1>2 DEF Sent
<1>7. FailureRead'
  <2> SUFFICES ASSUME NEW t \in Cloud!Sessions, chats'[t].failure # "none"
               PROVE  \E j \in 1..Len(talk[t]) : talk[t][j].turn = chats'[t].sent /\ talk[t][j].kind \in Bad
    BY DEF FailureRead
  <2>1. CASE t = s
    BY <1>2, <2>1
  <2>2. CASE t # s
    BY <1>1, <1>2, <2>2 DEF FailureRead
  <2> QED
    BY <2>1, <2>2
<1>8. /\ msg.session \in {0} \cup Cloud!Sessions /\ msg.session # 0 => chats[msg.session].provider # 0
      /\ msg.type = "thread" => /\ msg.prev \in Cloud!Sessions /\ msg.prevTurn # 0
                                /\ msg.provider # 0 /\ msg.session = 0
      /\ Only(e, msg.session)
  <2>1. CASE msg.type = "send" /\ msg.session = s
    BY <1>4, <2>1
  <2>2. CASE /\ msg.session = 0 /\ msg.prev = s /\ msg.prevTurn # 0 /\ msg.provider # 0
             /\ Left(chapter[n])
    <3>1. Only(e, msg.session)
      BY <2>2 DEF Left, Only
    <3> QED
      BY <2>2, <3>1
  <2> QED
    BY <2>1, <2>2
<1> QED
  BY <1>2, <1>3, <1>4, <1>5, <1>6, <1>7, <1>8, QueueStep

LEMMA WakingStep == ASSUME CloudInv, NEW s \in Cloud!Sessions, Cloud!VisitWakes(s) PROVE CloudInv'
<1>1. ChatInv /\ ChatShape /\ Sent /\ InLine /\ Len(chapter) \in Nat
  BY LineCounts DEF CloudInv, ChatInv
<1>2. PICK new : new = Cloud!Observed(s)
  OBVIOUS
<1>3. PICK n, e : n = chats[s].sent /\ e = chapter[n]
  OBVIOUS
<1>4. PICK k \in Nat : k = Len(chapter) + 1
  BY <1>1
<1>5. /\ Cloud!Applies(s, new) /\ Cloud!Judged(s) /\ ~new.continued /\ glance' = Cloud!NoVisit
      /\ \/ /\ chats' = [chats EXCEPT ![s] = [new EXCEPT !.continued = TRUE]]
            /\ tape' = Append(tape, PollersRow(s, k))
            /\ chapter' = Append(chapter, IF e = 0 THEN k ELSE e)
         \/ /\ chats' = [chats EXCEPT ![s] = new] /\ tape' = tape /\ chapter' = chapter
  BY <1>2, <1>3, <1>4 DEF Cloud!VisitWakes, Cloud!Slept, Cloud!Queue, PollersRow, WithTurn
<1>6. /\ glance.at = "status" /\ glance.session = s /\ reach' \in [Cloud!Sessions -> Nat]
      /\ UNCHANGED <<hand, newest, talk, doing, behind, faulty, slept, result, ended>>
  BY <1>2, <1>5, VisitReads
<1>7. /\ new \in Chat /\ new.provider = chats[s].provider /\ new.sent = chats[s].sent
      /\ new.continued = chats[s].continued
      /\ new.failure # "none" =>
           \E j \in 1..Len(talk[s]) : talk[s][j].turn = chats[s].sent /\ talk[s][j].kind \in Bad
  BY <1>2, <1>6, Observing
<1>8. glance' \in Glance /\ glance'.at = "rest"
  BY <1>5, RestIsRest
<1>9. CASE chats' = [chats EXCEPT ![s] = new] /\ tape' = tape /\ chapter' = chapter
  <2>1. Reads'
    BY <1>8, NothingRead
  <2> QED
    BY <1>6, <1>7, <1>8, <1>9, <2>1, AppliedStep
<1>10. CASE /\ chats' = [chats EXCEPT ![s] = [new EXCEPT !.continued = TRUE]]
            /\ tape' = Append(tape, PollersRow(s, k))
            /\ chapter' = Append(chapter, IF e = 0 THEN k ELSE e)
  <2>1. PICK c : c = [new EXCEPT !.continued = TRUE]
    OBVIOUS
  <2>2. Marks(new, c) /\ c.continued
    BY <1>7, <2>1, ChatMarks
  <2>3. /\ c \in Chat /\ c.provider = chats[s].provider /\ c.sent = n /\ c.failure = new.failure
        /\ chats' = [chats EXCEPT ![s] = c]
    BY <1>3, <1>7, <1>10, <2>1, <2>2 DEF Marks
  <2>4. n # 0 /\ ~chats[s].continued
    BY <1>3, <1>5, <1>7 DEF Cloud!Judged
  <2>5. e \in 1..n
    <3>1. n \in Nat /\ n <= Passed /\ Passed \in Nat /\ Len(tape) \in Nat /\ Passed + Len(tape) = Len(chapter)
      BY <1>1, <1>3, LineCounts DEF Sent, ChatShape, Chat
    <3>2. n \in 1..Len(chapter)
      BY <2>4, <3>1
    <3> QED
      BY <1>1, <1>3, <3>2 DEF InLine
  <2>6. chapter' = Append(chapter, e)
    BY <1>10, <2>5
  <2>7. PICK msg : msg = PollersRow(s, k)
    OBVIOUS
  <2>8. msg \in CloudRow /\ msg.turn = k /\ msg.session = s /\ msg.type = "send"
    <3>1. s \in {0} \cup Cloud!Sessions
      OBVIOUS
    <3> QED
      BY <2>7, <3>1, SendIs
  <2>9. c.failure # "none" => \E j \in 1..Len(talk[s]) : talk[s][j].turn = n /\ talk[s][j].kind \in Bad
    BY <1>3, <1>7, <2>3
  <2>10. tape' = Append(tape, msg) /\ msg.turn = Len(chapter) + 1
    BY <1>4, <1>10, <2>7, <2>8
  <2> QED
    BY <1>3, <1>6, <1>8, <2>2, <2>3, <2>4, <2>6, <2>8, <2>9, <2>10, ContinuingStep
<1> QED
  BY <1>5, <1>9, <1>10

-----------------------------------------------------------------------------
\* Of the newest turn of an episode that failed, in the one place that may still have
\* one of its turns, nothing is left: an error is a session's that rests, and what
\* waits behind a turn that was read to have failed is younger than the newest.
LEMMA FailedIsLeft ==
  ASSUME CloudInv, ErrorsClear = TRUE, NEW s \in Cloud!Sessions, NEW n, n = chats[s].sent, n # 0,
         ~chats[s].continued,
         Cloud!Status(s) = "error" \/ (Cloud!Status(s) = "idle" /\ chats[s].failure # "none")
  PROVE  Left(chapter[n])
<1>1. ChatInv /\ ChatShape /\ TurnOrder /\ OnePlace /\ FailureRead
  BY DEF CloudInv, ChatInv
<1>2. PICK e : e = chapter[n]
  OBVIOUS
<1>3. Newest(n) /\ Only(e, s)
  BY <1>1, <1>2 DEF OnePlace
<1>4. /\ \A i \in 1..Len(behind[s]), j \in 1..Len(talk[s]) : talk[s][j].turn < behind[s][i]
      /\ faulty[s] # "none" => doing[s] = 0
  BY <1>1 DEF TurnOrder
<1>5. SUFFICES ASSUME NEW m \in 1..Len(chapter), chapter[m] = e, m \in Cloud!Busy(s) PROVE FALSE
  BY <1>2, <1>3 DEF Left, Only
<1>6. m <= n
  BY <1>2, <1>3, <1>5 DEF Newest
<1>7. (\E i \in 1..Len(behind[s]) : m = behind[s][i]) \/ (m = doing[s] /\ m # 0)
  BY <1>1, <1>5, Prompts
<1>8. CASE Cloud!Status(s) = "error"
  <2>1. faulty[s] # "none" /\ behind[s] = << >>
    BY <1>8 DEF Cloud!Status
  <2>2. Len(behind[s]) = 0
    BY <2>1
  <2> QED
    BY <1>4, <1>7, <2>1, <2>2
<1>9. CASE Cloud!Status(s) = "idle" /\ chats[s].failure # "none"
  <2>1. doing[s] = 0
    BY <1>9 DEF Cloud!Status
  <2>2. PICK i \in 1..Len(behind[s]) : m = behind[s][i]
    BY <1>7, <2>1
  <2>3. PICK j \in 1..Len(talk[s]) : talk[s][j].turn = n
    BY <1>1, <1>9 DEF FailureRead
  <2>4. n < m
    BY <1>4, <2>2, <2>3
  <2>5. n \in Nat /\ m \in Nat
    BY <1>1 DEF ChatShape, Chat
  <2> QED
    BY <1>6, <2>4, <2>5
<1> QED
  BY <1>8, <1>9

LEMMA ConfirmingStep == ASSUME CloudInv, ErrorsClear = TRUE, Cloud!VisitConfirms PROVE CloudInv'
<1>1. ChatInv /\ ChatShape /\ Reads /\ FailureRead /\ InLine
  BY DEF CloudInv, ChatInv
<1>2. /\ glance.at = "confirm" /\ hand' = hand
      /\ UNCHANGED <<newest, talk, doing, behind, faulty, slept, result, ended, reach>>
  BY DEF Cloud!VisitConfirms, Cloud!agents
<1>3. PICK s, n, e : s = glance.session /\ n = glance.sent /\ e = chapter[n]
  OBVIOUS
<1>4. PICK k : k = Len(chapter) + 1
  OBVIOUS
<1>5. s \in Cloud!Sessions /\ n # 0 /\ (chats[s].sent = n => ~chats[s].continued)
  BY <1>1, <1>2, <1>3 DEF Reads
<1>6. \/ glance' = Cloud!NoVisit /\ chats' = chats /\ tape' = tape /\ chapter' = chapter
      \/ /\ chats[s].sent = n /\ chats' = [chats EXCEPT ![s].continued = TRUE] /\ glance' = Cloud!NoVisit
         /\ tape' = Append(tape, PollersRow(s, k))
         /\ chapter' = Append(chapter, IF e = 0 THEN k ELSE e)
      \/ /\ chats[s].sent = n /\ chats' = [chats EXCEPT ![s].continued = TRUE] /\ glance' = Cloud!NoVisit
         /\ tape' = tape /\ chapter' = chapter
      \/ /\ Cloud!Status(s) = "error" \/ (Cloud!Status(s) = "idle" /\ chats[s].failure # "none")
         /\ chats[s].sent = n /\ glance' = [glance EXCEPT !.at = "tail"]
         /\ chats' = chats /\ tape' = tape /\ chapter' = chapter
  BY <1>3, <1>4 DEF Cloud!VisitConfirms, Cloud!CurrentTurn, Cloud!Queue, PollersRow, WithTurn
<1>7. Cloud!NoVisit \in Glance /\ Cloud!NoVisit.at = "rest" /\ reach' \in [Cloud!Sessions -> Nat]
  BY <1>1, <1>2, RestIsRest DEF ChatShape
<1>8. CASE glance' = Cloud!NoVisit /\ chats' = chats /\ tape' = tape /\ chapter' = chapter
  <2>1. Reads' /\ glance' \in Glance
    BY <1>7, <1>8, NothingRead
  <2> QED
    BY <1>2, <1>8, <2>1, MovingStep
<1>9. ASSUME chats' = [chats EXCEPT ![s].continued = TRUE], chats[s].sent = n
      PROVE  \E c \in Chat : /\ chats' = [chats EXCEPT ![s] = c] /\ c.continued
                             /\ c.provider = chats[s].provider /\ c.sent = n
                             /\ c.failure = chats[s].failure
  <2>1. PICK old : old = chats[s]
    OBVIOUS
  <2>2. PICK c : c = [old EXCEPT !.continued = TRUE]
    OBVIOUS
  <2>3. old \in Chat
    BY <1>1, <1>5, <2>1 DEF ChatShape
  <2>4. Marks(old, c) /\ c.continued
    BY <2>2, <2>3, ChatMarks
  <2>5. chats' = [chats EXCEPT ![s] = c]
    BY <1>9, <2>1, <2>2
  <2> QED
    BY <1>9, <2>1, <2>4, <2>5 DEF Marks
<1>10. CASE /\ chats[s].sent = n /\ chats' = [chats EXCEPT ![s].continued = TRUE]
            /\ glance' = Cloud!NoVisit /\ tape' = Append(tape, PollersRow(s, k))
            /\ chapter' = Append(chapter, IF e = 0 THEN k ELSE e)
  <2>1. PICK c \in Chat : /\ chats' = [chats EXCEPT ![s] = c] /\ c.continued
                          /\ c.provider = chats[s].provider /\ c.sent = n
                          /\ c.failure = chats[s].failure
    BY <1>9, <1>10
  <2>2. PICK msg : msg = PollersRow(s, k)
    OBVIOUS
  <2>3. msg \in CloudRow /\ msg.turn = k /\ msg.session = s /\ msg.type = "send"
    <3>1. s \in {0} \cup Cloud!Sessions /\ k \in Nat
      BY <1>1, <1>4, <1>5, LineCounts
    <3> QED
      BY <2>2, <3>1, SendIs
  <2>4. c.failure # "none" => \E j \in 1..Len(talk[s]) : talk[s][j].turn = n /\ talk[s][j].kind \in Bad
    BY <1>1, <1>5, <1>10, <2>1 DEF FailureRead
  <2>5. tape' = Append(tape, msg) /\ msg.turn = Len(chapter) + 1
    BY <1>4, <1>10, <2>2, <2>3
  <2>6. e \in 1..n
    <3>1. n \in Nat /\ n <= Passed /\ Passed \in Nat /\ Len(tape) \in Nat /\ Passed + Len(tape) = Len(chapter)
      BY <1>1, <1>2, <1>3, LineCounts DEF Reads, ChatShape, Glance
    <3>2. n \in 1..Len(chapter)
      BY <1>5, <3>1
    <3> QED
      BY <1>1, <1>3, <3>2 DEF InLine
  <2>7. chapter' = Append(chapter, e)
    BY <1>10, <2>6
  <2>8. /\ glance' \in Glance /\ glance'.at = "rest" /\ ~chats[s].continued
        /\ n = chats[s].sent /\ e = chapter[n]
    BY <1>3, <1>5, <1>7, <1>10
  <2> QED
    BY <1>2, <1>5, <1>7, <2>1, <2>3, <2>4, <2>5, <2>7, <2>8, ContinuingStep
<1>11. CASE /\ chats[s].sent = n /\ chats' = [chats EXCEPT ![s].continued = TRUE] /\ glance' = Cloud!NoVisit
            /\ tape' = tape /\ chapter' = chapter
  <2>1. PICK c \in Chat : /\ chats' = [chats EXCEPT ![s] = c] /\ c.continued
                          /\ c.provider = chats[s].provider /\ c.sent = n
                          /\ c.failure = chats[s].failure
    BY <1>9, <1>11
  <2>2. Reads' /\ glance' \in Glance
    BY <1>7, <1>11, NothingRead
  <2>3. c.failure # "none" =>
          \E j \in 1..Len(talk[s]) : talk[s][j].turn = chats[s].sent /\ talk[s][j].kind \in Bad
    BY <1>1, <1>5, <2>1 DEF FailureRead
  <2>4. c.sent = chats[s].sent
    BY <1>11, <2>1
  <2> QED
    BY <1>2, <1>5, <1>7, <1>11, <2>1, <2>2, <2>3, <2>4, AppliedStep
<1>12. CASE /\ Cloud!Status(s) = "error" \/ (Cloud!Status(s) = "idle" /\ chats[s].failure # "none")
            /\ chats[s].sent = n /\ glance' = [glance EXCEPT !.at = "tail"]
            /\ chats' = chats /\ tape' = tape /\ chapter' = chapter
  <2>1. Left(e)
    BY <1>3, <1>5, <1>12, FailedIsLeft
  <2>2. PICK h : h = glance'
    OBVIOUS
  <2>3. h \in Glance /\ h.at = "tail" /\ h.session = s /\ h.sent = n
    <3>1. glance \in Glance
      BY <1>1 DEF ChatShape
    <3>2. h = [at |-> "tail", session |-> glance.session, upto |-> glance.upto, full |-> glance.full,
               dormant |-> glance.dormant, sent |-> glance.sent, detail |-> glance.detail]
      BY <1>12, <2>2, <3>1, GlanceFields
    <3> QED
      BY <1>3, <3>1, <3>2 DEF Glance
  <2>4. Left(e)'
    BY <1>1, <1>2, <1>12, <2>1, AgentsRest, PlacesStay
  <2>5. n <= Passed /\ Passed' = Passed
    BY <1>1, <1>2, <1>3, <1>12 DEF Reads, Passed
  <2>6. Left(chapter[n])'
    BY <1>3, <1>12, <2>4 DEF Left
  <2>7. Reads'
    BY <1>5, <1>12, <2>2, <2>3, <2>5, <2>6 DEF Reads, Left
  <2> QED
    BY <1>2, <1>12, <2>2, <2>3, <2>7, MovingStep
<1> QED
  BY <1>6, <1>8, <1>10, <1>11, <1>12

LEMMA ReplacingStep == ASSUME CloudInv, Cloud!VisitReplaces PROVE CloudInv'
<1>1. ChatInv /\ ChatShape /\ Reads /\ FailureRead /\ InLine
  BY DEF CloudInv, ChatInv
<1>2. /\ glance.at = "tail" /\ hand' = hand /\ glance' = Cloud!NoVisit
      /\ UNCHANGED <<newest, talk, doing, behind, faulty, slept, result, ended, reach>>
  BY DEF Cloud!VisitReplaces, Cloud!agents
<1>3. PICK s, n, e : s = glance.session /\ n = glance.sent /\ e = chapter[n]
  OBVIOUS
<1>4. PICK k : k = Len(chapter) + 1
  OBVIOUS
<1>5. s \in Cloud!Sessions /\ n # 0 /\ (chats[s].sent = n => ~chats[s].continued /\ Left(chapter[n]))
  BY <1>1, <1>2, <1>3 DEF Reads
<1>6. PICK old, c : old = chats[s] /\ c = [Cloud!Over(old) EXCEPT !.continued = TRUE]
  OBVIOUS
<1>7. \/ chats' = chats /\ tape' = tape /\ chapter' = chapter
      \/ /\ chats[s].sent = n /\ chats' = [chats EXCEPT ![s] = c]
         /\ \E p \in Cloud!Ladder :
              /\ tape' = Append(tape, WithTurn(Cloud!Replacement(s, n, p), k))
              /\ chapter' = Append(chapter, IF e = 0 THEN k ELSE e)
  BY <1>3, <1>4, <1>6 DEF Cloud!VisitReplaces, Cloud!CurrentTurn, Cloud!Queue, WithTurn
<1>8. glance' \in Glance /\ glance'.at = "rest" /\ reach' \in [Cloud!Sessions -> Nat]
  BY <1>1, <1>2, RestIsRest DEF ChatShape
<1>9. CASE chats' = chats /\ tape' = tape /\ chapter' = chapter
  <2>1. Reads'
    BY <1>8, NothingRead
  <2> QED
    BY <1>2, <1>8, <1>9, <2>1, MovingStep
<1>10. ASSUME chats[s].sent = n, chats' = [chats EXCEPT ![s] = c], NEW p \in Cloud!Ladder,
              tape' = Append(tape, WithTurn(Cloud!Replacement(s, n, p), k)),
              chapter' = Append(chapter, IF e = 0 THEN k ELSE e)
       PROVE  CloudInv'
  <2>1. old \in Chat
    BY <1>1, <1>5, <1>6 DEF ChatShape
  <2>2. PICK over : over = Cloud!Over(old)
    OBVIOUS
  <2>3. Marks(old, over)
    BY <2>1, <2>2, ChatMarks
  <2>4. Marks(over, c) /\ c.continued
    <3>1. c = [over EXCEPT !.continued = TRUE] /\ over \in Chat
      BY <1>6, <2>2, <2>3 DEF Marks
    <3> QED
      BY <3>1, ChatMarks
  <2>5. /\ c \in Chat /\ c.provider = chats[s].provider /\ c.sent = n
        /\ c.failure = chats[s].failure
    BY <1>6, <1>10, <2>3, <2>4 DEF Marks
  <2>6. p \in Nat /\ p # 0 /\ n \in Nat /\ k \in Nat
    <3>1. p \in Nat /\ p # 0
      BY <1>10 DEF Cloud!Ladder
    <3>2. n \in Nat
      BY <1>1, <1>3 DEF ChatShape, Glance
    <3>3. k \in Nat
      BY <1>1, <1>4, LineCounts
    <3> QED
      BY <3>1, <3>2, <3>3
  <2>7. PICK msg : msg = WithTurn(Cloud!Replacement(s, n, p), k)
    OBVIOUS
  <2>8. /\ msg \in CloudRow /\ msg.turn = k /\ msg.session = 0 /\ msg.prev = s /\ msg.prevTurn = n
        /\ msg.provider = p
    BY <1>5, <2>6, <2>7, ReplacementIs
  <2>9. c.failure # "none" => \E j \in 1..Len(talk[s]) : talk[s][j].turn = n /\ talk[s][j].kind \in Bad
    BY <1>1, <1>5, <1>10, <2>5 DEF FailureRead
  <2>10. tape' = Append(tape, msg) /\ msg.turn = Len(chapter) + 1
    BY <1>4, <1>10, <2>7, <2>8
  <2>11. e \in 1..n
    <3>1. n \in Nat /\ n <= Passed /\ Passed \in Nat /\ Len(tape) \in Nat /\ Passed + Len(tape) = Len(chapter)
      BY <1>1, <1>2, <1>3, LineCounts DEF Reads, ChatShape, Glance
    <3>2. n \in 1..Len(chapter)
      BY <1>5, <3>1
    <3> QED
      BY <1>1, <1>3, <3>2 DEF InLine
  <2>12. chapter' = Append(chapter, e)
    BY <1>10, <2>11
  <2>13. /\ ~chats[s].continued /\ n = chats[s].sent /\ e = chapter[n] /\ Left(chapter[n])
         /\ msg.prevTurn # 0 /\ msg.provider # 0
    BY <1>3, <1>5, <1>10, <2>6, <2>8
  <2> QED
    BY <1>2, <1>5, <1>8, <1>10, <2>4, <2>5, <2>8, <2>9, <2>10, <2>12, <2>13, ContinuingStep
<1> QED
  BY <1>7, <1>9, <1>10

-----------------------------------------------------------------------------
LEMMA CloudInit == ASSUME Cloud!CloudPollAssumption, Cloud!Init PROVE CloudInv
<1>1. 1 \in Cloud!Sessions /\ \A s \in Cloud!Sessions : s \in Nat
  BY DEF Cloud!CloudPollAssumption, Cloud!Sessions
<1>2. /\ tape = << >> /\ chapter = << >> /\ hand.at = "rest" /\ reach \in [Cloud!Sessions -> Nat]
      /\ hand \in [at : {"rest", "post", "record"}, working : BOOLEAN]
      /\ newest = 1 /\ glance \in Glance /\ glance.at = "rest" /\ slept = FALSE
      /\ talk = [s \in Cloud!Sessions |-> << >>] /\ doing = [s \in Cloud!Sessions |-> 0]
      /\ behind = [s \in Cloud!Sessions |-> << >>] /\ faulty = [s \in Cloud!Sessions |-> "none"]
  BY RestIsRest DEF Cloud!Init
<1>3. PICK b, c : b = Cloud!NoState /\ c = [Cloud!NoState EXCEPT !.provider = 1]
  OBVIOUS
<1>4. /\ b \in Chat /\ b.sent = 0 /\ b.failure = "none"
      /\ c \in Chat /\ c.sent = 0 /\ c.failure = "none" /\ c.provider = 1
  BY <1>3 DEF Cloud!NoState, Chat
<1>5. chats = [s \in Cloud!Sessions |-> IF s = 1 THEN c ELSE b]
  BY <1>3 DEF Cloud!Init
<1>6. /\ chats \in [Cloud!Sessions -> Chat] /\ chats[1].provider = 1
      /\ \A s \in Cloud!Sessions : chats[s].sent = 0 /\ chats[s].failure = "none"
  BY <1>1, <1>4, <1>5
<1>7. /\ talk \in [Cloud!Sessions -> Seq(Said)] /\ behind \in [Cloud!Sessions -> Seq(Nat)]
      /\ tape \in Seq(CloudRow) /\ chapter \in Seq(Nat) /\ Len(tape) = 0 /\ Len(chapter) = 0
      /\ \A s \in Cloud!Sessions : Len(talk[s]) = 0 /\ Len(behind[s]) = 0 /\ doing[s] = 0 /\ faulty[s] = "none"
  BY <1>2
<1>8. ChatShape
  <2>1. /\ doing \in [Cloud!Sessions -> Nat] /\ newest \in Cloud!Sessions /\ slept \in BOOLEAN
        /\ faulty \in [Cloud!Sessions -> {"none", "interrupted", "spent", "other"}]
    BY <1>1, <1>2
  <2>2. Len(tape) <= Len(chapter)
    BY <1>7
  <2> QED
    BY <1>2, <1>6, <1>7, <2>1, <2>2 DEF ChatShape
<1>9. \A s \in Cloud!Sessions : Given(s) = {} /\ Cloud!Busy(s) = {} /\ Cloud!PromptsIn(s) = {}
  <2> TAKE s \in Cloud!Sessions
  <2>1. \A n : n \notin Cloud!Busy(s) /\ n \notin Cloud!PromptsIn(s) /\ n \notin Given(s)
    BY <1>7, <1>8, Prompts
  <2> QED
    BY <2>1
<1>10. Passed = 0
  BY <1>7 DEF Passed
<1>11. InLine /\ Going /\ Homes /\ OwnTurns
  BY <1>1, <1>2, <1>6, <1>7, <1>9 DEF InLine, Going, Homes, OwnTurns
<1>12. TurnOrder /\ Sent /\ OneRowEach /\ OnePlace
  BY <1>6, <1>7, <1>9, <1>10 DEF TurnOrder, Sent, OneRowEach, OnePlace
<1>13. Reads /\ FailureRead
  BY <1>2, <1>6 DEF Reads, FailureRead
<1>14. Failures /\ LastSent
  BY <1>2, <1>6, <1>7 DEF Failures, LastSent
<1> QED
  BY <1>8, <1>11, <1>12, <1>13, <1>14 DEF CloudInv, ChatInv, FailInv

LEMMA CloudStutter == ASSUME CloudInv, UNCHANGED Cloud!vars PROVE CloudInv'
<1>1. /\ UNCHANGED <<chapter, newest, talk, doing, behind, faulty, result, chats, reach, ended, slept, glance>>
      /\ tape' = tape /\ hand' = hand
  BY DEF Cloud!vars
<1>2. ChatShape /\ Reads
  BY DEF CloudInv, ChatInv
<1>3. glance' \in Glance
  BY <1>1, <1>2 DEF ChatShape
<1>4. Reads'
  BY <1>1, <1>2 DEF Reads, Left, Passed, Cloud!Busy, Cloud!WaitingIn
<1> QED
  BY <1>1, <1>3, <1>4, MovingStep

LEMMA CloudStep ==
  ASSUME CloudInv, Cloud!CloudPollAssumption, ErrorsClear = TRUE, [Cloud!Next]_(Cloud!vars)
  PROVE  CloudInv'
<1>1. CASE \E s \in {0} \cup Cloud!Sessions : Cloud!OwnerSends(s)
  BY <1>1, SendingStep
<1>2. CASE Cloud!Sleeps \/ Cloud!Woken \/ Cloud!OwnerStops
  BY <1>2, AgentsStep
<1>3. CASE Cloud!Handler
  BY <1>3, StartingStep, PostingStep, RecordingStep DEF Cloud!Handler
<1>4. CASE \/ Cloud!RowBreaks \/ Cloud!VisitBreaks \/ Cloud!VisitLists
           \/ \E s \in Cloud!Sessions : Cloud!VisitStarts(s)
  BY <1>4, LookingStep
<1>5. CASE Cloud!VisitApplies \/ Cloud!VisitConfirms \/ Cloud!VisitReplaces
  BY <1>5, ApplyingStep, ConfirmingStep, ReplacingStep
<1>6. CASE \E s \in Cloud!Sessions : Cloud!VisitWakes(s)
  BY <1>6, WakingStep
<1>7. ASSUME NEW s \in Cloud!Sessions,
             \/ Cloud!AgentSpeaks(s) \/ Cloud!AgentFinishes(s)
             \/ \E how \in {"interrupted", "spent", "other"} : Cloud!AgentFails(s, how)
      PROVE  CloudInv'
  BY <1>7, WritingStep
<1>8. ASSUME NEW s \in Cloud!Sessions, Cloud!AgentTakes(s) PROVE CloudInv'
  BY <1>8, TakingStep
<1>9. ASSUME NEW s \in Cloud!Sessions, Cloud!StopCancels(s) PROVE CloudInv'
  BY <1>9, CancelingStep
<1>10. CASE UNCHANGED Cloud!vars
  BY <1>10, CloudStutter
<1> QED
  BY <1>1, <1>2, <1>3, <1>4, <1>5, <1>6, <1>7, <1>8, <1>9, <1>10 DEF Cloud!Next, Cloud!Visit

LEMMA CloudMeans == ASSUME CloudInv PROVE Cloud!OneContinues
<1>1. ChatInv /\ ChatShape /\ OnePlace /\ Homes
  BY DEF CloudInv, ChatInv
<1>2. SUFFICES ASSUME NEW s \in Cloud!Sessions, NEW t \in Cloud!Sessions, s # t, doing[s] # 0, doing[t] # 0,
                      chapter[doing[s]] = chapter[doing[t]]
               PROVE  FALSE
  BY DEF Cloud!OneContinues
<1>3. PICK m, n, e : m = doing[s] /\ n = doing[t] /\ e = chapter[m]
  OBVIOUS
<1>4. /\ m \in Cloud!Busy(s) /\ m \in Given(s)
      /\ n \in Cloud!Busy(t) /\ n \in Given(t)
  BY <1>1, <1>2, <1>3, Prompts
<1>5. m \in 1..Len(chapter) /\ n \in 1..Len(chapter)
  BY <1>1, <1>4, GivenInLine
<1>6. Only(e, s)
  BY <1>1, <1>3, <1>4, <1>5 DEF OnePlace
<1> QED
  BY <1>2, <1>3, <1>4, <1>5, <1>6 DEF Only

-----------------------------------------------------------------------------
\* What turned out badly in a session that rests is its last turn.
LEMMA FailedTurn ==
  ASSUME CloudInv, ErrorsClear = TRUE, ~ended, tape # << >>, tape[1].session = 0,
         NEW s \in Cloud!Sessions, NEW n, n = chats[s].sent, n # 0,
         Cloud!Status(s) = "error" \/ (Cloud!Status(s) = "idle" /\ chats[s].failure # "none")
  PROVE  <<n, "failed">> \in result
<1>1. ChatInv /\ ChatShape /\ TurnOrder /\ FailureRead /\ Homes /\ Failures /\ LastSent
  BY DEF CloudInv, ChatInv, FailInv
<1>2. CASE Cloud!Status(s) = "idle" /\ chats[s].failure # "none"
  BY <1>1, <1>2 DEF FailureRead, Failures
<1>3. CASE Cloud!Status(s) = "error"
  <2>1. faulty[s] # "none" /\ behind[s] = << >>
    BY <1>3 DEF Cloud!Status
  <2>2. Len(behind[s]) = 0 /\ doing[s] = 0
    BY <1>1, <2>1 DEF TurnOrder
  <2>3. PICK m \in Cloud!PromptsIn(s) : /\ \A k \in Cloud!PromptsIn(s) : k <= m
                                        /\ <<m, "failed">> \in result
    BY <1>1, <2>1 DEF Failures
  <2>4. n \in Given(s) /\ \A k \in Given(s) : k <= n \/ k = Passed + 1
    BY <1>1 DEF LastSent
  <2>5. n \in Cloud!PromptsIn(s) /\ m \in Given(s)
    BY <1>1, <2>2, <2>3, <2>4, Prompts
  <2>6. m # Passed + 1
    <3>1. 0 \notin Cloud!Sessions
      BY DEF Cloud!Sessions
    <3> QED
      BY <1>1, <2>5, <3>1 DEF Homes
  <2>7. m \in Nat /\ n \in Nat
    BY <1>1, <2>4, <2>5, GivenInLine
  <2>8. m = n
    BY <2>3, <2>4, <2>5, <2>6, <2>7
  <2> QED
    BY <2>3, <2>8
<1> QED
  BY <1>2, <1>3

\* Only the start of a replacement makes a session.
LEMMA ProvidersStay ==
  ASSUME CloudInv, [Cloud!Next]_(Cloud!vars), NEW s \in Cloud!Sessions
  PROVE  chats'[s].provider = chats[s].provider \/ Cloud!RowStarts
<1>1. ChatInv /\ ChatShape /\ Reads /\ Going
  BY DEF CloudInv, ChatInv
<1>2. ASSUME NEW t \in Cloud!Sessions, NEW c \in Chat, chats' = [chats EXCEPT ![t] = c],
             c.provider = chats[t].provider
      PROVE  chats'[s].provider = chats[s].provider
  <2>1. chats'[t] = c /\ \A r \in Cloud!Sessions \ {t} : chats'[r] = chats[r]
    BY <1>1, <1>2, ChatWritten
  <2> QED
    BY <1>2, <2>1
<1>3. \A t \in Cloud!Sessions : chats[t] \in Chat
  BY <1>1 DEF ChatShape
<1>4. CASE \/ \E t \in {0} \cup Cloud!Sessions : Cloud!OwnerSends(t)
           \/ Cloud!Sleeps \/ Cloud!Woken \/ Cloud!OwnerStops
           \/ Cloud!RowBreaks \/ Cloud!VisitBreaks \/ Cloud!VisitLists \/ Cloud!RowPosts
           \/ UNCHANGED Cloud!vars
  BY <1>4
  DEF Cloud!OwnerSends, Cloud!Sleeps, Cloud!Woken, Cloud!OwnerStops, Cloud!RowBreaks, Cloud!VisitBreaks,
      Cloud!VisitLists, Cloud!RowPosts, Cloud!vars, Cloud!store
<1>5. CASE \E t \in Cloud!Sessions :
             \/ Cloud!VisitStarts(t) \/ Cloud!AgentTakes(t) \/ Cloud!AgentSpeaks(t) \/ Cloud!AgentFinishes(t)
             \/ \E how \in {"interrupted", "spent", "other"} : Cloud!AgentFails(t, how)
  BY <1>5
  DEF Cloud!VisitStarts, Cloud!AgentTakes, Cloud!AgentSpeaks, Cloud!AgentFinishes, Cloud!AgentFails, Cloud!store
<1>6. ASSUME NEW t \in Cloud!Sessions, Cloud!StopCancels(t) PROVE chats'[s].provider = chats[s].provider
  <2>1. PICK over, c : over = Cloud!Over(chats[t]) /\ c = [over EXCEPT !.stopped = TRUE]
    OBVIOUS
  <2>2. Marks(chats[t], over)
    BY <1>3, <2>1, ChatMarks
  <2>3. Marks(over, c)
    BY <2>1, <2>2, ChatMarks DEF Marks
  <2>4. chats' = [chats EXCEPT ![t] = c]
    BY <1>6, <2>1 DEF Cloud!StopCancels
  <2> QED
    BY <1>2, <2>2, <2>3, <2>4 DEF Marks
<1>7. CASE Cloud!RowRecords
  <2>1. PICK r : r = tape[1].session
    OBVIOUS
  <2>2. r \in Cloud!Sessions
    BY <1>1, <1>7, <2>1 DEF Going, Cloud!RowRecords
  <2>3. CASE chats' = chats
    BY <2>3
  <2>4. CASE chats' = [chats EXCEPT ![r] = Cloud!Submitted(r, chats[r])]
    <3>1. PICK c : c = Cloud!Submitted(r, chats[r])
      OBVIOUS
    <3>2. c.provider = chats[r].provider
      BY <3>1 DEF Cloud!Submitted, Cloud!NoState
    <3>3. chats \in [Cloud!Sessions -> Chat] /\ chats' = [chats EXCEPT ![r] = c]
      BY <1>1, <2>4, <3>1 DEF ChatShape
    <3>4. chats'[r] = c /\ \A x \in Cloud!Sessions \ {r} : chats'[x] = chats[x]
      BY <2>2, <3>3
    <3> QED
      BY <3>2, <3>4
  <2> QED
    BY <1>7, <2>1, <2>3, <2>4 DEF Cloud!RowRecords, Cloud!Row
<1>8. ASSUME NEW t \in Cloud!Sessions, NEW new, new = Cloud!Observed(t), Cloud!Applies(t, new),
             \/ chats' = [chats EXCEPT ![t] = new]
             \/ chats' = [chats EXCEPT ![t] = [new EXCEPT !.terminal = TRUE]]
             \/ chats' = [chats EXCEPT ![t] = [new EXCEPT !.continued = TRUE]]
      PROVE  chats'[s].provider = chats[s].provider
  <2>1. new \in Chat /\ new.provider = chats[t].provider
    BY <1>8, VisitReads, Observing
  <2>2. PICK c, d : c = [new EXCEPT !.terminal = TRUE] /\ d = [new EXCEPT !.continued = TRUE]
    OBVIOUS
  <2>3. Marks(new, c) /\ Marks(new, d)
    BY <2>1, <2>2, ChatMarks
  <2>4. c \in Chat /\ c.provider = chats[t].provider /\ d \in Chat /\ d.provider = chats[t].provider
    BY <2>1, <2>3 DEF Marks
  <2>5. \/ chats' = [chats EXCEPT ![t] = new] \/ chats' = [chats EXCEPT ![t] = c]
        \/ chats' = [chats EXCEPT ![t] = d]
    BY <1>8, <2>2
  <2> QED
    BY <1>2, <2>1, <2>4, <2>5
<1>9. CASE Cloud!VisitApplies
  <2>1. PICK t \in Cloud!Sessions : LET new == Cloud!Observed(t) IN
          /\ Cloud!Applies(t, new)
          /\ \/ chats' = [chats EXCEPT ![t] = new]
             \/ chats' = [chats EXCEPT ![t] = [new EXCEPT !.terminal = TRUE]]
    BY <1>9 DEF Cloud!VisitApplies
  <2>2. PICK new : new = Cloud!Observed(t)
    OBVIOUS
  <2> QED
    BY <1>8, <2>1, <2>2
<1>10. ASSUME NEW t \in Cloud!Sessions, Cloud!VisitWakes(t) PROVE chats'[s].provider = chats[s].provider
  <2>1. PICK new : new = Cloud!Observed(t)
    OBVIOUS
  <2>2. /\ Cloud!Applies(t, new)
        /\ \/ chats' = [chats EXCEPT ![t] = new]
           \/ chats' = [chats EXCEPT ![t] = [new EXCEPT !.continued = TRUE]]
    BY <1>10, <2>1 DEF Cloud!VisitWakes
  <2> QED
    BY <1>8, <2>1, <2>2
<1>11. CASE Cloud!VisitConfirms
  <2>1. PICK t : t = glance.session
    OBVIOUS
  <2>2. t \in Cloud!Sessions
    BY <1>1, <1>11, <2>1 DEF Reads, Cloud!VisitConfirms
  <2>3. chats' = chats \/ chats' = [chats EXCEPT ![t].continued = TRUE]
    BY <1>11, <2>1 DEF Cloud!VisitConfirms
  <2>4. CASE chats' = chats
    BY <2>4
  <2>5. CASE chats' = [chats EXCEPT ![t].continued = TRUE]
    <3>1. PICK old, c : old = chats[t] /\ c = [old EXCEPT !.continued = TRUE]
      OBVIOUS
    <3>2. old \in Chat
      BY <1>3, <2>2, <3>1
    <3>3. Marks(old, c)
      BY <3>1, <3>2, ChatMarks
    <3>4. chats' = [chats EXCEPT ![t] = c]
      BY <2>5, <3>1
    <3> QED
      BY <1>2, <2>2, <3>1, <3>3, <3>4 DEF Marks
  <2> QED
    BY <2>3, <2>4, <2>5
<1>12. CASE Cloud!VisitReplaces
  <2>1. PICK t : t = glance.session
    OBVIOUS
  <2>2. t \in Cloud!Sessions
    BY <1>1, <1>12, <2>1 DEF Reads, Cloud!VisitReplaces
  <2>3. PICK over, c : over = Cloud!Over(chats[t]) /\ c = [over EXCEPT !.continued = TRUE]
    OBVIOUS
  <2>4. Marks(chats[t], over)
    BY <1>3, <2>2, <2>3, ChatMarks
  <2>5. Marks(over, c)
    BY <2>3, <2>4, ChatMarks DEF Marks
  <2>6. chats' = chats \/ chats' = [chats EXCEPT ![t] = c]
    BY <1>12, <2>1, <2>3 DEF Cloud!VisitReplaces
  <2>7. CASE chats' = chats
    BY <2>7
  <2> QED
    BY <1>2, <2>2, <2>4, <2>5, <2>6, <2>7 DEF Marks
<1> QED
  BY <1>4, <1>5, <1>6, <1>7, <1>9, <1>10, <1>11, <1>12 DEF Cloud!Next, Cloud!Handler, Cloud!Visit

\* A session is made for a turn that failed.
LEMMA CloudReplaces ==
  ASSUME CloudInv, ErrorsClear = TRUE, [Cloud!Next]_(Cloud!vars)
  PROVE  Cloud!ReplacesFailed
<1>1. SUFFICES ASSUME NEW s \in Cloud!Sessions, chats[s].provider = 0, chats'[s].provider # 0
               PROVE  <<tape[1].prevTurn, "failed">> \in result
  BY DEF Cloud!ReplacesFailed, Cloud!Made, Cloud!Row
<1>2. Cloud!RowStarts
  BY <1>1, ProvidersStay
<1>3. /\ ~ended /\ tape[1].session = 0 /\ tape[1].type = "thread" /\ Cloud!StillFailed /\ tape # << >>
  BY <1>1, <1>2 DEF Cloud!RowStarts, Cloud!Row
<1>4. PICK p, n : p = tape[1].prev /\ n = tape[1].prevTurn
  OBVIOUS
<1>5. p \in Cloud!Sessions /\ n # 0
  <2>1. 1 \in 1..Len(tape)
    BY <1>3, LineCounts DEF CloudInv, ChatInv
  <2> QED
    BY <1>3, <1>4, <2>1 DEF CloudInv, ChatInv, Going
<1>6. /\ chats[p].sent = n
      /\ Cloud!Status(p) = "error" \/ (Cloud!Status(p) = "idle" /\ chats[p].failure # "none")
  BY <1>3, <1>4 DEF Cloud!StillFailed, Cloud!Row
<1> QED
  BY <1>3, <1>4, <1>5, <1>6, FailedTurn

LEMMA CloudStops ==
  ASSUME [Cloud!Next]_(Cloud!vars)
  PROVE  Cloud!LeavesStopped
<1>1. SUFFICES ASSUME ended PROVE chapter' = chapter
  BY DEF Cloud!LeavesStopped
<1>2. CASE \/ \E t \in {0} \cup Cloud!Sessions : Cloud!OwnerSends(t)
           \/ Cloud!Sleeps \/ Cloud!Woken \/ Cloud!OwnerStops \/ Cloud!RowRecords \/ Cloud!RowStarts
           \/ Cloud!RowBreaks \/ Cloud!VisitBreaks \/ Cloud!VisitLists \/ Cloud!RowPosts
           \/ UNCHANGED Cloud!vars
  BY <1>1, <1>2
  DEF Cloud!OwnerSends, Cloud!Sleeps, Cloud!Woken, Cloud!OwnerStops, Cloud!RowBreaks, Cloud!VisitBreaks,
      Cloud!VisitLists, Cloud!RowPosts, Cloud!vars, Cloud!handler, Cloud!RowRecords, Cloud!RowStarts
<1>3. CASE \E t \in Cloud!Sessions :
             \/ Cloud!VisitStarts(t) \/ Cloud!AgentTakes(t) \/ Cloud!AgentSpeaks(t) \/ Cloud!AgentFinishes(t)
             \/ \E how \in {"interrupted", "spent", "other"} : Cloud!AgentFails(t, how)
             \/ Cloud!StopCancels(t)
  BY <1>3
  DEF Cloud!VisitStarts, Cloud!AgentTakes, Cloud!AgentSpeaks, Cloud!AgentFinishes, Cloud!AgentFails,
      Cloud!StopCancels, Cloud!handler
<1>4. CASE Cloud!Visit
  BY <1>1, <1>4
  DEF Cloud!Visit, Cloud!VisitLists, Cloud!VisitApplies, Cloud!VisitWakes, Cloud!VisitConfirms,
      Cloud!VisitReplaces, Cloud!Judged, Cloud!CurrentTurn, Cloud!handler
<1> QED
  BY <1>2, <1>3, <1>4 DEF Cloud!Next, Cloud!Handler

\* No two sessions work on one episode, whatever the owner sent meanwhile and whatever the
\* poller had read: an episode's newest turn is in the one place its others were in.
THEOREM OneSessionContinues ==
  ASSUME Cloud!CloudPollAssumption, ErrorsClear = TRUE
  PROVE  Cloud!Spec => []Cloud!OneContinues
<1>1. Cloud!Spec => []CloudInv
  BY CloudInit, CloudStep, PTL DEF Cloud!Spec
<1> QED
  BY <1>1, CloudMeans, PTL

\* Nothing is continued after the owner's stop, and a session is replaced only for a turn
\* of its own that failed.
THEOREM FailedTurnsAreReplaced ==
  ASSUME Cloud!CloudPollAssumption, ErrorsClear = TRUE
  PROVE  Cloud!Spec => [][Cloud!ReplacesFailed /\ Cloud!LeavesStopped]_(Cloud!vars)
<1>1. Cloud!Spec => []CloudInv
  BY CloudInit, CloudStep, PTL DEF Cloud!Spec
<1>2. CloudInv /\ [Cloud!Next]_(Cloud!vars) => [Cloud!ReplacesFailed /\ Cloud!LeavesStopped]_(Cloud!vars)
  BY CloudReplaces, CloudStops
<1> QED
  BY <1>1, <1>2, PTL DEF Cloud!Spec

-----------------------------------------------------------------------------
\* Providers are those of the ladder, episodes are turns of the line, and what was
\* forwarded of a session is there to read.
OnLadder == /\ \A s \in Cloud!Sessions : chats[s].provider \in {0} \cup Cloud!Ladder
            /\ \A i \in 1..Len(tape) : tape[i].type = "thread" => tape[i].provider \in Cloud!Ladder
Episodes == /\ laddered \subseteq (1..Len(chapter)) \X Cloud!Ladder
            /\ carried \subseteq 1..Len(chapter)
Forwarded == \A s \in Cloud!Sessions : reach[s] <= Len(talk[s])
ChatTyped == OnLadder /\ Episodes /\ Forwarded

\* How a step changes the rows.
LEMMA RowsNext ==
  ASSUME CloudInv, [Cloud!Next]_(Cloud!vars)
  PROVE  \/ tape' = tape
         \/ tape # << >> /\ (tape' = Tail(tape) \/ \E x : tape' = [tape EXCEPT ![1].session = x])
         \/ \E r : tape' = Append(tape, r) /\ (r.type = "thread" => r.provider \in Cloud!Ladder)
<1>1. ChatShape /\ Reads /\ Going /\ Len(chapter) \in Nat
  BY LineCounts DEF CloudInv, ChatInv
<1>2. PICK n \in Nat : n = Len(chapter) + 1
  BY <1>1
<1>3. ASSUME NEW s \in {0} \cup Cloud!Sessions, NEW r, r = OwnersRow(s, n) \/ r = PollersRow(s, n),
             tape' = Append(tape, r)
      PROVE  \E q : tape' = Append(tape, q) /\ (q.type = "thread" => q.provider \in Cloud!Ladder)
  <2>1. r.type = "send"
    BY <1>3, SendIs
  <2> QED
    BY <1>3, <2>1
<1>4. CASE \/ Cloud!Sleeps \/ Cloud!Woken \/ Cloud!OwnerStops
           \/ Cloud!RowBreaks \/ Cloud!VisitBreaks \/ Cloud!VisitLists
           \/ Cloud!VisitApplies \/ UNCHANGED Cloud!vars
           \/ \E t \in Cloud!Sessions :
                \/ Cloud!VisitStarts(t) \/ Cloud!AgentTakes(t) \/ Cloud!AgentSpeaks(t) \/ Cloud!AgentFinishes(t)
                \/ \E how \in {"interrupted", "spent", "other"} : Cloud!AgentFails(t, how)
                \/ Cloud!StopCancels(t)
  BY <1>4
  DEF Cloud!Sleeps, Cloud!Woken, Cloud!OwnerStops, Cloud!RowBreaks, Cloud!VisitBreaks, Cloud!VisitLists,
      Cloud!VisitApplies, Cloud!vars, Cloud!handler, Cloud!VisitStarts, Cloud!AgentTakes,
      Cloud!AgentSpeaks, Cloud!AgentFinishes, Cloud!AgentFails, Cloud!StopCancels
<1>5. CASE Cloud!Handler
  BY <1>1, <1>5
  DEF Cloud!Handler, Cloud!RowStarts, Cloud!RowPosts, Cloud!RowRecords, Cloud!RowDone, Cloud!Goes, Going
<1>6. ASSUME NEW s \in {0} \cup Cloud!Sessions, Cloud!OwnerSends(s)
      PROVE  \E q : tape' = Append(tape, q) /\ (q.type = "thread" => q.provider \in Cloud!Ladder)
  <2>1. PICK r : r = OwnersRow(s, n)
    OBVIOUS
  <2>2. tape' = Append(tape, r)
    BY <1>2, <1>6, <2>1 DEF OwnersRow, WithTurn, Cloud!OwnerSends, Cloud!Queue
  <2> QED
    BY <1>3, <2>1, <2>2
<1>7. ASSUME NEW s \in Cloud!Sessions, NEW e, Cloud!Queue(Cloud!Send(s, TRUE), e)
      PROVE  \E q : tape' = Append(tape, q) /\ (q.type = "thread" => q.provider \in Cloud!Ladder)
  <2>1. PICK r : r = PollersRow(s, n)
    OBVIOUS
  <2>2. tape' = Append(tape, r)
    BY <1>2, <1>7, <2>1 DEF PollersRow, WithTurn, Cloud!Queue
  <2> QED
    BY <1>3, <2>1, <2>2
<1>8. ASSUME NEW s \in Cloud!Sessions, Cloud!VisitWakes(s)
      PROVE  tape' = tape \/ \E q : tape' = Append(tape, q) /\ (q.type = "thread" => q.provider \in Cloud!Ladder)
  BY <1>7, <1>8 DEF Cloud!VisitWakes
<1>9. CASE Cloud!VisitConfirms
  <2>1. glance.session \in Cloud!Sessions
    BY <1>1, <1>9 DEF Reads, Cloud!VisitConfirms
  <2> QED
    BY <1>7, <1>9, <2>1 DEF Cloud!VisitConfirms
<1>10. CASE Cloud!VisitReplaces
  <2>1. glance.session \in Cloud!Sessions /\ glance.sent \in Nat
    BY <1>1, <1>10 DEF Reads, Cloud!VisitReplaces, ChatShape, Glance
  <2>2. CASE tape' = tape
    BY <2>2
  <2>3. ASSUME NEW p \in Cloud!Ladder, tape' = Append(tape, WithTurn(Cloud!Replacement(glance.session, glance.sent, p), n))
        PROVE  \E q : tape' = Append(tape, q) /\ (q.type = "thread" => q.provider \in Cloud!Ladder)
    <3>1. PICK r, s, m : r = WithTurn(Cloud!Replacement(s, m, p), n) /\ s = glance.session /\ m = glance.sent
      OBVIOUS
    <3>2. p \in Nat
      BY DEF Cloud!Ladder
    <3>3. r.provider = p
      BY <2>1, <3>1, <3>2, ReplacementIs
    <3> QED
      BY <2>3, <3>1, <3>3
  <2>4. tape' = tape \/ \E p \in Cloud!Ladder :
          tape' = Append(tape, WithTurn(Cloud!Replacement(glance.session, glance.sent, p), n))
    BY <1>2, <1>10 DEF Cloud!VisitReplaces, Cloud!Queue, WithTurn
  <2> QED
    BY <2>2, <2>3, <2>4
<1> QED
  BY <1>4, <1>5, <1>6, <1>8, <1>9, <1>10 DEF Cloud!Next, Cloud!Visit

LEMMA OnLadderStep ==
  ASSUME CloudInv, OnLadder, [Cloud!Next]_(Cloud!vars)
  PROVE  OnLadder'
<1>1. /\ ChatShape /\ tape \in Seq(CloudRow) /\ Len(tape) \in Nat /\ (tape # << >> <=> Len(tape) # 0)
      /\ chats \in [Cloud!Sessions -> Chat]
  BY LineCounts DEF CloudInv, ChatInv, ChatShape
<1>2. \A s \in Cloud!Sessions : chats'[s].provider \in {0} \cup Cloud!Ladder
  <2> SUFFICES ASSUME NEW s \in Cloud!Sessions PROVE chats'[s].provider \in {0} \cup Cloud!Ladder
    OBVIOUS
  <2>1. CASE chats'[s].provider = chats[s].provider
    BY <2>1 DEF OnLadder
  <2>2. CASE Cloud!RowStarts
    <3>1. CASE chats' = chats
      BY <3>1 DEF OnLadder
    <3>2. CASE chats' # chats
      <4>1. PICK t \in Cloud!Sessions :
              tape # << >> /\ tape[1].type = "thread" /\ chats' = [chats EXCEPT ![t].provider = tape[1].provider]
        BY <2>2, <3>2 DEF Cloud!RowStarts, Cloud!Row
      <4>2. PICK p : p = tape[1].provider
        OBVIOUS
      <4>3. p \in Cloud!Ladder
        <5>1. 1 \in 1..Len(tape)
          BY <1>1, <4>1
        <5> QED
          BY <4>1, <4>2, <5>1 DEF OnLadder
      <4>4. PICK c, d : c = chats[t] /\ d = [c EXCEPT !.provider = p]
        OBVIOUS
      <4>5. c \in Chat
        BY <1>1, <4>4
      <4>6. d.provider = p
        BY <4>4, <4>5 DEF Chat
      <4>7. chats' = [chats EXCEPT ![t] = d]
        BY <4>1, <4>2, <4>4
      <4>8. chats'[t] = d /\ (s # t => chats'[s] = chats[s])
        BY <1>1, <4>7
      <4> QED
        BY <4>3, <4>6, <4>8 DEF OnLadder
    <3> QED
      BY <3>1, <3>2
  <2> QED
    BY <2>1, <2>2, ProvidersStay
<1>3. \A i \in 1..Len(tape') : tape'[i].type = "thread" => tape'[i].provider \in Cloud!Ladder
  <2>1. CASE tape' = tape
    BY <2>1 DEF OnLadder
  <2>2. CASE tape # << >> /\ tape' = Tail(tape)
    <3>1. \A i \in 1..Len(tape') : tape'[i] = tape[i + 1] /\ i + 1 \in 1..Len(tape)
      BY <1>1, <2>2
    <3> QED
      BY <3>1 DEF OnLadder
  <2>3. ASSUME tape # << >>, NEW x, tape' = [tape EXCEPT ![1].session = x]
        PROVE  \A i \in 1..Len(tape') : tape'[i].type = "thread" => tape'[i].provider \in Cloud!Ladder
    <3>1. PICK r, q : r = tape[1] /\ q = [r EXCEPT !.session = x]
      OBVIOUS
    <3>2. r \in CloudRow
      BY <1>1, <2>3, <3>1
    <3>3. q.type = r.type /\ q.provider = r.provider
      BY <3>1, <3>2 DEF CloudRow
    <3>4. tape' = [tape EXCEPT ![1] = q]
      BY <2>3, <3>1
    <3>5. Len(tape') = Len(tape) /\ \A i \in 1..Len(tape) : tape'[i] = IF i = 1 THEN q ELSE tape[i]
      BY <1>1, <3>4
    <3>6. r.type = "thread" => r.provider \in Cloud!Ladder
      <4>1. 1 \in 1..Len(tape)
        BY <1>1, <2>3
      <4> QED
        BY <3>1, <4>1 DEF OnLadder
    <3>7. \A i \in 1..Len(tape) : tape[i].type = "thread" => tape[i].provider \in Cloud!Ladder
      BY DEF OnLadder
    <3> QED
      BY <3>3, <3>5, <3>6, <3>7
  <2>4. ASSUME NEW r, tape' = Append(tape, r), r.type = "thread" => r.provider \in Cloud!Ladder
        PROVE  \A i \in 1..Len(tape') : tape'[i].type = "thread" => tape'[i].provider \in Cloud!Ladder
    <3>1. \A i \in 1..Len(tape') : (i \in 1..Len(tape) /\ tape'[i] = tape[i]) \/ tape'[i] = r
      BY <1>1, <2>4
    <3> QED
      BY <2>4, <3>1 DEF OnLadder
  <2> QED
    BY <2>1, <2>2, <2>3, <2>4, RowsNext
<1> QED
  BY <1>2, <1>3 DEF OnLadder

\* What a step adds to the providers and the episodes that were tried is of turns in line.
LEMMA EpisodesStep ==
  ASSUME CloudInv, OnLadder, Episodes, [Cloud!Next]_(Cloud!vars)
  PROVE  Episodes'
<1>1. /\ ChatShape /\ Reads /\ Going /\ InLine /\ tape \in Seq(CloudRow) /\ chapter \in Seq(Nat)
      /\ Len(tape) \in Nat /\ (tape # << >> <=> Len(tape) # 0)
      /\ Len(chapter) \in Nat /\ Passed \in Nat /\ Passed + Len(tape) = Len(chapter)
  BY LineCounts DEF CloudInv, ChatInv, ChatShape
<1>2. \A n \in 1..Len(chapter) : chapter[n] \in 1..Len(chapter)
  <2> TAKE n \in 1..Len(chapter)
  <2>1. chapter[n] \in 1..n
    BY <1>1 DEF InLine
  <2> QED
    BY <1>1, <2>1
<1>3. chapter' = chapter \/ \E e : chapter' = Append(chapter, e)
  <2>1. CASE \/ \E t \in {0} \cup Cloud!Sessions : Cloud!OwnerSends(t)
             \/ \E t \in Cloud!Sessions : Cloud!VisitWakes(t)
             \/ Cloud!VisitConfirms \/ Cloud!VisitReplaces
    BY <2>1 DEF Cloud!OwnerSends, Cloud!VisitWakes, Cloud!VisitConfirms, Cloud!VisitReplaces, Cloud!Queue
  <2>2. CASE \/ Cloud!Sleeps \/ Cloud!Woken \/ Cloud!OwnerStops \/ Cloud!RowRecords \/ Cloud!RowStarts
             \/ Cloud!RowBreaks \/ Cloud!VisitBreaks \/ Cloud!VisitLists \/ Cloud!RowPosts
             \/ Cloud!VisitApplies \/ UNCHANGED Cloud!vars
    BY <2>2
    DEF Cloud!Sleeps, Cloud!Woken, Cloud!OwnerStops, Cloud!RowBreaks, Cloud!VisitBreaks, Cloud!VisitLists,
        Cloud!RowPosts, Cloud!vars, Cloud!handler, Cloud!RowRecords, Cloud!RowStarts, Cloud!VisitApplies
  <2>3. CASE \E t \in Cloud!Sessions :
               \/ Cloud!VisitStarts(t) \/ Cloud!AgentTakes(t) \/ Cloud!AgentSpeaks(t) \/ Cloud!AgentFinishes(t)
               \/ \E how \in {"interrupted", "spent", "other"} : Cloud!AgentFails(t, how)
               \/ Cloud!StopCancels(t)
    BY <2>3
    DEF Cloud!VisitStarts, Cloud!AgentTakes, Cloud!AgentSpeaks, Cloud!AgentFinishes, Cloud!AgentFails,
        Cloud!StopCancels, Cloud!handler
  <2> QED
    BY <2>1, <2>2, <2>3 DEF Cloud!Next, Cloud!Handler, Cloud!Visit
<1>4. \A e \in 1..Len(chapter) : e \in 1..Len(chapter')
  <2>1. Len(chapter') = Len(chapter) \/ Len(chapter') = Len(chapter) + 1
    BY <1>1, <1>3
  <2> QED
    BY <1>1, <2>1
<1>5. /\ \A t \in laddered' : t \in laddered \/ t \in (1..Len(chapter)) \X Cloud!Ladder
      /\ \A e \in carried' : e \in carried \/ e \in 1..Len(chapter)
  <2>1. CASE Cloud!RowRecords
    <3>1. tape # << >> /\ tape[1].session \in Cloud!Sessions
      BY <1>1, <2>1 DEF Going, Cloud!RowRecords
    <3>2. PICK r, s : r = tape[1] /\ s = tape[1].session
      OBVIOUS
    <3>3. r.turn \in 1..Len(chapter)
      <4>1. 1 \in 1..Len(tape)
        BY <1>1, <3>1
      <4>2. r.turn = Passed + 1
        BY <1>1, <3>2, <4>1 DEF InLine
      <4> QED
        BY <1>1, <3>1, <4>2
    <3>4. PICK ep : ep = chapter[r.turn]
      OBVIOUS
    <3>5. chats[s].provider \in Cloud!Ladder
      <4>1. 1 \in 1..Len(tape)
        BY <1>1, <3>1
      <4>2. s # 0
        BY <3>1, <3>2 DEF Cloud!Sessions
      <4>3. chats[s].provider # 0
        BY <1>1, <3>2, <4>1, <4>2 DEF Going
      <4> QED
        BY <3>1, <3>2, <4>3 DEF OnLadder
    <3>6. ep \in 1..Len(chapter)
      BY <1>2, <3>3, <3>4
    <3>7. /\ laddered' \subseteq laddered \cup {<<ep, chats[s].provider>>}
          /\ carried' \subseteq carried
      BY <2>1, <3>2, <3>4 DEF Cloud!RowRecords, Cloud!Row
    <3> QED
      BY <3>5, <3>6, <3>7
  <2>2. CASE Cloud!VisitConfirms \/ Cloud!VisitReplaces
    <3>1. glance.sent \in 1..Len(chapter)
      <4>1. glance.sent # 0 /\ glance.sent <= Passed /\ glance.sent \in Nat
        BY <1>1, <2>2 DEF Reads, Cloud!VisitConfirms, Cloud!VisitReplaces, ChatShape, Glance
      <4> QED
        BY <1>1, <4>1
    <3>2. PICK ep : ep = chapter[glance.sent]
      OBVIOUS
    <3>3. ep \in 1..Len(chapter)
      BY <1>2, <3>1, <3>2
    <3>4. /\ carried' \subseteq carried \cup {ep}
          /\ laddered' = laddered \/ \E p \in Cloud!Ladder : laddered' = laddered \cup {<<ep, p>>}
      BY <2>2, <3>2 DEF Cloud!VisitConfirms, Cloud!VisitReplaces
    <3> QED
      BY <3>3, <3>4
  <2>3. CASE \/ Cloud!Sleeps \/ Cloud!Woken \/ Cloud!OwnerStops \/ Cloud!RowStarts
             \/ Cloud!RowBreaks \/ Cloud!VisitBreaks \/ Cloud!VisitLists \/ Cloud!RowPosts
             \/ Cloud!VisitApplies \/ UNCHANGED Cloud!vars
    BY <2>3
    DEF Cloud!Sleeps, Cloud!Woken, Cloud!OwnerStops, Cloud!RowBreaks, Cloud!VisitBreaks, Cloud!VisitLists,
        Cloud!RowPosts, Cloud!vars, Cloud!store, Cloud!RowStarts, Cloud!VisitApplies, Cloud!Applies
  <2>4. CASE \/ \E t \in {0} \cup Cloud!Sessions : Cloud!OwnerSends(t)
             \/ \E t \in Cloud!Sessions :
               \/ Cloud!VisitStarts(t) \/ Cloud!AgentTakes(t) \/ Cloud!AgentSpeaks(t) \/ Cloud!AgentFinishes(t)
               \/ \E how \in {"interrupted", "spent", "other"} : Cloud!AgentFails(t, how)
               \/ Cloud!StopCancels(t) \/ Cloud!VisitWakes(t)
    BY <2>4
    DEF Cloud!VisitStarts, Cloud!AgentTakes, Cloud!AgentSpeaks, Cloud!AgentFinishes, Cloud!AgentFails,
        Cloud!StopCancels, Cloud!store, Cloud!OwnerSends, Cloud!VisitWakes, Cloud!Applies
  <2> QED
    BY <2>1, <2>2, <2>3, <2>4 DEF Cloud!Next, Cloud!Handler, Cloud!Visit
<1>6. \A t \in laddered' : t \in (1..Len(chapter')) \X Cloud!Ladder
  BY <1>4, <1>5 DEF Episodes
<1>7. \A e \in carried' : e \in 1..Len(chapter')
  BY <1>4, <1>5 DEF Episodes
<1> QED
  BY <1>6, <1>7 DEF Episodes

\* A transcript only grows, and a visit forwards what it read of one.
LEMMA ForwardedStep ==
  ASSUME CloudInv, CloudInv', Forwarded, [Cloud!Next]_(Cloud!vars)
  PROVE  Forwarded'
<1>1. ChatShape /\ Reads /\ reach \in [Cloud!Sessions -> Nat] /\ talk \in [Cloud!Sessions -> Seq(Said)]
  BY DEF CloudInv, ChatInv, ChatShape
<1>2. \A s \in Cloud!Sessions : reach[s] \in Nat /\ Len(talk[s]) \in Nat
  BY <1>1, Prompts
<1>3. \A s \in Cloud!Sessions : Len(talk[s]) <= Len(talk'[s])
  <2>1. ASSUME NEW t \in Cloud!Sessions, NEW lines \in Seq(Said), talk' = [talk EXCEPT ![t] = @ \o lines]
        PROVE  \A s \in Cloud!Sessions : Len(talk[s]) <= Len(talk'[s])
    <3> TAKE s \in Cloud!Sessions
    <3>1. CASE s = t
      <4>1. talk'[s] = talk[s] \o lines /\ talk[s] \in Seq(Said)
        BY <1>1, <2>1, <3>1
      <4>2. Len(talk'[s]) = Len(talk[s]) + Len(lines) /\ Len(lines) \in Nat
        BY <4>1
      <4> QED
        BY <1>2, <4>2
    <3>2. CASE s # t
      BY <1>1, <1>2, <2>1, <3>2
    <3> QED
      BY <3>1, <3>2
  <2>2. ASSUME NEW t \in Cloud!Sessions, NEW x, talk' = [talk EXCEPT ![t] = Append(@, x)]
        PROVE  \A s \in Cloud!Sessions : Len(talk[s]) <= Len(talk'[s])
    <3> TAKE s \in Cloud!Sessions
    <3>1. CASE s = t
      <4>1. talk'[s] = Append(talk[s], x) /\ talk[s] \in Seq(Said)
        BY <1>1, <2>2, <3>1
      <4>2. Len(talk'[s]) = Len(talk[s]) + 1
        BY <4>1
      <4> QED
        BY <1>2, <4>2
    <3>2. CASE s # t
      BY <1>1, <1>2, <2>2, <3>2
    <3> QED
      BY <3>1, <3>2
  <2>3. CASE talk' = talk
    BY <1>2, <2>3
  <2>4. ASSUME NEW t \in Cloud!Sessions,
               \/ Cloud!AgentTakes(t) \/ Cloud!AgentSpeaks(t)
               \/ \E how \in {"interrupted", "spent", "other"} : Cloud!AgentFails(t, how)
        PROVE  talk' = talk \/ \E x : talk' = [talk EXCEPT ![t] = Append(@, x)]
    BY <2>4 DEF Cloud!AgentTakes, Cloud!AgentSpeaks, Cloud!AgentFails
  <2>5. ASSUME NEW t \in Cloud!Sessions, Cloud!AgentFinishes(t)
        PROVE  \E lines \in Seq(Said) : talk' = [talk EXCEPT ![t] = @ \o lines]
    <3>1. PICK n : n = doing[t]
      OBVIOUS
    <3>2. n \in Nat
      BY <1>1, <3>1 DEF ChatShape
    <3>3. PICK a \in Said, b \in Said : a = [turn |-> n, kind |-> "text"] /\ b = [turn |-> n, kind |-> "completed"]
      BY <3>2 DEF Said
    <3>4. talk' = [talk EXCEPT ![t] = @ \o << a, b >>]
      BY <2>5, <3>1, <3>3 DEF Cloud!AgentFinishes
    <3>5. << a, b >> \in Seq(Said)
      OBVIOUS
    <3> QED
      BY <3>4, <3>5
  <2>6. ASSUME \/ Cloud!Sleeps \/ Cloud!Woken \/ Cloud!OwnerStops \/ Cloud!Handler
               \/ Cloud!RowBreaks \/ Cloud!VisitBreaks \/ Cloud!VisitLists
               \/ Cloud!VisitApplies \/ Cloud!VisitConfirms \/ Cloud!VisitReplaces \/ UNCHANGED Cloud!vars
        PROVE  talk' = talk
    BY <2>6
    DEF Cloud!Sleeps, Cloud!Woken, Cloud!OwnerStops, Cloud!RowBreaks, Cloud!VisitBreaks, Cloud!VisitLists,
        Cloud!Handler, Cloud!RowPosts, Cloud!vars, Cloud!agents, Cloud!RowStarts, Cloud!RowRecords,
        Cloud!VisitApplies, Cloud!Applies, Cloud!VisitConfirms, Cloud!VisitReplaces
  <2>7. ASSUME \/ \E t \in {0} \cup Cloud!Sessions : Cloud!OwnerSends(t)
               \/ \E t \in Cloud!Sessions : Cloud!VisitStarts(t) \/ Cloud!StopCancels(t) \/ Cloud!VisitWakes(t)
        PROVE  talk' = talk
    BY <2>7 DEF Cloud!VisitStarts, Cloud!StopCancels, Cloud!OwnerSends, Cloud!VisitWakes, Cloud!Applies, Cloud!agents
  <2> QED
    BY <2>1, <2>2, <2>3, <2>4, <2>5, <2>6, <2>7 DEF Cloud!Next, Cloud!Visit
<1>4. \A s \in Cloud!Sessions : reach'[s] <= Len(talk[s])
  <2>1. CASE reach' = reach
    BY <2>1 DEF Forwarded
  <2>2. CASE reach' # reach
    <3>1. PICK t \in Cloud!Sessions :
            glance.at = "status" /\ glance.session = t /\ reach' = [reach EXCEPT ![t] = glance.upto]
      <4>1. CASE Cloud!VisitApplies \/ \E t \in Cloud!Sessions : Cloud!VisitWakes(t)
        BY <4>1 DEF Cloud!VisitApplies, Cloud!VisitWakes, Cloud!Applies
      <4>2. CASE \/ Cloud!Sleeps \/ Cloud!Woken \/ Cloud!OwnerStops \/ Cloud!Handler
                 \/ Cloud!RowBreaks \/ Cloud!VisitBreaks \/ Cloud!VisitLists
                 \/ Cloud!VisitConfirms \/ Cloud!VisitReplaces \/ UNCHANGED Cloud!vars
        BY <2>2, <4>2
        DEF Cloud!Sleeps, Cloud!Woken, Cloud!OwnerStops, Cloud!RowBreaks, Cloud!VisitBreaks, Cloud!VisitLists,
            Cloud!Handler, Cloud!RowPosts, Cloud!vars, Cloud!store, Cloud!RowStarts, Cloud!RowRecords,
            Cloud!VisitConfirms, Cloud!VisitReplaces
      <4>3. CASE \/ \E t \in {0} \cup Cloud!Sessions : Cloud!OwnerSends(t)
                 \/ \E t \in Cloud!Sessions :
                      \/ Cloud!VisitStarts(t) \/ Cloud!StopCancels(t) \/ Cloud!AgentTakes(t)
                      \/ Cloud!AgentSpeaks(t) \/ Cloud!AgentFinishes(t)
                      \/ \E how \in {"interrupted", "spent", "other"} : Cloud!AgentFails(t, how)
        BY <2>2, <4>3
        DEF Cloud!VisitStarts, Cloud!StopCancels, Cloud!OwnerSends, Cloud!AgentTakes, Cloud!AgentSpeaks,
            Cloud!AgentFinishes, Cloud!AgentFails, Cloud!store
      <4> QED
        BY <4>1, <4>2, <4>3 DEF Cloud!Next, Cloud!Visit
    <3>2. glance.upto <= Len(talk[t])
      BY <1>1, <3>1 DEF Reads
    <3>3. reach'[t] = glance.upto /\ \A s \in Cloud!Sessions \ {t} : reach'[s] = reach[s]
      BY <1>1, <3>1
    <3> QED
      BY <3>2, <3>3 DEF Forwarded
  <2> QED
    BY <2>1, <2>2
<1>5. \A s \in Cloud!Sessions : reach'[s] \in Nat /\ Len(talk'[s]) \in Nat
  <2>1. talk' \in [Cloud!Sessions -> Seq(Said)] /\ reach' \in [Cloud!Sessions -> Nat]
    BY DEF CloudInv, ChatInv, ChatShape
  <2> QED
    BY <2>1
<1> QED
  BY <1>2, <1>3, <1>4, <1>5 DEF Forwarded

LEMMA ChatTypedInit == ASSUME Cloud!CloudPollAssumption, Cloud!Init PROVE ChatTyped
<1>1. CloudInv
  BY CloudInit
<1>2. /\ tape = << >> /\ chapter = << >> /\ laddered = {} /\ carried = {}
      /\ talk = [s \in Cloud!Sessions |-> << >>] /\ reach = [s \in Cloud!Sessions |-> 0]
  BY DEF Cloud!Init
<1>3. PICK b, c : b = Cloud!NoState /\ c = [Cloud!NoState EXCEPT !.provider = 1]
  OBVIOUS
<1>4. b.provider = 0 /\ c.provider = 1
  BY <1>3 DEF Cloud!NoState
<1>5. chats = [s \in Cloud!Sessions |-> IF s = 1 THEN c ELSE b]
  BY <1>3 DEF Cloud!Init
<1>6. 1 \in Cloud!Ladder
  BY DEF Cloud!CloudPollAssumption, Cloud!Ladder
<1>7. \A s \in Cloud!Sessions : chats[s].provider \in {0} \cup Cloud!Ladder
  BY <1>4, <1>5, <1>6
<1>8. Len(tape) = 0 /\ \A s \in Cloud!Sessions : Len(talk[s]) = 0 /\ reach[s] = 0
  BY <1>2
<1> QED
  BY <1>2, <1>7, <1>8 DEF ChatTyped, OnLadder, Episodes, Forwarded

LEMMA ChatTypedStep ==
  ASSUME CloudInv, ChatTyped, Cloud!CloudPollAssumption, ErrorsClear = TRUE, [Cloud!Next]_(Cloud!vars)
  PROVE  ChatTyped'
<1>1. CloudInv'
  BY CloudStep
<1> QED
  BY <1>1, OnLadderStep, EpisodesStep, ForwardedStep DEF ChatTyped

LEMMA ChatTypes == ASSUME CloudInv, ChatTyped PROVE Cloud!TypeOK
<1>1. /\ ChatShape /\ Sent /\ Going /\ InLine /\ Homes /\ tape \in Seq(CloudRow) /\ chapter \in Seq(Nat)
      /\ Len(tape) \in Nat /\ Len(chapter) \in Nat /\ Passed \in Nat /\ Passed + Len(tape) = Len(chapter)
  BY LineCounts DEF CloudInv, ChatInv, ChatShape
<1>2. DOMAIN chapter = 1..Len(chapter) /\ DOMAIN tape = 1..Len(tape)
  BY <1>1
<1>3. \A n \in DOMAIN chapter : chapter[n] \in 1..n
  BY <1>1, <1>2 DEF InLine
<1>4. \A i \in DOMAIN tape : tape[i].turn \in DOMAIN chapter /\ tape[i].session \in Cloud!Sessions \cup {0}
  <2> TAKE i \in DOMAIN tape
  <2>1. i \in 1..Len(tape) /\ tape[i].turn = Passed + i
    BY <1>1, <1>2 DEF InLine
  <2>2. tape[i].turn \in DOMAIN chapter
    BY <1>1, <1>2, <2>1
  <2> QED
    BY <1>1, <2>1, <2>2 DEF Going
<1>5. ASSUME NEW s \in Cloud!Sessions
      PROVE  /\ chats[s].provider \in Cloud!Ladder \cup {0} /\ chats[s].sent \in DOMAIN chapter \cup {0}
             /\ reach[s] <= Len(talk[s])
             /\ Cloud!Busy(s) \subseteq DOMAIN chapter
  <2>1. chats[s].sent \in Nat /\ chats[s].sent <= Passed
    BY <1>1 DEF ChatShape, Chat, Sent
  <2>2. chats[s].sent \in DOMAIN chapter \cup {0}
    BY <1>1, <1>2, <2>1
  <2>3. Cloud!Busy(s) \subseteq DOMAIN chapter
    BY <1>1, <1>2, GivenInLine, BusyGiven
  <2> QED
    BY <2>2, <2>3 DEF ChatTyped, OnLadder, Forwarded
<1>6. /\ hand.at \in {"rest", "post", "record"} /\ newest \in Cloud!Sessions
      /\ glance.at \in {"rest", "list", "status", "confirm", "tail"}
  BY <1>1 DEF ChatShape, Glance
<1>7. laddered \subseteq (DOMAIN chapter) \X Cloud!Ladder /\ carried \subseteq DOMAIN chapter
  BY <1>2 DEF ChatTyped, Episodes
<1> QED
  BY <1>3, <1>4, <1>5, <1>6, <1>7 DEF Cloud!TypeOK
=============================================================================
