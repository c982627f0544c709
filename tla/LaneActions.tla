---------------------------- MODULE LaneActions -----------------------------
(***************************************************************************)
(* The external mutations of the lanes workers (src/lanes): one worker at  *)
(* a site, a standby at another, a lease with a growing fence in the state *)
(* store, and an intent in the store for every call of Conductor or of the *)
(* Git host.                                                               *)
(*                                                                         *)
(* A request <<r, s>> is the s-th mutation that run r needs: its workspace,*)
(* a session, a prompt, an attestation, a notice, the archive.  A worker   *)
(* goes from one call of the store or of a service to the next in one      *)
(* step, and pc[w] names the call it comes to.  Every write of the store   *)
(* is one transaction behind the lease; reads and external calls are not   *)
(* behind it.  A lease runs out at any moment the bound allows: its holder *)
(* may be gone, suspended, or cut off from the store.                      *)
(***************************************************************************)
EXTENDS Integers, FiniteSets

CONSTANTS
    Sites,        \* the workers, one per site
    Mac,          \* the site that takes the first lease
    Runs,         \* the runs of the lanes
    Steps,        \* mutations a run needs, one after the other
    Nothing,      \* no request
    Attempts,     \* refused intents after which a request is given up (10)
    KeepsContract,\* every 2xx answer of a service is one its client can read
    MaxTrouble    \* bound: crashes, lapsed leases, failed store calls, resumes

Requests == Runs \X (1 .. Steps)

ASSUME SizesAssumption == Steps \in Nat \ {0} /\ Attempts \in Nat \ {0} /\ MaxTrouble \in Nat
ASSUME NamesAssumption == Mac \in Sites /\ Nothing \notin Requests /\ KeepsContract \in BOOLEAN

VARIABLES
    lease,     \* lane_v2_lease: free, live or expired
    fence,     \* its fence, 0 before the first claim
    mine,      \* the fence in a worker's credentials
    pc,        \* the call a worker comes to, "out" when it has no lease
    task,      \* the request it works on
    seen,      \* the status of that request's action in its snapshot
    mode,      \* lane_v2_controller.mode: active, or paused_safety
    progress,  \* how many of its mutations a run has used the result of
    status,    \* status of the newest lane_v2_actions row of a request
    refused,   \* how many of its rows are failed
    effects,   \* Conductor and Git host: how often a request took effect
    late,      \* calls whose caller gave up, still to take effect or not
    trouble    \* how much of MaxTrouble is used

store   == <<mode, progress, status, refused>>
leasing == <<lease, fence, mine>>
worker  == <<pc, task, seen>>
outside == <<effects, late>>
vars    == <<leasing, worker, store, outside, trouble>>

-----------------------------------------------------------------------------
Unresolved(x) == status[x] \in {"pending", "ambiguous"}
Done(x)       == status[x] \in {"succeeded", "reconciled"}

\* run.ambiguous_action_id: set with an ambiguous result, cleared when that action is reconciled.
Ambiguous(r) == \E s \in 1 .. Steps : status[<<r, s>>] = "ambiguous"

\* guard(): the credentials are those of the row, and it has not expired.
Valid(w) == lease = "live" /\ fence = mine[w]

Trouble == trouble < MaxTrouble /\ trouble' = trouble + 1

Go(w, where)    == pc' = [pc EXCEPT ![w] = where]
At(w, where)    == pc[w] = where
Mark(x, result) == status' = [status EXCEPT ![x] = result]

\* An exception leaves the tick and the loop; `finally' gives the lease back if it is still this worker's.
Exits(w) == Go(w, "out") /\ lease' = IF Valid(w) THEN "free" ELSE lease

-----------------------------------------------------------------------------
Init ==
    /\ lease = "free" /\ fence = 0
    /\ mine = [w \in Sites |-> 0]
    /\ pc = [w \in Sites |-> "out"]
    /\ task = [w \in Sites |-> Nothing]
    /\ seen = [w \in Sites |-> "none"]
    /\ mode = "active"
    /\ progress = [r \in Runs |-> 0]
    /\ status = [x \in Requests |-> "none"]
    /\ refused = [x \in Requests |-> 0]
    /\ effects = [x \in Requests |-> 0]
    /\ late = [x \in Requests |-> 0]
    /\ trouble = 0

\* claimLease(): a lease nobody holds, under a new fence; the standby never makes the first row.
Claim(w) ==
    /\ At(w, "out")
    /\ lease # "live"
    /\ w = Mac \/ fence > 0
    /\ lease' = "live" /\ fence' = fence + 1
    /\ mine' = [mine EXCEPT ![w] = fence + 1]
    /\ Go(w, "tick")
    /\ UNCHANGED <<task, seen, store, outside, trouble>>

\* Time passes and no heartbeat came: the holder is gone, or it is suspended or cut off.
Expire ==
    /\ lease = "live"
    /\ lease' = "expired"
    /\ \/ (\A w \in Sites : mine[w] = fence => At(w, "out")) /\ trouble' = trouble
       \/ Trouble
    /\ UNCHANGED <<fence, mine, worker, store, outside>>

\* Mutant: what is due is the first mutation that has no row, whatever the rows before it say.
TickIgnoring(w) ==
    \E x \in Requests :
        /\ At(w, "tick") /\ mode = "active"
        /\ status[x] = "none" /\ \A i \in 1..(x[2] - 1) : status[<<x[1], i>>] # "none"
        /\ task' = [task EXCEPT ![w] = x]
        /\ seen' = [seen EXCEPT ![w] = "none"]
        /\ Go(w, "begin")
        /\ UNCHANGED <<leasing, store, outside, trouble>>

\* tick(): an unresolved action, an ambiguous one first, comes before any other work.
TakeUnresolved(w) ==
    \E x \in Requests :
        /\ At(w, "tick")
        /\ Unresolved(x)
        /\ status[x] = "ambiguous" \/ \A y \in Requests : status[y] # "ambiguous"
        /\ task' = [task EXCEPT ![w] = x]
        /\ seen' = [seen EXCEPT ![w] = status[x]]
        /\ Go(w, "look")
        /\ UNCHANGED <<leasing, store, outside, trouble>>

\* tick(), with nothing unresolved: a run's next mutation.  What it needs may be there already, and is then
\* adopted; else its intent is begun.
TakeDue(w) ==
    \E r \in Runs :
        LET x == <<r, progress[r] + 1>>
        IN  /\ At(w, "tick") /\ mode = "active"
            /\ \A y \in Requests : ~Unresolved(y)
            /\ progress[r] < Steps
            /\ task' = [task EXCEPT ![w] = x]
            /\ seen' = [seen EXCEPT ![w] = "none"]
            /\ Go(w, "begin") \/ (effects[x] > 0 /\ Go(w, "bind"))
            /\ UNCHANGED <<leasing, store, outside, trouble>>

\* The owner's /lanes resume, applied by a tick with nothing unresolved.
Resume(w) ==
    /\ At(w, "tick") /\ mode = "paused"
    /\ \A y \in Requests : ~Unresolved(y)
    /\ Valid(w)
    /\ mode' = "active"
    /\ Trouble
    /\ UNCHANGED <<leasing, worker, progress, status, refused, outside>>

\* Mutant: an intent is written whatever the ledger holds under its tag.
BeginAlways(w) ==
    /\ At(w, "begin") /\ Valid(w)
    /\ Mark(task[w], "pending") /\ Go(w, "intent")
    /\ UNCHANGED <<leasing, task, seen, mode, progress, refused, outside, trouble>>

\* performAction() up to its intent: the retries of this request that failed are passed over, and the ledger
\* returns what it holds under the next tag, or writes a new intent unless the run has an ambiguous action.
Begin(w) ==
    LET x == task[w]
        fresh == status[x] \in {"none", "failed"}
    IN  /\ At(w, "begin") /\ Valid(w)
        /\ \/ /\ fresh /\ refused[x] < Attempts
              /\ ~Ambiguous(x[1])
              /\ Mark(x, "pending") /\ Go(w, "intent")
              /\ UNCHANGED <<mode, lease>>
           \/ /\ fresh /\ refused[x] < Attempts
              /\ Ambiguous(x[1])
              /\ Exits(w)
              /\ UNCHANGED <<mode, status>>
           \/ /\ fresh /\ refused[x] >= Attempts
              /\ mode' = "paused" /\ Exits(w)
              /\ UNCHANGED status
           \/ /\ status[x] = "pending" /\ Go(w, "intent")
              /\ UNCHANGED <<mode, status, lease>>
           \/ /\ status[x] = "ambiguous" /\ Go(w, "tick")
              /\ UNCHANGED <<mode, status, lease>>
           \/ /\ Done(x) /\ Go(w, "bind")
              /\ UNCHANGED <<mode, status, lease>>
        /\ UNCHANGED <<fence, mine, task, seen, progress, refused, outside, trouble>>

\* performAction(): a full lease before the call...
Renew(w) ==
    /\ At(w, "intent") /\ Valid(w)
    /\ Go(w, "call")
    /\ UNCHANGED <<leasing, task, seen, store, outside, trouble>>

\* ...which is then made, however long after that.
Call(w) ==
    /\ At(w, "call")
    /\ Go(w, "asked")
    /\ UNCHANGED <<leasing, task, seen, store, outside, trouble>>

-----------------------------------------------------------------------------
(* What becomes of a call.                                                 *)

Happens(x) == effects' = [effects EXCEPT ![x] = @ + 1]

Answer(w) ==
    /\ At(w, "asked")
    /\ Happens(task[w]) /\ Go(w, "ok")
    /\ UNCHANGED <<leasing, task, seen, store, late, trouble>>

\* A 4xx, or a preflight that found the mutation unsafe.
Refuse(w) ==
    /\ At(w, "asked")
    /\ Go(w, "refused")
    /\ UNCHANGED <<leasing, task, seen, store, outside, trouble>>

\* Mutant: what was lost is taken for a refusal.
LoseAsRefused(w) ==
    /\ At(w, "asked")
    /\ late' = [late EXCEPT ![task[w]] = @ + 1]
    /\ Go(w, "refused")
    /\ UNCHANGED <<leasing, task, seen, store, effects, trouble>>

\* A timeout, a 5xx, a broken connection, any error of the Git host: the call may take effect yet.
Lose(w) ==
    /\ At(w, "asked")
    /\ late' = [late EXCEPT ![task[w]] = @ + 1]
    /\ Go(w, "lost")
    /\ UNCHANGED <<leasing, task, seen, store, effects, trouble>>

\* A 2xx answer that is not JSON or not of the schema: an error of status 200, which is neither null nor 5xx.
Misread(w) ==
    /\ At(w, "asked") /\ ~KeepsContract
    /\ Happens(task[w]) /\ Go(w, "refused")
    /\ UNCHANGED <<leasing, task, seen, store, late, trouble>>

\* To its caller the one is like the other.
TakenAsRefusal(w) == At(w, "asked") /\ (Refuse(w) \/ Misread(w))

Land(x) ==
    /\ late[x] > 0
    /\ late' = [late EXCEPT ![x] = @ - 1]
    /\ Happens(x)
    /\ UNCHANGED <<leasing, worker, store, trouble>>

Vanish(x) ==
    /\ late[x] > 0
    /\ late' = [late EXCEPT ![x] = @ - 1]
    /\ UNCHANGED <<leasing, worker, store, effects, trouble>>

-----------------------------------------------------------------------------
(* What becomes of the intent.                                             *)

\* finishAction(): only of a pending action, behind the lease.
Finish(w, result, next) ==
    LET x == task[w]
    IN  /\ Valid(w)
        /\ \/ /\ status[x] = "pending"
              /\ Mark(x, result) /\ Go(w, next)
              /\ refused' = [refused EXCEPT ![x] = IF result = "failed" THEN @ + 1 ELSE @]
              /\ lease' = lease
           \/ /\ status[x] # "pending"
              /\ Exits(w)
              /\ UNCHANGED <<status, refused>>
        /\ UNCHANGED <<fence, mine, task, seen, mode, progress, outside, trouble>>

\* Mutant: a refused action gets a status that the ledger does not know.
FinishAsError(w) == At(w, "refused") /\ Finish(w, "error", "tick")

FinishOk(w)      == At(w, "ok") /\ Finish(w, "succeeded", "bind")
FinishLost(w)    == At(w, "lost") /\ Finish(w, "ambiguous", "tick")
FinishRefused(w) == At(w, "refused") /\ Finish(w, "failed", "tick")

\* A store call between a good answer and its record fails: the catch block takes it for a lost one.
Doubt(w) ==
    /\ At(w, "ok")
    /\ Trouble
    /\ Go(w, "lost")
    /\ UNCHANGED <<leasing, task, seen, store, outside>>

\* The result is put in the run.
Bind(w) ==
    /\ At(w, "bind") /\ Valid(w)
    /\ progress' = [progress EXCEPT ![task[w][1]] = task[w][2]]
    /\ Go(w, "tick")
    /\ UNCHANGED <<leasing, task, seen, mode, status, refused, outside, trouble>>

\* Mutant: an effect that is not there is a mutation that never was, and may be tried again.
AbsentAsFailed(w) ==
    /\ At(w, "absent") /\ Valid(w)
    /\ status[task[w]] = seen[w]
    /\ Mark(task[w], "failed")
    /\ refused' = [refused EXCEPT ![task[w]] = @ + 1]
    /\ Go(w, "tick")
    /\ UNCHANGED <<leasing, task, seen, mode, progress, outside, trouble>>

\* reconcileAction() reads what is there.  A workspace may be there without its session.
Look(w) ==
    /\ At(w, "look")
    /\ \/ effects[task[w]] > 0 /\ Go(w, "found") /\ trouble' = trouble
       \/ effects[task[w]] = 0 /\ Go(w, "absent") /\ trouble' = trouble
       \/ effects[task[w]] > 0 /\ Go(w, "tick") /\ Trouble
    /\ UNCHANGED <<leasing, task, seen, store, outside>>

\* Mutant: what is found is taken for another worker's.
ReconcileNothing(w) ==
    /\ At(w, "found") /\ Valid(w)
    /\ Go(w, "tick")
    /\ UNCHANGED <<leasing, task, seen, store, outside, trouble>>

\* Found: reconciled, unless the action is no longer as the snapshot had it.
Reconcile(w) ==
    /\ At(w, "found") /\ Valid(w)
    /\ \/ status[task[w]] = seen[w] /\ Mark(task[w], "reconciled") /\ Go(w, "tick") /\ lease' = lease
       \/ status[task[w]] # seen[w] /\ Exits(w) /\ UNCHANGED status
    /\ UNCHANGED <<fence, mine, task, seen, mode, progress, refused, outside, trouble>>

\* Not found: that proves nothing.  A pending action becomes ambiguous, an ambiguous one stays so...
Absent(w) ==
    /\ At(w, "absent") /\ Valid(w)
    /\ \/ /\ seen[w] = "ambiguous"
          /\ Go(w, "pause") /\ UNCHANGED <<status, lease>>
       \/ /\ seen[w] = "pending" /\ status[task[w]] = "pending"
          /\ Mark(task[w], "ambiguous") /\ Go(w, "pause") /\ lease' = lease
       \/ /\ seen[w] = "pending" /\ status[task[w]] # "pending"
          /\ Exits(w) /\ UNCHANGED status
    /\ UNCHANGED <<fence, mine, task, seen, mode, progress, refused, outside, trouble>>

\* ...and every lane waits for the owner.
PauseForSafety(w) ==
    /\ At(w, "pause") /\ Valid(w)
    /\ mode' = "paused"
    /\ Go(w, "tick")
    /\ UNCHANGED <<leasing, task, seen, progress, status, refused, outside, trouble>>

-----------------------------------------------------------------------------
(* What goes wrong.                                                        *)

\* A write by a worker whose lease is gone is refused, and the worker starts over.
Fenced(w) ==
    /\ pc[w] \notin {"out", "look", "call", "asked"}
    /\ ~Valid(w)
    /\ Exits(w)
    /\ UNCHANGED <<fence, mine, task, seen, store, outside, trouble>>

\* A call of the store fails, or its answer is lost after it committed.
StoreFails(w) ==
    /\ pc[w] \notin {"out", "call", "asked"}
    /\ Trouble
    /\ Exits(w)
    /\ UNCHANGED <<fence, mine, task, seen, store, outside>>

\* The worker dies, or gives up a lease whose heartbeat failed: nothing is given back, and a call it made may
\* take effect yet.
Crash(w) ==
    /\ pc[w] # "out"
    /\ Trouble
    /\ Go(w, "out")
    /\ late' = IF At(w, "asked") THEN [late EXCEPT ![task[w]] = @ + 1] ELSE late
    /\ UNCHANGED <<leasing, task, seen, store, effects>>

-----------------------------------------------------------------------------
Tick(w) == TakeUnresolved(w) \/ TakeDue(w) \/ Resume(w)

PerformAction(w) ==
    \/ Begin(w) \/ Renew(w) \/ Call(w)
    \/ FinishOk(w) \/ FinishLost(w) \/ FinishRefused(w) \/ Doubt(w) \/ Bind(w)

ReconcileAction(w) == Look(w) \/ Reconcile(w) \/ Absent(w) \/ PauseForSafety(w)

Answered(w) == Answer(w) \/ TakenAsRefusal(w) \/ Lose(w)

Next ==
    \/ \E w \in Sites :
        \/ Claim(w) \/ Tick(w) \/ PerformAction(w) \/ ReconcileAction(w) \/ Answered(w)
        \/ Fenced(w) \/ StoreFails(w) \/ Crash(w)
    \/ \E x \in Requests : Land(x) \/ Vanish(x)
    \/ Expire

Spec == Init /\ [][Next]_vars

\* A worker that is up goes on, one that is down is started again, every call is answered or times out, and a
\* lease nobody renews runs out.  Nothing is assumed of late calls, of the owner or of failures.
Fairness ==
    /\ \A w \in Sites : WF_vars(Claim(w) \/ TakeUnresolved(w) \/ TakeDue(w) \/ PerformAction(w)
                                \/ ReconcileAction(w) \/ Answered(w) \/ Fenced(w))
    /\ WF_vars(Expire)

FairSpec == Spec /\ Fairness

-----------------------------------------------------------------------------
(* What must hold.                                                         *)

LeaseTypes ==
    /\ lease \in {"free", "live", "expired"} /\ fence \in Nat
    /\ mine \in [Sites -> Nat]
    /\ trouble \in Nat

WorkerTypes ==
    /\ pc \in [Sites -> {"out", "tick", "begin", "intent", "call", "asked", "ok", "lost", "refused", "bind",
                         "look", "found", "absent", "pause"}]
    /\ task \in [Sites -> Requests \cup {Nothing}]
    /\ seen \in [Sites -> {"none", "pending", "ambiguous"}]

StoreTypes ==
    /\ mode \in {"active", "paused"}
    /\ progress \in [Runs -> 0 .. Steps]
    /\ status \in [Requests -> {"none", "pending", "ambiguous", "succeeded", "failed", "reconciled"}]
    /\ refused \in [Requests -> Nat]

OutsideTypes == effects \in [Requests -> Nat] /\ late \in [Requests -> Nat]

\* Every variable keeps the shape its table, row or remote object has.
TypeOK == LeaseTypes /\ WorkerTypes /\ StoreTypes /\ OutsideTypes

\* README: a lost response is reconciled before it can be retried.  Through lost answers, retries, crashes, a
\* worker that wakes up behind its lease and another that took over, a mutation takes effect at most once.
TakesEffectOnce == \A x \in Requests : effects[x] <= 1

\* The ledger says done only of what took effect, and failed, which allows a retry, only of what never will.
LedgerIsTrue ==
    \A x \in Requests : /\ Done(x) => effects[x] > 0
                        /\ status[x] = "failed" => effects[x] = 0 /\ late[x] = 0

\* The table allows one unresolved action per run and stage; the workers never have two at all, so that an
\* uncertain effect of one run holds back every other.
OneUnresolved == \A x, y \in Requests : Unresolved(x) /\ Unresolved(y) => x = y

\* A call that is made, whoever makes it, is for an action that is still unresolved: none is resolved behind
\* the back of a worker that has still to call.
CallsAreIntended ==
    \A w \in Sites : pc[w] \in {"call", "asked"} => Unresolved(task[w])

\* The ledger is right about the past, and about what a worker is still going to do.
LedgerIsHonest == LedgerIsTrue /\ CallsAreIntended

\* Whatever was lost, an effect that happened is recorded in the end.
EffectsAreRecorded == \A x \in Requests : effects[x] > 0 ~> Done(x)

-----------------------------------------------------------------------------
Ledger == INSTANCE EffectLedger WITH recorded <- {x \in Requests : Done(x)}

\* Seen from outside, leases, failover, retries and reconciliation are invisible.
ImplementsEffectLedger == Ledger!Spec
=============================================================================
