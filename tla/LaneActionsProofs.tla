------------------------- MODULE LaneActionsProofs --------------------------
(***************************************************************************)
(* Theorems about LaneActions, for any sites, runs, steps and bounds, and  *)
(* about the lanes that run in one process: the delivery of their pull     *)
(* requests (LaneDelivery) and their dispatch (LaneDispatch), below.       *)
(*                                                                         *)
(* First what the lease gives by itself (Fencing): at most one worker is   *)
(* valid, and one that is about to write an intent saw a ledger with       *)
(* nothing unresolved, which nobody else can have changed since.  Then,    *)
(* where a service keeps to its contract, what that means for the effects  *)
(* (Effects): the worker between an intent and its end is alone with its   *)
(* request, and its call is the only one that ever was or will be.         *)
(***************************************************************************)
EXTENDS LaneActions, Sequences, FiniteSetTheorems, NaturalsInduction, TLAPS

\* Between an intent and its end.
Acting  == {"intent", "call", "asked", "ok", "lost", "refused"}
\* No effect, and none to come but by this worker's call.
Unspent == {"intent", "call", "asked", "refused"}
Looking == {"look", "found", "absent"}

HasTask == \A w \in Sites : pc[w] \notin {"out", "tick"} => task[w] \in Requests

FenceInv ==
    /\ \A w \in Sites : mine[w] <= fence
    /\ lease = "live" => fence > 0
    /\ \A v, w \in Sites : mine[v] = mine[w] /\ mine[v] > 0 => v = w

BeginInv == \A w \in Sites : At(w, "begin") /\ Valid(w) => \A x \in Requests : ~Unresolved(x)

LookInv == \A w \in Sites : pc[w] \in Looking => seen[w] \in {"pending", "ambiguous"}

\* Begin and the steps after it that find an unresolved request are the only ones that leave one behind.
Types   == TypeOK /\ HasTask
Fencing == FenceInv /\ BeginInv /\ LookInv /\ OneUnresolved

-----------------------------------------------------------------------------
(* Type correctness.                                                       *)

\* A fact about tuples that the steps on tasks use.
LEMMA TaskParts == ASSUME NEW x \in Requests
                   PROVE  x[1] \in Runs /\ x[2] \in 1 .. Steps
    BY DEF Requests

\* Progress is a step's number, whichever request is put in.
LEMMA NextIsRequest == ASSUME TypeOK, NEW r \in Runs, progress[r] < Steps
                       PROVE  <<r, progress[r] + 1>> \in Requests
    BY SizesAssumption DEF TypeOK, StoreTypes, Requests

\* The initial state has the types.
LEMMA InitTypes == Init => Types
    BY SizesAssumption DEF Init, Types, TypeOK, LeaseTypes, WorkerTypes, StoreTypes, OutsideTypes, HasTask

\* A step of a worker that takes no new task keeps the types.
LEMMA WorkerTypesKept ==
    ASSUME Types, NEW w \in Sites,
           \/ Claim(w) \/ Resume(w) \/ PerformAction(w) \/ ReconcileAction(w) \/ Answered(w)
           \/ Fenced(w) \/ StoreFails(w) \/ Crash(w)
    PROVE  Types'
<1> USE DEF Types, TypeOK, LeaseTypes, WorkerTypes, StoreTypes, OutsideTypes, HasTask
<1> USE DEF At, Go, Mark, Exits, Trouble, store, leasing, worker, outside
<1>1. CASE Claim(w)    BY <1>1 DEF Claim
<1>2. CASE Resume(w)   BY <1>2 DEF Resume
<1>3. CASE PerformAction(w)
    <2>1. CASE Begin(w)    BY <2>1, SizesAssumption DEF Begin
    <2>2. CASE Renew(w)    BY <2>2 DEF Renew
    <2>3. CASE Call(w)     BY <2>3 DEF Call
    <2>4. CASE FinishOk(w)      BY <2>4 DEF FinishOk, Finish
    <2>5. CASE FinishLost(w)    BY <2>5 DEF FinishLost, Finish
    <2>6. CASE FinishRefused(w) BY <2>6 DEF FinishRefused, Finish
    <2>7. CASE Doubt(w)    BY <2>7 DEF Doubt
    <2>8. CASE Bind(w)
        <3>1. task[w] \in Requests BY <2>8 DEF Bind
        <3>2. task[w][1] \in Runs /\ task[w][2] \in 0 .. Steps BY <3>1, TaskParts, SizesAssumption
        <3> QED BY <2>8, <3>2 DEF Bind
    <2> QED BY <1>3, <2>1, <2>2, <2>3, <2>4, <2>5, <2>6, <2>7, <2>8 DEF PerformAction
<1>4. CASE ReconcileAction(w)
    <2>1. CASE Look(w)      BY <2>1 DEF Look
    <2>2. CASE Reconcile(w) BY <2>2 DEF Reconcile
    <2>3. CASE Absent(w)    BY <2>3 DEF Absent
    <2>4. CASE PauseForSafety(w) BY <2>4 DEF PauseForSafety
    <2> QED BY <1>4, <2>1, <2>2, <2>3, <2>4 DEF ReconcileAction
<1>5. CASE Answered(w)
    <2>1. CASE Answer(w)  BY <2>1 DEF Answer, Happens
    <2>2. CASE Refuse(w)  BY <2>2 DEF Refuse
    <2>3. CASE Lose(w)    BY <2>3 DEF Lose
    <2>4. CASE Misread(w) BY <2>4 DEF Misread, Happens
    <2> QED BY <1>5, <2>1, <2>2, <2>3, <2>4 DEF Answered, TakenAsRefusal
<1>6. CASE Fenced(w)     BY <1>6 DEF Fenced
<1>7. CASE StoreFails(w) BY <1>7 DEF StoreFails
<1>8. CASE Crash(w)      BY <1>8 DEF Crash
<1> QED BY <1>1, <1>2, <1>3, <1>4, <1>5, <1>6, <1>7, <1>8

\* Every step keeps the types.
LEMMA NextTypes == Types /\ [Next]_vars => Types'
<1> SUFFICES ASSUME Types, [Next]_vars PROVE Types'
    OBVIOUS
<1>1. ASSUME NEW w \in Sites, Tick(w) PROVE Types'
    <2>1. CASE TakeUnresolved(w)
        BY <2>1 DEF TakeUnresolved, Types, TypeOK, LeaseTypes, WorkerTypes, StoreTypes, OutsideTypes, HasTask,
                    At, Go, Unresolved, store, leasing, outside
    <2>2. CASE TakeDue(w)
        <3>1. PICK r \in Runs : /\ progress[r] < Steps
                                /\ task' = [task EXCEPT ![w] = <<r, progress[r] + 1>>]
                                /\ seen' = [seen EXCEPT ![w] = "none"]
                                /\ Go(w, "begin") \/ Go(w, "bind")
                                /\ UNCHANGED <<leasing, store, outside, trouble>>
            BY <2>2 DEF TakeDue
        <3>2. <<r, progress[r] + 1>> \in Requests BY <3>1, NextIsRequest DEF Types
        <3> QED BY <3>1, <3>2 DEF Types, TypeOK, LeaseTypes, WorkerTypes, StoreTypes, OutsideTypes, HasTask,
                                  Go, store, leasing, outside
    <2>3. CASE Resume(w) BY <2>3, WorkerTypesKept
    <2> QED BY <1>1, <2>1, <2>2, <2>3 DEF Tick
<1>2. ASSUME NEW x \in Requests, Land(x) \/ Vanish(x) PROVE Types'
    BY <1>2 DEF Land, Vanish, Happens, Types, TypeOK, LeaseTypes, WorkerTypes, StoreTypes, OutsideTypes, HasTask,
                store, leasing, worker
<1>3. CASE Expire
    BY <1>3 DEF Expire, Trouble, Types, TypeOK, LeaseTypes, WorkerTypes, StoreTypes, OutsideTypes, HasTask,
                store, worker, outside
<1>4. CASE UNCHANGED vars
    BY <1>4 DEF vars, Types, TypeOK, LeaseTypes, WorkerTypes, StoreTypes, OutsideTypes, HasTask,
                store, leasing, worker, outside
<1> QED BY <1>1, <1>2, <1>3, <1>4, WorkerTypesKept DEF Next

\* Every variable of the lease, the workers, the ledger and the services keeps its type.
THEOREM TypeCorrect == Spec => []TypeOK
<1>1. Spec => []Types BY InitTypes, NextTypes, PTL DEF Spec
<1>2. Types => TypeOK BY DEF Types
<1> QED BY <1>1, <1>2, PTL

-----------------------------------------------------------------------------
(* What the lease gives.                                                   *)

\* No two workers are valid at once.
LEMMA OneValid == ASSUME FenceInv, TypeOK, NEW v \in Sites, NEW w \in Sites, Valid(v), Valid(w)
                  PROVE  v = w
    BY DEF FenceInv, Valid, TypeOK, LeaseTypes

\* Only a claim makes a worker valid, and it makes every other invalid.
LEMMA LeaseKept ==
    ASSUME UNCHANGED <<fence, mine>>, lease' = lease \/ lease' # "live"
    PROVE  /\ FenceInv => FenceInv'
           /\ \A w \in Sites : Valid(w)' => Valid(w)
    BY DEF FenceInv, Valid

\* A worker's step that writes nothing in the ledger and does not come to an intent.
Plain(w) ==
    /\ UNCHANGED <<fence, mine, status>>
    /\ lease' = lease \/ lease' # "live"
    /\ \A v \in Sites \ {w} : pc'[v] = pc[v] /\ seen'[v] = seen[v]
    /\ pc'[w] # "begin"
    /\ pc'[w] \in Looking => pc[w] \in Looking /\ seen'[w] = seen[w]

\* A worker's step that writes in the ledger.
Writes(w) ==
    /\ Valid(w)
    /\ UNCHANGED <<fence, mine, seen>>
    /\ lease' = lease \/ lease' # "live"
    /\ \A v \in Sites \ {w} : pc'[v] = pc[v]
    /\ pc'[w] \notin {"begin"} \cup Looking
    /\ \/ \A x \in Requests : Unresolved(x)' => Unresolved(x)
       \/ /\ At(w, "begin")
          /\ \A x \in Requests : Unresolved(x)' => Unresolved(x) \/ x = task[w]

LEMMA PlainFencing == ASSUME Types, Fencing, NEW w \in Sites, Plain(w) PROVE Fencing'
<1>1. FenceInv' /\ \A v \in Sites : Valid(v)' => Valid(v) BY LeaseKept DEF Fencing, Plain
<1>2. BeginInv'
    <2> SUFFICES ASSUME NEW v \in Sites, At(v, "begin")', Valid(v)', NEW x \in Requests PROVE ~Unresolved(x)'
        BY DEF BeginInv
    <2>1. v # w BY DEF Plain, At
    <2>2. At(v, "begin") /\ Valid(v) BY <1>1, <2>1 DEF Plain, At
    <2> QED BY <2>2 DEF Fencing, BeginInv, Unresolved, Plain
<1>3. LookInv' BY DEF Fencing, LookInv, Plain
<1>4. OneUnresolved' BY DEF Fencing, OneUnresolved, Unresolved, Plain
<1> QED BY <1>1, <1>2, <1>3, <1>4 DEF Fencing

LEMMA WritesFencing == ASSUME Types, Fencing, NEW w \in Sites, Writes(w) PROVE Fencing'
<1>1. FenceInv' /\ \A v \in Sites : Valid(v)' => Valid(v) BY LeaseKept DEF Fencing, Writes
<1>2. BeginInv'
    <2> SUFFICES ASSUME NEW v \in Sites, At(v, "begin")', Valid(v)' PROVE FALSE
        BY DEF BeginInv
    <2>1. v # w BY DEF Writes, At
    <2>2. Valid(v) /\ Valid(w) BY <1>1 DEF Writes
    <2> QED BY <2>1, <2>2, OneValid DEF Fencing, Types
<1>3. LookInv' BY DEF Fencing, LookInv, Writes
<1>4. OneUnresolved'
    <2> SUFFICES ASSUME NEW x \in Requests, NEW y \in Requests, Unresolved(x)', Unresolved(y)' PROVE x = y
        BY DEF OneUnresolved
    <2>1. CASE \A z \in Requests : Unresolved(z)' => Unresolved(z)
        BY <2>1 DEF Fencing, OneUnresolved
    <2>2. CASE At(w, "begin") /\ \A z \in Requests : Unresolved(z)' => Unresolved(z) \/ z = task[w]
        <3>1. \A z \in Requests : ~Unresolved(z) BY <2>2 DEF Writes, Fencing, BeginInv
        <3> QED BY <2>2, <3>1
    <2> QED BY <2>1, <2>2 DEF Writes
<1> QED BY <1>1, <1>2, <1>3, <1>4 DEF Fencing

\* The steps of a worker but for its claim and its reading of the snapshot are plain ones or writes.
LEMMA WorkerSteps ==
    ASSUME Types, NEW w \in Sites,
           \/ Resume(w) \/ PerformAction(w) \/ ReconcileAction(w) \/ Answered(w)
           \/ Fenced(w) \/ StoreFails(w) \/ Crash(w)
    PROVE  Plain(w) \/ Writes(w)
<1> USE DEF Types, TypeOK, LeaseTypes, WorkerTypes, StoreTypes, OutsideTypes, HasTask, Looking
<1> USE DEF At, Go, Mark, Exits, Trouble, store, leasing, worker, outside
<1>1. CASE Resume(w)     BY <1>1 DEF Resume, Plain
<1>2. CASE PerformAction(w)
    <2>1. CASE Begin(w)
        <3>1. Writes(w) BY <2>1 DEF Begin, Writes, Unresolved
        <3> QED BY <3>1
    <2>2. CASE Renew(w)    BY <2>2 DEF Renew, Plain
    <2>3. CASE Call(w)     BY <2>3 DEF Call, Plain
    <2>4. CASE FinishOk(w)
        <3>1. Writes(w) BY <2>4 DEF FinishOk, Finish, Writes, Unresolved
        <3> QED BY <3>1
    <2>5. CASE FinishLost(w)
        <3>1. Writes(w) BY <2>5 DEF FinishLost, Finish, Writes, Unresolved
        <3> QED BY <3>1
    <2>6. CASE FinishRefused(w)
        <3>1. Writes(w) BY <2>6 DEF FinishRefused, Finish, Writes, Unresolved
        <3> QED BY <3>1
    <2>7. CASE Doubt(w)    BY <2>7 DEF Doubt, Plain
    <2>8. CASE Bind(w)     BY <2>8 DEF Bind, Plain
    <2> QED BY <1>2, <2>1, <2>2, <2>3, <2>4, <2>5, <2>6, <2>7, <2>8 DEF PerformAction
<1>3. CASE ReconcileAction(w)
    <2>1. CASE Look(w)      BY <2>1 DEF Look, Plain
    <2>2. CASE Reconcile(w)
        <3>1. Writes(w) BY <2>2 DEF Reconcile, Writes, Unresolved
        <3> QED BY <3>1
    <2>3. CASE Absent(w)
        <3>1. Writes(w) BY <2>3 DEF Absent, Writes, Unresolved
        <3> QED BY <3>1
    <2>4. CASE PauseForSafety(w) BY <2>4 DEF PauseForSafety, Plain
    <2> QED BY <1>3, <2>1, <2>2, <2>3, <2>4 DEF ReconcileAction
<1>4. CASE Answered(w)
    BY <1>4 DEF Answered, TakenAsRefusal, Answer, Refuse, Lose, Misread, Happens, Plain
<1>5. CASE Fenced(w)     BY <1>5 DEF Fenced, Plain
<1>6. CASE StoreFails(w) BY <1>6 DEF StoreFails, Plain
<1>7. CASE Crash(w)      BY <1>7 DEF Crash, Plain
<1> QED BY <1>1, <1>2, <1>3, <1>4, <1>5, <1>6, <1>7

LEMMA InitFencing == Init => Fencing
    BY DEF Init, Fencing, FenceInv, BeginInv, LookInv, OneUnresolved, Unresolved, At, Looking

LEMMA ClaimFencing == ASSUME Types, Fencing, NEW w \in Sites, Claim(w) PROVE Fencing'
<1>1. FenceInv' BY DEF Claim, Types, TypeOK, LeaseTypes, Fencing, FenceInv
<1>2. \A v \in Sites : v # w => ~Valid(v)'
    BY DEF Claim, Valid, Types, TypeOK, LeaseTypes, Fencing, FenceInv
<1>3. pc'[w] = "tick" BY DEF Claim, Go, Types, TypeOK, WorkerTypes
<1>4. BeginInv' BY <1>2, <1>3 DEF BeginInv, At
<1>5. LookInv'
    BY <1>3 DEF Fencing, LookInv, Looking, Claim, Go, Types, TypeOK, WorkerTypes
<1>6. OneUnresolved' BY DEF Fencing, OneUnresolved, Unresolved, Claim, store
<1> QED BY <1>1, <1>4, <1>5, <1>6 DEF Fencing

\* A snapshot with nothing unresolved is one of the ledger as it is: the store has not changed since.
LEMMA TickFencing == ASSUME Types, Fencing, NEW w \in Sites, TakeUnresolved(w) \/ TakeDue(w) PROVE Fencing'
<1>1. UNCHANGED <<lease, fence, mine, status>> /\ \A v \in Sites : Valid(v)' = Valid(v)
    BY DEF TakeUnresolved, TakeDue, leasing, store, Valid
<1>2. \A x \in Requests : Unresolved(x)' = Unresolved(x) BY <1>1 DEF Unresolved
<1>3. FenceInv' /\ OneUnresolved' BY <1>1, <1>2 DEF Fencing, FenceInv, OneUnresolved
<1>4. BeginInv'
    <2>1. CASE TakeUnresolved(w)
        BY <1>1, <1>2, <2>1 DEF TakeUnresolved, Fencing, BeginInv, At, Go, Types, TypeOK, WorkerTypes
    <2>2. CASE TakeDue(w)
        <3>1. \A x \in Requests : ~Unresolved(x)' BY <1>2, <2>2 DEF TakeDue
        <3> QED BY <3>1 DEF BeginInv
    <2> QED BY <2>1, <2>2
<1>5. LookInv'
    <2>1. CASE TakeUnresolved(w)
        BY <2>1 DEF TakeUnresolved, Unresolved, Fencing, LookInv, Looking, At, Go, Types, TypeOK, WorkerTypes
    <2>2. CASE TakeDue(w)
        BY <2>2 DEF TakeDue, Fencing, LookInv, Looking, At, Go, Types, TypeOK, WorkerTypes
    <2> QED BY <2>1, <2>2
<1> QED BY <1>3, <1>4, <1>5 DEF Fencing

LEMMA NextFencing == Types /\ Fencing /\ [Next]_vars => Fencing'
<1> SUFFICES ASSUME Types, Fencing, [Next]_vars PROVE Fencing'
    OBVIOUS
<1>1. ASSUME NEW w \in Sites, Claim(w) PROVE Fencing'
    BY <1>1, ClaimFencing
<1>2. ASSUME NEW w \in Sites, Tick(w) PROVE Fencing'
    BY <1>2, TickFencing, WorkerSteps, PlainFencing, WritesFencing DEF Tick
<1>3. ASSUME NEW w \in Sites,
             PerformAction(w) \/ ReconcileAction(w) \/ Answered(w) \/ Fenced(w) \/ StoreFails(w) \/ Crash(w)
      PROVE  Fencing'
    BY <1>3, WorkerSteps, PlainFencing, WritesFencing
<1>4. CASE UNCHANGED vars \/ Expire \/ \E x \in Requests : Land(x) \/ Vanish(x)
    <2>1. UNCHANGED <<fence, mine, status, pc, seen>> /\ (lease' = lease \/ lease' # "live")
        BY <1>4 DEF vars, Expire, Land, Vanish, leasing, worker, store
    <2>2. FenceInv' /\ \A v \in Sites : Valid(v)' => Valid(v) BY <2>1, LeaseKept DEF Fencing
    <2>3. BeginInv' /\ LookInv' /\ OneUnresolved'
        BY <2>1, <2>2 DEF Fencing, BeginInv, LookInv, OneUnresolved, Unresolved, At
    <2> QED BY <2>2, <2>3 DEF Fencing
<1> QED BY <1>1, <1>2, <1>3, <1>4 DEF Next

\* The workers never have two unresolved actions at once, whatever the services answer, and however often the
\* lease changes hands.
THEOREM NeverTwoUnresolved == Spec => []OneUnresolved
<1>1. Init => Types /\ Fencing BY InitTypes, InitFencing
<1>2. Types /\ Fencing /\ [Next]_vars => (Types /\ Fencing)' BY NextTypes, NextFencing
<1>3. Types /\ Fencing => OneUnresolved BY DEF Fencing
<1> QED BY <1>1, <1>2, <1>3, PTL DEF Spec

-----------------------------------------------------------------------------
(* What that means for the effects.                                        *)

RequestRow(x) ==
    /\ effects[x] + late[x] <= 1
    /\ status[x] \in {"none", "failed"} => effects[x] = 0 /\ late[x] = 0
    /\ Done(x) => effects[x] > 0

WorkerRow(w) ==
    /\ pc[w] \in Acting  => status[task[w]] \in {"pending", "ambiguous", "reconciled"}
    /\ pc[w] \in Unspent => Unresolved(task[w]) /\ effects[task[w]] = 0 /\ late[task[w]] = 0
    /\ pc[w] \in {"ok", "found"} => effects[task[w]] > 0

Alone == \A v, w \in Sites : pc[v] \in Acting /\ pc[w] \in Acting /\ task[v] = task[w] => v = w

Effects == /\ \A x \in Requests : RequestRow(x)
           /\ \A w \in Sites : WorkerRow(w)
           /\ Alone

LEMMA InitEffects == Init => Effects
    BY DEF Init, Effects, RequestRow, WorkerRow, Alone, Done, Unresolved, Acting, Unspent

\* A worker's step that leaves the ledger and the services alone, and begins nothing.
LEMMA QuietEffects ==
    ASSUME Types, Effects, NEW w \in Sites,
           UNCHANGED <<status, effects, late>>,
           \A v \in Sites \ {w} : pc'[v] = pc[v] /\ task'[v] = task[v],
           pc'[w] \in Acting \cup {"found"} => task'[w] = task[w],
           pc'[w] \in Acting  => pc[w] \in Acting,
           pc'[w] \in Unspent => pc[w] \in Unspent,
           pc'[w] \in {"ok", "found"} => effects[task[w]] > 0
    PROVE  Effects'
<1>1. \A x \in Requests : RequestRow(x)' BY DEF Effects, RequestRow, Done
<1>2. ASSUME NEW v \in Sites PROVE WorkerRow(v)'
    <2>1. CASE v # w BY <2>1 DEF Effects, WorkerRow, Unresolved
    <2>2. CASE v = w BY <2>2 DEF Effects, WorkerRow, Unresolved, Acting, Unspent
    <2> QED BY <2>1, <2>2
<1>3. Alone' BY DEF Effects, Alone
<1> QED BY <1>1, <1>2, <1>3 DEF Effects

\* A worker's step that sets the status of its own request and ends its work on it.
LEMMA EndEffects ==
    ASSUME Types, Effects, NEW w \in Sites, NEW result,
           task[w] \in Requests,
           UNCHANGED <<task, effects, late>>,
           Mark(task[w], result),
           \A v \in Sites \ {w} : pc'[v] = pc[v],
           pc'[w] \notin Acting \cup {"found"},
           \/ result \in {"pending", "ambiguous"} /\ status[task[w]] = "pending"
           \/ result = "reconciled" /\ effects[task[w]] > 0
           \/ result = "succeeded" /\ pc[w] = "ok"
           \/ result = "failed" /\ pc[w] = "refused"
    PROVE  Effects'
<1> DEFINE x == task[w]
<1>1. /\ status'[x] = result
      /\ \A y \in Requests \ {x} : status'[y] = status[y]
    BY DEF Mark, Types, TypeOK, StoreTypes
<1>2. \A y \in Requests : RequestRow(y)'
    BY <1>1 DEF Effects, RequestRow, WorkerRow, Done, Unspent, Types, TypeOK, OutsideTypes
<1>3. ASSUME NEW v \in Sites PROVE WorkerRow(v)'
    <2>1. CASE v = w BY <2>1 DEF WorkerRow, Unspent, Acting
    <2>2. CASE v # w /\ task[v] # x
        <3>1. pc[v] \in Acting => task[v] \in Requests BY DEF Types, HasTask, Acting
        <3> QED BY <1>1, <2>2, <3>1 DEF Effects, WorkerRow, Unresolved, Unspent, Acting
    <2>3. CASE v # w /\ task[v] = x
        <3>1. pc[w] \in {"ok", "refused"} => pc[v] \notin Acting BY <2>3 DEF Effects, Alone, Acting
        <3> QED BY <1>1, <2>3, <3>1 DEF Effects, WorkerRow, Unresolved, Unspent, Acting
    <2> QED BY <2>1, <2>2, <2>3
<1>4. Alone' BY DEF Effects, Alone
<1> QED BY <1>2, <1>3, <1>4 DEF Effects

\* The one step that begins: nobody else acts on the request, and nothing of it has happened.
LEMMA BeginEffects == ASSUME Types, Fencing, Effects, NEW w \in Sites, Begin(w) PROVE Effects'
<1> DEFINE x == task[w]
<1>1. x \in Requests /\ ~Unresolved(x) BY DEF Begin, Types, HasTask, At, Fencing, BeginInv
<1>2. CASE Mark(x, "pending") /\ Go(w, "intent") /\ status[x] \in {"none", "failed"}
    <2>1. UNCHANGED <<task, effects, late>> BY DEF Begin, outside
    <2>2. /\ status'[x] = "pending"
          /\ \A y \in Requests \ {x} : status'[y] = status[y]
          /\ pc'[w] = "intent"
          /\ \A v \in Sites \ {w} : pc'[v] = pc[v]
        BY <1>1, <1>2 DEF Mark, Go, Types, TypeOK, StoreTypes, WorkerTypes
    <2>3. effects[x] = 0 /\ late[x] = 0 BY <1>1, <1>2 DEF Effects, RequestRow
    <2>4. \A v \in Sites : pc[v] \in Acting => task[v] # x BY <1>2 DEF Effects, WorkerRow
    <2>5. \A y \in Requests : RequestRow(y)' BY <2>1, <2>2, <2>3 DEF Effects, RequestRow, Done
    <2>6. ASSUME NEW v \in Sites PROVE WorkerRow(v)'
        <3>1. CASE v = w BY <2>1, <2>2, <2>3, <3>1 DEF WorkerRow, Unresolved
        <3>2. CASE v # w
            <4>1. pc[v] \in Acting => task[v] \in Requests \ {x} BY <2>4 DEF Types, HasTask, Acting
            <4> QED BY <2>1, <2>2, <3>2, <4>1 DEF Effects, WorkerRow, Unresolved, Acting, Unspent
        <3> QED BY <3>1, <3>2
    <2>7. Alone' BY <2>1, <2>2, <2>4 DEF Effects, Alone
    <2> QED BY <2>5, <2>6, <2>7 DEF Effects
<1>3. CASE ~(Mark(x, "pending") /\ Go(w, "intent") /\ status[x] \in {"none", "failed"})
    <2>1. status[x] # "pending" /\ status[x] # "ambiguous" BY <1>1 DEF Unresolved
    <2>2. UNCHANGED <<task, status, effects, late>> /\ (Go(w, "out") \/ Go(w, "bind"))
        BY <1>3, <2>1 DEF Begin, Exits, outside
    <2>3. /\ pc'[w] \in {"out", "bind"}
          /\ \A v \in Sites \ {w} : pc'[v] = pc[v]
        BY <2>2 DEF Go, Types, TypeOK, WorkerTypes
    <2> QED BY <2>2, <2>3, QuietEffects DEF Acting, Unspent
<1> QED BY <1>2, <1>3

\* What becomes of the one call there is.
LEMMA CallEffects ==
    ASSUME Types, Effects, NEW w \in Sites, At(w, "asked"),
           UNCHANGED <<status, task>>,
           \A v \in Sites \ {w} : pc'[v] = pc[v],
           \/ Happens(task[w]) /\ late' = late /\ pc'[w] = "ok"
           \/ late' = [late EXCEPT ![task[w]] = @ + 1] /\ effects' = effects /\ pc'[w] \in {"lost", "out"}
    PROVE  Effects'
<1> DEFINE x == task[w]
<1>1. x \in Requests /\ Unresolved(x) /\ effects[x] = 0 /\ late[x] = 0
    BY DEF At, Types, HasTask, Effects, WorkerRow, Unspent
<1>2. /\ effects'[x] + late'[x] = 1 /\ (pc'[w] = "ok" => effects'[x] = 1)
      /\ \A y \in Requests \ {x} : effects'[y] = effects[y] /\ late'[y] = late[y]
    BY <1>1 DEF Happens, Types, TypeOK, OutsideTypes
<1>3. \A y \in Requests : RequestRow(y)' BY <1>1, <1>2 DEF Effects, RequestRow, Done, Unresolved
<1>4. ASSUME NEW v \in Sites PROVE WorkerRow(v)'
    <2>1. CASE v = w BY <1>1, <1>2, <2>1 DEF WorkerRow, Unresolved, Acting, Unspent
    <2>2. CASE v # w /\ task[v] # x
        <3>1. pc[v] \in Acting \cup {"found"} => task[v] \in Requests BY DEF Types, HasTask, Acting
        <3> QED BY <1>2, <2>2, <3>1 DEF Effects, WorkerRow, Unresolved, Unspent, Acting
    <2>3. CASE v # w /\ task[v] = x
        <3>1. pc[v] \notin Acting BY <2>3 DEF Effects, Alone, At, Acting
        <3>2. pc[v] # "found" BY <1>1, <2>3 DEF Effects, WorkerRow
        <3> QED BY <2>3, <3>1, <3>2 DEF WorkerRow, Unspent, Acting
    <2> QED BY <2>1, <2>2, <2>3
<1>5. Alone' BY DEF Effects, Alone, At, Acting
<1> QED BY <1>3, <1>4, <1>5 DEF Effects

\* A late call takes effect, or never will.
LEMMA LateEffects == ASSUME Types, Effects, NEW x \in Requests, Land(x) \/ Vanish(x) PROVE Effects'
<1>1. /\ UNCHANGED <<pc, task, status>>
      /\ late[x] = 1 /\ effects[x] = 0
      /\ late'[x] = 0 /\ effects'[x] \in {0, 1}
      /\ \A y \in Requests \ {x} : effects'[y] = effects[y] /\ late'[y] = late[y]
    BY DEF Land, Vanish, Happens, worker, store, Types, TypeOK, OutsideTypes, Effects, RequestRow
<1>2. \A y \in Requests : RequestRow(y)' BY <1>1 DEF Effects, RequestRow, Done
<1>3. ASSUME NEW v \in Sites PROVE WorkerRow(v)'
    <2>1. pc[v] \in Acting \cup {"found"} => task[v] \in Requests BY DEF Types, HasTask, Acting
    <2> QED BY <1>1, <2>1 DEF Effects, WorkerRow, Unresolved, Unspent, Acting
<1>4. Alone' BY <1>1 DEF Effects, Alone
<1> QED BY <1>2, <1>3, <1>4 DEF Effects

\* What a step of worker w leaves of the others.
LEMMA OthersKept ==
    ASSUME Types, NEW w \in Sites, NEW where, Go(w, where)
    PROVE  pc'[w] = where /\ \A v \in Sites \ {w} : pc'[v] = pc[v]
    BY DEF Go, Types, TypeOK, WorkerTypes

LEMMA FinishEffects ==
    ASSUME Types, Effects, NEW w \in Sites, FinishOk(w) \/ FinishLost(w) \/ FinishRefused(w)
    PROVE  Effects'
<1>1. PICK result \in {"succeeded", "ambiguous", "failed"}, next \in {"bind", "tick"} :
          /\ Finish(w, result, next)
          /\ result = "succeeded" => pc[w] = "ok"
          /\ result = "failed" => pc[w] = "refused"
    BY DEF FinishOk, FinishLost, FinishRefused, At
<1>2. task[w] \in Requests BY DEF FinishOk, FinishLost, FinishRefused, At, Types, HasTask
<1>3. UNCHANGED <<task, effects, late>> BY <1>1 DEF Finish, outside
<1>4. CASE status[task[w]] = "pending"
    <2>1. Mark(task[w], result) /\ Go(w, next) BY <1>1, <1>4 DEF Finish
    <2>2. pc'[w] \in {"bind", "tick"} /\ \A v \in Sites \ {w} : pc'[v] = pc[v] BY <2>1, OthersKept
    <2> QED BY <1>1, <1>2, <1>3, <1>4, <2>1, <2>2, EndEffects DEF Acting
<1>5. CASE status[task[w]] # "pending"
    <2>1. Go(w, "out") /\ UNCHANGED status BY <1>1, <1>5 DEF Finish, Exits
    <2>2. pc'[w] = "out" /\ \A v \in Sites \ {w} : pc'[v] = pc[v] BY <2>1, OthersKept
    <2> QED BY <1>3, <2>1, <2>2, QuietEffects DEF Acting, Unspent
<1> QED BY <1>4, <1>5

LEMMA ReconcileEffects ==
    ASSUME Types, Fencing, Effects, NEW w \in Sites, ReconcileAction(w)
    PROVE  Effects'
<1>1. task[w] \in Requests
    BY DEF ReconcileAction, Look, Reconcile, Absent, PauseForSafety, At, Types, HasTask
<1>2. UNCHANGED <<task, effects, late>>
    BY DEF ReconcileAction, Look, Reconcile, Absent, PauseForSafety, outside
<1>3. CASE Look(w)
    <2>1. /\ \/ (Go(w, "found") /\ effects[task[w]] > 0)
             \/ Go(w, "absent")
             \/ Go(w, "tick")
          /\ UNCHANGED status
        BY <1>3 DEF Look, store
    <2>2. /\ pc'[w] \in {"found", "absent", "tick"} /\ (pc'[w] = "found" => effects[task[w]] > 0)
          /\ \A v \in Sites \ {w} : pc'[v] = pc[v]
        BY <2>1 DEF Go, Types, TypeOK, WorkerTypes
    <2> QED BY <1>2, <2>1, <2>2, QuietEffects DEF Acting, Unspent
<1>4. CASE Reconcile(w)
    <2>1. effects[task[w]] > 0 BY <1>4 DEF Reconcile, At, Effects, WorkerRow
    <2>2. CASE Mark(task[w], "reconciled") /\ Go(w, "tick")
        <3>1. pc'[w] = "tick" /\ \A v \in Sites \ {w} : pc'[v] = pc[v] BY <2>2, OthersKept
        <3> QED BY <1>1, <1>2, <2>1, <2>2, <3>1, EndEffects DEF Acting
    <2>3. CASE Go(w, "out") /\ UNCHANGED status
        <3>1. pc'[w] = "out" /\ \A v \in Sites \ {w} : pc'[v] = pc[v] BY <2>3, OthersKept
        <3> QED BY <1>2, <2>3, <3>1, QuietEffects DEF Acting, Unspent
    <2> QED BY <1>4, <2>2, <2>3 DEF Reconcile, Exits
<1>5. CASE Absent(w)
    <2>1. CASE Mark(task[w], "ambiguous") /\ Go(w, "pause") /\ status[task[w]] = "pending"
        <3>1. pc'[w] = "pause" /\ \A v \in Sites \ {w} : pc'[v] = pc[v] BY <2>1, OthersKept
        <3> QED BY <1>1, <1>2, <2>1, <3>1, EndEffects DEF Acting
    <2>2. CASE (Go(w, "pause") \/ Go(w, "out")) /\ UNCHANGED status
        <3>1. pc'[w] \in {"pause", "out"} /\ \A v \in Sites \ {w} : pc'[v] = pc[v] BY <2>2, OthersKept
        <3> QED BY <1>2, <2>2, <3>1, QuietEffects DEF Acting, Unspent
    <2> QED BY <1>5, <2>1, <2>2 DEF Absent, Exits
<1>6. CASE PauseForSafety(w)
    <2>1. Go(w, "tick") /\ UNCHANGED status BY <1>6 DEF PauseForSafety
    <2>2. pc'[w] = "tick" /\ \A v \in Sites \ {w} : pc'[v] = pc[v] BY <2>1, OthersKept
    <2> QED BY <1>2, <2>1, <2>2, QuietEffects DEF Acting, Unspent
<1> QED BY <1>3, <1>4, <1>5, <1>6 DEF ReconcileAction

\* The steps that touch neither the ledger's statuses nor the services.
LEMMA OtherEffects ==
    ASSUME Types, Effects, NEW w \in Sites,
           \/ Claim(w) \/ Tick(w) \/ Renew(w) \/ Call(w) \/ Doubt(w) \/ Bind(w) \/ Refuse(w)
           \/ Fenced(w) \/ StoreFails(w) \/ (Crash(w) /\ ~At(w, "asked"))
    PROVE  Effects'
<1>1. UNCHANGED <<status, effects, late>>
    BY DEF Claim, Tick, TakeUnresolved, TakeDue, Resume, Renew, Call, Doubt, Bind, Refuse, Fenced, StoreFails, Crash,
           store, outside
<1>2. CASE Tick(w)
    <2>1. \/ Go(w, "look") \/ Go(w, "begin") \/ Go(w, "bind")
          \/ UNCHANGED <<pc, task>>
        BY <1>2 DEF Tick, TakeUnresolved, TakeDue, Resume, worker
    <2>2. /\ pc'[w] \in {"look", "begin", "bind"} \/ UNCHANGED <<pc, task>>
          /\ \A v \in Sites \ {w} : pc'[v] = pc[v]
        BY <2>1 DEF Go, Types, TypeOK, WorkerTypes
    <2>3. \A v \in Sites \ {w} : task'[v] = task[v]
        BY <1>2 DEF Tick, TakeUnresolved, TakeDue, Resume, worker, Types, TypeOK, WorkerTypes
    <2>4. pc[w] = "tick" BY <1>2 DEF Tick, TakeUnresolved, TakeDue, Resume, At
    <2>5. pc'[w] \notin Acting \cup {"found"} BY <2>2, <2>4 DEF Acting
    <2> QED BY <1>1, <2>2, <2>3, <2>5, QuietEffects DEF Acting, Unspent
<1>3. CASE ~Tick(w)
    <2>1. PICK where : /\ Go(w, where)
                       /\ \/ where \in {"tick", "out"}
                          \/ where = "call" /\ pc[w] = "intent"
                          \/ where = "asked" /\ pc[w] = "call"
                          \/ where = "lost" /\ pc[w] = "ok"
                          \/ where = "refused" /\ pc[w] = "asked"
        BY <1>3 DEF Claim, Renew, Call, Doubt, Bind, Refuse, Fenced, StoreFails, Crash, Exits, At
    <2>2. task' = task
        BY <1>3 DEF Claim, Renew, Call, Doubt, Bind, Refuse, Fenced, StoreFails, Crash
    <2>3. pc'[w] = where /\ \A v \in Sites \ {w} : pc'[v] = pc[v] BY <2>1, OthersKept
    <2> QED BY <1>1, <2>1, <2>2, <2>3, QuietEffects DEF Acting, Unspent
<1> QED BY <1>2, <1>3

\* Each step keeps the rows, provided that what a service answers can be read.
LEMMA NextEffects ==
    ASSUME KeepsContract
    PROVE  Types /\ Fencing /\ Effects /\ [Next]_vars => Effects'
<1> SUFFICES ASSUME Types, Fencing, Effects, [Next]_vars PROVE Effects'
    OBVIOUS
<1>1. ASSUME NEW w \in Sites, PerformAction(w) PROVE Effects'
    BY <1>1, BeginEffects, FinishEffects, OtherEffects DEF PerformAction
<1>2. ASSUME NEW w \in Sites, Answered(w) PROVE Effects'
    <2>1. CASE Refuse(w) BY <2>1, OtherEffects
    <2>2. CASE Answer(w)
        <3>1. pc'[w] = "ok" /\ \A v \in Sites \ {w} : pc'[v] = pc[v] BY <2>2, OthersKept DEF Answer
        <3> QED BY <2>2, <3>1, CallEffects DEF Answer, store
    <2>3. CASE Lose(w)
        <3>1. pc'[w] = "lost" /\ \A v \in Sites \ {w} : pc'[v] = pc[v] BY <2>3, OthersKept DEF Lose
        <3> QED BY <2>3, <3>1, CallEffects DEF Lose, store
    <2> QED BY <1>2, <2>1, <2>2, <2>3, KeepsContract DEF Answered, TakenAsRefusal, Misread
<1>3. ASSUME NEW w \in Sites, Crash(w) PROVE Effects'
    <2>1. CASE At(w, "asked")
        <3>1. pc'[w] = "out" /\ \A v \in Sites \ {w} : pc'[v] = pc[v] BY <1>3, OthersKept DEF Crash
        <3> QED BY <1>3, <2>1, <3>1, CallEffects DEF Crash, store
    <2> QED BY <1>3, <2>1, OtherEffects
<1>4. CASE UNCHANGED vars \/ Expire
    <2>1. UNCHANGED <<pc, task, status, effects, late>>
        BY <1>4 DEF vars, Expire, worker, store, outside
    <2> QED BY <2>1 DEF Effects, RequestRow, WorkerRow, Alone, Done, Unresolved
<1> QED BY <1>1, <1>2, <1>3, <1>4, OtherEffects, ReconcileEffects, LateEffects DEF Next

IInv == Types /\ Fencing /\ Effects

LEMMA Inductive == ASSUME KeepsContract PROVE Spec => []IInv
<1>1. Init => IInv BY InitTypes, InitFencing, InitEffects DEF IInv
<1>2. IInv /\ [Next]_vars => IInv' BY NextTypes, NextFencing, NextEffects DEF IInv
<1> QED BY <1>1, <1>2, PTL DEF Spec

\* No mutation takes effect twice, however its answer was lost, its worker died or its lease passed on.
THEOREM EffectsHappenOnce == ASSUME KeepsContract PROVE Spec => []TakesEffectOnce
<1>1. IInv => TakesEffectOnce
    BY DEF IInv, Effects, RequestRow, TakesEffectOnce, Types, TypeOK, OutsideTypes
<1> QED BY <1>1, Inductive, PTL

\* The ledger's final statuses are true of the services.
THEOREM LedgerTellsTheTruth == ASSUME KeepsContract PROVE Spec => []LedgerIsTrue
<1>1. IInv => LedgerIsTrue BY DEF IInv, Effects, RequestRow, LedgerIsTrue
<1> QED BY <1>1, Inductive, PTL

\* No action is resolved while a worker has still to call for it.
THEOREM CallsAreForIntents == ASSUME KeepsContract PROVE Spec => []CallsAreIntended
<1>1. IInv => CallsAreIntended BY DEF IInv, Effects, WorkerRow, CallsAreIntended, Unspent
<1> QED BY <1>1, Inductive, PTL

\* The two together.
THEOREM LedgerStaysHonest == ASSUME KeepsContract PROVE Spec => []LedgerIsHonest
<1>1. LedgerIsTrue /\ CallsAreIntended => LedgerIsHonest BY DEF LedgerIsHonest
<1> QED BY <1>1, LedgerTellsTheTruth, CallsAreForIntents, PTL

-----------------------------------------------------------------------------
(* The abstract ledger.                                                    *)

Finished == {x \in Requests : Done(x)}

\* The rows of two states make every step a step of the abstract ledger, or none.
LEMMA StepImplements == IInv /\ IInv' /\ [Next]_vars => [Ledger!Next]_(Ledger!ledgerVars)
<1> SUFFICES ASSUME IInv, IInv', [Next]_vars PROVE [Ledger!Next]_(Ledger!ledgerVars)
    OBVIOUS
<1> USE DEF Ledger!ledgerVars
<1>1. CASE UNCHANGED <<status, effects>> BY <1>1 DEF Done
<1>2. CASE /\ UNCHANGED status
           /\ \E x \in Requests : Happens(x)
    <2>1. PICK x \in Requests : effects' = [effects EXCEPT ![x] = @ + 1] BY <1>2 DEF Happens
    <2>2. effects \in [Requests -> Nat] /\ late' \in [Requests -> Nat]
        BY DEF IInv, Types, TypeOK, OutsideTypes
    <2>3. effects'[x] + late'[x] <= 1 BY DEF IInv, Effects, RequestRow
    <2>4. effects[x] = 0 BY <2>1, <2>2, <2>3
    <2>5. effects' = [effects EXCEPT ![x] = 1] BY <2>1, <2>4
    <2>6. Ledger!Happen(x) BY <1>2, <2>4, <2>5 DEF Ledger!Happen, Done
    <2> QED BY <2>6 DEF Ledger!Next
<1>3. CASE /\ UNCHANGED effects
           /\ \E x \in Requests : /\ \A y \in Requests \ {x} : status'[y] = status[y]
                                  /\ ~Done(x)
    <2>1. PICK x \in Requests : ~Done(x) /\ \A y \in Requests \ {x} : status'[y] = status[y] BY <1>3
    <2>2. CASE Done(x)'
        <3>1. effects[x] = 1
            BY <1>3, <2>2 DEF IInv, Effects, RequestRow, Types, TypeOK, OutsideTypes
        <3>2. Finished' = Finished \cup {x} BY <2>1, <2>2 DEF Finished, Done
        <3>3. Ledger!Record(x) BY <1>3, <3>1, <3>2 DEF Ledger!Record, Finished
        <3> QED BY <3>3 DEF Ledger!Next
    <2>3. CASE ~Done(x)'
        <3>1. Finished' = Finished BY <2>1, <2>3 DEF Finished, Done
        <3> QED BY <1>3, <3>1 DEF Finished
    <2> QED BY <2>2, <2>3
<1>4. ASSUME NEW w \in Sites, PerformAction(w) \/ ReconcileAction(w)
      PROVE  UNCHANGED effects /\ (\/ UNCHANGED status
                                   \/ /\ \A y \in Requests \ {task[w]} : status'[y] = status[y]
                                      /\ ~Done(task[w]) /\ task[w] \in Requests)
    <2> USE DEF Mark, IInv, Types, TypeOK, StoreTypes, HasTask, At, outside, store
    <2>1. CASE Begin(w) BY <2>1 DEF Begin, Done
    <2>2. CASE FinishOk(w) \/ FinishLost(w) \/ FinishRefused(w)
        BY <2>2 DEF FinishOk, FinishLost, FinishRefused, Finish, Done
    <2>3. CASE Renew(w) \/ Call(w) \/ Doubt(w) \/ Bind(w) BY <2>3 DEF Renew, Call, Doubt, Bind
    <2>4. CASE Look(w) \/ PauseForSafety(w) BY <2>4 DEF Look, PauseForSafety
    <2>5. CASE Reconcile(w) BY <2>5 DEF Reconcile, Done, Fencing, LookInv, Looking
    <2>6. CASE Absent(w) BY <2>6 DEF Absent, Done
    <2> QED BY <1>4, <2>1, <2>2, <2>3, <2>4, <2>5, <2>6 DEF PerformAction, ReconcileAction
<1>5. ASSUME NEW w \in Sites, PerformAction(w) \/ ReconcileAction(w) PROVE [Ledger!Next]_(Ledger!ledgerVars)
    BY <1>1, <1>3, <1>4, <1>5
<1>6. ASSUME NEW w \in Sites, Answered(w) PROVE [Ledger!Next]_(Ledger!ledgerVars)
    <2>1. task[w] \in Requests
        BY <1>6 DEF Answered, TakenAsRefusal, Answer, Refuse, Lose, Misread, At, IInv, Types, HasTask
    <2>2. CASE Answer(w) \/ Misread(w) BY <1>2, <2>1, <2>2 DEF Answer, Misread, store
    <2>3. CASE Refuse(w) \/ Lose(w) BY <1>1, <2>3 DEF Refuse, Lose, store, outside
    <2> QED BY <1>6, <2>2, <2>3 DEF Answered, TakenAsRefusal
<1>7. ASSUME NEW w \in Sites, Claim(w) \/ Tick(w) \/ Fenced(w) \/ StoreFails(w) \/ Crash(w)
      PROVE  [Ledger!Next]_(Ledger!ledgerVars)
    BY <1>1, <1>7 DEF Claim, Tick, TakeUnresolved, TakeDue, Resume, Fenced, StoreFails, Crash, store, outside
<1>8. CASE UNCHANGED vars \/ Expire \/ \E x \in Requests : Land(x) \/ Vanish(x)
    BY <1>1, <1>2, <1>8 DEF vars, Expire, Land, Vanish, store, outside
<1> QED BY <1>5, <1>6, <1>7, <1>8 DEF Next

\* The lanes workers implement the abstract ledger: seen from outside, every mutation happens at most once and
\* is recorded after it happened.
THEOREM LanesImplementLedger == ASSUME KeepsContract PROVE Spec => ImplementsEffectLedger
<1>1. Init => Ledger!Init BY DEF Init, Ledger!Init, Done
<1>2. Spec => []IInv BY Inductive
<1> QED BY <1>1, <1>2, StepImplements, PTL DEF Spec, Ledger!Spec, ImplementsEffectLedger
-----------------------------------------------------------------------------
(***************************************************************************)
(* The delivery.  A head is merged after two final reviews approved it:    *)
(* what is inductive is that the finals of a round are sessions of their   *)
(* own, in workspaces named for providers that differ from the author's    *)
(* and from each other, and that each approval in the state was posted on  *)
(* the head of the state.  The rest is what the tick has in hand between   *)
(* its calls: the index of workspaces, the run it opens and the message to *)
(* the author.                                                             *)
(***************************************************************************)
CONSTANTS
    Rotation,     \* the providers of a stage, in order
    Author,       \* the author's provider
    HasReview,    \* the lane's delivery has a review stage
    MaxPushes,    \* heads that exist
    MaxChanges,   \* reviews that ask for changes
    MaxSessions,  \* sessions commissioned by the pipeline
    MaxOutages    \* failed calls, deaths, agents idle too early, outages, conflicts

VARIABLES state, spaces, desk, posts, author, host, out, tick, spent

Lane == INSTANCE LaneDelivery WITH MaxTrouble <- MaxOutages, count <- spent

Provs == {Rotation[i] : i \in 1..Len(Rotation)} \cup {"none"}
Ids == {"review", "final", "validation"} \X Nat \X Nat
DeliveryStages == {"review", "review_fixes", "finals", "final_fixes", "merge", "validation", "complete",
                   "validation_failed"}
RunVerdicts == {"none", "approve", "changes", "passed", "failed"}
PipelineRun == [prov : Provs, nonce : Nat, head : Nat, verdict : RunVerdicts]
DeliverySession == [space : Ids, prov : Provs, nonce : Nat, head : Nat, st : {"working", "idle"},
         says : {"none", "passed", "failed"}]
PullReview == [nonce : Nat, head : Nat, on : Nat, stage : {"review", "final", "validation"}, prov : Provs,
               verdict : {"approve", "changes"}]

DeliveryState == [stage : DeliveryStages, round : Nat, head : Nat, review : PipelineRun,
                  finals : Seq(PipelineRun),
                  proof : PipelineRun, feedback : {"none", "saved", "sent"}, merged : Nat]
DeliveryTick == [pc : {"idle", "check", "advance", "prompt", "save", "tell", "told", "hygiene"},
                 live : SUBSET Lane!Tokens, gone : SUBSET Lane!Tokens, prov : Provs, id : Ids \cup {"none"}]
PullRequest == [state : {"open", "merged"}, head : Nat, conflict : BOOLEAN, green : BOOLEAN]

PipelineShape ==
    /\ state \in DeliveryState
    /\ spaces \in [Lane!Tokens -> [st : {"none", "live", "archived"}, prov : Provs]]
    /\ desk \subseteq DeliverySession /\ posts \subseteq PullReview
    /\ tick \in DeliveryTick /\ host \in PullRequest
    /\ spent \in [{"pushes", "changes", "sessions", "trouble"} -> Nat]

\* Every session has a number of its own.
Numbered == /\ \A d \in desk : d.nonce <= spent.sessions
            /\ \A d, e \in desk : d.nonce = e.nonce => d = e

Commissioned(n, p, stage) == \E d \in desk : d.nonce = n /\ d.prov = p /\ d.space[1] = stage

\* Reviews come from sessions, and the runs that are waited for are sessions.
KnownRuns ==
    /\ \A p \in posts : Commissioned(p.nonce, p.prov, p.stage)
    /\ \A i \in DOMAIN state.finals : Commissioned(Lane!Final(i).nonce, Lane!Final(i).prov, "final")
    /\ state.review # Lane!NoRun => Commissioned(state.review.nonce, state.review.prov, "review")
    /\ state.proof # Lane!NoRun => Commissioned(state.proof.nonce, state.proof.prov, "validation")

\* What the stage says of the rest.
Staged ==
    /\ Len(state.finals) <= 2
    /\ state.stage \in {"review", "review_fixes"} => state.finals = <<>>
    /\ state.stage \in {"final_fixes", "merge"} => state.finals # <<>>
    /\ state.feedback = "sent" => state.stage \in {"review_fixes", "final_fixes"}
    /\ state.merged # 0 <=> state.stage \in {"validation", "complete", "validation_failed"}
    /\ state.merged = 0 => state.proof = Lane!NoRun

\* There are not more rounds than heads and sessions.
Rounds ==
    /\ 1 <= state.head /\ state.head <= host.head /\ host.head <= spent.pushes /\ spent.pushes >= 1
    /\ spent.pushes = 1 \/ spent.pushes <= MaxPushes
    /\ spent.sessions <= MaxSessions
    /\ 1 <= state.round /\ state.round <= state.head + spent.sessions
    /\ state.finals # <<>> => state.round < state.head + spent.sessions

\* The tick's index of workspaces is true until the tick is over.
Indexed == tick.pc # "idle" => \A t \in Lane!Tokens : /\ spaces[t].st = "archived" <=> t \in tick.gone
                                                      /\ t \in tick.live => spaces[t].st = "live"

Fit(p) == p # Author /\ \A i \in DOMAIN state.finals : Lane!Final(i).prov # p

Opening == tick.pc \in {"prompt", "save"} =>
    /\ tick.id \in Lane!Lacking
    /\ tick.pc = "prompt" => spent.sessions < MaxSessions
    /\ tick.id \in Lane!Tokens => spaces[tick.id].st = "live"
    /\ state.stage = "finals" => Fit(tick.prov)
Saving == tick.pc = "save" =>
    /\ \E d \in desk : d.nonce = spent.sessions /\ d.prov = tick.prov /\ d.space = tick.id
    /\ state.round < state.head + spent.sessions
Telling == tick.pc \in {"tell", "told"} =>
    /\ state.feedback = "saved" /\ state.stage \in {"review", "finals", "merge"}
    /\ state.finals # <<>> \/ state.stage = "review"

\* The workspaces of the finals of this round, named for providers that fit.
Slotted == \A t \in Lane!Tokens : t[1] = "final" =>
    /\ t[2] > state.round => spaces[t].st = "none"
    /\ t[2] = state.round /\ t[3] > Len(state.finals) + 1 => spaces[t].st = "none"
    /\ t[2] = state.round /\ spaces[t].st # "none" =>
          /\ spaces[t].prov # Author
          /\ \A i \in DOMAIN state.finals : i < t[3] => Lane!Final(i).prov # spaces[t].prov

Approvers(h) == {p.prov : p \in {q \in posts : q.stage = "final" /\ q.on = h /\ q.verdict = "approve"}}

\* The finals of a head are of two providers, and their approvals were posted.
Earned ==
    /\ \A i \in DOMAIN state.finals : /\ Lane!Final(i).prov # Author
                                      /\ \A j \in DOMAIN state.finals : i # j => Lane!Final(i).prov # Lane!Final(j).prov
                                      /\ Lane!Final(i).verdict = "approve" => Lane!Final(i).prov \in Approvers(state.head)

MergeEarned == state.merged # 0 => \E p, q \in Approvers(state.merged) \ {Author} : p # q

DeliveryInv == /\ PipelineShape /\ Numbered /\ KnownRuns /\ Staged /\ Rounds /\ Indexed /\ Opening /\ Saving
               /\ Telling /\ Slotted /\ Earned /\ Lane!AwaitedStays /\ MergeEarned

-----------------------------------------------------------------------------
LEMMA NothingYet == Lane!NoRun \in PipelineRun /\ Lane!NoRun.verdict = "none" /\ "none" \in Provs
BY DEF Lane!NoRun, PipelineRun, Provs, RunVerdicts

LEMMA BoundsAre == ASSUME Lane!DeliveryBounds PROVE MaxPushes \in Nat /\ MaxSessions \in Nat
BY DEF Lane!DeliveryBounds

LEMMA LackingIs ==
  ASSUME NEW t \in Lane!Lacking
  PROVE  \/ state.stage = "review" /\ state.review = Lane!NoRun /\ t = <<"review", 0, 0>>
         \/ /\ state.stage = "finals" /\ Len(state.finals) < 2
            /\ \A i \in DOMAIN state.finals : Lane!Final(i).verdict = "approve"
            /\ t = <<"final", state.round, Len(state.finals) + 1>>
         \/ state.stage = "validation" /\ state.proof = Lane!NoRun /\ t = <<"validation", 0, 0>>
BY DEF Lane!Lacking

LEMMA PendingIs ==
  ASSUME NEW r \in Lane!Pending
  PROVE  \/ state.stage = "review" /\ r = state.review /\ r # Lane!NoRun
         \/ state.stage = "finals" /\ r.verdict = "none" /\ \E i \in DOMAIN state.finals : r = Lane!Final(i)
         \/ state.stage = "validation" /\ r = state.proof /\ r # Lane!NoRun
BY DEF Lane!Pending

LEMMA GotoMoves ==
  ASSUME tick \in DeliveryTick,
         NEW to \in {"idle", "check", "advance", "prompt", "save", "tell", "told", "hygiene"},
         tick' = [tick EXCEPT !.pc = to]
  PROVE  tick' \in DeliveryTick /\ tick'.pc = to /\ tick'.live = tick.live /\ tick'.gone = tick.gone
         /\ tick'.prov = tick.prov /\ tick'.id = tick.id
BY DEF DeliveryTick

LEMMA IdleTick == Lane!Idle \in DeliveryTick /\ Lane!Idle.pc = "idle"
BY NothingYet DEF Lane!Idle, DeliveryTick

\* A tick that neither opens, saves nor tells has little to remember.
LEMMA CalmTick ==
  ASSUME Indexed, UNCHANGED spaces, tick'.pc \notin {"prompt", "save", "tell", "told"},
         tick'.pc = "idle" \/ (tick.pc # "idle" /\ tick'.live = tick.live /\ tick'.gone = tick.gone)
  PROVE  Indexed' /\ Opening' /\ Saving' /\ Telling'
BY DEF Indexed, Opening, Saving, Telling

-----------------------------------------------------------------------------
(* The world goes on beside the tick. *)

SameSessions == \A d \in desk : \E e \in desk' : e.nonce = d.nonce /\ e.prov = d.prov /\ e.space = d.space

LEMMA StaysCommissioned ==
  ASSUME SameSessions, NEW n, NEW p, NEW s, Commissioned(n, p, s)
  PROVE  Commissioned(n, p, s)'
BY DEF SameSessions, Commissioned

\* The delivery and its workspaces are left alone.
LEMMA WorldMoves ==
  ASSUME DeliveryInv, UNCHANGED <<state, spaces>>, PipelineShape', Numbered', SameSessions,
         posts \subseteq posts', \A p \in posts' : p \in posts \/ Commissioned(p.nonce, p.prov, p.stage)',
         spent'.sessions = spent.sessions, spent.pushes <= spent'.pushes,
         spent'.pushes = spent.pushes \/ spent'.pushes <= MaxPushes,
         host.head <= host'.head, host'.head <= spent'.pushes,
         Indexed' /\ Opening' /\ Saving' /\ Telling'
  PROVE  DeliveryInv'
<1>1. KnownRuns'
  <2>1. \A p \in posts' : Commissioned(p.nonce, p.prov, p.stage)'
    BY StaysCommissioned DEF DeliveryInv, KnownRuns
  <2>2. \A i \in DOMAIN state.finals : Commissioned(Lane!Final(i).nonce, Lane!Final(i).prov, "final")'
    BY StaysCommissioned DEF DeliveryInv, KnownRuns, Lane!Final
  <2>3. /\ state.review # Lane!NoRun => Commissioned(state.review.nonce, state.review.prov, "review")'
        /\ state.proof # Lane!NoRun => Commissioned(state.proof.nonce, state.proof.prov, "validation")'
    BY StaysCommissioned DEF DeliveryInv, KnownRuns
  <2> QED
    BY <2>1, <2>2, <2>3 DEF KnownRuns, Lane!Final
<1>2. Staged' /\ Slotted' /\ Lane!AwaitedStays'
  BY DEF DeliveryInv, Staged, Slotted, Lane!AwaitedStays, Lane!Final, Lane!Pending
<1>3. Rounds'
  <2>1. /\ spent.pushes \in Nat /\ spent'.pushes \in Nat /\ spent.sessions \in Nat
        /\ host.head \in Nat /\ host'.head \in Nat /\ state.head \in Nat /\ state.round \in Nat
    BY DEF DeliveryInv, PipelineShape, PullRequest, DeliveryState
  <2> QED
    BY <2>1 DEF DeliveryInv, Rounds
<1>4. \A h : Approvers(h) \subseteq Approvers(h)'
  BY DEF Approvers
<1>5. Earned' /\ MergeEarned'
  BY <1>4 DEF DeliveryInv, Earned, MergeEarned, Lane!Final
<1> QED
  BY <1>1, <1>2, <1>3, <1>5 DEF DeliveryInv

\* Where the tick is untouched, what it remembers stays true of the same sessions.
LEMMA TickWaits ==
  ASSUME DeliveryInv, UNCHANGED <<state, spaces, tick>>, SameSessions, spent'.sessions = spent.sessions
  PROVE  Indexed' /\ Opening' /\ Saving' /\ Telling'
<1>1. Indexed' /\ Telling' /\ Opening'
  BY DEF DeliveryInv, Indexed, Telling, Opening, Lane!Lacking, Fit, Lane!Final
<1>2. Saving'
  <2> SUFFICES ASSUME tick.pc = "save"
               PROVE \E e \in desk' : e.nonce = spent.sessions /\ e.prov = tick.prov /\ e.space = tick.id
    BY DEF Saving, DeliveryInv
  <2>1. PICK d \in desk : d.nonce = spent.sessions /\ d.prov = tick.prov /\ d.space = tick.id
    BY DEF DeliveryInv, Saving
  <2> QED
    BY <2>1 DEF SameSessions
<1> QED
  BY <1>1, <1>2

\* A session answers, stops or goes on.
LEMMA DeskMoves ==
  ASSUME PipelineShape, Numbered, NEW d \in desk, NEW e \in DeliverySession,
         e.nonce = d.nonce, e.prov = d.prov, e.space = d.space,
         desk' = (desk \ {d}) \cup {e}, spent'.sessions = spent.sessions
  PROVE  desk' \subseteq DeliverySession /\ Numbered' /\ SameSessions
<1>1. desk' \subseteq DeliverySession
  BY DEF PipelineShape
<1>2. \A x \in desk' : x = e \/ (x \in desk /\ x # d)
  OBVIOUS
<1>3. Numbered'
  BY <1>2 DEF Numbered
<1>4. SameSessions
  BY DEF SameSessions
<1> QED
  BY <1>1, <1>3, <1>4

\* Nothing but the counters, GitHub's side and who is out changes.
LEMMA OutsideMoves ==
  ASSUME DeliveryInv, UNCHANGED <<state, spaces, desk, posts, tick>>, host' \in PullRequest,
         spent' \in [{"pushes", "changes", "sessions", "trouble"} -> Nat],
         spent'.sessions = spent.sessions, spent.pushes <= spent'.pushes,
         spent'.pushes = spent.pushes \/ spent'.pushes <= MaxPushes,
         host.head <= host'.head, host'.head <= spent'.pushes
  PROVE  DeliveryInv'
<1>1. PipelineShape' /\ Numbered' /\ SameSessions
  BY DEF DeliveryInv, PipelineShape, Numbered, SameSessions
<1>2. Indexed' /\ Opening' /\ Saving' /\ Telling'
  BY <1>1, TickWaits
<1> QED
  BY <1>1, <1>2, WorldMoves

LEMMA CountersAre ==
  ASSUME PipelineShape
  PROVE  /\ spent.pushes \in Nat /\ spent.sessions \in Nat /\ spent.changes \in Nat /\ spent.trouble \in Nat
         /\ host.head \in Nat /\ state.head \in Nat /\ state.round \in Nat /\ state.merged \in Nat
BY DEF PipelineShape, PullRequest, DeliveryState

LEMMA RoundFits ==
  ASSUME Lane!DeliveryBounds, PipelineShape, Rounds, state.round < state.head + spent.sessions
  PROVE  state.round \in 1..(MaxPushes + MaxSessions)
BY BoundsAre, CountersAre DEF Rounds

LEMMA TroubleCounts ==
  ASSUME PipelineShape, Lane!Trouble
  PROVE  /\ spent' \in [{"pushes", "changes", "sessions", "trouble"} -> Nat]
         /\ spent'.sessions = spent.sessions /\ spent'.pushes = spent.pushes
BY DEF PipelineShape, Lane!Trouble

LEMMA GithubStep ==
  ASSUME Lane!DeliveryBounds, DeliveryInv,
         Lane!Pushes \/ Lane!AuthorEnds \/ Lane!OwnerMerges \/ Lane!Conflicts \/ Lane!MergedCiPasses \/ Lane!Outage \/ Lane!OutageEnds
  PROVE  DeliveryInv'
<1>0. PipelineShape /\ host.head <= spent.pushes
  BY DEF DeliveryInv, Rounds
<1>1. UNCHANGED <<state, spaces, desk, posts, tick>>
  BY DEF Lane!Pushes, Lane!AuthorEnds, Lane!OwnerMerges, Lane!Conflicts, Lane!MergedCiPasses, Lane!Outage,
         Lane!OutageEnds
<1>2. CASE Lane!Pushes
  <2>1. /\ host' \in PullRequest /\ host'.head = spent.pushes + 1
    <3> DEFINE h == [host EXCEPT !.head = spent.pushes + 1]
    <3>1. h \in PullRequest /\ h.head = spent.pushes + 1
      BY <1>0, CountersAre DEF PipelineShape, PullRequest
    <3>2. host' = [h EXCEPT !.conflict = FALSE]
      BY <1>2 DEF Lane!Pushes
    <3> HIDE DEF h
    <3> QED
      BY <3>1, <3>2 DEF PullRequest
  <2>2. /\ spent' \in [{"pushes", "changes", "sessions", "trouble"} -> Nat]
        /\ spent'.sessions = spent.sessions /\ spent'.pushes = spent.pushes + 1
        /\ spent.pushes + 1 <= MaxPushes
    BY <1>0, <1>2, CountersAre, BoundsAre DEF Lane!Pushes, PipelineShape
  <2> QED
    BY <1>0, <1>1, <2>1, <2>2, CountersAre, OutsideMoves
<1>3. CASE Lane!Conflicts \/ Lane!Outage
  <2>1. host' \in PullRequest /\ host'.head = host.head
    BY <1>0, <1>3 DEF Lane!Conflicts, Lane!Outage, PipelineShape, PullRequest
  <2>2. Lane!Trouble
    BY <1>3 DEF Lane!Conflicts, Lane!Outage
  <2> QED
    BY <1>0, <1>1, <2>1, <2>2, TroubleCounts, CountersAre, OutsideMoves
<1>4. CASE Lane!AuthorEnds \/ Lane!OwnerMerges \/ Lane!MergedCiPasses \/ Lane!OutageEnds
  <2>1. host' \in PullRequest /\ host'.head = host.head /\ spent' = spent
    BY <1>0, <1>4 DEF Lane!AuthorEnds, Lane!OwnerMerges, Lane!MergedCiPasses, Lane!OutageEnds,
        PipelineShape, PullRequest
  <2> QED
    BY <1>0, <1>1, <2>1, CountersAre, OutsideMoves DEF PipelineShape
<1> QED
  BY <1>2, <1>3, <1>4

LEMMA ReviewersStep ==
  ASSUME DeliveryInv, Lane!ReviewerPosts \/ Lane!ValidatorReports \/ Lane!AgentStops
  PROVE  DeliveryInv'
<1>0. PipelineShape /\ Numbered /\ host.head <= spent.pushes
  BY DEF DeliveryInv, Rounds
<1>1. UNCHANGED <<state, spaces, host, tick>>
  BY DEF Lane!ReviewerPosts, Lane!ValidatorReports, Lane!AgentStops
<1>2. /\ spent' \in [{"pushes", "changes", "sessions", "trouble"} -> Nat]
      /\ spent'.sessions = spent.sessions /\ spent'.pushes = spent.pushes
  <2>1. CASE Lane!AgentStops
    BY <1>0, <2>1, TroubleCounts DEF Lane!AgentStops
  <2>2. CASE Lane!ValidatorReports
    BY <1>0, <2>2 DEF Lane!ValidatorReports, PipelineShape
  <2>3. CASE Lane!ReviewerPosts
    BY <1>0, <2>3 DEF Lane!ReviewerPosts, PipelineShape
  <2> QED
    BY <2>1, <2>2, <2>3
<1>3. ASSUME NEW d \in desk, NEW e \in DeliverySession, e.nonce = d.nonce, e.prov = d.prov,
             e.space = d.space,
             desk' = (desk \ {d}) \cup {e}, posts \subseteq posts', posts' \subseteq PullReview,
             \A p \in posts' : p \in posts \/ (p.nonce = d.nonce /\ p.prov = d.prov /\ p.stage = d.space[1])
      PROVE  DeliveryInv'
  <2>1. desk' \subseteq DeliverySession /\ Numbered' /\ SameSessions
    BY <1>0, <1>2, <1>3, DeskMoves
  <2>2. Commissioned(d.nonce, d.prov, d.space[1])'
    BY <2>1, StaysCommissioned DEF Commissioned
  <2>3. \A p \in posts' : p \in posts \/ Commissioned(p.nonce, p.prov, p.stage)'
    BY <1>3, <2>2
  <2>4. PipelineShape'
    BY <1>0, <1>1, <1>2, <1>3, <2>1 DEF PipelineShape
  <2> QED
    BY <1>0, <1>1, <1>2, <1>3, <2>1, <2>3, <2>4, CountersAre, TickWaits, WorldMoves
<1>4. CASE Lane!ReviewerPosts
  <2>1. PICK d \in desk, v \in {"approve", "changes"} :
          /\ d.space[1] # "validation"
          /\ posts' = posts \cup {[nonce |-> d.nonce, head |-> d.head, on |-> host.head,
                                   stage |-> d.space[1], prov |-> d.prov, verdict |-> v]}
          /\ desk' = (desk \ {d}) \cup {[d EXCEPT !.st = "idle"]}
    BY <1>4 DEF Lane!ReviewerPosts
  <2> DEFINE e == [d EXCEPT !.st = "idle"]
             p == [nonce |-> d.nonce, head |-> d.head, on |-> host.head, stage |-> d.space[1],
                   prov |-> d.prov, verdict |-> v]
  <2>2. d \in DeliverySession /\ d.space[1] \in {"review", "final", "validation"} /\ host.head \in Nat
    BY <1>0 DEF PipelineShape, DeliverySession, Ids, PullRequest
  <2>3. e \in DeliverySession /\ e.nonce = d.nonce /\ e.prov = d.prov /\ e.space = d.space
    BY <2>2 DEF DeliverySession
  <2>4. p \in PullReview /\ p.nonce = d.nonce /\ p.prov = d.prov /\ p.stage = d.space[1]
    BY <2>2 DEF PullReview, DeliverySession
  <2>5. desk' = (desk \ {d}) \cup {e} /\ posts' = posts \cup {p}
    BY <2>1
  <2> HIDE DEF e, p
  <2> QED
    BY <1>0, <1>3, <2>3, <2>4, <2>5 DEF PipelineShape
<1>5. CASE Lane!ValidatorReports
  <2>1. PICK d \in desk, v \in {"passed", "failed"} :
          desk' = (desk \ {d}) \cup {[d EXCEPT !.st = "idle", !.says = v]}
    BY <1>5 DEF Lane!ValidatorReports
  <2> DEFINE a == [d EXCEPT !.st = "idle"]
             e == [a EXCEPT !.says = v]
  <2>2. a \in DeliverySession /\ a.nonce = d.nonce /\ a.prov = d.prov /\ a.space = d.space
    BY <1>0 DEF PipelineShape, DeliverySession
  <2>3. desk' = (desk \ {d}) \cup {e}
    BY <2>1
  <2> HIDE DEF a
  <2>4. e \in DeliverySession /\ e.nonce = d.nonce /\ e.prov = d.prov /\ e.space = d.space
    BY <2>2 DEF DeliverySession
  <2> HIDE DEF e
  <2> QED
    BY <1>0, <1>3, <1>5, <2>3, <2>4 DEF Lane!ValidatorReports, PipelineShape
<1>6. CASE Lane!AgentStops
  <2>1. PICK d \in desk : desk' = (desk \ {d}) \cup {[d EXCEPT !.st = "idle"]}
    BY <1>6 DEF Lane!AgentStops
  <2> DEFINE e == [d EXCEPT !.st = "idle"]
  <2>2. e \in DeliverySession /\ e.nonce = d.nonce /\ e.prov = d.prov /\ e.space = d.space
    BY <1>0 DEF PipelineShape, DeliverySession
  <2>3. desk' = (desk \ {d}) \cup {e}
    BY <2>1
  <2> HIDE DEF e
  <2> QED
    BY <1>0, <1>3, <1>6, <2>2, <2>3 DEF Lane!AgentStops, PipelineShape
<1> QED
  BY <1>4, <1>5, <1>6

-----------------------------------------------------------------------------
(* The tick.                                                                *)

\* Steps of the tick that only move it, and end what it was at.
LEMMA TickOnly ==
  ASSUME DeliveryInv, UNCHANGED <<state, spaces, desk, posts, host>>, tick' \in DeliveryTick,
         spent' \in [{"pushes", "changes", "sessions", "trouble"} -> Nat],
         spent'.sessions = spent.sessions, spent'.pushes = spent.pushes,
         Indexed' /\ Opening' /\ Saving' /\ Telling'
  PROVE  DeliveryInv'
<1>1. PipelineShape' /\ Numbered' /\ SameSessions
  BY DEF DeliveryInv, PipelineShape, Numbered, SameSessions
<1>2. host.head <= host'.head /\ host'.head <= spent'.pushes /\ spent.pushes <= spent'.pushes
  BY CountersAre DEF DeliveryInv, Rounds
<1> QED
  BY <1>1, <1>2, WorldMoves

LEMMA BeginsStep == ASSUME DeliveryInv, Lane!TickBegins PROVE DeliveryInv'
<1>1. UNCHANGED <<state, spaces, desk, posts, host, spent>>
  BY DEF Lane!TickBegins
<1> DEFINE L == {t \in Lane!Tokens : spaces[t].st = "live"}
           G == {t \in Lane!Tokens : spaces[t].st = "archived"}
           a == [Lane!Idle EXCEPT !.pc = "check"]
           b == [a EXCEPT !.live = L]
<1>2. a \in DeliveryTick /\ a.pc = "check"
  BY IdleTick DEF DeliveryTick
<1>3. tick' = [b EXCEPT !.gone = G]
  BY DEF Lane!TickBegins
<1> HIDE DEF a
<1>4. b \in DeliveryTick /\ b.pc = "check" /\ b.live = L
  BY <1>2 DEF DeliveryTick
<1> HIDE DEF b
<1>5. tick' \in DeliveryTick /\ tick'.pc = "check" /\ tick'.live = L /\ tick'.gone = G
  BY <1>3, <1>4 DEF DeliveryTick
<1>6. Indexed' /\ Opening' /\ Saving' /\ Telling'
  BY <1>1, <1>5 DEF Indexed, Opening, Saving, Telling
<1> QED
  BY <1>1, <1>5, <1>6, TickOnly DEF DeliveryInv, PipelineShape

LEMMA WaitsStep == ASSUME DeliveryInv, Lane!NoRunNow \/ Lane!Waits PROVE DeliveryInv'
<1>1. /\ UNCHANGED <<state, spaces, desk, posts, host, spent>> /\ tick.pc = "advance"
      /\ tick' = [tick EXCEPT !.pc = "hygiene"]
  BY DEF Lane!NoRunNow, Lane!Waits, Lane!At, Lane!Goto
<1>2. /\ tick' \in DeliveryTick /\ tick'.pc = "hygiene" /\ tick'.live = tick.live /\ tick'.gone = tick.gone
  BY <1>1, GotoMoves DEF DeliveryInv, PipelineShape
<1>3. Indexed' /\ Opening' /\ Saving' /\ Telling'
  BY <1>1, <1>2, CalmTick DEF DeliveryInv
<1> QED
  BY <1>1, <1>2, <1>3, TickOnly DEF DeliveryInv, PipelineShape

LEMMA FailsStep == ASSUME DeliveryInv, Lane!CallFails \/ Lane!HygieneFails PROVE DeliveryInv'
<1>1. /\ UNCHANGED <<state, spaces, desk, posts, host>> /\ Lane!Trouble
      /\ tick.pc # "idle" /\ tick' \in {Lane!Idle, [tick EXCEPT !.pc = "hygiene"]}
  BY DEF Lane!CallFails, Lane!HygieneFails, Lane!At
<1>2. /\ tick' \in DeliveryTick
      /\ tick'.pc = "idle" \/ (tick'.pc = "hygiene" /\ tick'.live = tick.live /\ tick'.gone = tick.gone)
  BY <1>1, GotoMoves, IdleTick DEF DeliveryInv, PipelineShape
<1>3. Indexed' /\ Opening' /\ Saving' /\ Telling'
  BY <1>1, <1>2, CalmTick DEF DeliveryInv
<1> QED
  BY <1>1, <1>2, <1>3, TickOnly, TroubleCounts DEF DeliveryInv

LEMMA TellStep == ASSUME DeliveryInv, Lane!TellAuthor PROVE DeliveryInv'
<1>1. /\ UNCHANGED <<state, spaces, desk, posts, host, spent>> /\ tick.pc = "tell"
      /\ tick' = [tick EXCEPT !.pc = "told"]
  BY DEF Lane!TellAuthor, Lane!At, Lane!Goto
<1>2. /\ tick' \in DeliveryTick /\ tick'.pc = "told" /\ tick'.live = tick.live /\ tick'.gone = tick.gone
  BY <1>1, GotoMoves DEF DeliveryInv, PipelineShape
<1>3. Indexed' /\ Opening' /\ Saving' /\ Telling'
  BY <1>1, <1>2 DEF DeliveryInv, Indexed, Opening, Saving, Telling
<1> QED
  BY <1>1, <1>2, <1>3, TickOnly DEF DeliveryInv, PipelineShape

\* Finished sessions go on, or are looked at in vain.
LEMMA KeepsStep == ASSUME DeliveryInv, Lane!KeepAlive PROVE DeliveryInv'
<1>1. /\ UNCHANGED <<state, spaces, posts, host, spent>> /\ tick.pc = "advance"
      /\ tick' = [tick EXCEPT !.pc = "hygiene"]
  BY DEF Lane!KeepAlive, Lane!At, Lane!Goto
<1>2. /\ tick' \in DeliveryTick /\ tick'.pc = "hygiene" /\ tick'.live = tick.live /\ tick'.gone = tick.gone
  BY <1>1, GotoMoves DEF DeliveryInv, PipelineShape
<1>3. Indexed' /\ Opening' /\ Saving' /\ Telling'
  BY <1>1, <1>2, CalmTick DEF DeliveryInv
<1>4. PICK r \in Lane!Pending : desk' = IF Lane!Unanswered(r)
                  THEN (desk \ {Lane!Session(r)}) \cup {[Lane!Session(r) EXCEPT !.st = "working"]}
                  ELSE desk
  BY DEF Lane!KeepAlive
<1>5. Lane!Session(r) \in desk
  <2>1. \E d \in desk : d.nonce = r.nonce
    BY PendingIs DEF DeliveryInv, KnownRuns, Commissioned
  <2> QED
    BY <2>1 DEF Lane!Session
<1>6. desk' \subseteq DeliverySession /\ Numbered' /\ SameSessions
  <2>1. CASE desk' = desk
    BY <1>1, <2>1 DEF DeliveryInv, PipelineShape, Numbered, SameSessions
  <2>2. CASE desk' # desk
    <3> DEFINE d == Lane!Session(r)
               e == [d EXCEPT !.st = "working"]
    <3>1. d \in desk /\ desk' = (desk \ {d}) \cup {e}
      BY <1>4, <1>5, <2>2
    <3> HIDE DEF d
    <3>2. e \in DeliverySession /\ e.nonce = d.nonce /\ e.prov = d.prov /\ e.space = d.space
      BY <3>1 DEF DeliveryInv, PipelineShape, DeliverySession
    <3> HIDE DEF e
    <3> QED
      BY <1>1, <3>1, <3>2, DeskMoves DEF DeliveryInv
  <2> QED
    BY <2>1, <2>2
<1>7. PipelineShape'
  BY <1>1, <1>2, <1>6 DEF DeliveryInv, PipelineShape
<1>8. host.head <= host'.head /\ host'.head <= spent'.pushes /\ spent.pushes <= spent'.pushes
  BY <1>1, CountersAre DEF DeliveryInv, Rounds
<1> QED
  BY <1>1, <1>3, <1>6, <1>7, <1>8, WorldMoves

\* Hygiene archives what is finished, and that nobody waits for.
LEMMA HygieneStep == ASSUME Lane!DeliveryBounds, DeliveryInv, Lane!Hygiene PROVE DeliveryInv'
<1>1. UNCHANGED <<state, desk, posts, host, spent>> /\ tick.pc = "hygiene" /\ tick' = Lane!Idle
  BY DEF Lane!Hygiene, Lane!At
<1>2. ASSUME NEW t \in Lane!Tokens
      PROVE  /\ spaces'[t] \in [st : {"none", "live", "archived"}, prov : Provs]
             /\ spaces'[t].prov = spaces[t].prov
             /\ spaces'[t] = spaces[t] \/ (t \in tick.live /\ Lane!Finished(t) /\ spaces'[t].st = "archived"
                                           /\ spaces[t].st = "live")
  <2>1. spaces[t] \in [st : {"none", "live", "archived"}, prov : Provs]
    BY DEF DeliveryInv, PipelineShape
  <2>2. t \in tick.live => spaces[t].st = "live"
    BY <1>1 DEF DeliveryInv, Indexed
  <2>3. spaces'[t] = IF /\ t \in tick.live
                        /\ Lane!Finished(t)
                        /\ ~\E d \in desk : d.space = t /\ d.st = "working"
                     THEN [spaces[t] EXCEPT !.st = "archived"] ELSE spaces[t]
    BY DEF Lane!Hygiene
  <2> QED
    BY <2>1, <2>2, <2>3
<1>3. PipelineShape'
  <2>1. spaces' \in [Lane!Tokens -> [st : {"none", "live", "archived"}, prov : Provs]]
    <3>1. spaces' = [t \in Lane!Tokens |-> spaces'[t]]
      BY DEF Lane!Hygiene
    <3> QED
      BY <1>2, <3>1
  <2> QED
    BY <1>1, <2>1, IdleTick DEF DeliveryInv, PipelineShape
<1>4. Numbered' /\ KnownRuns' /\ Staged' /\ Rounds' /\ Earned' /\ MergeEarned'
  BY <1>1 DEF DeliveryInv, Numbered, KnownRuns, Staged, Rounds, Earned, MergeEarned, Approvers,
      Commissioned,
              Lane!Final
<1>5. Indexed' /\ Opening' /\ Saving' /\ Telling'
  BY <1>1, IdleTick DEF Indexed, Opening, Saving, Telling
<1>6. Slotted'
  BY <1>1, <1>2 DEF DeliveryInv, Slotted, Lane!Final
<1>7. Lane!AwaitedStays'
  <2>0. <<"review", 0, 0>> \in Lane!Tokens /\ <<"validation", 0, 0>> \in Lane!Tokens
    BY DEF Lane!Tokens
  <2>1. Lane!Pending # {} /\ state.stage = "review" => spaces'[<<"review", 0, 0>>].st # "archived"
    <3>1. state.stage = "review" => ~Lane!Finished(<<"review", 0, 0>>)
      BY DEF Lane!Finished, DeliveryInv, Staged
    <3> QED
      BY <1>2, <2>0, <3>1 DEF DeliveryInv, Lane!AwaitedStays
  <2>2. Lane!Pending # {} /\ state.stage = "validation" => spaces'[<<"validation", 0, 0>>].st # "archived"
    <3>1. state.stage = "validation" => ~Lane!Finished(<<"validation", 0, 0>>)
      BY DEF Lane!Finished, DeliveryInv, Staged
    <3> QED
      BY <1>2, <2>0, <3>1 DEF DeliveryInv, Lane!AwaitedStays
  <2>3. ASSUME NEW i \in DOMAIN state.finals, state.stage = "finals", Lane!Final(i).verdict = "none"
        PROVE  spaces'[<<"final", state.round, i>>].st # "archived"
    <3>1. <<"final", state.round, i>> \in Lane!Tokens
      <4>1. state.finals \in Seq(PipelineRun)
        BY DEF DeliveryInv, PipelineShape, DeliveryState
      <4>2. i \in Lane!Slots
        BY <4>1 DEF DeliveryInv, Staged, Lane!Slots
      <4>3. state.round \in 1..(MaxPushes + MaxSessions)
        BY <4>1, RoundFits DEF DeliveryInv, Rounds
      <4> QED
        BY <4>2, <4>3 DEF Lane!Tokens
    <3>2. ~Lane!Finished(<<"final", state.round, i>>)
      BY <2>3, CountersAre DEF Lane!Finished, DeliveryInv, Staged
    <3> QED
      BY <1>2, <2>3, <3>1, <3>2 DEF DeliveryInv, Lane!AwaitedStays
  <2> QED
    BY <1>1, <2>1, <2>2, <2>3 DEF Lane!AwaitedStays, Lane!Final, Lane!Pending
<1> QED
  BY <1>3, <1>4, <1>5, <1>6, <1>7 DEF DeliveryInv

-----------------------------------------------------------------------------
(* The delivery moves.                                                      *)

\* The answer of a run is written down; the run is the same.
SameRun(a, b) == b = a \/ (a # Lane!NoRun /\ b.nonce = a.nonce /\ b.prov = a.prov)

\* What follows while the finals, their round and their head stay.
LEMMA FinalsStay ==
  ASSUME DeliveryInv, UNCHANGED <<spaces, desk, posts, host, spent>>, state' \in DeliveryState,
         tick' \in DeliveryTick,
         state'.finals = state.finals, state'.round = state.round, state'.head = state.head,
         SameRun(state.review, state'.review), SameRun(state.proof, state'.proof)
  PROVE  PipelineShape' /\ Numbered' /\ KnownRuns' /\ Rounds' /\ Slotted' /\ Earned'
<1>1. PipelineShape' /\ Numbered' /\ Rounds'
  BY DEF DeliveryInv, PipelineShape, Numbered, Rounds
<1>2. KnownRuns'
  BY DEF DeliveryInv, KnownRuns, Commissioned, Lane!Final, SameRun
<1>3. Slotted' /\ Earned'
  BY DEF DeliveryInv, Slotted, Earned, Lane!Final, Approvers
<1> QED
  BY <1>1, <1>2, <1>3

\* The adopted merge stays, and so do those who approved it.
LEMMA MergeStays ==
  ASSUME DeliveryInv, posts' = posts, state'.merged = state.merged
  PROVE  MergeEarned'
BY DEF DeliveryInv, MergeEarned, Approvers

\* The parts of a calm tick.
LEMMA TickGoes ==
  ASSUME DeliveryInv, UNCHANGED spaces, tick.pc # "idle", NEW to \in {"advance", "hygiene"},
         tick' = [tick EXCEPT !.pc = to]
  PROVE  tick' \in DeliveryTick /\ Indexed' /\ Opening' /\ Saving' /\ Telling'
<1>1. /\ tick' \in DeliveryTick /\ tick'.pc = to /\ tick'.live = tick.live /\ tick'.gone = tick.gone
  BY GotoMoves DEF DeliveryInv, PipelineShape
<1> QED
  BY <1>1, CalmTick DEF DeliveryInv

\* Of the rounds to come there is no workspace.
LEMMA NewRound ==
  ASSUME DeliveryInv, spaces' = spaces, state'.round = state.round + 1
  PROVE  Slotted'
<1>1. state.round \in Nat /\ \A t \in Lane!Tokens : t[2] \in Nat
  BY CountersAre DEF DeliveryInv, Lane!Tokens
<1>2. ASSUME NEW t \in Lane!Tokens, t[1] = "final", t[2] > state.round PROVE spaces[t].st = "none"
  BY <1>2 DEF DeliveryInv, Slotted
<1>3. ASSUME NEW t \in Lane!Tokens, t[2] >= state.round + 1 PROVE t[2] > state.round
  BY <1>1, <1>3
<1>4. ASSUME NEW t \in Lane!Tokens, t[1] = "final", t[2] > state'.round \/ t[2] = state'.round
      PROVE  spaces'[t].st = "none"
  <2>1. t[2] >= state.round + 1
    BY <1>1, <1>4
  <2> QED
    BY <1>2, <1>3, <1>4, <2>1
<1> QED
  BY <1>4 DEF Slotted

LEMMA HeadChangedStep == ASSUME DeliveryInv, Lane!HeadChanged PROVE DeliveryInv'
<1> DEFINE a == [state EXCEPT !.head = host.head]
           b == [a EXCEPT !.round = @ + 1]
           c == [b EXCEPT !.review = Lane!NoRun]
           d == [c EXCEPT !.finals = <<>>]
           e == [d EXCEPT !.feedback = "none"]
           f == [e EXCEPT !.stage = Lane!FirstStage]
<1>0. state \in DeliveryState /\ host.head \in Nat /\ Lane!FirstStage \in {"review", "finals"}
  BY CountersAre DEF DeliveryInv, PipelineShape, Lane!FirstStage
<1>1. /\ a \in DeliveryState /\ a.head = host.head /\ a.round = state.round /\ a.proof = state.proof
      /\ a.merged = state.merged
  BY <1>0 DEF DeliveryState
<1> HIDE DEF a
<1>2. /\ b \in DeliveryState /\ b.head = host.head /\ b.round = state.round + 1
      /\ b.proof = state.proof /\ b.merged = state.merged
  BY <1>1 DEF DeliveryState
<1> HIDE DEF b
<1>3. /\ c \in DeliveryState /\ c.head = host.head /\ c.round = state.round + 1 /\ c.proof = state.proof
      /\ c.merged = state.merged /\ c.review = Lane!NoRun
  BY <1>2, NothingYet DEF DeliveryState
<1> HIDE DEF c
<1>4. /\ d \in DeliveryState /\ d.head = host.head /\ d.round = state.round + 1 /\ d.proof = state.proof
      /\ d.merged = state.merged /\ d.review = Lane!NoRun /\ d.finals = <<>>
  <2>1. <<>> \in Seq(PipelineRun)
    OBVIOUS
  <2> QED
    BY <1>3, <2>1 DEF DeliveryState
<1> HIDE DEF d
<1>5. /\ e \in DeliveryState /\ e.head = host.head /\ e.round = state.round + 1 /\ e.proof = state.proof
      /\ e.merged = state.merged /\ e.review = Lane!NoRun /\ e.finals = <<>> /\ e.feedback = "none"
  BY <1>4 DEF DeliveryState
<1> HIDE DEF e
<1>6. /\ f \in DeliveryState /\ f.head = host.head /\ f.round = state.round + 1 /\ f.proof = state.proof
      /\ f.merged = state.merged /\ f.review = Lane!NoRun /\ f.finals = <<>> /\ f.feedback = "none"
      /\ f.stage \in {"review", "finals"}
  BY <1>0, <1>5 DEF DeliveryState, DeliveryStages
<1>7. state' = f
  BY DEF Lane!HeadChanged, Lane!StartOver, a, b, c, d, e
<1> HIDE DEF f
<1>8. /\ UNCHANGED <<spaces, desk, posts, host, spent>> /\ tick.pc = "check" /\ state.merged = 0
      /\ tick' = [tick EXCEPT !.pc = "hygiene"] /\ host.head # state.head
  BY DEF Lane!HeadChanged, Lane!At, Lane!Goto
<1>9. tick' \in DeliveryTick /\ Indexed' /\ Opening' /\ Saving' /\ Telling'
  BY <1>8, TickGoes
<1>10. PipelineShape' /\ Numbered'
  BY <1>6, <1>7, <1>8, <1>9 DEF DeliveryInv, PipelineShape, Numbered
<1>11. KnownRuns'
  BY <1>6, <1>7, <1>8 DEF DeliveryInv, KnownRuns, Commissioned
<1>12. Staged' /\ MergeEarned' /\ Earned'
  <2>1. state.proof = Lane!NoRun
    BY <1>8 DEF DeliveryInv, Staged
  <2> QED
    BY <1>6, <1>7, <1>8, <2>1 DEF Staged, MergeEarned, Earned
<1>13. Rounds'
  BY <1>6, <1>7, <1>8, CountersAre DEF DeliveryInv, Rounds
<1>14. Slotted'
  BY <1>6, <1>7, <1>8, NewRound
<1>15. Lane!AwaitedStays'
  BY <1>6, <1>7 DEF Lane!AwaitedStays, Lane!Pending, Lane!Final
<1> QED
  BY <1>9, <1>10, <1>11, <1>12, <1>13, <1>14, <1>15 DEF DeliveryInv

LEMMA HeadSteadyStep == ASSUME DeliveryInv, Lane!HeadSteady PROVE DeliveryInv'
<1>0. state \in DeliveryState
  BY DEF DeliveryInv, PipelineShape
<1>1. /\ UNCHANGED <<spaces, desk, posts, host, spent>> /\ tick.pc = "check"
      /\ tick' = [tick EXCEPT !.pc = "advance"]
  BY DEF Lane!HeadSteady, Lane!At, Lane!Goto
<1>2. tick' \in DeliveryTick /\ Indexed' /\ Opening' /\ Saving' /\ Telling'
  BY <1>1, TickGoes
<1>3. CASE state' = state
  <2>1. PipelineShape' /\ Numbered' /\ KnownRuns' /\ Rounds' /\ Slotted' /\ Earned'
    BY <1>0, <1>1, <1>2, <1>3, FinalsStay DEF SameRun
  <2>2. Staged' /\ Lane!AwaitedStays' /\ MergeEarned'
    BY <1>1, <1>3, MergeStays DEF DeliveryInv, Staged, Lane!AwaitedStays, Lane!Pending, Lane!Final
  <2> QED
    BY <1>2, <2>1, <2>2 DEF DeliveryInv
<1>4. CASE /\ state.stage = "review_fixes"
           /\ state' = [state EXCEPT !.stage = "finals", !.feedback = "none"]
  <2> DEFINE a == [state EXCEPT !.stage = "finals"]
  <2>1. /\ a \in DeliveryState /\ a.finals = state.finals /\ a.round = state.round /\ a.head = state.head
        /\ a.review = state.review /\ a.proof = state.proof /\ a.merged = state.merged /\ a.stage = "finals"
    BY <1>0 DEF DeliveryState, DeliveryStages
  <2>2. state' = [a EXCEPT !.feedback = "none"]
    BY <1>4
  <2> HIDE DEF a
  <2>3. /\ state' \in DeliveryState /\ state'.finals = state.finals /\ state'.round = state.round
        /\ state'.head = state.head /\ state'.review = state.review /\ state'.proof = state.proof
        /\ state'.merged = state.merged /\ state'.stage = "finals" /\ state'.feedback = "none"
    BY <2>1, <2>2 DEF DeliveryState
  <2>4. state.finals = <<>> /\ state.merged = 0 /\ state.proof = Lane!NoRun
    BY <1>4 DEF DeliveryInv, Staged
  <2>5. PipelineShape' /\ Numbered' /\ KnownRuns' /\ Rounds' /\ Slotted' /\ Earned'
    BY <1>1, <1>2, <2>3, FinalsStay DEF SameRun
  <2>6. Staged' /\ Lane!AwaitedStays' /\ MergeEarned'
    BY <2>3, <2>4 DEF Staged, Lane!AwaitedStays, MergeEarned
  <2> QED
    BY <1>2, <2>5, <2>6 DEF DeliveryInv
<1>5. CASE state.stage # "review_fixes" /\ state.feedback = "sent" /\ state' = Lane!NextRound
  <2> DEFINE a == [state EXCEPT !.stage = "finals"]
             b == [a EXCEPT !.feedback = "none"]
             c == [b EXCEPT !.round = @ + 1]
  <2>1. /\ a \in DeliveryState /\ a.round = state.round /\ a.head = state.head
        /\ a.review = state.review /\ a.proof = state.proof /\ a.merged = state.merged /\ a.stage = "finals"
    BY <1>0 DEF DeliveryState, DeliveryStages
  <2> HIDE DEF a
  <2>2. /\ b \in DeliveryState /\ b.round = state.round /\ b.head = state.head /\ b.feedback = "none"
        /\ b.review = state.review /\ b.proof = state.proof /\ b.merged = state.merged /\ b.stage = "finals"
    BY <2>1 DEF DeliveryState
  <2> HIDE DEF b
  <2>3. /\ c \in DeliveryState /\ c.round = state.round + 1 /\ c.head = state.head /\ c.feedback = "none"
        /\ c.review = state.review /\ c.proof = state.proof /\ c.merged = state.merged /\ c.stage = "finals"
    BY <2>2 DEF DeliveryState
  <2>4. state' = [c EXCEPT !.finals = <<>>]
    BY <1>5 DEF Lane!NextRound, a, b
  <2> HIDE DEF c
  <2>5. /\ state' \in DeliveryState /\ state'.round = state.round + 1 /\ state'.head = state.head
        /\ state'.feedback = "none" /\ state'.review = state.review /\ state'.proof = state.proof
        /\ state'.merged = state.merged /\ state'.stage = "finals" /\ state'.finals = <<>>
    <3>1. <<>> \in Seq(PipelineRun)
      OBVIOUS
    <3> QED
      BY <2>3, <2>4, <3>1 DEF DeliveryState
  <2>6. state.finals # <<>> /\ state.merged = 0 /\ state.proof = Lane!NoRun
    BY <1>5 DEF DeliveryInv, Staged
  <2>7. PipelineShape' /\ Numbered' /\ KnownRuns'
    BY <1>1, <1>2, <2>5 DEF DeliveryInv, PipelineShape, Numbered, KnownRuns, Commissioned
  <2>8. Rounds'
    BY <1>1, <2>5, <2>6, CountersAre DEF DeliveryInv, Rounds
  <2>9. Staged' /\ Lane!AwaitedStays' /\ MergeEarned' /\ Earned'
    BY <2>5, <2>6 DEF Staged, Lane!AwaitedStays, MergeEarned, Earned
  <2>10. Slotted'
    BY <1>1, <2>5, NewRound
  <2> QED
    BY <1>2, <2>7, <2>8, <2>9, <2>10 DEF DeliveryInv
<1> QED
  BY <1>3, <1>4, <1>5 DEF Lane!HeadSteady

LEMMA TakeReviewStep == ASSUME DeliveryInv, Lane!TakeReview PROVE DeliveryInv'
<1>0. state \in DeliveryState /\ posts \subseteq PullReview
  BY DEF DeliveryInv, PipelineShape
<1>1. /\ UNCHANGED <<spaces, desk, posts, host, spent>> /\ tick.pc = "advance"
      /\ tick' = [tick EXCEPT !.pc = "tell"] /\ state.stage = "review"
      /\ state.review \in Lane!Pending /\ Lane!Attested(state.review) # {}
  BY DEF Lane!TakeReview, Lane!At, Lane!Goto, Lane!Judged
<1>2. /\ tick' \in DeliveryTick /\ tick'.pc = "tell" /\ tick'.live = tick.live /\ tick'.gone = tick.gone
  BY <1>1, GotoMoves DEF DeliveryInv, PipelineShape
<1> DEFINE v == Lane!Verdict(state.review)
           a == [state EXCEPT !.review.verdict = v]
<1>3. v \in RunVerdicts
  <2>1. (CHOOSE p \in Lane!Attested(state.review) : TRUE) \in posts
    BY <1>1 DEF Lane!Attested
  <2> QED
    BY <1>0, <2>1 DEF Lane!Verdict, PullReview, RunVerdicts
<1>4. state' = [a EXCEPT !.feedback = "saved"]
  BY DEF Lane!TakeReview
<1> HIDE DEF v
<1>5. /\ a \in DeliveryState /\ a.finals = state.finals /\ a.round = state.round /\ a.head = state.head
      /\ a.review.nonce = state.review.nonce /\ a.review.prov = state.review.prov
      /\ a.proof = state.proof /\ a.merged = state.merged /\ a.stage = "review"
  BY <1>0, <1>1, <1>3 DEF DeliveryState, PipelineRun
<1> HIDE DEF a
<1>6. /\ state' \in DeliveryState /\ state'.finals = state.finals /\ state'.round = state.round
      /\ state'.head = state.head /\ state'.review.nonce = state.review.nonce
      /\ state'.review.prov = state.review.prov /\ state'.proof = state.proof
      /\ state'.merged = state.merged /\ state'.stage = "review" /\ state'.feedback = "saved"
  BY <1>4, <1>5 DEF DeliveryState
<1>7. state.review # Lane!NoRun
  BY <1>1, PendingIs
<1>8. PipelineShape' /\ Numbered' /\ KnownRuns' /\ Rounds' /\ Slotted' /\ Earned'
  BY <1>1, <1>2, <1>6, <1>7, FinalsStay DEF SameRun
<1>9. Staged' /\ MergeEarned'
  BY <1>1, <1>6, MergeStays DEF DeliveryInv, Staged
<1>10. Lane!AwaitedStays'
  BY <1>1, <1>6 DEF DeliveryInv, Lane!AwaitedStays
<1>11. Indexed' /\ Opening' /\ Saving' /\ Telling'
  BY <1>1, <1>2, <1>6 DEF DeliveryInv, Indexed, Opening, Saving, Telling
<1> QED
  BY <1>8, <1>9, <1>10, <1>11 DEF DeliveryInv

LEMMA SaveToldStep == ASSUME DeliveryInv, Lane!SaveTold PROVE DeliveryInv'
<1>0. state \in DeliveryState
  BY DEF DeliveryInv, PipelineShape
<1>1. /\ UNCHANGED <<spaces, desk, posts, host, spent>> /\ tick.pc = "told"
      /\ tick' = [tick EXCEPT !.pc = "hygiene"]
  BY DEF Lane!SaveTold, Lane!At, Lane!Goto
<1>2. tick' \in DeliveryTick /\ Indexed' /\ Opening' /\ Saving' /\ Telling'
  BY <1>1, TickGoes
<1> DEFINE a == [state EXCEPT !.feedback = "sent"]
<1>3. /\ a \in DeliveryState /\ a.finals = state.finals /\ a.round = state.round /\ a.head = state.head
      /\ a.review = state.review /\ a.proof = state.proof /\ a.merged = state.merged
      /\ a.stage = state.stage /\ a.feedback = "sent"
  BY <1>0 DEF DeliveryState
<1>4. state' = [a EXCEPT !.stage = IF @ = "review" THEN "review_fixes" ELSE "final_fixes"]
  BY DEF Lane!SaveTold
<1> HIDE DEF a
<1>5. /\ state' \in DeliveryState /\ state'.finals = state.finals /\ state'.round = state.round
      /\ state'.head = state.head /\ state'.review = state.review /\ state'.proof = state.proof
      /\ state'.merged = state.merged /\ state'.feedback = "sent"
      /\ state'.stage = IF state.stage = "review" THEN "review_fixes" ELSE "final_fixes"
  BY <1>3, <1>4 DEF DeliveryState, DeliveryStages
<1>6. PipelineShape' /\ Numbered' /\ KnownRuns' /\ Rounds' /\ Slotted' /\ Earned'
  BY <1>1, <1>2, <1>5, FinalsStay DEF SameRun
<1>7. /\ state.finals # <<>> \/ state.stage = "review"
      /\ state.stage = "review" => state.finals = <<>>
  BY <1>1 DEF DeliveryInv, Telling, Staged
<1>8. state.merged = 0
  BY <1>1 DEF DeliveryInv, Telling, Staged
<1>9. Staged' /\ Lane!AwaitedStays' /\ MergeEarned'
  BY <1>1, <1>5, <1>7, <1>8 DEF DeliveryInv, Staged, Lane!AwaitedStays, MergeEarned
<1> QED
  BY <1>2, <1>6, <1>9 DEF DeliveryInv

LEMMA TakeProofStep == ASSUME DeliveryInv, Lane!TakeProof PROVE DeliveryInv'
<1>0. state \in DeliveryState
  BY DEF DeliveryInv, PipelineShape
<1>1. /\ UNCHANGED <<spaces, desk, posts, host, spent>> /\ tick.pc = "advance"
      /\ tick' = [tick EXCEPT !.pc = "hygiene"] /\ state.stage = "validation" /\ state.proof # Lane!NoRun
      /\ Lane!Proved(state.proof)
  BY DEF Lane!TakeProof, Lane!At, Lane!Goto
<1>2. tick' \in DeliveryTick /\ Indexed' /\ Opening' /\ Saving' /\ Telling'
  BY <1>1, TickGoes
<1> DEFINE v == Lane!Session(state.proof).says
           a == [state EXCEPT !.proof.verdict = v]
<1>3. v \in RunVerdicts
  BY <1>1 DEF Lane!Proved, RunVerdicts
<1>4. state' = [a EXCEPT !.stage = IF v = "passed" THEN "complete" ELSE "validation_failed"]
  BY DEF Lane!TakeProof
<1> HIDE DEF v
<1>5. /\ a \in DeliveryState /\ a.finals = state.finals /\ a.round = state.round /\ a.head = state.head
      /\ a.proof.nonce = state.proof.nonce /\ a.proof.prov = state.proof.prov
      /\ a.review = state.review /\ a.merged = state.merged /\ a.feedback = state.feedback
  BY <1>0, <1>3 DEF DeliveryState, PipelineRun
<1> HIDE DEF a
<1>6. /\ state' \in DeliveryState /\ state'.finals = state.finals /\ state'.round = state.round
      /\ state'.head = state.head /\ state'.proof.nonce = state.proof.nonce
      /\ state'.proof.prov = state.proof.prov /\ state'.review = state.review
      /\ state'.merged = state.merged /\ state'.feedback = state.feedback
      /\ state'.stage \in {"complete", "validation_failed"}
  BY <1>4, <1>5 DEF DeliveryState, DeliveryStages
<1>7. PipelineShape' /\ Numbered' /\ KnownRuns' /\ Rounds' /\ Slotted' /\ Earned'
  BY <1>1, <1>2, <1>6, FinalsStay DEF SameRun
<1>8. Staged' /\ MergeEarned'
  BY <1>1, <1>6, MergeStays DEF DeliveryInv, Staged
<1>9. Lane!AwaitedStays'
  BY <1>6 DEF Lane!AwaitedStays
<1> QED
  BY <1>2, <1>7, <1>8, <1>9 DEF DeliveryInv

\* What the tick opens or saves a run for.
LEMMA OpenedIs ==
  ASSUME DeliveryInv,
         tick.pc \in {"prompt", "save"} \/ (tick.pc = "advance" /\ spent.sessions < MaxSessions),
         Lane!DeliveryBounds, NEW t \in Lane!Lacking,
         state.round < state.head + spent.sessions \/ spent.sessions < MaxSessions
  PROVE  t \in Lane!Tokens /\ t \in Ids
<1>1. state.finals \in Seq(PipelineRun) /\ state.round \in Nat
  BY DEF DeliveryInv, PipelineShape, DeliveryState
<1>2. state.round \in 1..(MaxPushes + MaxSessions)
  BY BoundsAre, CountersAre DEF DeliveryInv, Rounds
<1>3. CASE t = <<"review", 0, 0>> \/ t = <<"validation", 0, 0>>
  BY <1>3 DEF Lane!Tokens, Ids
<1>4. CASE Len(state.finals) < 2 /\ t = <<"final", state.round, Len(state.finals) + 1>>
  <2>1. Len(state.finals) + 1 \in Lane!Slots /\ Len(state.finals) + 1 \in Nat
    BY <1>1, <1>4 DEF Lane!Slots
  <2> QED
    BY <1>1, <1>2, <1>4, <2>1 DEF Lane!Tokens, Ids
<1> QED
  BY <1>3, <1>4, LackingIs

LEMMA PromptStep == ASSUME Lane!DeliveryBounds, DeliveryInv, Lane!PromptRun PROVE DeliveryInv'
<1>0. PipelineShape
  BY DEF DeliveryInv
<1> DEFINE n == spent.sessions + 1
           h == IF tick.id[1] = "validation" THEN state.merged ELSE state.head
           d == [space |-> tick.id, prov |-> tick.prov, nonce |-> n, head |-> h, st |-> "working",
                 says |-> "none"]
<1>1. /\ UNCHANGED <<state, spaces, posts, host>> /\ tick.pc = "prompt"
      /\ tick' = [tick EXCEPT !.pc = "save"] /\ desk' = desk \cup {d}
      /\ spent' = [spent EXCEPT !.sessions = n]
  BY DEF Lane!PromptRun, Lane!At, Lane!Goto
<1>2. /\ tick.id \in Lane!Lacking /\ spent.sessions < MaxSessions
      /\ state.stage = "finals" => Fit(tick.prov)
      /\ tick.id \in Lane!Tokens => spaces[tick.id].st = "live"
  BY <1>1 DEF DeliveryInv, Opening
<1>3. /\ tick' \in DeliveryTick /\ tick'.pc = "save" /\ tick'.live = tick.live /\ tick'.gone = tick.gone
      /\ tick'.prov = tick.prov /\ tick'.id = tick.id
  BY <1>0, <1>1, GotoMoves DEF PipelineShape
<1>4. spent' \in [{"pushes", "changes", "sessions", "trouble"} -> Nat] /\ spent'.sessions = n
      /\ spent'.pushes = spent.pushes
  BY <1>0, <1>1, CountersAre DEF PipelineShape
<1>5. d \in DeliverySession /\ d.nonce = n /\ d.prov = tick.prov /\ d.space = tick.id
  <2>1. tick.id \in Ids
    BY <1>1, <1>2, OpenedIs
  <2>2. h \in Nat /\ n \in Nat /\ tick.prov \in Provs
    BY <1>0, CountersAre DEF PipelineShape, DeliveryTick
  <2> QED
    BY <2>1, <2>2 DEF DeliverySession
<1> HIDE DEF d
<1>6. PipelineShape'
  BY <1>0, <1>1, <1>3, <1>4, <1>5 DEF PipelineShape
<1>7. Numbered'
  <2>1. \A x \in desk : x.nonce \in Nat /\ x.nonce <= spent.sessions
    BY <1>0 DEF DeliveryInv, Numbered, PipelineShape, DeliverySession
  <2>2. \A x \in desk : x.nonce # n /\ x.nonce <= n
    BY <1>0, <2>1, CountersAre
  <2>3. n <= n
    BY <1>0, CountersAre
  <2> HIDE DEF n
  <2> QED
    BY <1>1, <1>4, <1>5, <2>2, <2>3 DEF DeliveryInv, Numbered
<1>8. SameSessions
  BY <1>1 DEF SameSessions
<1>9. KnownRuns'
  <2>1. \A p \in posts' : Commissioned(p.nonce, p.prov, p.stage)'
    BY <1>1, <1>8, StaysCommissioned DEF DeliveryInv, KnownRuns
  <2>2. \A i \in DOMAIN state.finals : Commissioned(Lane!Final(i).nonce, Lane!Final(i).prov, "final")'
    BY <1>1, <1>8, StaysCommissioned DEF DeliveryInv, KnownRuns, Lane!Final
  <2>3. /\ state.review # Lane!NoRun => Commissioned(state.review.nonce, state.review.prov, "review")'
        /\ state.proof # Lane!NoRun => Commissioned(state.proof.nonce, state.proof.prov, "validation")'
    BY <1>1, <1>8, StaysCommissioned DEF DeliveryInv, KnownRuns, Lane!Final
  <2> QED
    BY <1>1, <2>1, <2>2, <2>3 DEF KnownRuns, Lane!Final
<1>10. Staged' /\ Slotted' /\ Lane!AwaitedStays' /\ Earned' /\ MergeEarned'
  BY <1>1 DEF DeliveryInv, Staged, Slotted, Lane!AwaitedStays, Lane!Final, Lane!Pending, Earned,
      MergeEarned, Approvers
<1>11. state.round < state.head + n
  BY <1>0, CountersAre DEF DeliveryInv, Rounds
<1>12. Rounds'
  <2>1. state.round <= state.head + n /\ n <= MaxSessions
    BY <1>0, <1>2, <1>11, CountersAre, BoundsAre
  <2> HIDE DEF n
  <2> QED
    BY <1>1, <1>4, <1>11, <2>1 DEF DeliveryInv, Rounds
<1>13. Indexed' /\ Telling'
  BY <1>1, <1>3 DEF DeliveryInv, Indexed, Telling
<1>14. Opening'
  BY <1>1, <1>2, <1>3 DEF Opening, Lane!Lacking, Fit, Lane!Final
<1>15. Saving'
  BY <1>1, <1>3, <1>4, <1>5, <1>11 DEF Saving
<1> QED
  BY <1>6, <1>7, <1>9, <1>10, <1>12, <1>13, <1>14, <1>15 DEF DeliveryInv

\* The order of the places in a rotation, as a relation.
Before == {ss \in Nat \X Nat : ss[1] < ss[2]}

\* A set of places that is not empty has a first one.
LEMMA LeastOf ==
  ASSUME NEW places, places \subseteq Nat, places # {}
  PROVE  \E x \in places : \A y \in places : x <= y
<1>1. OpToRel(<, Nat) = Before
  BY DEF OpToRel, Before
<1>2. IsWellFoundedOn(Before, Nat)
  BY <1>1, NatLessThanWellFounded, Zenon
<1>3. PICK x \in places : \A y \in places : ~(<<y, x>> \in Before)
  BY <1>2, WFMin
<1>4. \A y, z \in Nat : y < z => <<y, z>> \in Before
  BY DEF Before
<1>5. ASSUME NEW y \in places PROVE x <= y
  <2>1. y \in Nat /\ x \in Nat
    BY <1>3
  <2>2. ~(y < x)
    BY <1>3, <1>4, <2>1
  <2> QED
    BY <2>1, <2>2
<1> QED
  BY <1>5

\* The provider that the rotation selects is one of it, and free.
LEMMA SelectedIs == Lane!Free # {} => Lane!Selected \in Provs /\ Lane!Selected \notin Lane!Excluded
<1> SUFFICES ASSUME Lane!Free # {} PROVE Lane!Selected \in Provs /\ Lane!Selected \notin Lane!Excluded
  OBVIOUS
<1>1. Lane!Free \subseteq Nat /\ Lane!Free \subseteq 1..Len(Rotation)
  BY DEF Lane!Free
<1>2. \E i \in Lane!Free : \A j \in Lane!Free : i <= j
  BY <1>1, LeastOf
<1> DEFINE k == CHOOSE i \in Lane!Free : \A j \in Lane!Free : i <= j
<1>3. k \in Lane!Free
  BY <1>2
<1> HIDE DEF k
<1>4. Rotation[k] \in Provs /\ Rotation[k] \notin Lane!Excluded
  BY <1>3 DEF Lane!Free, Provs
<1> QED
  BY <1>4 DEF Lane!Selected, k

\* The workspace of a final that is awaited is one of the model's.
LEMMA AwaitedToken ==
  ASSUME Lane!DeliveryBounds, DeliveryInv, NEW i \in DOMAIN state.finals
  PROVE  <<"final", state.round, i>> \in Lane!Tokens
<1>1. state.finals \in Seq(PipelineRun)
  BY DEF DeliveryInv, PipelineShape, DeliveryState
<1>2. i \in Lane!Slots
  BY <1>1 DEF DeliveryInv, Staged, Lane!Slots
<1>3. state.round \in 1..(MaxPushes + MaxSessions)
  BY <1>1, RoundFits DEF DeliveryInv, Rounds
<1> QED
  BY <1>2, <1>3 DEF Lane!Tokens

LEMMA OpenStep == ASSUME Lane!DeliveryBounds, DeliveryInv, Lane!OpenWorkspace PROVE DeliveryInv'
<1>0. /\ PipelineShape /\ Slotted /\ UNCHANGED <<state, desk, posts, host, spent>>
      /\ tick.pc = "advance" /\ spent.sessions < MaxSessions
  BY DEF DeliveryInv, Lane!OpenWorkspace, Lane!At
<1>1. PICK t \in Lane!Lacking \ tick.gone :
          /\ Lane!Free # {} \/ t \in tick.live
          /\ spaces' = IF t \in tick.live THEN spaces
                       ELSE [spaces EXCEPT ![t] = [st |-> "live", prov |-> Lane!Selected]]
          /\ tick' = [tick EXCEPT !.pc = "prompt", !.id = t,
                          !.prov = IF Lane!Free # {} THEN Lane!Selected ELSE spaces[t].prov]
  BY DEF Lane!OpenWorkspace
<1>2. t \in Lane!Tokens /\ t \in Ids
  BY <1>0, <1>1, OpenedIs
<1>3. /\ spaces[t] \in [st : {"none", "live", "archived"}, prov : Provs] /\ spaces[t].st # "archived"
      /\ t \in tick.live => spaces[t].st = "live"
  BY <1>0, <1>1, <1>2 DEF DeliveryInv, PipelineShape, Indexed
<1>4. Lane!Free # {} => Lane!Selected \in Provs /\ Lane!Selected \notin Lane!Excluded
  BY SelectedIs
<1> DEFINE p == IF Lane!Free # {} THEN Lane!Selected ELSE spaces[t].prov
           a == [tick EXCEPT !.pc = "prompt"]
           b == [a EXCEPT !.id = t]
<1>5. p \in Provs
  BY <1>3, <1>4
<1>6. state.stage = "finals" => Fit(p)
  <2> SUFFICES ASSUME state.stage = "finals" PROVE Fit(p)
    OBVIOUS
  <2>1. CASE Lane!Free # {}
    BY <1>4, <2>1 DEF Lane!Excluded, Lane!Providers, Fit, Lane!Final
  <2>2. CASE Lane!Free = {}
    <3>1. t = <<"final", state.round, Len(state.finals) + 1>> /\ spaces[t].st = "live"
      BY <1>1, <1>3, <2>2, LackingIs
    <3>2. state.finals \in Seq(PipelineRun)
      BY <1>0 DEF PipelineShape, DeliveryState
    <3>3. \A i \in DOMAIN state.finals : i < Len(state.finals) + 1
      BY <3>2
    <3> QED
      BY <1>0, <1>2, <2>2, <3>1, <3>3 DEF Slotted, Fit
  <2> QED
    BY <2>1, <2>2
<1> HIDE DEF p
<1>7. /\ a \in DeliveryTick /\ a.pc = "prompt" /\ a.live = tick.live /\ a.gone = tick.gone
  BY <1>0 DEF PipelineShape, DeliveryTick
<1>8. tick' = [b EXCEPT !.prov = p]
  BY <1>1 DEF p
<1> HIDE DEF a
<1>9. /\ b \in DeliveryTick /\ b.pc = "prompt" /\ b.live = tick.live /\ b.gone = tick.gone /\ b.id = t
  BY <1>2, <1>7 DEF DeliveryTick
<1> HIDE DEF b
<1>10. /\ tick' \in DeliveryTick /\ tick'.pc = "prompt" /\ tick'.live = tick.live /\ tick'.gone = tick.gone
       /\ tick'.id = t /\ tick'.prov = p
  BY <1>5, <1>8, <1>9 DEF DeliveryTick
<1>11. /\ spaces' \in [Lane!Tokens -> [st : {"none", "live", "archived"}, prov : Provs]]
       /\ \A u \in Lane!Tokens : u # t => spaces'[u] = spaces[u]
       /\ spaces'[t].st = "live"
       /\ spaces'[t] = spaces[t] \/ (Lane!Free # {} /\ spaces'[t].prov = Lane!Selected)
  <2>1. CASE t \in tick.live
    BY <1>0, <1>1, <1>3, <2>1 DEF PipelineShape
  <2>2. CASE t \notin tick.live
    BY <1>0, <1>1, <1>2, <1>4, <2>2 DEF PipelineShape
  <2> QED
    BY <2>1, <2>2
<1>12. PipelineShape' /\ Numbered'
  BY <1>0, <1>10, <1>11 DEF DeliveryInv, PipelineShape, Numbered
<1>13. KnownRuns' /\ Staged' /\ Rounds' /\ Earned' /\ MergeEarned'
  <2>1. KnownRuns' /\ Staged'
    BY <1>0 DEF DeliveryInv, KnownRuns, Commissioned, Lane!Final, Staged
  <2>2. Rounds'
    BY <1>0 DEF DeliveryInv, Rounds
  <2>3. Earned' /\ MergeEarned'
    BY <1>0 DEF DeliveryInv, Earned, MergeEarned, Approvers, Lane!Final
  <2> QED
    BY <2>1, <2>2, <2>3
<1>14. Indexed'
  BY <1>0, <1>1, <1>10, <1>11 DEF DeliveryInv, Indexed
<1>15. Opening' /\ Saving' /\ Telling'
  BY <1>0, <1>1, <1>6, <1>10, <1>11 DEF Opening, Saving, Telling, Lane!Lacking, Fit, Lane!Final
<1>16. Slotted'
  <2> SUFFICES ASSUME NEW u \in Lane!Tokens, u[1] = "final"
               PROVE  /\ u[2] > state.round => spaces'[u].st = "none"
                      /\ u[2] = state.round /\ u[3] > Len(state.finals) + 1 => spaces'[u].st = "none"
                      /\ u[2] = state.round /\ spaces'[u].st # "none" =>
                            /\ spaces'[u].prov # Author
                            /\ \A i \in DOMAIN state.finals : i < u[3] => Lane!Final(i).prov # spaces'[u].prov
    BY <1>0 DEF Slotted, Lane!Final
  <2>1. CASE u # t \/ spaces'[t] = spaces[t]
    BY <1>0, <1>11, <2>1 DEF Slotted
  <2>2. CASE u = t /\ Lane!Free # {} /\ spaces'[t].prov = Lane!Selected
    <3>1. state.stage = "finals" /\ t = <<"final", state.round, Len(state.finals) + 1>>
      BY <1>1, <2>2, LackingIs
    <3>2. Fit(Lane!Selected)
      BY <1>6, <2>2, <3>1 DEF p
    <3>3. state.finals \in Seq(PipelineRun) /\ state.round \in Nat
      BY <1>0, CountersAre DEF PipelineShape, DeliveryState
    <3>4. t[2] = state.round /\ t[3] = Len(state.finals) + 1
      BY <3>1
    <3>5. ~(t[2] > state.round) /\ ~(t[3] > Len(state.finals) + 1)
      BY <3>3, <3>4
    <3> QED
      BY <2>2, <3>2, <3>5 DEF Fit
  <2> QED
    BY <1>11, <2>1, <2>2
<1>17. Lane!AwaitedStays'
  <2>0. Lane!Pending' = Lane!Pending
    BY <1>0 DEF Lane!Pending, Lane!Final
  <2>1. \A u : spaces'[u].st = "archived" /\ u \in Lane!Tokens => spaces[u].st = "archived"
    BY <1>11
  <2>2. <<"review", 0, 0>> \in Lane!Tokens /\ <<"validation", 0, 0>> \in Lane!Tokens
    BY DEF Lane!Tokens
  <2>3. ASSUME NEW i \in DOMAIN state.finals, state.stage = "finals", Lane!Final(i).verdict = "none"
        PROVE  spaces'[<<"final", state.round, i>>].st # "archived"
    <3>1. <<"final", state.round, i>> \in Lane!Tokens
      BY <2>3, AwaitedToken
    <3> QED
      BY <2>1, <2>3, <3>1 DEF DeliveryInv, Lane!AwaitedStays
  <2> QED
    BY <1>0, <2>0, <2>1, <2>2, <2>3 DEF DeliveryInv, Lane!AwaitedStays, Lane!Final
<1> QED
  BY <1>12, <1>13, <1>14, <1>15, <1>16, <1>17 DEF DeliveryInv

\* The run of the session that was prompted.
LEMMA SavedRun ==
  ASSUME DeliveryInv, Lane!SaveRun
  PROVE  \E run \in PipelineRun :
           /\ run.verdict = "none" /\ run.prov = tick.prov
           /\ Commissioned(run.nonce, run.prov, tick.id[1])
           /\ state' = CASE tick.id[1] = "review" -> [state EXCEPT !.review = run]
                         [] tick.id[1] = "final" -> [state EXCEPT !.finals = Append(@, run)]
                         [] OTHER -> [state EXCEPT !.proof = run]
<1>1. tick.pc = "save"
  BY DEF Lane!SaveRun, Lane!At
<1>2. PICK d \in desk : d.nonce = spent.sessions /\ d.prov = tick.prov /\ d.space = tick.id
  BY <1>1 DEF DeliveryInv, Saving
<1>3. d \in DeliverySession /\ \A e \in desk : e.nonce = d.nonce => e = d
  BY DEF DeliveryInv, PipelineShape, Numbered
<1>4. (CHOOSE e \in desk : e.nonce = Lane!Nonce) = d
  BY <1>2, <1>3 DEF Lane!Nonce
<1> DEFINE run == [prov |-> d.prov, nonce |-> d.nonce, head |-> d.head, verdict |-> "none"]
<1>5. run \in PipelineRun /\ run.verdict = "none" /\ run.prov = tick.prov /\ run.nonce = d.nonce
  BY <1>2, <1>3 DEF DeliverySession, PipelineRun, RunVerdicts
<1>6. state' = CASE tick.id[1] = "review" -> [state EXCEPT !.review = run]
                 [] tick.id[1] = "final" -> [state EXCEPT !.finals = Append(@, run)]
                 [] OTHER -> [state EXCEPT !.proof = run]
  BY <1>4 DEF Lane!SaveRun
<1>7. Commissioned(run.nonce, run.prov, tick.id[1])
  BY <1>2, <1>5 DEF Commissioned
<1> HIDE DEF run
<1> QED
  BY <1>5, <1>6, <1>7

LEMMA SaveStep == ASSUME Lane!DeliveryBounds, DeliveryInv, Lane!SaveRun PROVE DeliveryInv'
<1>0. state \in DeliveryState /\ state.finals \in Seq(PipelineRun) /\ state.round \in Nat
  BY DEF DeliveryInv, PipelineShape, DeliveryState
<1>1. /\ UNCHANGED <<spaces, desk, posts, host, spent>> /\ tick.pc = "save"
      /\ tick' = [tick EXCEPT !.pc = "hygiene"]
  BY DEF Lane!SaveRun, Lane!At, Lane!Goto
<1>2. tick' \in DeliveryTick /\ Indexed' /\ Opening' /\ Saving' /\ Telling'
  BY <1>1, TickGoes
<1>3. PICK run \in PipelineRun :
         /\ run.verdict = "none" /\ run.prov = tick.prov
         /\ Commissioned(run.nonce, run.prov, tick.id[1])
         /\ state' = CASE tick.id[1] = "review" -> [state EXCEPT !.review = run]
                       [] tick.id[1] = "final" -> [state EXCEPT !.finals = Append(@, run)]
                       [] OTHER -> [state EXCEPT !.proof = run]
  BY SavedRun
<1>4. /\ tick.id \in Lane!Lacking /\ state.round < state.head + spent.sessions
      /\ tick.id \in Lane!Tokens => spaces[tick.id].st = "live"
      /\ state.stage = "finals" => Fit(tick.prov)
  BY <1>1 DEF DeliveryInv, Opening, Saving
<1>5. tick.id \in Lane!Tokens /\ spaces[tick.id].st = "live"
  BY <1>1, <1>4, OpenedIs
<1>6. ASSUME \/ /\ state' = [state EXCEPT !.review = run] /\ tick.id = <<"review", 0, 0>>
                /\ state.stage = "review"
             \/ /\ state' = [state EXCEPT !.proof = run] /\ tick.id = <<"validation", 0, 0>>
                /\ state.stage = "validation"
      PROVE  DeliveryInv'
  <2>1. /\ state' \in DeliveryState /\ state'.finals = state.finals /\ state'.round = state.round
        /\ state'.head = state.head /\ state'.stage = state.stage /\ state'.feedback = state.feedback
        /\ state'.merged = state.merged
        /\ \/ state'.proof = state.proof /\ state'.review = run /\ state.stage = "review"
              /\ tick.id = <<"review", 0, 0>>
           \/ state'.review = state.review /\ state'.proof = run /\ state.stage = "validation"
              /\ tick.id = <<"validation", 0, 0>>
    BY <1>0, <1>3, <1>6 DEF DeliveryState
  <2>2. PipelineShape' /\ Numbered'
    BY <1>1, <1>2, <2>1 DEF DeliveryInv, PipelineShape, Numbered
  <2>3. KnownRuns'
    BY <1>1, <1>3, <2>1 DEF DeliveryInv, KnownRuns, Commissioned, Lane!Final
  <2>4. Staged'
    BY <2>1 DEF DeliveryInv, Staged
  <2>5. Rounds' /\ Slotted'
    BY <1>1, <2>1 DEF DeliveryInv, Rounds, Slotted, Lane!Final
  <2>6. Earned' /\ MergeEarned'
    BY <1>1, <2>1 DEF DeliveryInv, Earned, MergeEarned, Lane!Final, Approvers
  <2>7. Lane!AwaitedStays'
    BY <1>1, <1>5, <2>1 DEF Lane!AwaitedStays
  <2> QED
    BY <1>2, <2>2, <2>3, <2>4, <2>5, <2>6, <2>7 DEF DeliveryInv
<1>7. CASE /\ state.stage = "finals" /\ Len(state.finals) < 2
           /\ \A i \in DOMAIN state.finals : Lane!Final(i).verdict = "approve"
           /\ tick.id = <<"final", state.round, Len(state.finals) + 1>>
  <2> DEFINE n == Len(state.finals) + 1
             f == Append(state.finals, run)
  <2>1. state' = [state EXCEPT !.finals = f]
    BY <1>3, <1>7
  <2>2. /\ f \in Seq(PipelineRun) /\ DOMAIN f = 1..n /\ Len(f) = n /\ n \in 1..2 /\ f[n] = run
        /\ DOMAIN state.finals = 1..(n - 1) /\ \A i \in DOMAIN state.finals : f[i] = state.finals[i]
    BY <1>0, <1>7
  <2>3. f # <<>>
    BY <2>2
  <2> HIDE DEF f
  <2>4. /\ state' \in DeliveryState /\ state'.finals = f /\ state'.round = state.round
        /\ state'.head = state.head /\ state'.stage = state.stage /\ state'.feedback = state.feedback
        /\ state'.merged = state.merged /\ state'.proof = state.proof /\ state'.review = state.review
    BY <1>0, <2>1, <2>2 DEF DeliveryState
  <2>5. \A i \in DOMAIN f : i = n \/ (i \in DOMAIN state.finals /\ i < n)
    BY <2>2
  <2>6. PipelineShape' /\ Numbered'
    BY <1>1, <1>2, <2>4 DEF DeliveryInv, PipelineShape, Numbered
  <2>7. KnownRuns'
    <3>1. \A i \in DOMAIN f : Commissioned(f[i].nonce, f[i].prov, "final")
      BY <1>3, <1>7, <2>2, <2>5 DEF DeliveryInv, KnownRuns, Lane!Final
    <3> QED
      BY <1>1, <2>4, <3>1 DEF DeliveryInv, KnownRuns, Commissioned, Lane!Final
  <2>8. Staged'
    BY <1>7, <2>2, <2>3, <2>4 DEF DeliveryInv, Staged
  <2>9. Rounds'
    BY <1>1, <1>4, <2>4 DEF DeliveryInv, Rounds
  <2>10. Earned'
    <3>1. run.prov # Author /\ \A i \in DOMAIN state.finals : Lane!Final(i).prov # run.prov
      BY <1>3, <1>4, <1>7 DEF Fit
    <3>2. \A i \in DOMAIN f : f[i].prov # Author /\ \A j \in DOMAIN f : i # j => f[i].prov # f[j].prov
      BY <2>2, <2>5, <3>1 DEF DeliveryInv, Earned, Lane!Final
    <3>3. \A i \in DOMAIN f : f[i].verdict = "approve" => f[i].prov \in Approvers(state.head)
      BY <1>3, <2>2, <2>5 DEF DeliveryInv, Earned, Lane!Final
    <3> QED
      BY <1>1, <2>4, <3>2, <3>3 DEF Earned, Lane!Final, Approvers
  <2>11. MergeEarned'
    BY <1>1, <2>4, MergeStays
  <2>12. Slotted'
    <3> SUFFICES ASSUME NEW t \in Lane!Tokens, t[1] = "final"
                 PROVE  /\ t[2] > state.round => spaces[t].st = "none"
                        /\ t[2] = state.round /\ t[3] > n + 1 => spaces[t].st = "none"
                        /\ t[2] = state.round /\ spaces[t].st # "none" =>
                              /\ spaces[t].prov # Author
                              /\ \A i \in DOMAIN f : i < t[3] => f[i].prov # spaces[t].prov
      BY <1>1, <2>2, <2>4 DEF Slotted, Lane!Final
    <3>0. t[3] \in Nat /\ n \in Nat
      BY <2>2 DEF Lane!Tokens, Lane!Slots
    <3>1. t[3] > n + 1 => t[3] > n
      BY <3>0
    <3>2. /\ t[2] > state.round => spaces[t].st = "none"
          /\ t[2] = state.round /\ t[3] > n => spaces[t].st = "none"
          /\ t[2] = state.round /\ spaces[t].st # "none" =>
                /\ spaces[t].prov # Author
                /\ \A i \in DOMAIN state.finals : i < t[3] => state.finals[i].prov # spaces[t].prov
      BY DEF DeliveryInv, Slotted, Lane!Final
    <3>3. ASSUME t[2] = state.round, spaces[t].st # "none", NEW i \in DOMAIN f, i < t[3]
          PROVE  f[i].prov # spaces[t].prov
      <4>1. i # n
        BY <3>0, <3>2, <3>3
      <4> QED
        BY <2>2, <2>5, <3>2, <3>3, <4>1
    <3> QED
      BY <3>1, <3>2, <3>3
  <2>13. Lane!AwaitedStays'
    <3>1. \A i \in DOMAIN f : f[i].verdict = "none" => spaces[<<"final", state.round, i>>].st # "archived"
      BY <1>5, <1>7, <2>2, <2>5 DEF Lane!Final
    <3> QED
      BY <1>1, <1>7, <2>4, <3>1 DEF Lane!AwaitedStays, Lane!Final
  <2> QED
    BY <1>2, <2>6, <2>7, <2>8, <2>9, <2>10, <2>11, <2>12, <2>13 DEF DeliveryInv
<1>8. CASE state.stage = "review" /\ tick.id = <<"review", 0, 0>>
  <2>1. state' = [state EXCEPT !.review = run]
    BY <1>3, <1>8
  <2> QED
    BY <1>6, <1>8, <2>1
<1>9. CASE state.stage = "validation" /\ tick.id = <<"validation", 0, 0>>
  <2>1. state' = [state EXCEPT !.proof = run]
    BY <1>3, <1>9
  <2> QED
    BY <1>6, <1>9, <2>1
<1> QED
  BY <1>4, <1>7, <1>8, <1>9, LackingIs

LEMMA TakeFinalStep == ASSUME Lane!DeliveryBounds, DeliveryInv, Lane!TakeFinal PROVE DeliveryInv'
<1>0. /\ state \in DeliveryState /\ state.finals \in Seq(PipelineRun) /\ state.round \in Nat
      /\ posts \subseteq PullReview /\ tick \in DeliveryTick
  BY DEF DeliveryInv, PipelineShape, DeliveryState
<1>1. UNCHANGED <<spaces, desk, posts, host, spent>> /\ tick.pc = "advance" /\ state.stage = "finals"
  BY DEF Lane!TakeFinal, Lane!At
<1>2. PICK k \in DOMAIN state.finals :
          /\ Lane!Judged(Lane!Final(k))
          /\ LET v == Lane!Verdict(Lane!Final(k))
                 s == [state EXCEPT !.finals[k].verdict = v]
             IN  IF v = "changes"
                 THEN state' = [s EXCEPT !.feedback = "saved"] /\ Lane!Goto("tell")
                 ELSE /\ Lane!Goto("hygiene")
                      /\ state' = IF k = 2 THEN [s EXCEPT !.stage = "merge"] ELSE s
  BY DEF Lane!TakeFinal
<1> DEFINE v == Lane!Verdict(Lane!Final(k))
           f == [state.finals EXCEPT ![k].verdict = v]
           s == [state EXCEPT !.finals = f]
<1>3. PICK p \in posts : p.nonce = Lane!Final(k).nonce /\ p.on = state.head /\ p.verdict = v
  <2>1. (CHOOSE p \in Lane!Attested(Lane!Final(k)) : TRUE) \in Lane!Attested(Lane!Final(k))
    BY <1>2 DEF Lane!Judged
  <2> QED
    BY <2>1 DEF Lane!Attested, Lane!Verdict
<1>4. v = "approve" => Lane!Final(k).prov \in Approvers(state.head)
  <2>1. PICK d \in desk : d.nonce = Lane!Final(k).nonce /\ d.prov = Lane!Final(k).prov /\ d.space[1] = "final"
    BY DEF DeliveryInv, KnownRuns, Commissioned
  <2>2. PICK e \in desk : e.nonce = p.nonce /\ e.prov = p.prov /\ e.space[1] = p.stage
    BY DEF DeliveryInv, KnownRuns, Commissioned
  <2>3. d = e
    BY <1>3, <2>1, <2>2 DEF DeliveryInv, Numbered
  <2> QED
    BY <1>3, <2>1, <2>2, <2>3 DEF Approvers
<1>5. v \in RunVerdicts
  BY <1>0, <1>3 DEF PullReview, RunVerdicts
<1>6. [state EXCEPT !.finals[k].verdict = v] = s
  BY <1>0 DEF DeliveryState
<1>7. \/ state' = [s EXCEPT !.feedback = "saved"] /\ tick' = [tick EXCEPT !.pc = "tell"]
      \/ state' = s /\ tick' = [tick EXCEPT !.pc = "hygiene"]
      \/ state' = [s EXCEPT !.stage = "merge"] /\ tick' = [tick EXCEPT !.pc = "hygiene"]
  BY <1>2, <1>6 DEF Lane!Goto
<1> HIDE DEF v
<1>8. /\ f \in Seq(PipelineRun) /\ DOMAIN f = DOMAIN state.finals /\ Len(f) = Len(state.finals) /\ f # <<>>
      /\ \A i \in DOMAIN f : f[i].prov = state.finals[i].prov /\ f[i].nonce = state.finals[i].nonce
      /\ \A i \in DOMAIN f : i # k => f[i] = state.finals[i]
      /\ f[k].verdict = v
  <2> DEFINE x == [state.finals[k] EXCEPT !.verdict = v]
  <2>1. k \in DOMAIN state.finals /\ state.finals[k] \in PipelineRun
    BY <1>0
  <2>2. /\ x \in PipelineRun /\ x.prov = state.finals[k].prov /\ x.nonce = state.finals[k].nonce
        /\ x.verdict = v
    BY <1>5, <2>1 DEF PipelineRun
  <2>3. f = [state.finals EXCEPT ![k] = x]
    OBVIOUS
  <2> HIDE DEF f, x
  <2>4. f \in Seq(PipelineRun) /\ DOMAIN f = DOMAIN state.finals /\ Len(f) = Len(state.finals) /\ f[k] = x
        /\ \A i \in DOMAIN f : i # k => f[i] = state.finals[i]
    BY <1>0, <2>1, <2>2, <2>3
  <2>5. f # <<>>
    BY <1>0, <2>1, <2>4
  <2> QED
    BY <2>2, <2>4, <2>5
<1> HIDE DEF f
<1>9. /\ s \in DeliveryState /\ s.finals = f /\ s.round = state.round /\ s.head = state.head
      /\ s.review = state.review /\ s.proof = state.proof /\ s.merged = state.merged
      /\ s.stage = state.stage /\ s.feedback = state.feedback
  BY <1>0, <1>8 DEF DeliveryState
<1> HIDE DEF s
<1>10. /\ state' \in DeliveryState /\ state'.finals = f /\ state'.round = state.round
       /\ state'.head = state.head /\ state'.review = state.review /\ state'.proof = state.proof
       /\ state'.merged = state.merged
       /\ \/ state'.stage = "finals" /\ state'.feedback = "saved" /\ tick' = [tick EXCEPT !.pc = "tell"]
          \/ /\ state'.stage \in {"finals", "merge"} /\ state'.feedback = state.feedback
             /\ tick' = [tick EXCEPT !.pc = "hygiene"]
  BY <1>1, <1>7, <1>9 DEF DeliveryState, DeliveryStages
<1>11. state.merged = 0 /\ state.feedback # "sent" /\ state.proof = Lane!NoRun
  BY <1>1 DEF DeliveryInv, Staged
<1>12. tick' \in DeliveryTick /\ Indexed' /\ Opening' /\ Saving' /\ Telling'
  <2>1. CASE tick' = [tick EXCEPT !.pc = "hygiene"]
    BY <1>1, <2>1, TickGoes
  <2>2. CASE tick' = [tick EXCEPT !.pc = "tell"] /\ state'.stage = "finals" /\ state'.feedback = "saved"
    <3>1. /\ tick' \in DeliveryTick /\ tick'.pc = "tell" /\ tick'.live = tick.live /\ tick'.gone = tick.gone
      BY <1>0, <2>2, GotoMoves
    <3> QED
      BY <1>1, <1>8, <1>10, <2>2, <3>1 DEF DeliveryInv, Indexed, Opening, Saving, Telling
  <2> QED
    BY <1>10, <2>1, <2>2
<1>13. PipelineShape' /\ Numbered'
  BY <1>1, <1>10, <1>12 DEF DeliveryInv, PipelineShape, Numbered
<1>14. KnownRuns'
  BY <1>1, <1>8, <1>10 DEF DeliveryInv, KnownRuns, Commissioned, Lane!Final
<1>15. Staged'
  BY <1>8, <1>10, <1>11 DEF DeliveryInv, Staged
<1>16. Rounds'
  <2>1. state.finals # <<>>
    OBVIOUS
  <2> QED
    BY <1>1, <1>10, <2>1 DEF DeliveryInv, Rounds
<1>17. Slotted'
  BY <1>1, <1>8, <1>10 DEF DeliveryInv, Slotted, Lane!Final
<1>18. Earned'
  <2>1. \A i \in DOMAIN f : f[i].verdict = "approve" => f[i].prov \in Approvers(state.head)
    BY <1>4, <1>8 DEF DeliveryInv, Earned, Lane!Final
  <2>2. \A i \in DOMAIN f : f[i].prov # Author /\ \A j \in DOMAIN f : i # j => f[i].prov # f[j].prov
    BY <1>8 DEF DeliveryInv, Earned, Lane!Final
  <2> QED
    BY <1>1, <1>10, <2>1, <2>2 DEF Earned, Lane!Final, Approvers
<1>19. MergeEarned'
  BY <1>10, <1>11 DEF MergeEarned
<1>20. Lane!AwaitedStays'
  <2>1. \A i \in DOMAIN f : f[i].verdict = "none" => spaces[<<"final", state.round, i>>].st # "archived"
    <3> SUFFICES ASSUME NEW i \in DOMAIN f, f[i].verdict = "none"
                 PROVE  spaces[<<"final", state.round, i>>].st # "archived"
      OBVIOUS
    <3>1. v # "none"
      BY <1>0, <1>3 DEF PullReview
    <3>2. state.finals[i].verdict = "none"
      BY <1>8, <3>1
    <3> QED
      BY <1>1, <1>8, <3>2 DEF DeliveryInv, Lane!AwaitedStays, Lane!Final
  <2> QED
    BY <1>1, <1>10, <2>1 DEF Lane!AwaitedStays, Lane!Final
<1> QED
  BY <1>12, <1>13, <1>14, <1>15, <1>16, <1>17, <1>18, <1>19, <1>20 DEF DeliveryInv

LEMMA LaneCounts == ASSUME NEW S PROVE Lane!Cardinality(S) = Cardinality(S)
BY DEF Lane!Cardinality, Cardinality

\* Two approved finals are of two providers.
LEMMA TwoFinals ==
  ASSUME DeliveryInv, Cardinality(Lane!Approved) = 2
  PROVE  \E p, q \in Approvers(state.head) \ {Author} : p # q
<1>1. PICK r, s \in Lane!Approved : r # s
  <2> SUFFICES ASSUME \A r, s \in Lane!Approved : r = s PROVE FALSE
    OBVIOUS
  <2>1. CASE Lane!Approved = {}
    BY <2>1, FS_EmptySet
  <2>2. CASE Lane!Approved # {}
    <3>1. PICK x \in Lane!Approved : TRUE
      BY <2>2
    <3>2. Lane!Approved = {x}
      BY <3>1
    <3> QED
      BY <3>2, FS_Singleton
  <2> QED
    BY <2>1, <2>2
<1>2. PICK i \in DOMAIN state.finals, j \in DOMAIN state.finals :
        Lane!Final(i).verdict = "approve" /\ Lane!Final(j).verdict = "approve" /\ i # j
  BY <1>1 DEF Lane!Approved
<1>3. /\ Lane!Final(i).prov # Lane!Final(j).prov
      /\ {Lane!Final(i).prov, Lane!Final(j).prov} \subseteq Approvers(state.head) \ {Author}
  BY <1>2 DEF DeliveryInv, Earned
<1> QED
  BY <1>3

LEMMA MergeStep == ASSUME DeliveryInv, Lane!RecordMerge \/ Lane!MergeConflict PROVE DeliveryInv'
<1>0. state \in DeliveryState /\ tick \in DeliveryTick /\ host.head \in Nat /\ state.head >= 1
  BY CountersAre DEF DeliveryInv, PipelineShape, Rounds
<1>1. /\ UNCHANGED <<spaces, desk, posts, host, spent>> /\ tick.pc = "advance"
      /\ state.stage = "merge" /\ host.head = state.head /\ Cardinality(Lane!Approved) = 2
  BY LaneCounts DEF Lane!RecordMerge, Lane!MergeConflict, Lane!AtMerge, Lane!At
<1>2. state.finals # <<>> /\ state.merged = 0 /\ state.proof = Lane!NoRun /\ state.feedback # "sent"
  BY <1>1 DEF DeliveryInv, Staged
<1>3. CASE Lane!RecordMerge
  <2> DEFINE a == [state EXCEPT !.merged = host.head]
  <2>1. /\ a \in DeliveryState /\ a.finals = state.finals /\ a.round = state.round /\ a.head = state.head
        /\ a.review = state.review /\ a.proof = state.proof /\ a.merged = state.head
        /\ a.feedback = state.feedback
    BY <1>0, <1>1 DEF DeliveryState
  <2>2. state' = [a EXCEPT !.stage = "validation"] /\ tick' = [tick EXCEPT !.pc = "hygiene"]
    BY <1>3 DEF Lane!RecordMerge, Lane!Goto
  <2> HIDE DEF a
  <2>3. /\ state' \in DeliveryState /\ state'.finals = state.finals /\ state'.round = state.round
        /\ state'.head = state.head /\ state'.review = state.review /\ state'.proof = state.proof
        /\ state'.merged = state.head /\ state'.feedback = state.feedback /\ state'.stage = "validation"
    BY <2>1, <2>2 DEF DeliveryState, DeliveryStages
  <2>4. tick' \in DeliveryTick /\ Indexed' /\ Opening' /\ Saving' /\ Telling'
    BY <1>1, <2>2, TickGoes
  <2>5. PipelineShape' /\ Numbered' /\ KnownRuns' /\ Rounds' /\ Slotted' /\ Earned'
    BY <1>1, <2>3, <2>4, FinalsStay DEF SameRun
  <2>6. Staged'
    <3>1. state.head # 0
      BY <1>0, CountersAre DEF DeliveryInv
    <3> QED
      BY <1>2, <2>3, <3>1 DEF DeliveryInv, Staged
  <2>7. MergeEarned'
    BY <1>1, <2>3, TwoFinals DEF MergeEarned, Approvers
  <2>8. Lane!AwaitedStays'
    BY <1>2, <2>3 DEF Lane!AwaitedStays, Lane!Pending
  <2> QED
    BY <2>4, <2>5, <2>6, <2>7, <2>8 DEF DeliveryInv
<1>4. CASE Lane!MergeConflict
  <2>1. state' = [state EXCEPT !.feedback = "saved"] /\ tick' = [tick EXCEPT !.pc = "tell"]
    BY <1>4 DEF Lane!MergeConflict, Lane!Goto
  <2>2. /\ state' \in DeliveryState /\ state'.finals = state.finals /\ state'.round = state.round
        /\ state'.head = state.head /\ state'.review = state.review /\ state'.proof = state.proof
        /\ state'.merged = state.merged /\ state'.feedback = "saved" /\ state'.stage = "merge"
    BY <1>0, <1>1, <2>1 DEF DeliveryState
  <2>3. /\ tick' \in DeliveryTick /\ tick'.pc = "tell" /\ tick'.live = tick.live /\ tick'.gone = tick.gone
    BY <1>0, <2>1, GotoMoves
  <2>4. PipelineShape' /\ Numbered' /\ KnownRuns' /\ Rounds' /\ Slotted' /\ Earned'
    BY <1>1, <2>2, <2>3, FinalsStay DEF SameRun
  <2>5. Indexed' /\ Opening' /\ Saving' /\ Telling'
    BY <1>1, <1>2, <2>2, <2>3 DEF DeliveryInv, Indexed, Opening, Saving, Telling
  <2>6. Staged' /\ Lane!AwaitedStays' /\ MergeEarned'
    BY <1>2, <2>2 DEF DeliveryInv, Staged, Lane!AwaitedStays, MergeEarned
  <2> QED
    BY <2>4, <2>5, <2>6 DEF DeliveryInv
<1> QED
  BY <1>3, <1>4

LEMMA DeliveryInit == ASSUME Lane!DeliveryBounds PROVE Lane!Init => DeliveryInv
<1> SUFFICES ASSUME Lane!Init PROVE DeliveryInv
  OBVIOUS
<1>1. /\ state = [stage |-> Lane!FirstStage, round |-> 1, head |-> 1, review |-> Lane!NoRun,
                  finals |-> <<>>, proof |-> Lane!NoRun, feedback |-> "none", merged |-> 0]
      /\ spaces = [t \in Lane!Tokens |-> [st |-> "none", prov |-> "none"]] /\ desk = {} /\ posts = {}
      /\ host = [state |-> "open", head |-> 1, conflict |-> FALSE, green |-> FALSE]
      /\ tick = Lane!Idle
      /\ spent = [k \in {"pushes", "changes", "sessions", "trouble"} |-> IF k = "pushes" THEN 1 ELSE 0]
  BY DEF Lane!Init
<1>2. Lane!FirstStage \in {"review", "finals"}
  BY DEF Lane!FirstStage
<1>3. PipelineShape
  <2>1. <<>> \in Seq(PipelineRun)
    OBVIOUS
  <2>2. state \in DeliveryState
    BY <1>1, <1>2, <2>1, NothingYet DEF DeliveryState, DeliveryStages
  <2>3. spaces \in [Lane!Tokens -> [st : {"none", "live", "archived"}, prov : Provs]]
    BY <1>1, NothingYet
  <2>4. host \in PullRequest /\ spent \in [{"pushes", "changes", "sessions", "trouble"} -> Nat]
    BY <1>1 DEF PullRequest
  <2> QED
    BY <1>1, <2>2, <2>3, <2>4, IdleTick DEF PipelineShape
<1>4. Numbered /\ KnownRuns
  BY <1>1 DEF Numbered, KnownRuns
<1>5. Staged /\ Earned /\ MergeEarned
  BY <1>1, <1>2 DEF Staged, Earned, MergeEarned
<1>6. Rounds
  <2>1. state.head = 1 /\ host.head = 1 /\ state.round = 1 /\ state.finals = <<>>
    BY <1>1
  <2>2. spent.pushes = 1 /\ spent.sessions = 0
    BY <1>1
  <2>3. 0 <= MaxSessions
    BY BoundsAre
  <2> QED
    BY <2>1, <2>2, <2>3 DEF Rounds
<1>7. Indexed /\ Opening /\ Saving /\ Telling
  BY <1>1, IdleTick DEF Indexed, Opening, Saving, Telling
<1>8. Slotted
  <2>1. \A t \in Lane!Tokens : spaces[t].st = "none"
    BY <1>1
  <2> QED
    BY <2>1 DEF Slotted
<1>9. Lane!AwaitedStays
  BY <1>1, <1>2 DEF Lane!AwaitedStays, Lane!Pending
<1> QED
  BY <1>3, <1>4, <1>5, <1>6, <1>7, <1>8, <1>9 DEF DeliveryInv

LEMMA StutterStep ==
  ASSUME DeliveryInv, UNCHANGED <<state, spaces, desk, posts, host, tick, spent>>
  PROVE  DeliveryInv'
<1>1. PipelineShape' /\ Numbered' /\ SameSessions
  BY DEF DeliveryInv, PipelineShape, Numbered, SameSessions
<1>2. Indexed' /\ Opening' /\ Saving' /\ Telling'
  BY <1>1, TickWaits
<1>3. host.head <= host'.head /\ host'.head <= spent'.pushes /\ spent.pushes <= spent'.pushes
  BY CountersAre DEF DeliveryInv, Rounds
<1> QED
  BY <1>1, <1>2, <1>3, WorldMoves

LEMMA DeliveryStep == ASSUME Lane!DeliveryBounds, DeliveryInv, [Lane!Next]_(Lane!vars) PROVE DeliveryInv'
<1>1. CASE Lane!TickBegins \/ Lane!HeadChanged \/ Lane!HeadSteady \/ Lane!OpenWorkspace
        \/ Lane!NoRunNow \/ Lane!PromptRun
  BY <1>1, BeginsStep, HeadChangedStep, HeadSteadyStep, OpenStep, WaitsStep, PromptStep
<1>2. CASE Lane!SaveRun \/ Lane!KeepAlive \/ Lane!TakeReview \/ Lane!TakeFinal \/ Lane!TellAuthor
        \/ Lane!SaveTold
  BY <1>2, SaveStep, KeepsStep, TakeReviewStep, TakeFinalStep, TellStep, SaveToldStep
<1>3. CASE Lane!RecordMerge \/ Lane!MergeConflict \/ Lane!TakeProof \/ Lane!Waits \/ Lane!Hygiene
  BY <1>3, MergeStep, TakeProofStep, WaitsStep, HygieneStep
<1>4. CASE Lane!HygieneFails \/ Lane!CallFails \/ Lane!ReviewerPosts \/ Lane!ValidatorReports
        \/ Lane!AgentStops
  BY <1>4, FailsStep, ReviewersStep
<1>5. CASE Lane!Pushes \/ Lane!AuthorEnds \/ Lane!OwnerMerges \/ Lane!Conflicts
        \/ Lane!MergedCiPasses \/ Lane!Outage \/ Lane!OutageEnds
  BY <1>5, GithubStep
<1>6. CASE UNCHANGED Lane!vars
  <2>1. UNCHANGED <<state, spaces, desk, posts, host, tick, spent>>
    BY <1>6 DEF Lane!vars
  <2> QED
    BY <2>1, StutterStep
<1> QED
  BY <1>1, <1>2, <1>3, <1>4, <1>5, <1>6 DEF Lane!Next, Lane!Tick

\* The approvals of a merged head are of two providers beside the author's.
LEMMA TwoApprovals == ASSUME Lane!DeliveryBounds PROVE DeliveryInv => Lane!MergeHasTwoFinals
<1> SUFFICES ASSUME DeliveryInv, state.merged # 0
             PROVE  Cardinality(Approvers(state.merged) \ {Author}) >= 2
  BY LaneCounts DEF Lane!MergeHasTwoFinals, Approvers
<1> DEFINE S == Approvers(state.merged) \ {Author}
<1>1. PICK p, q \in S : p # q
  BY DEF DeliveryInv, MergeEarned
<1>2. IsFiniteSet(Provs)
  <2>1. IsFiniteSet(1..Len(Rotation))
    BY FS_Interval DEF Lane!DeliveryBounds
  <2>2. IsFiniteSet({Rotation[i] : i \in 1..Len(Rotation)})
    <3> DEFINE N == 1..Len(Rotation)
               P == {Rotation[i] : i \in N}
               nth == [i \in N |-> Rotation[i]]
    <3>1. nth \in Surjection(N, P)
      BY DEF Surjection
    <3> HIDE DEF nth
    <3> QED
      BY <2>1, <3>1, FS_Surjection
  <2> QED
    BY <2>2, FS_AddElement DEF Provs
<1>3. S \subseteq Provs
  BY DEF DeliveryInv, PipelineShape, Approvers, PullReview
<1>4. IsFiniteSet(S)
  BY <1>2, <1>3, FS_Subset
<1>5. Cardinality({p, q}) = 2
  <2>1. IsFiniteSet({p}) /\ Cardinality({p}) = 1
    BY FS_Singleton
  <2>2. Cardinality({p} \cup {q}) = Cardinality({p}) + 1
    BY <1>1, <2>1, FS_AddElement
  <2>3. {p} \cup {q} = {p, q}
    OBVIOUS
  <2> QED
    BY <2>1, <2>2, <2>3
<1>6. Cardinality({p, q}) <= Cardinality(S)
  BY <1>4, FS_Subset
<1>7. Cardinality(S) \in Nat
  BY <1>4, FS_CardinalityType
<1> QED
  BY <1>5, <1>6, <1>7

LEMMA DeliveryInvariance == ASSUME Lane!DeliveryBounds PROVE Lane!Spec => []DeliveryInv
<1>1. DeliveryInv /\ [Lane!Next]_(Lane!vars) => DeliveryInv'
  BY DeliveryStep
<1> QED
  BY <1>1, DeliveryInit, PTL DEF Lane!Spec

\* A merge is adopted only for a head that two providers beside the author's approved, for any rotation,
\* pushes, reviews, failed calls and deaths of the pipeline.
THEOREM AdoptedMergesAreApproved ==
  ASSUME Lane!DeliveryBounds PROVE Lane!Spec => []Lane!MergeHasTwoFinals
BY DeliveryInvariance, TwoApprovals, PTL

\* No workspace is archived while the pipeline waits for the answer of its session.
THEOREM AwaitedWorkspacesStay ==
  ASSUME Lane!DeliveryBounds PROVE Lane!Spec => []Lane!AwaitedStays
<1>1. DeliveryInv => Lane!AwaitedStays
  BY DEF DeliveryInv
<1> QED
  BY <1>1, DeliveryInvariance, PTL

-----------------------------------------------------------------------------
\* What was adopted is a head that the pull request has had.
MergedKnown == state.merged <= host.head

LEMMA MergedStays ==
  ASSUME DeliveryInv, [Lane!Next]_(Lane!vars)
  PROVE  state'.merged = state.merged \/ (state'.merged = host.head /\ host' = host)
<1>1. state = [field \in {"stage", "round", "head", "review", "finals", "proof", "feedback", "merged"} |-> state[field]]
  BY DEF DeliveryInv, PipelineShape, DeliveryState
<1>2. CASE UNCHANGED state
  BY <1>2
<1>3. CASE Lane!HeadChanged
  BY <1>1, <1>3 DEF Lane!HeadChanged, Lane!StartOver
<1>4. CASE Lane!HeadSteady
  <2>1. [state EXCEPT !.stage = "finals", !.feedback = "none"].merged = state.merged
    BY <1>1
  <2>2. Lane!NextRound.merged = state.merged
    BY <1>1 DEF Lane!NextRound
  <2> QED
    BY <1>4, <2>1, <2>2 DEF Lane!HeadSteady
<1>5. CASE Lane!SaveRun
  <2>1. \A r : /\ [state EXCEPT !.review = r].merged = state.merged
               /\ [state EXCEPT !.finals = Append(@, r)].merged = state.merged
               /\ [state EXCEPT !.proof = r].merged = state.merged
    BY <1>1
  <2>2. PICK r : state' = CASE tick.id[1] = "review" -> [state EXCEPT !.review = r]
                      [] tick.id[1] = "final" -> [state EXCEPT !.finals = Append(@, r)]
                      [] OTHER -> [state EXCEPT !.proof = r]
    BY <1>5 DEF Lane!SaveRun
  <2> QED
    BY <2>1, <2>2
<1>6. CASE Lane!TakeReview
  BY <1>1, <1>6 DEF Lane!TakeReview
<1>7. CASE Lane!TakeFinal
  BY <1>1, <1>7 DEF Lane!TakeFinal
<1>8. CASE Lane!SaveTold
  BY <1>1, <1>8 DEF Lane!SaveTold
<1>9. CASE Lane!RecordMerge
  BY <1>1, <1>9 DEF Lane!RecordMerge
<1>10. CASE Lane!MergeConflict
  BY <1>1, <1>10 DEF Lane!MergeConflict
<1>11. CASE Lane!TakeProof
  BY <1>1, <1>11 DEF Lane!TakeProof
<1> QED
  BY <1>2, <1>3, <1>4, <1>5, <1>6, <1>7, <1>8, <1>9, <1>10, <1>11 
  DEF Lane!Next, Lane!Tick, Lane!TickBegins, Lane!OpenWorkspace, Lane!NoRunNow, Lane!PromptRun, Lane!KeepAlive,
      Lane!TellAuthor, Lane!Waits, Lane!Hygiene, Lane!HygieneFails, Lane!CallFails, Lane!ReviewerPosts,
      Lane!ValidatorReports, Lane!AgentStops, Lane!Pushes, Lane!AuthorEnds, Lane!OwnerMerges, Lane!Conflicts,
      Lane!MergedCiPasses, Lane!Outage, Lane!OutageEnds, Lane!vars

LEMMA HeadsAdvance ==
  ASSUME DeliveryInv, [Lane!Next]_(Lane!vars)
  PROVE  host.head <= host'.head
<1>1. host \in PullRequest /\ host.head \in Nat /\ spent.pushes \in Nat /\ host.head <= spent.pushes
  BY CountersAre DEF DeliveryInv, PipelineShape, Rounds
<1>2. CASE host' = host
  BY <1>1, <1>2
<1>3. CASE Lane!Pushes
  <2> DEFINE h == [host EXCEPT !.head = spent.pushes + 1]
  <2>1. h.head = spent.pushes + 1 /\ h = [field \in {"state", "head", "conflict", "green"} |-> h[field]]
    BY <1>1 DEF PullRequest
  <2>2. host' = [h EXCEPT !.conflict = FALSE]
    BY <1>3 DEF Lane!Pushes
  <2> HIDE DEF h
  <2>3. host'.head = spent.pushes + 1
    BY <2>1, <2>2
  <2> QED
    BY <1>1, <2>3
<1>4. CASE Lane!OwnerMerges \/ Lane!Conflicts \/ Lane!MergedCiPasses
  <2>1. host'.head = host.head
    BY <1>1, <1>4 DEF Lane!OwnerMerges, Lane!Conflicts, Lane!MergedCiPasses, PullRequest
  <2> QED
    BY <1>1, <2>1
<1> QED
  BY <1>2, <1>3, <1>4
  DEF Lane!Next, Lane!Tick, Lane!TickBegins, Lane!OpenWorkspace, Lane!NoRunNow, Lane!PromptRun, Lane!KeepAlive,
      Lane!TellAuthor, Lane!Waits, Lane!Hygiene, Lane!HygieneFails, Lane!CallFails, Lane!ReviewerPosts,
      Lane!ValidatorReports, Lane!AgentStops, Lane!AuthorEnds, Lane!Outage, Lane!OutageEnds, Lane!vars,
      Lane!HeadChanged, Lane!HeadSteady, Lane!SaveRun, Lane!TakeReview, Lane!TakeFinal, Lane!SaveTold,
      Lane!RecordMerge, Lane!MergeConflict, Lane!TakeProof

LEMMA MergedKnownInit == Lane!Init => MergedKnown
BY DEF Lane!Init, MergedKnown

LEMMA MergedKnownStep ==
  ASSUME DeliveryInv, MergedKnown, DeliveryInv', [Lane!Next]_(Lane!vars)
  PROVE  MergedKnown'
<1>1. /\ host.head \in Nat /\ host'.head \in Nat /\ state.merged \in Nat /\ state'.merged \in Nat
  BY CountersAre DEF DeliveryInv, PipelineShape, PullRequest, DeliveryState
<1> QED
  BY <1>1, MergedStays, HeadsAdvance DEF MergedKnown

LEMMA DeliveryTypes ==
  ASSUME Lane!DeliveryBounds, DeliveryInv, MergedKnown
  PROVE  Lane!TypeOK
<1>1. /\ MaxPushes \in Nat \ {0} /\ host.head \in Nat /\ state.head \in Nat /\ state.merged \in Nat
      /\ spent.pushes \in Nat
  BY CountersAre DEF Lane!DeliveryBounds, DeliveryInv
<1>2. host.head <= MaxPushes /\ 1 <= state.head /\ state.head <= host.head /\ state.merged <= host.head
  BY <1>1 DEF DeliveryInv, Rounds, MergedKnown
<1>3. state.head \in Lane!Heads /\ state.merged \in {0} \cup Lane!Heads
  BY <1>1, <1>2 DEF Lane!Heads
<1>4. state.stage \in DeliveryStages /\ Len(state.finals) <= 2
  BY DEF DeliveryInv, PipelineShape, DeliveryState, Staged
<1>5. \A r \in Lane!Runs \ {Lane!NoRun} : \E d \in desk : d.nonce = r.nonce /\ d.prov = r.prov
  BY DEF DeliveryInv, KnownRuns, Commissioned, Lane!Runs
<1>6. \A t \in Lane!Tokens : spaces[t].st \in {"none", "live", "archived"}
  BY DEF DeliveryInv, PipelineShape
<1> QED
  BY <1>3, <1>4, <1>5, <1>6 DEF Lane!TypeOK, DeliveryStages

-----------------------------------------------------------------------------
(***************************************************************************)
(* The dispatch.  That a lane gets one workspace and one first prompt      *)
(* rests on what a tick believes of the lanes it may still act on: it      *)
(* proved their absence, or read them, when it began, and nobody else      *)
(* creates or prompts; what it did itself it has put right, and what       *)
(* failed it does not touch again.  Between two ticks the ledger tells an  *)
(* agent without its prompt from one that was restarted.                   *)
(***************************************************************************)
CONSTANTS
    Lanes,        \* the lanes, in order
    Providers,    \* their providers, in order
    Wants, After, \* per lane: the provider it asks for, the lanes it waits for
    MaxActive,    \* lanes that may work at once, for every provider
    MaxNudges,    \* nudges, or failed first prompts, before a lane is left alone
    MaxLost       \* failed calls, deaths of the process, agents that stop

VARIABLES space, ledger, paused, turn, made, given, lost

Dispatch == INSTANCE LaneDispatch WITH MaxTrouble <- MaxLost, tick <- turn, asked <- given,
    trouble <- lost

LaneProviders == Dispatch!Names \cup {"none"} \cup {Wants[l] : l \in Dispatch!Ids}
LastActions == {"none", "nudge", "restart", "nudge_failed", "restart_failed", "prompt", "prompt_failed",
                "create", "create_failed"}
LaneReads == {"unread", "unknown", "not_created", "initializing", "working", "paused", "done"}
TurnPhases == {"idle", "read", "decide", "restart", "nudge", "prompt", "create", "first"}
LaneSpaces == [prov : Dispatch!Names \cup {"none"}, st : {"none", "idle", "working", "done"}, heard : BOOLEAN,
               rested : BOOLEAN]
LaneRows == [last : LastActions, nudges : Nat, failures : Nat]
LaneTicks == [pc : TurnPhases, listed : SUBSET Dispatch!Ids, snap : [Dispatch!Ids -> LaneReads],
              prov : [Dispatch!Ids -> LaneProviders],
          failed : SUBSET Dispatch!Ids, used : SUBSET Dispatch!Names,
          act : Dispatch!Acts \cup {Dispatch!NoAct}]
DispatchTypes ==
    /\ space \in [Dispatch!Ids -> LaneSpaces] /\ ledger \in [Dispatch!Ids -> LaneRows] /\ turn \in LaneTicks
    /\ made \in [Dispatch!Ids -> 0..1] /\ given \in [Dispatch!Ids -> 0..1]

\* A lane has a workspace if one was made for it; only an agent there has the prompt, and if it
\* seems never to have had one it is because its lane was restarted.
Orphaned(l) == ledger[l].last \in {"create_failed", "prompt_failed"}
LaneIsKnown(l) ==
    /\ made[l] = 1 <=> space[l].st # "none"
    /\ given[l] = 1 => made[l] = 1 /\ (space[l].heard \/ ~Orphaned(l))
\* What a tick believes of a lane it may still act on.
Believed(l) ==
    /\ turn.snap[l] = "not_created" => made[l] = 0
    /\ turn.snap[l] \in {"initializing", "working", "paused", "done"} => made[l] = 1
    /\ turn.snap[l] = "initializing" /\ given[l] = 1 => ~Orphaned(l)
Begun(l) == turn.pc = "first" /\ l = turn.act.lane
TickKnows ==
    /\ turn.pc # "idle" => \A l \in Dispatch!Ids \ turn.failed : Believed(l) \/ Begun(l)
    /\ turn.pc = "read" => \A l \in Dispatch!Ids : l \in turn.listed <=> made[l] = 1
\* What the action in hand is for.
ActFits ==
    /\ turn.pc \in {"restart", "nudge", "prompt", "create", "first"} => turn.act # Dispatch!NoAct /\ turn.act.lane \in Dispatch!Ids
    /\ turn.pc \in {"restart", "nudge", "prompt", "first"} => made[turn.act.lane] = 1
    /\ turn.pc = "create" => made[turn.act.lane] = 0
    /\ turn.pc \in {"prompt", "first"} => given[turn.act.lane] = 0
DispatchInv == DispatchTypes /\ (\A l \in Dispatch!Ids : LaneIsKnown(l)) /\ TickKnows /\ ActFits

LEMMA DispatchInit == Dispatch!Init => DispatchInv
BY DEF Dispatch!Init, DispatchInv, DispatchTypes, LaneSpaces, LaneRows, LaneTicks, LaneProviders,
       LastActions, LaneReads, TurnPhases, Dispatch!Acts,
       Dispatch!Idle, Dispatch!NoAct, LaneIsKnown, TickKnows, ActFits

LEMMA IdleKnows ==
  ASSUME DispatchInv, turn' = Dispatch!Idle, UNCHANGED <<space, ledger, made, given>>
  PROVE  DispatchInv'
<1>1. Dispatch!Idle \in LaneTicks /\ Dispatch!Idle.pc = "idle"
  BY DEF LaneTicks, LaneReads, TurnPhases, LaneProviders, Dispatch!Acts, Dispatch!Idle
<1> QED
  BY <1>1 DEF DispatchInv, DispatchTypes, LaneIsKnown, TickKnows, ActFits, Orphaned

LEMMA DBegins == ASSUME DispatchInv, Dispatch!TickBegins PROVE DispatchInv'
<1>1. turn' \in LaneTicks /\ turn'.pc = "read" /\ turn'.listed = {l \in Dispatch!Ids : space[l].st # "none"}
      /\ \A l \in Dispatch!Ids : turn'.snap[l] = "unread"
  BY DEF Dispatch!TickBegins, LaneTicks, LaneReads, TurnPhases, LaneProviders, Dispatch!Acts, Dispatch!Idle
<1>2. UNCHANGED <<space, ledger, made, given>>
  BY DEF Dispatch!TickBegins
<1> QED
  BY <1>1, <1>2 DEF DispatchInv, DispatchTypes, LaneIsKnown, TickKnows, ActFits, Believed, Orphaned

LEMMA DReads == ASSUME DispatchInv, Dispatch!ReadLane PROVE DispatchInv'
<1> DEFINE i == CHOOSE n \in 1..Len(Lanes) :
                   turn.snap[Lanes[n]] = "unread" /\ \A m \in 1..(n - 1) : turn.snap[Lanes[m]] # "unread"
           l == Lanes[i]
<1>1. PICK ok \in BOOLEAN :
         turn' = [turn EXCEPT !.snap[l] = Dispatch!Snapshot(l, ok),
                    !.prov[l] = IF l \in turn.listed THEN space[l].prov
                                ELSE IF Wants[l] = "any" THEN "none" ELSE Wants[l],
                    !.pc = IF i = Len(Lanes) THEN "decide" ELSE "read"]
  BY DEF Dispatch!ReadLane
<1> HIDE DEF l, i
<1> DEFINE p == IF l \in turn.listed THEN space[l].prov ELSE IF Wants[l] = "any" THEN "none" ELSE Wants[l]
           sn == [turn.snap EXCEPT ![l] = Dispatch!Snapshot(l, ok)]
           pr == [turn.prov EXCEPT ![l] = p]
           q == IF i = Len(Lanes) THEN "decide" ELSE "read"
<1>2. turn' = [[[turn EXCEPT !.snap = sn] EXCEPT !.prov = pr] EXCEPT !.pc = q]
  BY <1>1 DEF DispatchInv, DispatchTypes, LaneTicks
<1>3. l \in Dispatch!Ids => Dispatch!Snapshot(l, ok) \in LaneReads /\ p \in LaneProviders
  BY DEF DispatchInv, DispatchTypes, LaneTicks, LaneSpaces, Dispatch!Snapshot, Dispatch!Seen, LaneReads,
         LaneProviders
<1>4. /\ sn \in [Dispatch!Ids -> LaneReads] /\ pr \in [Dispatch!Ids -> LaneProviders]
      /\ q \in {"decide", "read"}
  BY <1>3 DEF DispatchInv, DispatchTypes, LaneTicks
<1>5. \A k \in Dispatch!Ids : sn[k] = IF k = l THEN Dispatch!Snapshot(l, ok) ELSE turn.snap[k]
  BY DEF DispatchInv, DispatchTypes, LaneTicks
<1> HIDE DEF p, sn, pr, q
<1>6. /\ turn' \in LaneTicks /\ turn'.pc \in {"decide", "read"} /\ turn'.snap = sn
      /\ turn'.listed = turn.listed /\ turn'.failed = turn.failed
  BY <1>2, <1>4 DEF DispatchInv, DispatchTypes, LaneTicks, TurnPhases
<1>7. UNCHANGED <<space, ledger, made, given>> /\ turn.pc = "read"
  BY DEF Dispatch!ReadLane, Dispatch!At
<1>8. \A k \in Dispatch!Ids : k \in turn.listed <=> made[k] = 1
  BY <1>7 DEF DispatchInv, TickKnows
<1>9. ASSUME NEW k \in Dispatch!Ids \ turn.failed PROVE Believed(k)'
  <2>1. CASE k # l
    BY <2>1, <1>5, <1>6, <1>7 DEF DispatchInv, TickKnows, Believed, Begun, Orphaned
  <2>2. CASE k = l
    <3>1. turn'.snap[k] = Dispatch!Snapshot(k, ok)
      BY <2>2, <1>5, <1>6
    <3>2. made[k] \in 0..1 /\ LaneIsKnown(k) /\ (k \in turn.listed <=> made[k] = 1)
      BY <1>8 DEF DispatchInv, DispatchTypes
    <3>3. space[k].heard \in BOOLEAN
      BY DEF DispatchInv, DispatchTypes, LaneSpaces
    <3>5. /\ Dispatch!Seen(k) = "not_created" => k \notin turn.listed
          /\ k \notin turn.listed => Dispatch!Seen(k) = "not_created"
          /\ Dispatch!Seen(k) = "initializing" => ~space[k].heard
      BY <3>3 DEF Dispatch!Seen
    <3>4. /\ Dispatch!Snapshot(k, ok) = "not_created" => k \notin turn.listed
          /\ Dispatch!Snapshot(k, ok) \in {"initializing", "working", "paused", "done"} => k \in turn.listed
          /\ Dispatch!Snapshot(k, ok) = "initializing" => ~space[k].heard
      BY <3>5 DEF Dispatch!Snapshot
    <3> QED
      BY <3>1, <3>2, <3>4, <1>7 DEF Believed, LaneIsKnown, Orphaned
  <2> QED
    BY <2>1, <2>2
<1> QED
  BY <1>6, <1>7, <1>8, <1>9 DEF DispatchInv, DispatchTypes, LaneIsKnown, Orphaned, TickKnows, ActFits

\* A candidate of a kind is a lane on which the action of that kind fits.
LEMMA CandidatesFit ==
  ASSUME DispatchInv, turn.pc = "decide", NEW k \in 1..4, NEW p, NEW c,
         NEW l \in Dispatch!Candidates(k, p, c)
  PROVE  /\ l \in Dispatch!Ids /\ (k < 4 => made[l] = 1) /\ (k = 4 => made[l] = 0)
         /\ k = 3 => given[l] = 0
<1>1. l \in Dispatch!Ids \ turn.failed /\ (k = 4 => turn.snap[l] = "not_created")
      /\ (k < 3 => turn.snap[l] = "paused")
      /\ (k = 3 => turn.snap[l] = "initializing" /\ Orphaned(l))
  BY DEF Dispatch!Candidates, Dispatch!Restarts, Dispatch!Nudges, Dispatch!Resting, Dispatch!Prompts,
         Dispatch!Creates, Dispatch!Ready, Orphaned
<1>2. Believed(l) /\ given[l] \in 0..1
  BY <1>1 DEF DispatchInv, DispatchTypes, TickKnows, Begun
<1> QED
  BY <1>1, <1>2 DEF Believed

LEMMA DDecides == ASSUME DispatchInv, Dispatch!Decide PROVE DispatchInv'
<1>1. UNCHANGED <<space, ledger, made, given>> /\ turn.pc = "decide"
  BY DEF Dispatch!Decide, Dispatch!At
<1>2. CASE turn' = Dispatch!Idle
  BY <1>1, <1>2, IdleKnows
<1>3. CASE turn' # Dispatch!Idle
  <2>0. PICK n \in 1..Len(Providers) : \E a \in Dispatch!Planned(n) : turn' = [turn EXCEPT !.act = a, !.pc = a.type]
    BY <1>3 DEF Dispatch!Decide
  <2>1. PICK a \in Dispatch!Planned(n) : turn' = [turn EXCEPT !.act = a, !.pc = a.type]
    BY <2>0
  <2>2. PICK k \in 1..4, i \in 1..Len(Lanes) :
           /\ a = [type |-> Dispatch!Kinds[k], lane |-> Lanes[i], prov |-> Providers[n]]
           /\ Lanes[i] \in Dispatch!Candidates(k, Providers[n], Dispatch!Claimed[n - 1])
    BY <2>1 DEF Dispatch!Planned, Dispatch!Choice, Dispatch!First
  <2>3. a \in Dispatch!Acts /\ a # Dispatch!NoAct
    <3>1. Lanes[i] \in Dispatch!Ids /\ Providers[n] \in Dispatch!Names
      BY DEF Dispatch!Ids, Dispatch!Names
    <3>2. Dispatch!Kinds[k] # "none"
      BY DEF Dispatch!Kinds
    <3> QED
      BY <2>2, <3>1, <3>2 DEF Dispatch!Acts, Dispatch!NoAct
  <2>4. /\ a.lane \in Dispatch!Ids
        /\ (k < 4 => made[a.lane] = 1) /\ (k = 4 => made[a.lane] = 0) /\ (k = 3 => given[a.lane] = 0)
    BY <2>2, <1>1, CandidatesFit
  <2>5. /\ k = 1 => a.type = "restart"
        /\ k = 2 => a.type = "nudge"
        /\ k = 3 => a.type = "prompt"
        /\ k = 4 => a.type = "create"
    BY <2>2 DEF Dispatch!Kinds
  <2>6. turn' = [[turn EXCEPT !.act = a] EXCEPT !.pc = a.type]
    BY <2>1 DEF DispatchInv, DispatchTypes, LaneTicks
  <2>7. a.type \in {"restart", "nudge", "prompt", "create"}
    BY <2>5
  <2>8. /\ turn' \in LaneTicks /\ turn'.act = a /\ turn'.pc = a.type /\ turn'.snap = turn.snap
        /\ turn'.failed = turn.failed
    BY <2>3, <2>6, <2>7 DEF DispatchInv, DispatchTypes, LaneTicks, TurnPhases
  <2>9. TickKnows'
    BY <2>7, <2>8, <1>1 DEF DispatchInv, TickKnows, Believed, Begun, Orphaned
  <2>10. ActFits'
    BY <2>3, <2>4, <2>5, <2>8, <1>1 DEF ActFits
  <2> QED
    BY <2>8, <2>9, <2>10, <1>1 DEF DispatchInv, DispatchTypes, LaneIsKnown, Orphaned
<1> QED
  BY <1>2, <1>3

\* The end of an action, on a lane that has its workspace: what a tick believes of the other lanes
\* is left alone, and what it believes of this one is either put right or given up.
LEMMA EndKnows ==
  ASSUME DispatchInv, turn.pc \in TurnPhases \ {"idle", "read"}, NEW l \in Dispatch!Ids,
         l = turn.act.lane, turn' \in LaneTicks,
         turn'.pc = "decide",
         \A k \in Dispatch!Ids \ {l} : turn'.snap[k] = turn.snap[k],
         \/ turn'.failed = turn.failed \cup {l}
         \/ turn'.failed = turn.failed /\ turn'.snap[l] \in {"paused", "working"} /\ made'[l] = 1,
         \A k \in Dispatch!Ids \ {l} : made'[k] = made[k] /\ given'[k] = given[k] /\ ledger'[k] = ledger[k]
  PROVE  TickKnows' /\ ActFits'
<1>1. ASSUME NEW k \in Dispatch!Ids \ turn'.failed PROVE Believed(k)'
  BY <1>1 DEF DispatchInv, TickKnows, Believed, Begun, Orphaned, TurnPhases
<1> QED
  BY <1>1 DEF TickKnows, ActFits

\* The tick after an action that was done, and after one that failed.
LEMMA DoneTick ==
  ASSUME DispatchInv, NEW what \in {"paused", "working"}, turn.act # Dispatch!NoAct,
         turn.act.lane \in Dispatch!Ids,
         turn' = [turn EXCEPT !.pc = "decide", !.used = @ \cup {turn.act.prov}, !.act = Dispatch!NoAct,
                                   !.snap[Dispatch!L] = what, !.prov[Dispatch!L] = turn.act.prov]
  PROVE  /\ turn' \in LaneTicks /\ turn'.pc = "decide" /\ turn'.failed = turn.failed
         /\ turn'.snap[turn.act.lane] = what
         /\ \A k \in Dispatch!Ids \ {turn.act.lane} : turn'.snap[k] = turn.snap[k]
<1>1. turn.act \in Dispatch!Acts /\ turn.act.prov \in Dispatch!Names
  BY DEF DispatchInv, DispatchTypes, LaneTicks, Dispatch!Acts
<1> DEFINE sn == [turn.snap EXCEPT ![Dispatch!L] = what]
           pr == [turn.prov EXCEPT ![Dispatch!L] = turn.act.prov]
           us == turn.used \cup {turn.act.prov}
<1>2. turn' = [[[[[turn EXCEPT !.pc = "decide"] EXCEPT !.used = us] EXCEPT !.act = Dispatch!NoAct] EXCEPT !.snap = sn]
                 EXCEPT !.prov = pr]
  BY DEF DispatchInv, DispatchTypes, LaneTicks
<1>3. /\ sn \in [Dispatch!Ids -> LaneReads] /\ pr \in [Dispatch!Ids -> LaneProviders]
      /\ us \in SUBSET Dispatch!Names
      /\ sn[turn.act.lane] = what
      /\ \A k \in Dispatch!Ids \ {turn.act.lane} : sn[k] = turn.snap[k]
  BY <1>1 DEF DispatchInv, DispatchTypes, LaneTicks, Dispatch!L, LaneReads, LaneProviders
<1> HIDE DEF sn, pr, us
<1> QED
  BY <1>2, <1>3 DEF DispatchInv, DispatchTypes, LaneTicks, TurnPhases, Dispatch!Acts

LEMMA FailedTick ==
  ASSUME DispatchInv, turn.act.lane \in Dispatch!Ids, Dispatch!Failed
  PROVE  /\ turn' \in LaneTicks /\ turn'.pc = "decide" /\ turn'.failed = turn.failed \cup {turn.act.lane}
         /\ turn'.snap = turn.snap
<1> DEFINE fa == turn.failed \cup {Dispatch!L}
<1>1. turn' = [[[turn EXCEPT !.pc = "decide"] EXCEPT !.failed = fa] EXCEPT !.act = Dispatch!NoAct]
  BY DEF Dispatch!Failed, DispatchInv, DispatchTypes, LaneTicks
<1>2. fa \in SUBSET Dispatch!Ids /\ fa = turn.failed \cup {turn.act.lane}
  BY DEF DispatchInv, DispatchTypes, LaneTicks, Dispatch!L
<1> HIDE DEF fa
<1> QED
  BY <1>1, <1>2 DEF DispatchInv, DispatchTypes, LaneTicks, TurnPhases, Dispatch!Acts

\* Ways in which an action leaves its lane.
LEMMA SpaceWorks ==
  ASSUME DispatchInv, turn.act.lane \in Dispatch!Ids
  PROVE  /\ Dispatch!Works \in [Dispatch!Ids -> LaneSpaces]
         /\ Dispatch!Works[turn.act.lane].st = "working" /\ Dispatch!Works[turn.act.lane].heard
         /\ \A k \in Dispatch!Ids \ {turn.act.lane} : Dispatch!Works[k] = space[k]
<1> DEFINE x == space[Dispatch!L]
           y == [[[x EXCEPT !.st = "working"] EXCEPT !.heard = TRUE] EXCEPT !.rested = FALSE]
<1>1. x \in LaneSpaces
  BY DEF DispatchInv, DispatchTypes, Dispatch!L
<1>2. Dispatch!Works = [space EXCEPT ![Dispatch!L] = y]
  BY DEF DispatchInv, DispatchTypes, Dispatch!Works, Dispatch!L
<1> HIDE DEF x
<1>3. y \in LaneSpaces /\ y.st = "working" /\ y.heard
  BY <1>1 DEF LaneSpaces
<1> HIDE DEF y
<1> QED
  BY <1>2, <1>3 DEF DispatchInv, DispatchTypes, Dispatch!L

LEMMA RecordedKinds ==
  ASSUME DispatchInv, turn.act.lane \in Dispatch!Ids, NEW kind \in LastActions
  PROVE  /\ Dispatch!Recorded(kind) \in [Dispatch!Ids -> LaneRows] /\ Dispatch!Recorded(kind)[turn.act.lane].last = kind
         /\ \A k \in Dispatch!Ids \ {turn.act.lane} : Dispatch!Recorded(kind)[k] = ledger[k]
BY DEF DispatchInv, DispatchTypes, LaneRows, Dispatch!Recorded, Dispatch!L

Nudged(kind, n) == [ledger EXCEPT ![Dispatch!L] = [@ EXCEPT !.last = kind, !.nudges = n]]
Erred(kind, n) == [ledger EXCEPT ![Dispatch!L] = [@ EXCEPT !.last = kind, !.failures = n]]

LEMMA RowMoves ==
  ASSUME DispatchInv, turn.act.lane \in Dispatch!Ids, NEW kind \in LastActions, NEW n \in Nat
  PROVE  /\ Nudged(kind, n) \in [Dispatch!Ids -> LaneRows] /\ Nudged(kind, n)[turn.act.lane].last = kind
         /\ \A k \in Dispatch!Ids \ {turn.act.lane} : Nudged(kind, n)[k] = ledger[k]
         /\ Erred(kind, n) \in [Dispatch!Ids -> LaneRows] /\ Erred(kind, n)[turn.act.lane].last = kind
         /\ \A k \in Dispatch!Ids \ {turn.act.lane} : Erred(kind, n)[k] = ledger[k]
<1>1. /\ Nudged(kind, n) \in [Dispatch!Ids -> LaneRows] /\ Nudged(kind, n)[turn.act.lane].last = kind
      /\ \A k \in Dispatch!Ids \ {turn.act.lane} : Nudged(kind, n)[k] = ledger[k]
  BY DEF DispatchInv, DispatchTypes, LaneRows, Nudged, Dispatch!L
<1>2. /\ Erred(kind, n) \in [Dispatch!Ids -> LaneRows] /\ Erred(kind, n)[turn.act.lane].last = kind
      /\ \A k \in Dispatch!Ids \ {turn.act.lane} : Erred(kind, n)[k] = ledger[k]
  BY DEF DispatchInv, DispatchTypes, LaneRows, Erred, Dispatch!L
<1> QED
  BY <1>1, <1>2

\* A step that leaves all lanes but one alone, and that one known.
LEMMA LaneStays ==
  ASSUME DispatchInv, NEW l \in Dispatch!Ids, LaneIsKnown(l)',
         \A k \in Dispatch!Ids \ {l} : /\ space'[k] = space[k] /\ made'[k] = made[k]
                                       /\ given'[k] = given[k] /\ ledger'[k] = ledger[k]
  PROVE  \A k \in Dispatch!Ids : LaneIsKnown(k)'
BY DEF DispatchInv, LaneIsKnown, Orphaned

\* A nudge, or a new session: the lane has its workspace.
LEMMA DWakes == ASSUME DispatchInv, Dispatch!Wake PROVE DispatchInv'
<1>0. PICK l \in Dispatch!Ids : l = turn.act.lane
  BY DEF Dispatch!Wake, DispatchInv, ActFits
<1>1. /\ l = turn.act.lane /\ turn.pc \in {"nudge", "restart"} /\ l \in Dispatch!Ids
      /\ turn.act # Dispatch!NoAct /\ made[l] = 1 /\ LaneIsKnown(l)
      /\ UNCHANGED <<made, given>>
  BY <1>0 DEF Dispatch!Wake, DispatchInv, ActFits
<1> DEFINE fresh == [[space[l] EXCEPT !.st = "idle"] EXCEPT !.heard = FALSE]
           idled == [space EXCEPT ![l] = fresh]
<1>2. /\ idled \in [Dispatch!Ids -> LaneSpaces] /\ idled[l].st = "idle"
      /\ \A k \in Dispatch!Ids \ {l} : idled[k] = space[k]
  <2>1. space[l] \in LaneSpaces
    BY <1>1 DEF DispatchInv, DispatchTypes
  <2>2. fresh \in LaneSpaces /\ fresh.st = "idle"
    BY <2>1 DEF LaneSpaces
  <2> HIDE DEF fresh
  <2> QED
    BY <1>1, <2>2 DEF DispatchInv, DispatchTypes
<1>3. [space EXCEPT ![Dispatch!L] = [@ EXCEPT !.st = "idle", !.heard = FALSE]] = idled
  BY <1>1 DEF DispatchInv, DispatchTypes, Dispatch!L
<1> HIDE DEF idled
<1>4. CASE /\ space' = Dispatch!Works /\ Dispatch!Done("working")
           /\ ledger' = [ledger EXCEPT ![Dispatch!L] = [@ EXCEPT !.last = turn.pc,
                            !.nudges = IF Dispatch!At("nudge") THEN ledger[Dispatch!L].nudges + 1 ELSE 0]]
  <2>1. ledger[Dispatch!L].nudges \in Nat
    BY <1>1 DEF DispatchInv, DispatchTypes, LaneRows, Dispatch!L
  <2>2. ledger' = Nudged(turn.pc, IF Dispatch!At("nudge") THEN ledger[Dispatch!L].nudges + 1 ELSE 0)
    BY <1>4 DEF Nudged
  <2>3. PICK kind \in LastActions, n \in Nat : ledger' = Nudged(kind, n)
    BY <1>1, <2>1, <2>2 DEF LastActions
  <2>5. ledger' \in [Dispatch!Ids -> LaneRows] /\ \A k \in Dispatch!Ids \ {l} : ledger'[k] = ledger[k]
    BY <1>1, <2>3, RowMoves
  <2>6. /\ space' \in [Dispatch!Ids -> LaneSpaces] /\ space'[l].st = "working" /\ space'[l].heard
        /\ \A k \in Dispatch!Ids \ {l} : space'[k] = space[k]
    BY <1>1, <1>4, SpaceWorks
  <2>7. /\ turn' \in LaneTicks /\ turn'.pc = "decide" /\ turn'.failed = turn.failed
        /\ turn'.snap[l] = "working" /\ \A k \in Dispatch!Ids \ {l} : turn'.snap[k] = turn.snap[k]
    BY <1>1, <1>4, DoneTick DEF Dispatch!Done
  <2>8. TickKnows' /\ ActFits'
    BY <1>1, <2>5, <2>7, EndKnows DEF TurnPhases
  <2>9. LaneIsKnown(l)'
    BY <1>1, <2>6 DEF LaneIsKnown
  <2> QED
    BY <1>1, <2>5, <2>6, <2>7, <2>8, <2>9, LaneStays DEF DispatchInv, DispatchTypes
<1>5. CASE /\ Dispatch!Failed /\ ledger' = Dispatch!Recorded(IF Dispatch!At("nudge") THEN "nudge_failed" ELSE "restart_failed")
           /\ space' \in {space, Dispatch!Works, idled}
  <2>1. PICK kind \in {"nudge_failed", "restart_failed"} : ledger' = Dispatch!Recorded(kind)
    BY <1>5
  <2>2. /\ ledger' \in [Dispatch!Ids -> LaneRows] /\ ledger'[l].last \in {"nudge_failed", "restart_failed"}
        /\ \A k \in Dispatch!Ids \ {l} : ledger'[k] = ledger[k]
    BY <1>1, <2>1, RecordedKinds DEF LastActions
  <2>3. /\ space' \in [Dispatch!Ids -> LaneSpaces] /\ space'[l].st # "none"
        /\ \A k \in Dispatch!Ids \ {l} : space'[k] = space[k]
    <3>1. space[l].st # "none" /\ space \in [Dispatch!Ids -> LaneSpaces]
      BY <1>1 DEF DispatchInv, DispatchTypes, LaneIsKnown
    <3> QED
      BY <1>1, <1>2, <1>5, <3>1, SpaceWorks
  <2>4. /\ turn' \in LaneTicks /\ turn'.pc = "decide" /\ turn'.failed = turn.failed \cup {l}
        /\ turn'.snap = turn.snap
    BY <1>1, <1>5, FailedTick
  <2>5. TickKnows' /\ ActFits'
    BY <1>1, <2>2, <2>4, EndKnows DEF TurnPhases
  <2>6. LaneIsKnown(l)'
    BY <1>1, <2>2, <2>3 DEF LaneIsKnown, Orphaned
  <2> QED
    BY <1>1, <2>2, <2>3, <2>4, <2>5, <2>6, LaneStays DEF DispatchInv, DispatchTypes
<1> QED
  BY <1>1, <1>3, <1>4, <1>5 DEF Dispatch!Wake, Dispatch!At

\* A prompt: with the ones that are taken for failed.
LEMMA GivesStep ==
  ASSUME DispatchInv, NEW l \in Dispatch!Ids, l = turn.act.lane, turn.act # Dispatch!NoAct,
         turn.pc \in {"prompt", "first"},
         NEW kind \in LastActions, ledger'[l].last = kind, ledger' \in [Dispatch!Ids -> LaneRows],
         \A k \in Dispatch!Ids \ {l} : ledger'[k] = ledger[k],
         \/ space' = Dispatch!Works /\ given' = [given EXCEPT ![Dispatch!L] = @ + 1]
         \/ Dispatch!Failed /\ UNCHANGED <<space, given>>,
         Dispatch!Failed \/ Dispatch!Done("paused"), UNCHANGED made
  PROVE  DispatchInv'
<1>1. made[l] = 1 /\ given[l] = 0 /\ space[l].st # "none" /\ space \in [Dispatch!Ids -> LaneSpaces]
  BY DEF DispatchInv, DispatchTypes, ActFits, LaneIsKnown
<1>2. /\ space' \in [Dispatch!Ids -> LaneSpaces] /\ given' \in [Dispatch!Ids -> 0..1]
      /\ space'[l].st # "none"
      /\ given'[l] = 1 => space'[l].heard
      /\ \A k \in Dispatch!Ids \ {l} : space'[k] = space[k] /\ given'[k] = given[k]
  <2>1. CASE space' = Dispatch!Works /\ given' = [given EXCEPT ![Dispatch!L] = @ + 1]
    <3>1. /\ given' \in [Dispatch!Ids -> 0..1] /\ \A k \in Dispatch!Ids \ {l} : given'[k] = given[k]
      BY <1>1, <2>1 DEF DispatchInv, DispatchTypes, Dispatch!L
    <3> QED
      BY <2>1, <3>1, SpaceWorks
  <2>2. CASE UNCHANGED <<space, given>>
    BY <1>1, <2>2 DEF DispatchInv, DispatchTypes
  <2> QED
    BY <2>1, <2>2
<1>3. LaneIsKnown(l)'
  BY <1>1, <1>2 DEF LaneIsKnown
<1>4. \A k \in Dispatch!Ids : LaneIsKnown(k)'
  BY <1>2, <1>3, LaneStays
<1>5. /\ turn' \in LaneTicks /\ turn'.pc = "decide"
      /\ \A k \in Dispatch!Ids \ {l} : turn'.snap[k] = turn.snap[k]
      /\ \/ turn'.failed = turn.failed \cup {l}
         \/ turn'.failed = turn.failed /\ turn'.snap[l] = "paused"
  <2>1. CASE Dispatch!Failed
    BY <2>1, FailedTick
  <2>2. CASE Dispatch!Done("paused")
    BY <2>2, DoneTick DEF Dispatch!Done
  <2> QED
    BY <2>1, <2>2
<1>6. TickKnows' /\ ActFits'
  BY <1>1, <1>2, <1>5, EndKnows DEF TurnPhases
<1> QED
  BY <1>2, <1>4, <1>5, <1>6 DEF DispatchInv, DispatchTypes

LEMMA DPrompts == ASSUME DispatchInv, Dispatch!PromptAgain \/ Dispatch!FirstPrompt PROVE DispatchInv'
<1>1. /\ turn.pc \in {"prompt", "first"} /\ turn.act # Dispatch!NoAct
      /\ turn.act.lane \in Dispatch!Ids /\ UNCHANGED made
  BY DEF Dispatch!PromptAgain, Dispatch!FirstPrompt, Dispatch!At, DispatchInv, ActFits
<1>2. PICK l \in Dispatch!Ids : l = turn.act.lane
  BY <1>1
<1>3. \/ space' = Dispatch!Works /\ given' = [given EXCEPT ![Dispatch!L] = @ + 1]
      \/ Dispatch!Failed /\ UNCHANGED <<space, given>>
  BY DEF Dispatch!PromptAgain, Dispatch!FirstPrompt
<1>4. Dispatch!Failed \/ Dispatch!Done("paused")
  BY DEF Dispatch!PromptAgain, Dispatch!FirstPrompt
<1>5. ledger[Dispatch!L].failures + 1 \in Nat
  BY <1>1 DEF DispatchInv, DispatchTypes, LaneRows, Dispatch!L
<1>6. \/ \E kind \in LastActions : ledger' = Dispatch!Recorded(kind)
      \/ ledger' = Erred("prompt_failed", ledger[Dispatch!L].failures + 1)
  BY DEF Dispatch!PromptAgain, Dispatch!FirstPrompt, LastActions, Erred
<1>7. PICK kind \in LastActions, n \in Nat : ledger' = Dispatch!Recorded(kind) \/ ledger' = Erred(kind, n)
  BY <1>5, <1>6 DEF LastActions
<1>10. /\ ledger'[l].last = kind /\ ledger' \in [Dispatch!Ids -> LaneRows]
       /\ \A k \in Dispatch!Ids \ {l} : ledger'[k] = ledger[k]
  BY <1>1, <1>2, <1>7, RecordedKinds, RowMoves
<1> QED
  BY <1>1, <1>2, <1>3, <1>4, <1>10, GivesStep

LEMMA DCreates == ASSUME DispatchInv, Dispatch!Create PROVE DispatchInv'
<1>1. /\ turn.pc = "create" /\ turn.act # Dispatch!NoAct /\ turn.act.lane \in Dispatch!Ids
      /\ UNCHANGED given
  BY DEF Dispatch!Create, Dispatch!At, DispatchInv, ActFits
<1>2. PICK l \in Dispatch!Ids : l = turn.act.lane
  BY <1>1
<1>3. made[l] = 0 /\ space[l].st = "none" /\ given[l] = 0 /\ turn.act.prov \in Dispatch!Names
  BY <1>1, <1>2 DEF DispatchInv, DispatchTypes, ActFits, LaneIsKnown, LaneTicks, Dispatch!Acts
<1> DEFINE x == [[space[l] EXCEPT !.prov = turn.act.prov] EXCEPT !.st = "idle"]
           there == [space EXCEPT ![l] = x]
           one == [made EXCEPT ![l] = @ + 1]
<1>4. /\ there \in [Dispatch!Ids -> LaneSpaces] /\ there[l].st = "idle"
      /\ \A k \in Dispatch!Ids \ {l} : there[k] = space[k]
  <2>1. x \in LaneSpaces /\ x.st = "idle"
    BY <1>3 DEF DispatchInv, DispatchTypes, LaneSpaces, LaneProviders
  <2> HIDE DEF x
  <2> QED
    BY <2>1 DEF DispatchInv, DispatchTypes
<1>5. one \in [Dispatch!Ids -> 0..1] /\ one[l] = 1 /\ \A k \in Dispatch!Ids \ {l} : one[k] = made[k]
  BY <1>3 DEF DispatchInv, DispatchTypes
<1>6. \/ space' = there /\ made' = one
      \/ Dispatch!Failed /\ UNCHANGED <<space, made>>
  BY <1>2 DEF Dispatch!Create, Dispatch!L
<1> HIDE DEF x, there, one
<1>7. /\ space' \in [Dispatch!Ids -> LaneSpaces] /\ made' \in [Dispatch!Ids -> 0..1]
      /\ made'[l] = 1 <=> space'[l].st # "none"
      /\ \A k \in Dispatch!Ids \ {l} : space'[k] = space[k] /\ made'[k] = made[k]
  BY <1>3, <1>4, <1>5, <1>6 DEF DispatchInv, DispatchTypes
<1>8. CASE Dispatch!Failed /\ ledger' = Dispatch!Recorded("create_failed")
  <2>1. /\ ledger' \in [Dispatch!Ids -> LaneRows] /\ \A k \in Dispatch!Ids \ {l} : ledger'[k] = ledger[k]
    BY <1>1, <1>2, <1>8, RecordedKinds DEF LastActions
  <2>2. LaneIsKnown(l)'
    BY <1>1, <1>3, <1>7 DEF LaneIsKnown
  <2>3. \A k \in Dispatch!Ids : LaneIsKnown(k)'
    BY <1>1, <1>7, <2>1, <2>2, LaneStays
  <2>4. /\ turn' \in LaneTicks /\ turn'.pc = "decide" /\ turn'.failed = turn.failed \cup {l}
        /\ turn'.snap = turn.snap
    BY <1>1, <1>2, <1>8, FailedTick
  <2>5. TickKnows' /\ ActFits'
    BY <1>1, <1>2, <1>7, <2>1, <2>4, EndKnows DEF TurnPhases
  <2> QED
    BY <1>1, <1>7, <2>1, <2>3, <2>4, <2>5 DEF DispatchInv, DispatchTypes
<1>9. CASE turn' = [turn EXCEPT !.pc = "first"] /\ UNCHANGED ledger /\ made' = one
  <2>1. /\ turn' \in LaneTicks /\ turn'.pc = "first" /\ turn'.act = turn.act
        /\ turn'.snap = turn.snap /\ turn'.failed = turn.failed
    BY <1>9 DEF DispatchInv, DispatchTypes, LaneTicks, TurnPhases
  <2>2. LaneIsKnown(l)'
    BY <1>1, <1>3, <1>7 DEF LaneIsKnown
  <2>3. \A k \in Dispatch!Ids : LaneIsKnown(k)'
    BY <1>1, <1>7, <1>9, <2>2, LaneStays
  <2>4. TickKnows'
    BY <1>1, <1>2, <1>7, <1>9, <2>1 DEF DispatchInv, TickKnows, Believed, Begun, Orphaned
  <2>5. ActFits'
    BY <1>1, <1>2, <1>3, <1>5, <1>9, <2>1 DEF ActFits
  <2> QED
    BY <1>1, <1>7, <1>9, <2>1, <2>3, <2>4, <2>5 DEF DispatchInv, DispatchTypes
<1> QED
  BY <1>2, <1>8, <1>9 DEF Dispatch!Create, one, Dispatch!L

\* The agents and time.
LEMMA DTurnEnds == ASSUME DispatchInv, Dispatch!TurnEnds \/ Dispatch!GapElapses PROVE DispatchInv'
<1>1. UNCHANGED <<turn, made, given>>
  BY DEF Dispatch!TurnEnds, Dispatch!GapElapses
<1>2. PICK l \in Dispatch!Ids :
         /\ \/ space[l].st = "working" /\ space' = [space EXCEPT ![l].st = "done"]
            \/ space[l].st = "working" /\ space' = [space EXCEPT ![l].st = "idle"]
            \/ space' = [space EXCEPT ![l].rested = TRUE]
         /\ \/ ledger' = [ledger EXCEPT ![l].nudges = 0]
            \/ UNCHANGED ledger
  BY DEF Dispatch!TurnEnds, Dispatch!GapElapses
<1>3. /\ space' \in [Dispatch!Ids -> LaneSpaces]
      /\ \A k \in Dispatch!Ids : (space'[k].st = "none" <=> space[k].st = "none") /\ space'[k].heard = space[k].heard
  <2>1. space \in [Dispatch!Ids -> LaneSpaces] /\ space[l] \in LaneSpaces
    BY DEF DispatchInv, DispatchTypes
  <2>2. PICK x \in LaneSpaces : /\ x.st = "none" <=> space[l].st = "none"
                               /\ x.heard = space[l].heard /\ space' = [space EXCEPT ![l] = x]
    <3>1. /\ [space[l] EXCEPT !.st = "done"] \in LaneSpaces
          /\ [space[l] EXCEPT !.st = "idle"] \in LaneSpaces
          /\ [space[l] EXCEPT !.rested = TRUE] \in LaneSpaces
      BY <2>1 DEF LaneSpaces
    <3> QED
      BY <1>2, <2>1, <3>1 DEF LaneSpaces
  <2> QED
    BY <2>1, <2>2
<1>4. ledger' \in [Dispatch!Ids -> LaneRows] /\ \A k \in Dispatch!Ids : ledger'[k].last = ledger[k].last
  <2>1. ledger \in [Dispatch!Ids -> LaneRows] /\ ledger[l] \in LaneRows
    BY DEF DispatchInv, DispatchTypes
  <2>2. /\ [ledger[l] EXCEPT !.nudges = 0] \in LaneRows
        /\ [ledger[l] EXCEPT !.nudges = 0].last = ledger[l].last
    BY <2>1 DEF LaneRows
  <2> QED
    BY <1>2, <2>1, <2>2
<1>5. TickKnows' /\ ActFits'
  BY <1>1, <1>4 DEF DispatchInv, TickKnows, ActFits, Believed, Begun, Orphaned
<1> QED
  BY <1>1, <1>3, <1>4, <1>5 DEF DispatchInv, DispatchTypes, LaneIsKnown, Orphaned

LEMMA DispatchStep == DispatchInv /\ [Dispatch!Next]_(Dispatch!vars) => DispatchInv'
<1> SUFFICES ASSUME DispatchInv, [Dispatch!Next]_(Dispatch!vars) PROVE DispatchInv'
  OBVIOUS
<1>1. CASE Dispatch!Tick
  BY <1>1, DBegins, DReads, DDecides, DWakes, DPrompts, DCreates DEF Dispatch!Tick
<1>2. CASE Dispatch!TurnEnds \/ Dispatch!GapElapses
  BY <1>2, DTurnEnds
<1>3. CASE Dispatch!OwnerPauses \/ UNCHANGED Dispatch!vars
  BY <1>3 DEF Dispatch!OwnerPauses, Dispatch!vars, DispatchInv, DispatchTypes, LaneIsKnown, Orphaned,
              TickKnows, ActFits,
              Believed, Begun
<1>4. CASE Dispatch!Crash
  BY <1>4, IdleKnows DEF Dispatch!Crash
<1> QED
  BY <1>1, <1>2, <1>3, <1>4 DEF Dispatch!Next

LEMMA DispatchMeans == DispatchInv => Dispatch!OneOfEach
BY DEF DispatchInv, DispatchTypes, Dispatch!OneOfEach

\* A lane gets one workspace and its first prompt once, whatever call failed or lost its answer and
\* wherever a tick died: for any lanes, providers, dependencies and bounds.
THEOREM OneWorkspaceEach == Dispatch!Spec => []Dispatch!OneOfEach
BY DispatchInit, DispatchStep, DispatchMeans, PTL DEF Dispatch!Spec

\* The setbacks of the dispatch that were counted.
LostKnown == lost \in Nat /\ lost <= MaxLost

LEMMA LostKnownInit == ASSUME Dispatch!DispatchBounds PROVE Dispatch!Init => LostKnown
BY DEF Dispatch!Init, LostKnown, Dispatch!DispatchBounds

LEMMA LostKnownStep ==
  ASSUME Dispatch!DispatchBounds, LostKnown, [Dispatch!Next]_(Dispatch!vars)
  PROVE  LostKnown'
<1>1. lost' = lost \/ Dispatch!Trouble
  <2>1. CASE Dispatch!TickBegins \/ Dispatch!Decide \/ Dispatch!ReadLane
    BY <2>1 DEF Dispatch!TickBegins, Dispatch!Decide, Dispatch!ReadLane, Dispatch!Quiet
  <2>2. CASE Dispatch!Wake \/ Dispatch!PromptAgain
    BY <2>2 DEF Dispatch!Wake, Dispatch!PromptAgain, Dispatch!Quiet
  <2>3. CASE Dispatch!Create \/ Dispatch!FirstPrompt
    BY <2>3 DEF Dispatch!Create, Dispatch!FirstPrompt, Dispatch!Quiet
  <2>4. CASE Dispatch!TurnEnds \/ Dispatch!GapElapses \/ Dispatch!OwnerPauses \/ Dispatch!Crash
             \/ UNCHANGED Dispatch!vars
    BY <2>4 DEF Dispatch!TurnEnds, Dispatch!GapElapses, Dispatch!OwnerPauses, Dispatch!Crash, Dispatch!Quiet,
                Dispatch!vars
  <2> QED
    BY <2>1, <2>2, <2>3, <2>4 DEF Dispatch!Next, Dispatch!Tick
<1> QED
  BY <1>1 DEF Dispatch!Trouble, LostKnown, Dispatch!DispatchBounds

LEMMA DispatchTyped ==
  ASSUME DispatchInv, LostKnown
  PROVE  Dispatch!TypeOK
<1>1. \A l \in Dispatch!Ids : space[l] \in LaneSpaces
  BY DEF DispatchInv, DispatchTypes
<1> QED
  BY <1>1 DEF Dispatch!TypeOK, DispatchInv, DispatchTypes, LaneSpaces, LaneTicks, LostKnown
=============================================================================
