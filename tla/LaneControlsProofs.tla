------------------------- MODULE LaneControlsProofs -------------------------
(***************************************************************************)
(* Theorems about LaneControls, for any lanes, bounds and order of         *)
(* controls.                                                               *)
(*                                                                         *)
(* Stopped is what a hold rests on: a paused run is under a hold that      *)
(* knows where to put it back, and an authorized validation keeps that     *)
(* knowledge for the case that it fails.  Bound says what the worker may   *)
(* assume between two store calls, as the owner can only queue meanwhile.  *)
(* Retries says what a retry that was cut short leaves behind.             *)
(***************************************************************************)
EXTENDS LaneControls, TLAPS

\* The hold an authorized validation came from was of a run at validation.
AuthorizedFromValidation == \A l \in Lanes : hold[l].state = "authorized" => hold[l].resume = "validating"

Stopped == PausedRunIsHeld /\ AuthorizedFromValidation

\* Repair follows an unbounded failure; the lane was not on a hold of the owner's.
RepairInv ==
    At("repair") => /\ pc.lane \in Lanes /\ mode # "paused"
                    /\ hold[pc.lane].state = "held" => hold[pc.lane].kind = "lane_validate"

\* A hold of the controller's is of the authorized validation it stops.
HoldingInv ==
    At("holding") => /\ pc.lane \in Lanes /\ mode = "paused"
                     /\ Authorized(pc.lane) /\ status[pc.lane] = "validating"

\* An authorization is the work of a lane_validate, and a hold that a failed validation left still says so.
KindInv == \A l \in Lanes : hold[l].state = "authorized" => hold[l].kind = "lane_validate"

Bound == RepairInv /\ HoldingInv /\ KindInv

\* Every control has an id of its own, none that was not given yet.
IdsInv ==
    /\ \A c \in queue : c.id \in 1 .. asked
    /\ \A c, d \in queue : c.id = d.id => c = d
    /\ \A l \in Lanes : \A i \in 1 .. Run(l) : origin[l][i] \in 0 .. asked

\* A retry that has made its run and is still pending is the next control again; the run it made has not moved.
RetryInv ==
    \A c \in queue : \A l \in Lanes : \A i \in 1 .. Run(l) : origin[l][i] = c.id =>
        /\ First(c) /\ c.kind = "retry" /\ c.lane = l
        /\ status[l] = "working"
        /\ At("tick") \/ (At("retried") /\ pc.id = c.id)

Retries == IdsInv /\ RetryInv /\ OneRunPerRetry

Inv == TypeOK /\ Stopped /\ Bound /\ SafetyPauseHolds /\ Retries

-----------------------------------------------------------------------------
\* The initial state satisfies the invariant.
LEMMA InitInv == Init => Inv
<1> SUFFICES ASSUME Init PROVE Inv OBVIOUS
<1>1. TypeOK
    BY BoundsAssumption DEF Init, TypeOK, Statuses, Open, Working, Control, Hold, NoHold, NoLane
<1>2. Stopped /\ Bound
    BY DEF Init, Stopped, PausedRunIsHeld, AuthorizedFromValidation, Bound, RepairInv, HoldingInv, KindInv,
           NoHold, At, NoLane
<1>3. SafetyPauseHolds /\ Retries
    BY DEF Init, SafetyPauseHolds, Retries, IdsInv, RetryInv, OneRunPerRetry, Run
<1> QED BY <1>1, <1>2, <1>3 DEF Inv

-----------------------------------------------------------------------------
\* Queueing keeps the types of what it changes.
LEMMA QueueTypes ==
    ASSUME TypeOK, NEW from \in {"owner", "controller"}, NEW l \in Lanes \cup {NoLane}, NEW names \in Nat,
           NEW kind \in {"pause", "resume", "cutover", "shadow", "rollback",
                         "retry", "lane_hold", "lane_release", "lane_validate", "lane_retire"},
           Queue(from, kind, l, names)
    PROVE  queue' \in SUBSET Control /\ asked' \in 1 .. MaxControls
<1>1. asked' \in 1 .. MaxControls
    BY BoundsAssumption DEF TypeOK, Queue
<1>2. [id |-> asked', from |-> from, kind |-> kind, lane |-> l, names |-> names] \in Control
    BY <1>1 DEF Control
<1> QED BY <1>1, <1>2 DEF TypeOK, Queue

\* Holding a lane keeps the types of what it changes.
LEMMA HoldTypes ==
    ASSUME TypeOK, NEW l \in Lanes, NEW id \in 0 .. MaxControls, HoldLane(l, id)
    PROVE  hold' \in [Lanes -> Hold] /\ status' \in [Lanes -> Statuses] /\ resume' \in [Lanes -> Statuses]
<1>1. Was(l) \in Statuses /\ Run(l) \in Nat
    BY DEF TypeOK, Was, Run
<1>2. [state |-> "held", by |-> id, kind |-> "lane_hold", run |-> Run(l), resume |-> Was(l)] \in Hold
    BY <1>1, BoundsAssumption DEF Hold
<1>3. hold' \in [Lanes -> Hold]
    BY <1>2 DEF TypeOK, HoldLane
<1>4. status' \in [Lanes -> Statuses] /\ resume' \in [Lanes -> Statuses]
    BY DEF TypeOK, HoldLane, Statuses
<1> QED BY <1>3, <1>4

\* So does whatever a control for a lane does.
LEMMA LaneControlTypes ==
    ASSUME TypeOK, NEW c \in queue, c.lane \in Lanes, ApplyLane(c)
    PROVE  hold' \in [Lanes -> Hold] /\ status' \in [Lanes -> Statuses] /\ resume' \in [Lanes -> Statuses]
<1> DEFINE l == c.lane
<1>1. c.id \in 1 .. MaxControls /\ l \in Lanes /\ hold[l] \in Hold
    BY DEF TypeOK, Control
<1>2. CASE HoldLane(l, c.id)
    BY <1>1, <1>2, HoldTypes
<1>3. CASE ReleaseLane(l, c.names)
  <2>1. NoHold \in Hold
      BY BoundsAssumption DEF NoHold, Hold, Statuses
  <2> QED BY <1>1, <1>3, <2>1 DEF TypeOK, ReleaseLane, Hold
<1>4. CASE ValidateLane(l, c.id, c.names)
  <2>1. [state |-> "authorized", by |-> c.id, kind |-> "lane_validate", run |-> Run(l), resume |-> hold[l].resume]
            \in Hold
      BY <1>1, BoundsAssumption DEF Hold, TypeOK, Run
  <2> QED BY <1>1, <1>4, <2>1 DEF TypeOK, ValidateLane, Statuses, Open, Working
<1>5. CASE RetireLane(l, c.id, c.names)
  <2>1. [state |-> "retired", by |-> c.id, kind |-> "lane_retire", run |-> Run(l), resume |-> "none"] \in Hold
      BY <1>1, BoundsAssumption DEF Hold, TypeOK, Run, Statuses
  <2> QED BY <1>5, <2>1 DEF TypeOK, RetireLane, Statuses
<1> QED BY <1>2, <1>3, <1>4, <1>5 DEF ApplyLane

\* Evidence that is not accepted keeps the types too.
LEMMA RejectedTypes ==
    ASSUME TypeOK, NEW l \in Lanes, Rejected(l)
    PROVE  hold' \in [Lanes -> Hold] /\ status' \in [Lanes -> Statuses] /\ resume' \in [Lanes -> Statuses]
<1>1. [hold[l] EXCEPT !.state = "held"] \in Hold
    BY DEF TypeOK, Hold
<1> QED BY <1>1 DEF TypeOK, Rejected, Statuses, Open, Working

\* Every step keeps the types.
LEMMA Types == TypeOK /\ [Next]_vars => TypeOK'
<1> SUFFICES ASSUME TypeOK, [Next]_vars PROVE TypeOK' OBVIOUS
<1> USE DEF Go, At
<1>1. CASE Apply
  <2> PICK c \in queue : First(c) /\ (ApplyMode(c) \/ ApplyLane(c)) /\ Settle(c.id)
      BY <1>1 DEF Apply
  <2>1. queue' \in SUBSET Control
      BY DEF TypeOK, Settle
  <2>2. CASE ApplyMode(c)
      BY <1>1, <2>1, <2>2 DEF Apply, ApplyMode, TypeOK, Pause, Resume, Switch, runs
  <2>3. CASE ApplyLane(c) /\ c.lane \in Lanes
    <3>1. hold' \in [Lanes -> Hold] /\ status' \in [Lanes -> Statuses] /\ resume' \in [Lanes -> Statuses]
        BY <2>3, LaneControlTypes
    <3> QED BY <1>1, <2>1, <2>3, <3>1 DEF Apply, ApplyLane, TypeOK, control
  <2>4. CASE ApplyLane(c) /\ c.lane \notin Lanes
    <3>1. status' = status /\ resume' = resume /\ hold' = hold
        BY <2>4 DEF ApplyLane, HoldLane, ReleaseLane, ValidateLane, RetireLane, TypeOK
    <3> QED BY <1>1, <2>1, <2>4, <3>1 DEF Apply, ApplyLane, TypeOK, control
  <2> QED BY <2>2, <2>3, <2>4
<1>2. CASE Retry
  <2> PICK c \in queue : First(c) /\ c.kind = "retry" /\ Rerun(c.lane, c.id)
                         /\ pc' = [at |-> "retried", lane |-> c.lane, id |-> c.id]
      BY <1>2 DEF Retry
  <2>1. c.id \in 1 .. MaxControls /\ c.lane \in Lanes \cup {NoLane}
      BY DEF TypeOK, Control
  <2>2. origin' \in [Lanes -> Seq(0 .. MaxControls)] /\ status' \in [Lanes -> Statuses]
        /\ resume' \in [Lanes -> Statuses]
    <3>1. CASE c.lane \notin Lanes
      <4>1. origin' \in [Lanes -> Seq(0 .. MaxControls)]
          BY <3>1 DEF TypeOK, Rerun
      <4>2. status' \in [Lanes -> Statuses]
          BY <3>1 DEF TypeOK, Rerun
      <4>3. resume' \in [Lanes -> Statuses]
          BY <3>1 DEF TypeOK, Rerun
      <4> QED BY <4>1, <4>2, <4>3
    <3>2. CASE c.lane \in Lanes
      <4>1. origin[c.lane] \in Seq(0 .. MaxControls) /\ c.id \in 0 .. MaxControls
          BY <2>1, <3>2, BoundsAssumption DEF TypeOK
      <4>2. Append(origin[c.lane], c.id) \in Seq(0 .. MaxControls)
          BY <4>1
      <4>3. origin' \in [Lanes -> Seq(0 .. MaxControls)]
          BY <3>2, <4>2 DEF TypeOK, Rerun
      <4>4. status' \in [Lanes -> Statuses] /\ resume' \in [Lanes -> Statuses]
          BY <3>2 DEF TypeOK, Rerun, Statuses, Open, Working
      <4> QED BY <4>3, <4>4
    <3> QED BY <3>1, <3>2
  <2>3. pc' \in [at : {"tick", "retried", "busy", "repair", "holding", "pausing"},
                 lane : Lanes \cup {NoLane}, id : 0 .. MaxControls]
      BY <2>1, BoundsAssumption
  <2> QED BY <1>2, <2>2, <2>3 DEF Retry, TypeOK, control
<1>3. CASE FinishRetry \/ FinishPause
    BY <1>3, BoundsAssumption DEF FinishRetry, FinishPause, TypeOK, Settle, Pause, control, runs
<1>4. CASE Look \/ Idle \/ Crash
    BY <1>4, BoundsAssumption DEF Look, Idle, Crash, Trouble, TypeOK, control, runs
<1>5. ASSUME NEW l \in Lanes, Advance(l) PROVE TypeOK'
  <2>1. status' \in [Lanes -> Statuses]
      BY <1>5 DEF Advance, Work, TypeOK, Statuses, Open, Working
  <2> QED BY <1>5, <2>1, BoundsAssumption DEF Advance, Work, TypeOK, control
<1>6. ASSUME NEW l \in Lanes, Undecided(l) \/ Fail(l) PROVE TypeOK'
  <2>1. hold' \in [Lanes -> Hold] /\ status' \in [Lanes -> Statuses] /\ resume' \in [Lanes -> Statuses]
      BY <1>6, RejectedTypes DEF Undecided, Fail
  <2>2. pc' \in [at : {"tick", "retried", "busy", "repair", "holding", "pausing"},
                 lane : Lanes \cup {NoLane}, id : 0 .. MaxControls]
      BY <1>6, BoundsAssumption DEF Undecided, Fail
  <2> QED BY <1>6, <2>1, <2>2 DEF Undecided, Fail, TypeOK, control
<1>7. ASSUME NEW l \in Lanes, Mismatch(l) PROVE TypeOK'
  <2>1. reheld' \in [Lanes -> Nat]
    <3>1. Run(l) \in Nat
        BY DEF TypeOK, Run
    <3> QED BY <1>7, <3>1 DEF Mismatch, TypeOK
  <2>2. queue' \in SUBSET Control /\ asked' \in 0 .. MaxControls /\ pc'.id \in 0 .. MaxControls
      BY <1>7, QueueTypes, BoundsAssumption DEF Mismatch, TypeOK
  <2>3. pc' \in [at : {"tick", "retried", "busy", "repair", "holding", "pausing"},
                 lane : Lanes \cup {NoLane}, id : 0 .. MaxControls]
      BY <1>7, <2>2 DEF Mismatch
  <2> QED BY <1>7, <2>1, <2>2, <2>3 DEF Mismatch, TypeOK, control, runs
<1>8. ASSUME NEW l \in Lanes, CreateRun(l) PROVE TypeOK'
    BY <1>8, BoundsAssumption DEF CreateRun, TypeOK, control, Statuses, Open, Working
<1>9. CASE Repair
  <2>1. status' \in [Lanes -> Statuses]
      BY <1>9 DEF Repair, TypeOK, Statuses, Open, Working
  <2> QED BY <1>9, <2>1, BoundsAssumption DEF Repair, TypeOK, control
<1>10. CASE FinishHold
  <2>1. pc.id \in 0 .. MaxControls
      BY DEF TypeOK
  <2>2. hold' \in [Lanes -> Hold] /\ status' \in [Lanes -> Statuses] /\ resume' \in [Lanes -> Statuses]
    <3>1. CASE pc.lane \in Lanes
        BY <1>10, <2>1, <3>1, HoldTypes DEF FinishHold
    <3>2. CASE pc.lane \notin Lanes
        BY <1>10, <3>2 DEF FinishHold, HoldLane, TypeOK
    <3> QED BY <3>1, <3>2
  <2> QED BY <1>10, <2>2, BoundsAssumption DEF FinishHold, TypeOK, Settle, control
<1>11. CASE SafetyStop
  <2>1. queue' \in SUBSET Control /\ asked' \in 1 .. MaxControls
      BY <1>11, QueueTypes DEF SafetyStop
  <2> QED BY <1>11, <2>1, BoundsAssumption DEF SafetyStop, Trouble, TypeOK, control, runs
<1>12. CASE Owner
  <2>1. CASE \E kind \in {"pause", "resume", "cutover", "shadow", "rollback"} : AskMode(kind)
    <3>1. queue' \in SUBSET Control /\ asked' \in 1 .. MaxControls
        BY <2>1, QueueTypes DEF AskMode
    <3> QED BY <2>1, <3>1, BoundsAssumption DEF AskMode, TypeOK, control, runs
  <2>2. ASSUME NEW kind \in {"retry", "lane_hold", "lane_release", "lane_validate", "lane_retire"},
               NEW l \in Lanes, AskLane(kind, l)
        PROVE  TypeOK'
    <3>1. Names(kind, l) \in Nat
        BY BoundsAssumption DEF Names, TypeOK, Hold, Run
    <3>2. queue' \in SUBSET Control /\ asked' \in 1 .. MaxControls
        BY <2>2, <3>1, QueueTypes DEF AskLane
    <3> QED BY <2>2, <3>2, BoundsAssumption DEF AskLane, TypeOK, control, runs
  <2> QED BY <1>12, <2>1, <2>2 DEF Owner
<1>13. CASE UNCHANGED vars
    BY <1>13 DEF vars, TypeOK
<1> QED BY <1>1, <1>2, <1>3, <1>4, <1>5, <1>6, <1>7, <1>8, <1>9, <1>10, <1>11, <1>12, <1>13
        DEF Next, Worker, Controls, LaneWork

-----------------------------------------------------------------------------
\* Putting a lane on hold strands no run: the record of a later hold still knows where the run was.
LEMMA HoldStopped ==
    ASSUME TypeOK, Stopped, NEW l \in Lanes, NEW id, HoldLane(l, id), UNCHANGED origin
    PROVE  Stopped'
<1>1. ASSUME NEW m \in Lanes, status'[m] = "paused"
      PROVE  /\ hold'[m].state = "held" /\ hold'[m].run = Run(m)'
             /\ hold'[m].resume = resume'[m] /\ resume'[m] \in Open
  <2>1. CASE m = l
    <3>1. CASE status[l] \in Open
        BY <2>1, <3>1 DEF HoldLane, TypeOK, Was, Open, Working, Run
    <3>2. CASE status[l] \notin Open
        BY <1>1, <2>1, <3>2 DEF HoldLane, TypeOK, Stopped, PausedRunIsHeld, Was, Run
    <3> QED BY <3>1, <3>2
  <2>2. CASE m # l
      BY <1>1, <2>2 DEF HoldLane, TypeOK, Stopped, PausedRunIsHeld, Run
  <2> QED BY <2>1, <2>2
<1>2. ASSUME NEW m \in Lanes, hold'[m].state = "authorized" PROVE hold'[m].resume = "validating"
    BY <1>2 DEF HoldLane, TypeOK, Stopped, AuthorizedFromValidation
<1> QED BY <1>1, <1>2 DEF Stopped, PausedRunIsHeld, AuthorizedFromValidation

\* No other control of a lane strands one either.
LEMMA ControlStopped ==
    ASSUME TypeOK, Stopped, NEW c \in queue, c.lane \in Lanes, ApplyLane(c)
    PROVE  Stopped'
<1> DEFINE l == c.lane
<1>1. UNCHANGED origin
    BY DEF ApplyLane
<1>2. CASE HoldLane(l, c.id)
    BY <1>1, <1>2, HoldStopped
<1>3. CASE ReleaseLane(l, c.names)
  <2>1. hold'[l].state = "free" /\ status'[l] # "paused"
      BY <1>3 DEF ReleaseLane, TypeOK, Stopped, PausedRunIsHeld, NoHold, Open, Working
  <2>2. \A m \in Lanes \ {l} : hold'[m] = hold[m] /\ status'[m] = status[m] /\ resume'[m] = resume[m]
      BY <1>3 DEF ReleaseLane, TypeOK
  <2> QED BY <1>1, <2>1, <2>2 DEF Stopped, PausedRunIsHeld, AuthorizedFromValidation, Run
<1>4. CASE ValidateLane(l, c.id, c.names)
  <2>1. hold'[l].resume = "validating" /\ status'[l] # "paused"
      BY <1>4 DEF ValidateLane, TypeOK, Stopped, PausedRunIsHeld
  <2>2. \A m \in Lanes \ {l} : hold'[m] = hold[m] /\ status'[m] = status[m] /\ resume'[m] = resume[m]
      BY <1>4 DEF ValidateLane, TypeOK
  <2> QED BY <1>1, <2>1, <2>2 DEF Stopped, PausedRunIsHeld, AuthorizedFromValidation, Run
<1>5. CASE RetireLane(l, c.id, c.names)
  <2>1. hold'[l].state = "retired" /\ status'[l] # "paused"
      BY <1>5 DEF RetireLane, TypeOK
  <2>2. \A m \in Lanes \ {l} : hold'[m] = hold[m] /\ status'[m] = status[m] /\ resume'[m] = resume[m]
      BY <1>5 DEF RetireLane, TypeOK
  <2> QED BY <1>1, <2>1, <2>2 DEF Stopped, PausedRunIsHeld, AuthorizedFromValidation, Run
<1> QED BY <1>2, <1>3, <1>4, <1>5 DEF ApplyLane

\* Only the controls, work, and evidence that is not accepted touch what Stopped is about.
LEMMA StoppedStep == TypeOK /\ Stopped /\ [Next]_vars => Stopped'
<1> SUFFICES ASSUME TypeOK, Stopped, [Next]_vars PROVE Stopped' OBVIOUS
<1>1. ASSUME UNCHANGED <<runs, hold>> PROVE Stopped'
    BY <1>1 DEF runs, Stopped, PausedRunIsHeld, AuthorizedFromValidation, Run
<1>2. ASSUME UNCHANGED hold, NEW l,
             \A m \in Lanes \ {l} : origin'[m] = origin[m] /\ status'[m] = status[m] /\ resume'[m] = resume[m],
             l \in Lanes => status'[l] # "paused"
      PROVE  Stopped'
    BY <1>2 DEF Stopped, PausedRunIsHeld, AuthorizedFromValidation, Run
<1>3. CASE Apply
  <2> PICK c \in queue : ApplyMode(c) \/ ApplyLane(c)
      BY <1>3 DEF Apply
  <2>1. CASE ApplyMode(c)
      BY <1>1, <2>1 DEF ApplyMode
  <2>2. CASE ApplyLane(c) /\ c.lane \in Lanes
      BY <2>2, ControlStopped
  <2>3. CASE ApplyLane(c) /\ c.lane \notin Lanes
    <3>1. status' = status /\ resume' = resume /\ hold' = hold
        BY <2>3 DEF ApplyLane, HoldLane, ReleaseLane, ValidateLane, RetireLane, TypeOK
    <3> QED BY <1>1, <2>3, <3>1 DEF ApplyLane, runs
  <2> QED BY <2>1, <2>2, <2>3
<1>4. CASE Retry
  <2> PICK c \in queue : Rerun(c.lane, c.id)
      BY <1>4 DEF Retry
  <2>1. \A m \in Lanes \ {c.lane} :
            origin'[m] = origin[m] /\ status'[m] = status[m] /\ resume'[m] = resume[m]
      BY DEF Rerun, TypeOK
  <2>2. c.lane \in Lanes => status'[c.lane] # "paused"
      BY DEF Rerun, TypeOK, Stopped, PausedRunIsHeld, Open, Working
  <2> QED BY <1>2, <1>4, <2>1, <2>2 DEF Retry
<1>5. ASSUME NEW l \in Lanes, Advance(l) \/ CreateRun(l) PROVE Stopped'
  <2>1. \A m \in Lanes \ {l} : origin'[m] = origin[m] /\ status'[m] = status[m] /\ resume'[m] = resume[m]
      BY <1>5 DEF Advance, Work, CreateRun, TypeOK
  <2>2. status'[l] # "paused" /\ UNCHANGED hold
      BY <1>5 DEF Advance, Work, CreateRun, TypeOK
  <2> QED BY <1>2, <2>1, <2>2
<1>6. ASSUME NEW l \in Lanes, Undecided(l) \/ Fail(l) PROVE Stopped'
  <2>1. Rejected(l) /\ UNCHANGED origin
      BY <1>6 DEF Undecided, Fail
  <2>2. CASE Authorized(l)
    <3>1. /\ hold'[l].state = "held" /\ hold'[l].run = Run(l)'
          /\ hold'[l].resume = "validating" /\ resume'[l] = "validating"
        BY <2>1, <2>2 DEF Rejected, Authorized, TypeOK, Stopped, AuthorizedFromValidation, Hold, Run
    <3>2. \A m \in Lanes \ {l} : hold'[m] = hold[m] /\ status'[m] = status[m] /\ resume'[m] = resume[m]
        BY <2>1, <2>2 DEF Rejected, TypeOK
    <3> QED BY <2>1, <3>1, <3>2 DEF Stopped, PausedRunIsHeld, AuthorizedFromValidation, Run, Open, Working
  <2>3. CASE ~Authorized(l)
      BY <1>1, <2>1, <2>3 DEF Rejected, runs
  <2> QED BY <2>2, <2>3
<1>7. CASE Repair
  <2>1. \A m \in Lanes \ {pc.lane} :
            origin'[m] = origin[m] /\ status'[m] = status[m] /\ resume'[m] = resume[m]
      BY <1>7 DEF Repair, TypeOK
  <2>2. (pc.lane \in Lanes => status'[pc.lane] # "paused") /\ UNCHANGED hold
      BY <1>7 DEF Repair, TypeOK
  <2> QED BY <1>2, <2>1, <2>2
<1>8. CASE FinishHold
  <2>1. CASE pc.lane \in Lanes
      BY <1>8, <2>1, HoldStopped DEF FinishHold
  <2>2. CASE pc.lane \notin Lanes
    <3>1. status' = status /\ resume' = resume /\ hold' = hold
        BY <1>8, <2>2 DEF FinishHold, HoldLane, TypeOK
    <3> QED BY <1>1, <1>8, <3>1 DEF FinishHold, runs
  <2> QED BY <2>1, <2>2
<1>9. CASE Owner
    BY <1>1, <1>9 DEF Owner, AskMode, AskLane
<1>10. ASSUME NEW l \in Lanes, Mismatch(l) PROVE Stopped'
    BY <1>1, <1>10 DEF Mismatch
<1>11. CASE FinishRetry \/ Look \/ Idle \/ SafetyStop \/ FinishPause \/ Crash
    BY <1>1, <1>11 DEF FinishRetry, Look, Idle, SafetyStop, FinishPause, Crash
<1>12. CASE UNCHANGED vars
    BY <1>1, <1>12 DEF vars, runs
<1> QED BY <1>3, <1>4, <1>5, <1>6, <1>7, <1>8, <1>9, <1>10, <1>11, <1>12
        DEF Next, Worker, Controls, LaneWork

-----------------------------------------------------------------------------
\* Between two store calls of the worker only the owner's queue grows, so what it saw still holds.
LEMMA BoundStep == TypeOK /\ Bound /\ [Next]_vars => Bound'
<1> SUFFICES ASSUME TypeOK, Bound, [Next]_vars PROVE Bound' OBVIOUS
<1> USE DEF Go, At
<1>1. ASSUME UNCHANGED hold, pc'.at \in {"tick", "retried", "busy", "pausing"} PROVE Bound'
    BY <1>1 DEF Bound, RepairInv, HoldingInv, KindInv
<1>2. CASE Apply
  <2> PICK c \in queue : ApplyMode(c) \/ ApplyLane(c)
      BY <1>2 DEF Apply
  <2>1. pc' = pc /\ pc.at = "tick"
      BY <1>2 DEF Apply, ApplyMode, ApplyLane
  <2>2. CASE ApplyMode(c)
      BY <1>1, <2>1, <2>2 DEF ApplyMode
  <2>3. CASE ApplyLane(c)
    <3>1. KindInv'
      <4>1. CASE HoldLane(c.lane, c.id) \/ RetireLane(c.lane, c.id, c.names)
        <5>1. \A m \in Lanes : \/ hold'[m] = hold[m]
                             \/ hold'[m].state \in {"held", "retired"}
          <6>1. CASE HoldLane(c.lane, c.id)
              BY <6>1 DEF HoldLane, TypeOK
          <6>2. CASE RetireLane(c.lane, c.id, c.names)
              BY <6>2 DEF RetireLane, TypeOK
          <6> QED BY <4>1, <6>1, <6>2
        <5> QED BY <5>1 DEF Bound, KindInv
      <4>2. CASE ReleaseLane(c.lane, c.names)
          BY <4>2 DEF ReleaseLane, NoHold, Bound, KindInv, TypeOK
      <4>3. CASE ValidateLane(c.lane, c.id, c.names)
        <5>1. \A m \in Lanes : \/ hold'[m] = hold[m]
                             \/ hold'[m].kind = "lane_validate"
            BY <4>3 DEF ValidateLane, TypeOK
        <5> QED BY <5>1 DEF Bound, KindInv
      <4> QED BY <2>3, <4>1, <4>2, <4>3 DEF ApplyLane
    <3> QED BY <2>1, <3>1 DEF Bound, RepairInv, HoldingInv
  <2> QED BY <2>2, <2>3
<1>3. CASE Retry \/ FinishRetry \/ Look \/ Idle \/ Repair \/ FinishPause \/ SafetyStop \/ Crash
    BY <1>1, <1>3 DEF Retry, FinishRetry, Look, Idle, Repair, FinishPause, SafetyStop, Crash
<1>4. ASSUME NEW l \in Lanes, Advance(l) \/ CreateRun(l) PROVE Bound'
    BY <1>1, <1>4 DEF Advance, Work, CreateRun
<1>5. ASSUME NEW l \in Lanes, Undecided(l) \/ Fail(l) PROVE Bound'
  <2>1. KindInv'
      BY <1>5 DEF Undecided, Fail, Rejected, Bound, KindInv, TypeOK, Hold
  <2>2. HoldingInv'
      BY <1>5 DEF Undecided, Fail, HoldingInv
  <2>3. RepairInv'
    <3>1. CASE pc'.at = "repair"
      <4>1. mode = "active" /\ pc'.lane = l /\ hold[l].state # "held" /\ UNCHANGED mode
          BY <1>5, <3>1 DEF Undecided, Fail, MayWork, control
      <4>2. hold'[l].state = "held" => Authorized(l) /\ hold'[l].kind = hold[l].kind
        <5>1. CASE Authorized(l)
            BY <1>5, <5>1 DEF Undecided, Fail, Rejected, TypeOK, Hold
        <5>2. CASE ~Authorized(l)
            BY <1>5, <4>1, <5>2 DEF Undecided, Fail, Rejected
        <5> QED BY <5>1, <5>2
      <4> QED BY <4>1, <4>2 DEF RepairInv, Authorized, Bound, KindInv
    <3> QED BY <3>1 DEF RepairInv
  <2> QED BY <2>1, <2>2, <2>3 DEF Bound
<1>6. ASSUME NEW l \in Lanes, Mismatch(l) PROVE Bound'
  <2>1. Authorized(l) /\ status[l] = "validating" /\ mode = "paused"
      BY <1>6 DEF Mismatch, MayWork
  <2>2. UNCHANGED <<mode, status, origin, hold>> /\ pc'.at \in {"tick", "holding"} /\ (pc'.at = "holding" => pc'.lane = l)
      BY <1>6 DEF Mismatch, control, runs
  <2> QED BY <2>1, <2>2 DEF Bound, RepairInv, HoldingInv, KindInv, Authorized, Run
<1>7. CASE FinishHold
  <2>1. KindInv'
      BY <1>7 DEF FinishHold, HoldLane, Bound, KindInv, TypeOK
  <2> QED BY <1>7, <2>1 DEF FinishHold, Bound, RepairInv, HoldingInv
<1>8. CASE Owner \/ UNCHANGED vars
  <2>1. UNCHANGED <<mode, status, origin, hold, pc>>
      BY <1>8 DEF Owner, AskMode, AskLane, vars, control, runs
  <2> QED BY <2>1 DEF Bound, RepairInv, HoldingInv, KindInv, Authorized, Run
<1> QED BY <1>2, <1>3, <1>4, <1>5, <1>6, <1>7, <1>8 DEF Next, Worker, Controls, LaneWork

\* A safety pause that is asked for bars the way from a tick to work, and stays queued until it is applied.
LEMMA SafetyStep == TypeOK /\ SafetyPauseHolds /\ [Next]_vars => SafetyPauseHolds'
<1> SUFFICES ASSUME TypeOK, SafetyPauseHolds, [Next]_vars PROVE SafetyPauseHolds' OBVIOUS
<1> USE DEF Go, At
<1>1. ASSUME pc'.at \in {"tick", "retried", "pausing"} PROVE SafetyPauseHolds'
    BY <1>1 DEF SafetyPauseHolds
<1>2. ASSUME pc.at \notin {"tick", "retried", "pausing"},
             \A c \in queue' \ queue : c.kind # "pause" \/ c.from # "controller"
      PROVE  SafetyPauseHolds'
    BY <1>2 DEF SafetyPauseHolds
<1>3. CASE Apply \/ Retry \/ FinishRetry \/ Idle \/ Repair \/ FinishHold \/ FinishPause \/ SafetyStop \/ Crash
    BY <1>1, <1>3 DEF Apply, ApplyMode, ApplyLane, Retry, FinishRetry, Idle, Repair, FinishHold, FinishPause,
                      SafetyStop, Crash
<1>4. CASE Look
    BY <1>4 DEF Look, SafetyPauseHolds
<1>5. ASSUME NEW l \in Lanes, Advance(l) \/ CreateRun(l) \/ Undecided(l) \/ Fail(l) PROVE SafetyPauseHolds'
    BY <1>2, <1>5 DEF Advance, Work, CreateRun, Undecided, Fail
<1>6. ASSUME NEW l \in Lanes, Mismatch(l) PROVE SafetyPauseHolds'
    BY <1>2, <1>6 DEF Mismatch, Queue
<1>7. CASE Owner
    BY <1>7 DEF Owner, AskMode, AskLane, Queue, SafetyPauseHolds
<1>8. CASE UNCHANGED vars
    BY <1>8 DEF vars, SafetyPauseHolds
<1> QED BY <1>3, <1>4, <1>5, <1>6, <1>7, <1>8 DEF Next, Worker, Controls, LaneWork

-----------------------------------------------------------------------------
\* A control is queued under a new id, behind all others.
LEMMA QueueRetries ==
    ASSUME TypeOK, Retries, NEW from, NEW kind, NEW l, NEW names, Queue(from, kind, l, names),
           UNCHANGED runs, UNCHANGED pc \/ pc.at = "busy"
    PROVE  Retries'
<1> DEFINE new == [id |-> asked', from |-> from, kind |-> kind, lane |-> l, names |-> names]
<1>1. asked' = asked + 1 /\ queue' = queue \cup {new} /\ asked \in Nat
    BY BoundsAssumption DEF TypeOK, Queue
<1>2. IdsInv'
    BY <1>1 DEF Retries, IdsInv, runs, Run
<1>3. \A c \in queue : First(c) => First(c)'
    BY <1>1 DEF First, Retries, IdsInv
<1>4. RetryInv'
    BY <1>1, <1>3 DEF Retries, IdsInv, RetryInv, runs, Run, At
<1>5. OneRunPerRetry'
    BY DEF Retries, OneRunPerRetry, runs, Run
<1> QED BY <1>2, <1>4, <1>5 DEF Retries

\* Settling a control leaves no retry cut short, if it settles the one there is.
LEMMA SettleRetries ==
    ASSUME TypeOK, Retries, NEW id, Settle(id), UNCHANGED <<asked, origin>>,
           \A c \in queue : \A l \in Lanes : \A i \in 1 .. Run(l) : origin[l][i] = c.id => c.id = id
    PROVE  Retries'
<1>1. IdsInv'
    BY DEF Retries, IdsInv, Settle, Run
<1>2. RetryInv'
    BY DEF RetryInv, Settle, Run
<1>3. OneRunPerRetry'
    BY DEF Retries, OneRunPerRetry, Run
<1> QED BY <1>1, <1>2, <1>3 DEF Retries

\* A new run records what made it; no retry had been cut short.
LEMMA RunRetries ==
    ASSUME TypeOK, Retries, NEW l \in Lanes, NEW id \in 0 .. asked, UNCHANGED <<queue, asked>>,
           origin' = [origin EXCEPT ![l] = Append(@, id)],
           \A c \in queue : \A m \in Lanes : \A i \in 1 .. Run(m) : origin[m][i] # c.id,
           id # 0 => \A i \in 1 .. Run(l) : origin[l][i] # id
    PROVE  /\ IdsInv' /\ OneRunPerRetry'
           /\ \A c \in queue : \A m \in Lanes : \A i \in 1 .. Len(origin'[m]) :
                  origin'[m][i] = c.id => m = l /\ c.id = id
<1>1. /\ origin[l] \in Seq(0 .. MaxControls)
      /\ origin'[l] = Append(origin[l], id) /\ \A m \in Lanes \ {l} : origin'[m] = origin[m]
    BY DEF TypeOK
<1>2. /\ Len(origin[l]) \in Nat /\ Len(origin'[l]) = Len(origin[l]) + 1
      /\ \A i \in 1 .. Len(origin[l]) : origin'[l][i] = origin[l][i]
      /\ origin'[l][Len(origin[l]) + 1] = id
    BY <1>1
<1>3. \A m \in Lanes : \A i \in 1 .. Len(origin'[m]) :
          \/ i \in 1 .. Len(origin[m]) /\ origin'[m][i] = origin[m][i]
          \/ m = l /\ i = Len(origin[l]) + 1 /\ origin'[m][i] = id
    BY <1>1, <1>2
<1>4. IdsInv'
  <2>1. \A m \in Lanes : \A i \in 1 .. Len(origin'[m]) : origin'[m][i] \in 0 .. asked
      BY <1>3 DEF Retries, IdsInv, Run
  <2> QED BY <2>1 DEF Retries, IdsInv, Run
<1>5. OneRunPerRetry'
  <2>1. ASSUME NEW m \in Lanes, NEW i \in 1 .. Len(origin'[m]), NEW j \in 1 .. Len(origin'[m]),
               origin'[m][i] = origin'[m][j], origin'[m][i] # 0
        PROVE  i = j
      BY <1>3, <2>1 DEF Retries, OneRunPerRetry, Run
  <2> QED BY <2>1 DEF OneRunPerRetry, Run
<1>6. \A c \in queue : \A m \in Lanes : \A i \in 1 .. Len(origin'[m]) :
          origin'[m][i] = c.id => m = l /\ c.id = id
    BY <1>3 DEF Run
<1> QED BY <1>4, <1>5, <1>6

\* Every step keeps them.
LEMMA RetriesStep == TypeOK /\ Retries /\ [Next]_vars => Retries'
<1> SUFFICES ASSUME TypeOK, Retries, [Next]_vars PROVE Retries' OBVIOUS
<1> USE DEF Go, At
<1>1. ASSUME pc.at \notin {"tick", "retried"}, UNCHANGED <<queue, asked, origin>> PROVE Retries'
  <2>1. \A c \in queue : \A l \in Lanes : \A i \in 1 .. Run(l) : origin[l][i] # c.id
      BY <1>1 DEF Retries, RetryInv
  <2> QED BY <1>1, <2>1 DEF Retries, IdsInv, RetryInv, OneRunPerRetry, Run
<1>2. CASE Apply
  <2> PICK c \in queue : First(c) /\ (ApplyMode(c) \/ ApplyLane(c)) /\ Settle(c.id)
      BY <1>2 DEF Apply
  <2>1. c.kind # "retry" /\ UNCHANGED <<asked, origin>>
      BY <1>2 DEF Apply, ApplyMode, ApplyLane, runs
  <2>2. \A d \in queue : First(d) => d = c
      BY DEF First, Retries, IdsInv
  <2>3. \A d \in queue : \A l \in Lanes : \A i \in 1 .. Run(l) : origin[l][i] = d.id => d.id = c.id
      BY <2>2 DEF Retries, RetryInv
  <2> QED BY <2>1, <2>3, SettleRetries
<1>3. CASE Retry
  <2> PICK c \in queue : /\ First(c) /\ c.kind = "retry" /\ Rerun(c.lane, c.id)
                         /\ pc' = [at |-> "retried", lane |-> c.lane, id |-> c.id]
      BY <1>3 DEF Retry
  <2>1. UNCHANGED <<queue, asked>> /\ pc.at = "tick"
      BY <1>3 DEF Retry
  <2>2. \A d \in queue : First(d) => d = c
      BY DEF First, Retries, IdsInv
  <2>3. c.id \in 1 .. asked /\ asked \in Nat
      BY BoundsAssumption DEF Retries, IdsInv, TypeOK
  <2>4. CASE c.lane \in Lanes /\ status[c.lane] = "validated"
    <3>1. \A d \in queue : \A m \in Lanes : \A i \in 1 .. Run(m) : origin[m][i] # d.id
        BY <2>2, <2>4 DEF Retries, RetryInv
    <3>2. origin' = [origin EXCEPT ![c.lane] = Append(@, c.id)] /\ status'[c.lane] = "working"
        BY <2>4 DEF Rerun, Open, Working, TypeOK
    <3>3. /\ IdsInv' /\ OneRunPerRetry'
          /\ \A d \in queue : \A m \in Lanes : \A i \in 1 .. Len(origin'[m]) :
                 origin'[m][i] = d.id => m = c.lane /\ d.id = c.id
      <4>1. c.id \in 0 .. asked /\ c \in queue
          BY <2>3
      <4>2. \A i \in 1 .. Run(c.lane) : origin[c.lane][i] # c.id
          BY <2>4, <3>1, <4>1
      <4> QED BY <2>1, <2>4, <3>1, <3>2, <4>1, <4>2, RunRetries
    <3>4. RetryInv'
        BY <2>1, <3>2, <3>3 DEF RetryInv, Retries, IdsInv, First, Run
    <3> QED BY <3>3, <3>4 DEF Retries
  <2>5. CASE ~(c.lane \in Lanes /\ status[c.lane] = "validated")
    <3>1. origin' = origin
        BY <2>5 DEF Rerun, TypeOK
    <3>2. \A l \in Lanes : status[l] = "working" => status'[l] = "working"
        BY <2>5 DEF Rerun, TypeOK
    <3>3. IdsInv' /\ OneRunPerRetry'
        BY <2>1, <3>1 DEF Retries, IdsInv, OneRunPerRetry, Run
    <3>4. RetryInv'
        BY <2>1, <2>2, <3>1, <3>2 DEF Retries, RetryInv, Run, First
    <3> QED BY <3>3, <3>4 DEF Retries
  <2> QED BY <2>4, <2>5
<1>4. CASE FinishRetry
  <2>1. \A c \in queue : \A l \in Lanes : \A i \in 1 .. Run(l) : origin[l][i] = c.id => c.id = pc.id
      BY <1>4 DEF FinishRetry, Retries, RetryInv
  <2> QED BY <1>4, <2>1, SettleRetries DEF FinishRetry, runs
<1>5. CASE FinishHold \/ FinishPause
  <2>1. \A c \in queue : \A l \in Lanes : \A i \in 1 .. Run(l) : origin[l][i] = c.id => c.id = pc.id
      BY <1>5 DEF FinishHold, FinishPause, Retries, RetryInv
  <2> QED BY <1>5, <2>1, SettleRetries DEF FinishHold, FinishPause, runs
<1>6. CASE Look
    BY <1>6 DEF Look, Retries, IdsInv, RetryInv, OneRunPerRetry, runs, Run
<1>7. CASE Idle \/ Repair
    BY <1>1, <1>7 DEF Idle, Repair, runs
<1>8. CASE Crash
  <2>1. CASE pc.at = "retried"
      BY <1>8, <2>1 DEF Crash, Retries, IdsInv, RetryInv, OneRunPerRetry, runs, Run, First
  <2>2. CASE pc.at # "retried"
      BY <1>1, <1>8, <2>2 DEF Crash, runs
  <2> QED BY <2>1, <2>2
<1>9. ASSUME NEW l \in Lanes, Advance(l) \/ Undecided(l) \/ Fail(l) PROVE Retries'
    BY <1>1, <1>9 DEF Advance, Work, Undecided, Fail
<1>10. ASSUME NEW l \in Lanes, Mismatch(l) PROVE Retries'
    BY <1>1, <1>10, QueueRetries DEF Mismatch, runs
<1>11. ASSUME NEW l \in Lanes, CreateRun(l) PROVE Retries'
  <2>1. \A c \in queue : \A m \in Lanes : \A i \in 1 .. Run(m) : origin[m][i] # c.id
      BY <1>11 DEF CreateRun, Retries, RetryInv
  <2>2. origin' = [origin EXCEPT ![l] = Append(@, 0)] /\ UNCHANGED <<queue, asked>> /\ 0 \in 0 .. asked
      BY <1>11, BoundsAssumption DEF CreateRun, TypeOK
  <2>3. /\ IdsInv' /\ OneRunPerRetry'
        /\ \A c \in queue : \A m \in Lanes : \A i \in 1 .. Len(origin'[m]) :
               origin'[m][i] = c.id => m = l /\ c.id = 0
      BY <2>1, <2>2, RunRetries
  <2>4. RetryInv'
      BY <2>2, <2>3 DEF RetryInv, Retries, IdsInv, Run
  <2> QED BY <2>3, <2>4 DEF Retries
<1>12. CASE SafetyStop
    BY <1>12, QueueRetries DEF SafetyStop
<1>13. CASE Owner
    BY <1>13, QueueRetries DEF Owner, AskMode, AskLane
<1>14. CASE UNCHANGED vars
    BY <1>14 DEF vars, Retries, IdsInv, RetryInv, OneRunPerRetry, runs, Run, First
<1> QED BY <1>2, <1>3, <1>4, <1>5, <1>6, <1>7, <1>8, <1>9, <1>10, <1>11, <1>12, <1>13, <1>14
        DEF Next, Worker, Controls, LaneWork

-----------------------------------------------------------------------------
\* The invariant holds of every reachable state.
LEMMA Invariance == Spec => []Inv
<1>1. Inv /\ [Next]_vars => Inv'
    BY Types, StoppedStep, BoundStep, SafetyStep, RetriesStep DEF Inv
<1> QED BY InitInv, <1>1, PTL DEF Spec

\* The controller's rows keep their shape.
THEOREM TypeCorrect == Spec => []TypeOK
<1>1. Inv => TypeOK BY DEF Inv
<1> QED BY Invariance, <1>1, PTL

\* Every paused run of every lane is under a hold that knows where to put it back, whatever controls were given.
THEOREM NoRunIsStranded == Spec => []PausedRunIsHeld
<1>1. Inv => PausedRunIsHeld BY DEF Inv, Stopped
<1> QED BY Invariance, <1>1, PTL

\* A retry applied again after a crash finds the run it made.
THEOREM RetriesAreSafe == Spec => []OneRunPerRetry
<1>1. Inv => OneRunPerRetry BY DEF Inv, Retries
<1> QED BY Invariance, <1>1, PTL

\* No work between a safety pause being asked for and its being applied.
THEOREM SafetyPausesHold == Spec => []SafetyPauseHolds
<1>1. Inv => SafetyPauseHolds BY DEF Inv
<1> QED BY Invariance, <1>1, PTL

\* What may change a lane's status: its own control, work it may do, a repair, or the hold the controller asked for.
LEMMA WhoMoves ==
    ASSUME Inv, [Next]_vars, NEW l \in Lanes, status'[l] # status[l]
    PROVE  \/ ControlOf(l)
           \/ At("busy") /\ MayWork(l) /\ status[l] # "validating" /\ mode = "active"
           \/ At("busy") /\ MayWork(l) /\ status[l] = "validating" /\ status'[l] \in {"validated", "quarantined"}
           \/ At("busy") /\ MayWork(l) /\ status[l] = "validating" /\ Rejected(l)
           \/ At("busy") /\ hold[l].state # "held" /\ mode = "active"
           \/ Repair /\ l = pc.lane
           \/ FinishHold /\ l = pc.lane
<1> USE DEF Inv, TypeOK
<1>1. CASE Apply
  <2> PICK c \in queue : First(c) /\ (ApplyMode(c) \/ ApplyLane(c))
      BY <1>1 DEF Apply
  <2>1. c.lane = l
      BY DEF ApplyMode, ApplyLane, HoldLane, ReleaseLane, ValidateLane, RetireLane, runs
  <2> QED BY <1>1, <2>1 DEF ControlOf, Apply
<1>2. CASE Retry
  <2> PICK c \in queue : First(c) /\ Rerun(c.lane, c.id)
      BY <1>2 DEF Retry
  <2>1. c.lane = l
      BY DEF Rerun
  <2> QED BY <1>2, <2>1 DEF ControlOf, Retry
<1>3. ASSUME NEW m \in Lanes, Advance(m)
      PROVE  /\ m = l /\ At("busy") /\ MayWork(l)
             /\ status[l] = "validating" => status'[l] \in {"validated", "quarantined"}
    BY <1>3 DEF Advance, Work
<1>4. ASSUME NEW m \in Lanes, Undecided(m) \/ Fail(m)
      PROVE  m = l /\ At("busy") /\ MayWork(l) /\ status[l] = "validating" /\ Rejected(l)
    BY <1>4 DEF Undecided, Fail, Rejected
<1>5. ASSUME NEW m \in Lanes, CreateRun(m) PROVE At("busy") /\ hold[l].state # "held" /\ mode = "active"
    BY <1>5 DEF CreateRun
<1>6. CASE Repair
    BY <1>6 DEF Repair
<1>7. CASE FinishHold
    BY <1>7 DEF FinishHold, HoldLane
<1>8. ASSUME NEW m \in Lanes, Mismatch(m) PROVE FALSE
    BY <1>8 DEF Mismatch, runs
<1>9. ~(FinishRetry \/ Look \/ Idle \/ SafetyStop \/ FinishPause \/ Crash \/ Owner \/ UNCHANGED vars)
    BY DEF FinishRetry, Look, Idle, SafetyStop, FinishPause, Crash, Owner, AskMode, AskLane, vars, runs
<1>10. MayWork(l) /\ status[l] # "validating" => mode = "active"
    BY DEF MayWork
<1> QED BY <1>1, <1>2, <1>3, <1>4, <1>5, <1>6, <1>7, <1>8, <1>9, <1>10 DEF Next, Worker, Controls, LaneWork

\* A lane the owner holds rests until a control for it is applied.
THEOREM HeldLanesStay == Spec => HeldLanesRest
<1>1. ASSUME Inv, [Next]_vars, NEW l \in Lanes,
             hold[l].state = "held", hold[l].kind = "lane_hold", status'[l] # status[l]
      PROVE  ControlOf(l)
  <2>1. ~MayWork(l)
      BY <1>1 DEF MayWork, Authorized
  <2>2. ~(Repair /\ l = pc.lane)
      BY <1>1 DEF Repair, Inv, Bound, RepairInv
  <2>3. ~(FinishHold /\ l = pc.lane)
      BY <1>1 DEF FinishHold, Inv, Bound, HoldingInv, Authorized
  <2> QED BY <1>1, <2>1, <2>2, <2>3, WhoMoves
<1>2. Inv /\ [Next]_vars =>
          [\A l \in Lanes : hold[l].state = "held" /\ hold[l].kind = "lane_hold" /\ status'[l] # status[l] =>
               ControlOf(l)]_vars
    BY <1>1
<1> QED BY <1>2, Invariance, PTL DEF HeldLanesRest, Spec

\* In a pause only an authorized validation moves, and it never reaches repair.
THEOREM PausesAreBounded == Spec => PausedLanesRest
<1>1. ASSUME Inv, [Next]_vars, NEW l \in Lanes, mode = "paused", status'[l] # status[l], ~ControlOf(l)
      PROVE  /\ Authorized(l) /\ status[l] = "validating"
             /\ status'[l] # "rework"
             /\ status'[l] = "paused" => hold'[l].state = "held"
  <2>1. ~Repair
      BY <1>1 DEF Repair, Inv, Bound, RepairInv
  <2>2. CASE FinishHold /\ l = pc.lane
    <3>1. Authorized(l) /\ status[l] = "validating"
        BY <1>1, <2>2 DEF FinishHold, Inv, Bound, HoldingInv
    <3>2. status'[l] = "paused" /\ hold'[l].state = "held"
        BY <1>1, <2>2, <3>1 DEF FinishHold, HoldLane, Open, Working, Inv, TypeOK
    <3> QED BY <3>1, <3>2
  <2>3. CASE MayWork(l) /\ status[l] = "validating" /\ status'[l] \in {"validated", "quarantined"}
      BY <1>1, <2>3 DEF MayWork
  <2>4. CASE MayWork(l) /\ status[l] = "validating" /\ Rejected(l)
    <3>1. Authorized(l)
        BY <1>1, <2>4 DEF MayWork
    <3> QED BY <1>1, <2>4, <3>1 DEF Rejected, Inv, TypeOK, Hold
  <2> QED BY <1>1, <2>1, <2>2, <2>3, <2>4, WhoMoves
<1>2. Inv /\ [Next]_vars =>
          [\A l \in Lanes : mode = "paused" /\ status'[l] # status[l] =>
               \/ ControlOf(l)
               \/ /\ Authorized(l) /\ status[l] = "validating"
                  /\ status'[l] # "rework"
                  /\ status'[l] = "paused" => hold'[l].state = "held"]_vars
    BY <1>1
<1> QED BY <1>2, Invariance, PTL DEF PausedLanesRest, Spec

\* The two together.
THEOREM LanesStayAtRest == Spec => LanesRest
BY HeldLanesStay, PausesAreBounded DEF LanesRest

\* An approval lifts the hold it was given for and no other.
THEOREM ApprovalsAreNamed == Spec => HoldsEndByName
<1>1. ASSUME Inv, [Next]_vars, NEW l \in Lanes, hold[l].state = "held", hold'[l].state \in {"free", "authorized"}
      PROVE  At("tick") /\ \E c \in queue : First(c) /\ c.lane = l /\ c.names = hold[l].by
  <2> USE <1>1 DEF Inv, TypeOK
  <2>1. hold'[l] # hold[l]
      OBVIOUS
  <2>2. CASE Apply
    <3> PICK c \in queue : First(c) /\ (ApplyMode(c) \/ ApplyLane(c))
        BY <2>2 DEF Apply
    <3>1. ApplyLane(c)
        BY <2>1 DEF ApplyMode
    <3>2. ~HoldLane(c.lane, c.id)
        BY <2>1 DEF HoldLane
    <3>3. ~RetireLane(c.lane, c.id, c.names)
        BY <2>1 DEF RetireLane
    <3>4. c.lane = l /\ c.names = hold[l].by
        BY <2>1, <3>1, <3>2, <3>3 DEF ApplyLane, ReleaseLane, ValidateLane
    <3> QED BY <2>2, <3>4 DEF Apply
  <2>3. ASSUME NEW m \in Lanes, Undecided(m) \/ Fail(m) PROVE FALSE
      BY <2>1, <2>3 DEF Undecided, Fail, Rejected, Hold
  <2>4. CASE FinishHold
      BY <2>1, <2>4 DEF FinishHold, HoldLane
  <2>5. ~(Retry \/ FinishRetry \/ Look \/ Idle \/ Repair \/ FinishPause \/ SafetyStop \/ Crash \/ Owner
          \/ UNCHANGED vars)
      BY <2>1 DEF Retry, FinishRetry, Look, Idle, Repair, FinishPause, SafetyStop, Crash, Owner, AskMode, AskLane,
                  vars
  <2>6. ~\E m \in Lanes : Advance(m) \/ Mismatch(m) \/ CreateRun(m)
      BY <2>1 DEF Advance, Work, Mismatch, CreateRun
  <2> QED BY <2>2, <2>3, <2>4, <2>5, <2>6 DEF Next, Worker, Controls, LaneWork
<1>2. Inv /\ [Next]_vars =>
          [\A l \in Lanes : hold[l].state = "held" /\ hold'[l].state \in {"free", "authorized"} =>
               At("tick") /\ \E c \in queue : First(c) /\ c.lane = l /\ c.names = hold[l].by]_vars
    BY <1>1
<1> QED BY <1>2, Invariance, PTL DEF HoldsEndByName, Spec
=============================================================================
