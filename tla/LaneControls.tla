---------------------------- MODULE LaneControls ----------------------------
(***************************************************************************)
(* The owner's controls of the growth lanes and the runs they stop, resume *)
(* and release (src/lanes/controller.ts, src/lanes/state-store-sqlite.ts,  *)
(* src/bot/durable-lanes-command.ts).  A control is queued by a command or *)
(* by the controller itself, and the lease holder applies the first one    *)
(* before it does any lane work.  Some queued controls carry what their    *)
(* sender saw: an approval names the hold it is about.                     *)
(*                                                                         *)
(* LaneActions shows that one worker at a time writes and that a mutation  *)
(* takes effect once; here the worker is one process, a tick is one step   *)
(* where it makes one store call, and work is what it does to a run's      *)
(* status.  One manifest revision is active throughout.                    *)
(***************************************************************************)
EXTENDS Integers, Sequences

CONSTANTS
    Lanes,         \* the manifest's lanes
    OneShot,       \* those that run once; the others recur
    Needs,         \* lanes that must be validated before a lane's run is created
    MaxControls,   \* bound: controls queued
    MaxRuns,       \* bound: generations at which the schedule stops
    MaxTrouble     \* bound: crashes and safety pauses

ASSUME LanesAssumption  == OneShot \subseteq Lanes /\ Needs \in [Lanes -> SUBSET Lanes]
ASSUME BoundsAssumption == MaxControls \in Nat /\ MaxRuns \in Nat \ {0} /\ MaxTrouble \in Nat

NoLane == "-"
ASSUME NoLaneAssumption == NoLane \notin Lanes

VARIABLES
    mode,       \* the controller's mode
    pausedFrom, \* the mode its reason says it was paused from
    queue,      \* the pending controls
    asked,      \* how many controls were ever queued; their ids are 1 .. asked
    status,     \* status of each lane's latest run; working stands for queued to merging
    resume,     \* metadata_json.resume_status of that run
    origin,     \* what made each run of the lane: a retry control, or 0 for the schedule
    hold,       \* the lane's row of lane_v2_lane_controls
    reheld,     \* the run whose validation the controller asked to hold; its key is used up
    pc,         \* where the worker is, and the lane or the control it is at
    trouble

control == <<mode, pausedFrom>>
runs    == <<status, resume, origin>>
vars    == <<mode, pausedFrom, queue, asked, status, resume, origin, hold, reheld, pc, trouble>>

Run(l)    == Len(origin[l])
Working   == {"working", "validating", "rework"}
Open      == Working \cup {"quarantined"}
NoHold    == [state |-> "free", by |-> 0, kind |-> "-", run |-> 0, resume |-> "none"]
Was(l)    == IF status[l] = "paused" THEN resume[l] ELSE status[l]
Merged(l) == Was(l) \in {"validating", "rework", "validated"}

Go(where, x) == pc' = [at |-> where, lane |-> x, id |-> 0]
At(where)    == pc.at = where
Trouble      == trouble < MaxTrouble /\ trouble' = trouble + 1

\* createControl(): a row of its own, behind all others.
Queue(from, kind, l, names) ==
    /\ asked < MaxControls
    /\ asked' = asked + 1
    /\ queue' = queue \cup {[id |-> asked', from |-> from, kind |-> kind, lane |-> l, names |-> names]}

-----------------------------------------------------------------------------
Init ==
    /\ mode = "active" /\ pausedFrom = "none"
    /\ queue = {} /\ asked = 0
    /\ status = [l \in Lanes |-> "none"]
    /\ resume = [l \in Lanes |-> "none"]
    /\ origin = [l \in Lanes |-> <<>>]
    /\ hold = [l \in Lanes |-> NoHold]
    /\ reheld = [l \in Lanes |-> 0]
    /\ pc = [at |-> "tick", lane |-> NoLane, id |-> 0]
    /\ trouble = 0

-----------------------------------------------------------------------------
(* What the owner asks.  Nothing but the name of the hold is checked when a control is queued. *)

AskMode(kind) ==
    /\ Queue("owner", kind, NoLane, 0)
    /\ UNCHANGED <<control, runs, hold, reheld, pc, trouble>>

\* What an approval is about: the hold its sender saw, or the merged run whose evidence he has.
Names(kind, l) ==
    CASE kind \in {"lane_release", "lane_validate"} -> hold[l].by
      [] kind = "lane_retire" -> Run(l)
      [] OTHER -> 0

AskLane(kind, l) ==
    /\ kind \in {"lane_release", "lane_validate"} => hold[l].state = "held"
    /\ kind = "lane_validate" => hold[l].resume \in {"validating", "rework", "validated"}
    /\ kind = "lane_retire" => l \in OneShot /\ Merged(l)
    /\ Queue("owner", kind, l, Names(kind, l))
    /\ UNCHANGED <<control, runs, hold, reheld, pc, trouble>>

-----------------------------------------------------------------------------
(* The lease holder applies a control: one transaction of finishControl()  *)
(* settles it and does what it says.  What cannot be applied stays queued. *)

First(c)   == c \in queue /\ \A d \in queue : c.id <= d.id
Settle(id) == queue' = {c \in queue : c.id # id}

Pause == mode' = "paused" /\ pausedFrom' = mode

Resume ==
    /\ mode = "paused" /\ pausedFrom = "active"
    /\ mode' = "active" /\ pausedFrom' = "none"

Switch(kind) ==
    /\ mode' = CASE kind = "cutover" -> "active" [] kind = "shadow" -> "shadow" [] kind = "rollback" -> "disabled"
    /\ pausedFrom' = "none"

\* lane_hold: an open run is paused, and the record says where it was.  A later hold replaces an earlier one.
HoldLane(l, id) ==
    /\ hold[l].state # "retired"
    /\ hold' = [hold EXCEPT ![l] = [state |-> "held", by |-> id, kind |-> "lane_hold", run |-> Run(l),
                                    resume |-> Was(l)]]
    /\ status' = [status EXCEPT ![l] = IF @ \in Open THEN "paused" ELSE @]
    /\ resume' = [resume EXCEPT ![l] = IF status[l] \in Open THEN status[l] ELSE @]

\* Mutant: the hold is lifted whatever hold the approval was given for.
ReleaseAny(l, names) ==
    /\ hold[l].state = "held"
    /\ hold' = [hold EXCEPT ![l] = NoHold]
    /\ status' = [status EXCEPT ![l] = IF @ = "paused" /\ hold[l].run = Run(l) THEN hold[l].resume ELSE @]
    /\ resume' = resume

\* Mutant: the record goes, the run stays paused.
ReleaseRecord(l, names) ==
    /\ hold[l].state = "held" /\ hold[l].by = names
    /\ hold' = [hold EXCEPT ![l] = NoHold]
    /\ UNCHANGED <<status, resume>>

\* lane_release: of the very hold it names; the run goes back to where the record says it was.
ReleaseLane(l, names) ==
    /\ hold[l].state = "held" /\ hold[l].by = names
    /\ hold' = [hold EXCEPT ![l] = NoHold]
    /\ status' = [status EXCEPT ![l] = IF @ = "paused" /\ hold[l].run = Run(l) THEN hold[l].resume ELSE @]
    /\ resume' = resume

\* lane_validate: lets one held, merged run of a one-shot lane validate while everything else is paused.
ValidateLane(l, id, names) ==
    /\ mode = "paused" /\ l \in OneShot
    /\ hold[l].state = "held" /\ hold[l].by = names
    /\ hold[l].run = Run(l) /\ status[l] = "paused" /\ resume[l] = "validating"
    /\ status' = [status EXCEPT ![l] = "validating"]
    /\ hold' = [hold EXCEPT ![l] = [state |-> "authorized", by |-> id, kind |-> "lane_validate", run |-> Run(l),
                                    resume |-> @.resume]]
    /\ resume' = resume

\* lane_retire: a merged one-shot run at validation is taken as validated, once no lane that recurs on it can run.
RetireLane(l, id, names) ==
    /\ l \in OneShot /\ Was(l) = "validating" /\ Run(l) = names
    /\ \A d \in Lanes \ OneShot : l \in Needs[d] => hold[d].state = "held" \/ status[d] = "validated"
    /\ status' = [status EXCEPT ![l] = "validated"]
    /\ hold' = [hold EXCEPT ![l] = [state |-> "retired", by |-> id, kind |-> "lane_retire", run |-> Run(l),
                                    resume |-> "none"]]
    /\ resume' = resume

ApplyMode(c) ==
    /\ \/ c.kind = "pause" /\ Pause
       \/ c.kind = "resume" /\ Resume
       \/ c.kind \in {"cutover", "shadow", "rollback"} /\ Switch(c.kind)
    /\ UNCHANGED <<runs, hold, pc>>

ApplyLane(c) ==
    /\ \/ c.kind = "lane_hold" /\ HoldLane(c.lane, c.id)
       \/ c.kind = "lane_release" /\ ReleaseLane(c.lane, c.names)
       \/ c.kind = "lane_validate" /\ ValidateLane(c.lane, c.id, c.names)
       \/ c.kind = "lane_retire" /\ RetireLane(c.lane, c.id, c.names)
    /\ UNCHANGED <<control, origin, pc>>

\* tick(): the first pending control comes before any lane work.
Apply ==
    /\ At("tick")
    /\ \E c \in queue : First(c) /\ (ApplyMode(c) \/ ApplyLane(c)) /\ Settle(c.id)
    /\ UNCHANGED <<asked, reheld, trouble>>

\* Mutant: a retry makes a new run whatever became of the last one.
RerunAlways(l, id) ==
    /\ Run(l) > 0
    /\ origin' = [origin EXCEPT ![l] = Append(@, id)]
    /\ status' = [status EXCEPT ![l] = "working"]
    /\ resume' = [resume EXCEPT ![l] = "none"]

\* retry: a new run if the last one is over, else the last one goes on from where it stopped, held or not.
Rerun(l, id) ==
    \/ /\ status[l] = "validated"
       /\ origin' = [origin EXCEPT ![l] = Append(@, id)]
       /\ status' = [status EXCEPT ![l] = "working"]
       /\ resume' = [resume EXCEPT ![l] = "none"]
    \/ /\ status[l] \in Open \cup {"paused", "none"}
       /\ status' = [status EXCEPT ![l] = CASE @ = "paused" -> resume[l] [] @ = "quarantined" -> "working"
                                            [] OTHER -> @]
       /\ UNCHANGED <<origin, resume>>

\* applyControl() of a retry is two store calls: the run first...
Retry ==
    /\ At("tick")
    /\ \E c \in queue : /\ First(c) /\ c.kind = "retry"
                       /\ Rerun(c.lane, c.id)
                       /\ pc' = [at |-> "retried", lane |-> c.lane, id |-> c.id]
    /\ UNCHANGED <<control, queue, asked, hold, reheld, trouble>>

\* ...then the control.
FinishRetry ==
    /\ At("retried")
    /\ Settle(pc.id) /\ Go("tick", NoLane)
    /\ UNCHANGED <<control, asked, runs, hold, reheld, trouble>>

-----------------------------------------------------------------------------
(* A tick that saw no control pending works.  Controls may be queued while *)
(* it does.                                                                *)

\* Mutant: a tick works before it looks at the controls.
LookAway == At("tick") /\ Go("busy", NoLane) /\ UNCHANGED <<control, queue, asked, runs, hold, reheld, trouble>>

Look ==
    /\ At("tick") /\ queue = {}
    /\ Go("busy", NoLane)
    /\ UNCHANGED <<control, queue, asked, runs, hold, reheld, trouble>>

Idle == At("busy") /\ Go("tick", NoLane) /\ UNCHANGED <<control, queue, asked, runs, hold, reheld, trouble>>

Authorized(l) == hold[l].state = "authorized" /\ hold[l].run = Run(l)

\* Mutant: a held lane's run is taken up like any other.
MayWorkHeld(l) == mode = "active" \/ (mode = "paused" /\ Authorized(l) /\ status[l] = "validating")

\* Which runs a tick takes up: in active mode those of lanes neither held nor retired, in a pause only one
\* whose validation the owner authorized.
MayWork(l) ==
    \/ mode = "active" /\ hold[l].state \notin {"held", "retired"}
    \/ mode = "paused" /\ Authorized(l) /\ status[l] = "validating"

Work(l, from, to) ==
    /\ At("busy") /\ MayWork(l) /\ status[l] = from
    /\ status' = [status EXCEPT ![l] = to]
    /\ Go("tick", NoLane)
    /\ UNCHANGED <<control, queue, asked, resume, origin, hold, reheld, trouble>>

\* advanceRun() and advanceValidation() when all goes well, and when nobody but the owner can help.
Advance(l) ==
    \/ Work(l, "working", "validating")
    \/ Work(l, "validating", "validated")
    \/ Work(l, "rework", "working")
    \/ Work(l, "working", "quarantined")
    \/ Work(l, "validating", "quarantined")

\* Mutant: the run's status is written into the lane's row.
RejectedAsPaused(l) ==
    IF Authorized(l)
    THEN /\ status' = [status EXCEPT ![l] = "paused"]
         /\ resume' = [resume EXCEPT ![l] = "validating"]
         /\ hold' = [hold EXCEPT ![l].state = "paused"]
    ELSE UNCHANGED <<status, resume, hold>>

\* recordEvidence() of evidence it does not accept: an authorized run goes back to its hold with it.
Rejected(l) ==
    IF Authorized(l)
    THEN /\ status' = [status EXCEPT ![l] = "paused"]
         /\ resume' = [resume EXCEPT ![l] = "validating"]
         /\ hold' = [hold EXCEPT ![l].state = "held"]
    ELSE UNCHANGED <<status, resume, hold>>

\* Checks still to come are not accepted either.
Undecided(l) ==
    /\ At("busy") /\ MayWork(l) /\ status[l] = "validating"
    /\ Rejected(l)
    /\ Go("tick", NoLane)
    /\ UNCHANGED <<control, queue, asked, origin, reheld, trouble>>

\* Mutant: a failed validation goes to repair in a pause too.
FailToRepair(l) ==
    /\ At("busy") /\ MayWork(l) /\ status[l] = "validating"
    /\ Rejected(l)
    /\ Go("repair", l)
    /\ UNCHANGED <<control, queue, asked, origin, reheld, trouble>>

\* A check or the validation itself failed.  A bounded validation ends there; an unbounded one is repaired...
Fail(l) ==
    /\ At("busy") /\ MayWork(l) /\ status[l] = "validating"
    /\ Rejected(l)
    /\ IF mode = "paused" THEN Go("tick", NoLane) ELSE Go("repair", l)
    /\ UNCHANGED <<control, queue, asked, origin, reheld, trouble>>

\* ...even if recording the failure has just put the run on hold.
Repair ==
    /\ At("repair")
    /\ status' = [status EXCEPT ![pc.lane] = "rework"]
    /\ Go("tick", NoLane)
    /\ UNCHANGED <<control, queue, asked, resume, origin, hold, reheld, trouble>>

\* The checks of a bounded validation are of another commit.  pauseAuthorizedValidation() queues a hold under a
\* key of the run and the reason; once that control is settled, the key brings it back and nothing is held.
Mismatch(l) ==
    /\ At("busy") /\ mode = "paused" /\ MayWork(l)
    /\ IF reheld[l] = Run(l)
       THEN Go("tick", NoLane) /\ UNCHANGED <<queue, asked, reheld>>
       ELSE /\ Queue("controller", "lane_hold", l, 0)
            /\ reheld' = [reheld EXCEPT ![l] = Run(l)]
            /\ pc' = [at |-> "holding", lane |-> l, id |-> asked']
    /\ UNCHANGED <<control, runs, hold, trouble>>

FinishHold ==
    /\ At("holding")
    /\ HoldLane(pc.lane, pc.id)
    /\ Settle(pc.id) /\ Go("tick", NoLane)
    /\ UNCHANGED <<control, asked, origin, reheld, trouble>>

\* createNextRun(): a lane that is due and whose prerequisites are validated.
CreateRun(l) ==
    /\ At("busy") /\ mode = "active"
    /\ hold[l].state \notin {"held", "retired"}
    /\ status[l] = "none" \/ (status[l] = "validated" /\ l \notin OneShot)
    /\ \A d \in Needs[l] : status[d] = "validated"
    /\ Run(l) < MaxRuns
    /\ origin' = [origin EXCEPT ![l] = Append(@, 0)]
    /\ status' = [status EXCEPT ![l] = "working"]
    /\ resume' = [resume EXCEPT ![l] = "none"]
    /\ Go("tick", NoLane)
    /\ UNCHANGED <<control, queue, asked, hold, reheld, trouble>>

\* pauseForSafety(): capacity, duplicates, drift, an uncertain effect.  It queues a control like the owner's...
SafetyStop ==
    /\ At("busy") /\ mode # "paused"
    /\ Trouble
    /\ Queue("controller", "pause", NoLane, 0)
    /\ pc' = [at |-> "pausing", lane |-> NoLane, id |-> asked']
    /\ UNCHANGED <<control, runs, hold, reheld>>

\* ...and applies it itself, whatever else is queued.
FinishPause ==
    /\ At("pausing")
    /\ Pause /\ Settle(pc.id) /\ Go("tick", NoLane)
    /\ UNCHANGED <<asked, runs, hold, reheld, trouble>>

\* The worker dies between two store calls and another one takes over.
Crash ==
    /\ ~At("tick")
    /\ Trouble
    /\ Go("tick", NoLane)
    /\ UNCHANGED <<control, queue, asked, runs, hold, reheld>>

-----------------------------------------------------------------------------
Controls == Apply \/ Retry \/ FinishRetry

LaneWork(l) == Advance(l) \/ Undecided(l) \/ Fail(l) \/ Mismatch(l) \/ CreateRun(l)

Worker ==
    \/ Controls
    \/ Look \/ Idle
    \/ \E l \in Lanes : LaneWork(l)
    \/ Repair \/ FinishHold \/ FinishPause

Owner ==
    \/ \E kind \in {"pause", "resume", "cutover", "shadow", "rollback"} : AskMode(kind)
    \/ \E kind \in {"retry", "lane_hold", "lane_release", "lane_validate", "lane_retire"}, l \in Lanes :
           AskLane(kind, l)

Next == Worker \/ Owner \/ SafetyStop \/ Crash

Spec == Init /\ [][Next]_vars

\* The worker is restarted and ticks for ever.  Nothing is assumed of the owner, of crashes or of what work does.
FairSpec == Spec /\ WF_vars(Worker)

-----------------------------------------------------------------------------
(* What must hold.                                                         *)

Statuses == Open \cup {"none", "paused", "validated"}

Control == [id : 1 .. MaxControls, from : {"owner", "controller"},
            kind : {"pause", "resume", "cutover", "shadow", "rollback",
                    "retry", "lane_hold", "lane_release", "lane_validate", "lane_retire"},
            lane : Lanes \cup {NoLane}, names : Nat]

Hold == [state : {"free", "held", "authorized", "retired"}, by : 0 .. MaxControls,
         kind : {"-", "lane_hold", "lane_validate", "lane_retire"}, run : Nat, resume : Statuses]

\* Every variable keeps the shape its row has.
TypeOK ==
    /\ mode \in {"disabled", "shadow", "active", "paused"}
    /\ pausedFrom \in {"none", "disabled", "shadow", "active", "paused"}
    /\ queue \in SUBSET Control /\ asked \in 0 .. MaxControls
    /\ status \in [Lanes -> Statuses] /\ resume \in [Lanes -> Statuses]
    /\ origin \in [Lanes -> Seq(0 .. MaxControls)]
    /\ hold \in [Lanes -> Hold] /\ reheld \in [Lanes -> Nat]
    /\ pc \in [at : {"tick", "retried", "busy", "repair", "holding", "pausing"},
               lane : Lanes \cup {NoLane}, id : 0 .. MaxControls]
    /\ trouble \in 0 .. MaxTrouble

\* A run is paused only under a hold of its own lane that knows where to put it back, and that is where a retry
\* would put it too: through holds over holds, retries, rejected validations and crashes, no run is stranded.
PausedRunIsHeld ==
    \A l \in Lanes : status[l] = "paused" =>
        /\ hold[l].state = "held" /\ hold[l].run = Run(l)
        /\ hold[l].resume = resume[l] /\ resume[l] \in Open

\* A retry that is applied again after a crash makes no second run.
OneRunPerRetry ==
    \A l \in Lanes : \A i, j \in 1 .. Run(l) : origin[l][i] = origin[l][j] /\ origin[l][i] # 0 => i = j

\* From the moment the controller asks for a safety pause nothing works until it is applied, whoever crashes and
\* whatever the owner has queued before it.
SafetyPauseHolds ==
    (\E c \in queue : c.kind = "pause" /\ c.from = "controller") =>
        pc.at \in {"tick", "retried", "pausing"}

\* The control being applied is for lane l.
ControlOf(l) == At("tick") /\ \E c \in queue : First(c) /\ c.lane = l

\* A lane that was put on hold does not move until a control for it is applied.
HeldLanesRest ==
    [][\A l \in Lanes : hold[l].state = "held" /\ hold[l].kind = "lane_hold" /\ status'[l] # status[l] =>
           ControlOf(l)]_vars

\* docs/lanes-command-center-integration.md: in a pause only an authorized validation moves, only to its end, and
\* one that fails is back under its hold in the same step, never in repair.
PausedLanesRest ==
    [][\A l \in Lanes : mode = "paused" /\ status'[l] # status[l] =>
           \/ ControlOf(l)
           \/ /\ Authorized(l) /\ status[l] = "validating"
              /\ status'[l] # "rework"
              /\ status'[l] = "paused" => hold'[l].state = "held"]_vars

\* What the owner put at rest, one lane or all of them, stays at rest until he says otherwise.
LanesRest == HeldLanesRest /\ PausedLanesRest

\* The same document: a hold is lifted only by an approval given for that very hold.  One that was given for a
\* hold since replaced never lifts the new one.
HoldsEndByName ==
    [][\A l \in Lanes : hold[l].state = "held" /\ hold'[l].state \in {"free", "authorized"} =>
           At("tick") /\ \E c \in queue : First(c) /\ c.lane = l /\ c.names = hold[l].by]_vars

\* The same document: a queued approval whose hold was replaced is invalidated.  So it does not stay at the head of
\* the queue, where no other control gets past it.
StaleApprovalIsDropped ==
    \A i \in 1 .. MaxControls :
        (\E c \in queue : /\ First(c) /\ c.id = i
                          /\ c.kind \in {"lane_release", "lane_validate"}
                          /\ hold[c.lane].by # c.names)
        ~> (\A c \in queue : c.id # i)
=============================================================================
