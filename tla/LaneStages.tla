----------------------------- MODULE LaneStages -----------------------------
(***************************************************************************)
(* One run of a lane from its first prompt to its validation                *)
(* (src/lanes/controller.ts advanceRun and what it calls, and the gates of  *)
(* src/lanes/state-store-sqlite.ts).  The author, the reviewers, the owner  *)
(* of the pull request, CI and the clock go on between any two calls of the *)
(* controller, and the worker may die between any two of its writes.        *)
(*                                                                          *)
(* The worker holds the lease (LaneActions) and no control is pending       *)
(* (LaneControls), so that only the controller writes the run.  A head is a *)
(* number, and the commit that a merge makes has the number of the head.    *)
(***************************************************************************)
EXTENDS Naturals, Sequences, FiniteSets

CONSTANTS
    Rotation,     \* the lane's providers, in the order in which they are tried
    MaxPushes,    \* heads that exist
    MaxForeign,   \* pushes by others than the author
    MaxRejects,   \* verdicts "changes", failed validations and red merged commits
    MaxReruns,    \* CI runs started again
    MaxTrouble,   \* failed calls, silent or failing agents and deaths of the worker
    MaxAges       \* times that a recorded validation grows old

ASSUME StagesBounds ==
    /\ Rotation \in Seq(STRING) /\ Len(Rotation) >= 1
    /\ \A i, j \in 1..Len(Rotation) : i # j => Rotation[i] # Rotation[j]
    /\ {MaxPushes, MaxForeign, MaxRejects, MaxReruns, MaxTrouble, MaxAges} \subseteq Nat

VARIABLES
    run,      \* its row: status, author, head, merged and whether the notice is posted
    work,     \* attempts that still count: active ones and completed ones
    review,   \* per head, the newest adversarial_review row: accepted in its payload?
    finals,   \* <<head, provider>> of the accepted final_attestation rows
    checks,   \* per head and kind, [newest, window]: the rows of CI and mergeability
    proof,    \* per head, the newest deterministic_validation row
    ctl,      \* where the controller is in a handler of several writes
    down,     \* providers whose breaker is open, or whose capacity other runs hold
    host,     \* the Git host: the pull request and its checks
    votes,    \* history: what agents answered, and for which head
    greens,   \* history: merged commits whose checks were read as green
    count     \* what the bounds count

vars == <<run, work, review, finals, checks, proof, ctl, down, host, votes, greens, count>>

Providers == {Rotation[i] : i \in 1..Len(Rotation)}
Heads == 1..MaxPushes
Active == {"commissioned", "working", "answered"}
Roles == {"implementation", "review", "final", "validation"}
NoCtl == [pc |-> "idle", head |-> 0, verdict |-> "none"]
NoRows == [newest |-> "none", window |-> {}]

Spend(k, bound) == count[k] < bound /\ count' = [count EXCEPT ![k] = @ + 1]
Trouble == Spend("trouble", MaxTrouble)

Init ==
    /\ run = [status |-> "queued", author |-> "none", head |-> 0, merged |-> 0, notice |-> FALSE]
    /\ work = {} /\ review = [h \in Heads |-> "none"] /\ finals = {}
    /\ checks = [k \in {"head", "merged"} |-> [h \in Heads |-> NoRows]]
    /\ proof = [h \in Heads |-> "none"]
    /\ ctl = NoCtl /\ down = {}
    /\ host = [state |-> "none", head |-> 0, ci |-> "pending"]
    /\ votes = {} /\ greens = {}
    /\ count = [k \in {"pushes", "foreign", "rejects", "reruns", "trouble", "ages"} |-> 0]

-----------------------------------------------------------------------------
(* Attempts                                                                 *)

ActiveFor(role) == {a \in work : a.role = role /\ a.st \in Active}
DoneFor(role, h) == {a \in work : a.role = role /\ a.head = h /\ a.st = "completed"}
With(a, st, verdict) == (work \ {a}) \cup {[a EXCEPT !.st = st, !.verdict = verdict]}
Bound(role) == CASE role = "implementation" -> 0
                 [] role = "validation" -> run.merged
                 [] OTHER -> run.head

\* selectProvider: the first of the rotation that may do it.
May(role, used) == {i \in 1..Len(Rotation) :
    /\ Rotation[i] \notin down \cup used
    /\ role \in {"review", "validation"} => Rotation[i] # run.author}
\* Mutant: the author reviews and validates its own work.
SelectedAnyone(role, used) ==
    LET may == {i \in 1..Len(Rotation) : Rotation[i] \notin down}
    IN  IF may = {} THEN "none" ELSE Rotation[CHOOSE i \in may : \A j \in may : i <= j]

Selected(role, used) ==
    LET may == May(role, used)
    IN  IF may = {} THEN "none" ELSE Rotation[CHOOSE i \in may : \A j \in may : i <= j]

\* beginAttempt: final providers are distinct per head.
Refused(role, p) == role = "final" /\ <<run.head, p>> \in finals

Begin(role, used) ==
    LET p == Selected(role, used) IN
    /\ ActiveFor(role) = {} /\ p # "none" /\ ~Refused(role, p)
    /\ work' = work \cup {[role |-> role, prov |-> p, head |-> Bound(role),
                           st |-> "commissioned", verdict |-> "none"]}
    /\ UNCHANGED <<run, review, finals, checks, proof, ctl, down, host, votes, greens, count>>

\* failProviderAttempt: the breaker opens at once, at the third failure, or not.
Fails(a) ==
    /\ work' = work \ {a}
    /\ down' \in {down, down \cup {a.prov}}

\* Workspace, session and prompt, each by way of performAction.
Prompt(a) ==
    /\ a.st = "commissioned" /\ a.role # "validation"
    /\ \/ work' = With(a, "working", "none") /\ UNCHANGED <<down, count>>
       \/ Trouble /\ Fails(a)
    /\ UNCHANGED <<run, review, finals, checks, proof, ctl, host, votes, greens>>

\* updateProgressOrNudge: a session in error, or silent after two nudges.
GivesUp(a) ==
    /\ a.st = "working" /\ Trouble
    /\ \/ Fails(a)
       \/ work' = work \ {a} /\ UNCHANGED down
    /\ UNCHANGED <<run, review, finals, checks, proof, ctl, host, votes, greens>>

-----------------------------------------------------------------------------
(* Writes of the store                                                      *)

\* transitionRun: a head that is left takes its accepted evidence with it.
MoveTo(status, h) ==
    /\ run' = [run EXCEPT !.status = status, !.head = h]
    /\ finals' = IF run.head \in {0, h} THEN finals ELSE {f \in finals : f[1] = h}

\* recordEvidence: a key that was seen in this window answers with its first row.
Record(kind, h, verdict) ==
    checks' = IF verdict \in checks[kind][h].window THEN checks
              ELSE [checks EXCEPT ![kind][h] =
                       [newest |-> verdict, window |-> @.window \cup {verdict}]]

Quarantine ==
    /\ run' = [run EXCEPT !.status = "quarantined"] /\ ctl' = NoCtl
    /\ work' = {a \in work : a.st \notin Active}

-----------------------------------------------------------------------------
(* Implementation                                                           *)

SelectAuthor ==
    /\ ctl.pc = "idle" /\ run.status = "queued" /\ Selected("implementation", {}) # "none"
    /\ run' = [run EXCEPT !.status = "implementing", !.author = Selected("implementation", {})]
    /\ UNCHANGED <<work, review, finals, checks, proof, ctl, down, host, votes, greens, count>>
RotateAuthor ==
    /\ ctl.pc = "idle" /\ run.status = "implementing" /\ ActiveFor("implementation") = {}
    /\ Selected("implementation", {}) \notin {"none", run.author}
    /\ run' = [run EXCEPT !.author = Selected("implementation", {})]
    /\ UNCHANGED <<work, review, finals, checks, proof, ctl, down, host, votes, greens, count>>
BeginAuthor ==
    /\ ctl.pc = "idle" /\ run.status = "implementing"
    /\ Selected("implementation", {}) = run.author /\ Begin("implementation", {})

\* Mutant: the attempt stays open behind the pull request that it made.
ReadPrOnly ==
    /\ ctl.pc = "idle" /\ run.status = "implementing"
    /\ \E a \in ActiveFor("implementation") :
          a.st = "answered" /\ ctl' = [NoCtl EXCEPT !.pc = "bind", !.head = host.head]
    /\ UNCHANGED <<run, work, review, finals, checks, proof, down, host, votes, greens, count>>

\* The author is idle and names its pull request, which is read.
ReadPr ==
    /\ ctl.pc = "idle" /\ run.status = "implementing"
    /\ \E a \in ActiveFor("implementation") :
          /\ a.st = "answered"
          /\ ctl' = [NoCtl EXCEPT !.pc = "bind", !.head = host.head]
          /\ work' = work \ {a}
    /\ UNCHANGED <<run, review, finals, checks, proof, down, host, votes, greens, count>>
BindPr ==
    /\ ctl.pc = "bind" /\ MoveTo("pr_bound", ctl.head) /\ ctl' = NoCtl
    /\ UNCHANGED <<work, review, checks, proof, down, host, votes, greens, count>>
EnterReview ==
    /\ ctl.pc = "idle" /\ run.status = "pr_bound"
    /\ run' = [run EXCEPT !.status = "reviewing"]
    /\ UNCHANGED <<work, review, finals, checks, proof, ctl, down, host, votes, greens, count>>

-----------------------------------------------------------------------------
(* Review and finals                                                        *)

Stage == CASE run.status = "reviewing" -> "review" [] run.status = "finals" -> "final"
           [] OTHER -> "none"
Judging == ctl.pc = "idle" /\ Stage # "none"
Steady == host.head = run.head /\ host.state = "open"
Against(role) == \E a \in DoneFor(role, run.head) : a.verdict = "changes"
For(role) == {a \in DoneFor(role, run.head) : a.verdict = "approve"}
Enough(role) == Cardinality(For(role)) >= (IF role = "review" THEN 1 ELSE 2)

\* invalidateHeadAttempts, then the transition.
Supersede(h) ==
    /\ work' = {a \in work : a.role \notin {"review", "final"} \/ a.head = h}
    /\ ctl' = [NoCtl EXCEPT !.pc = "newhead", !.head = h]
    /\ UNCHANGED <<run, review, finals, checks, proof, down, host, votes, greens, count>>
HeadMoved == Judging /\ host.head # run.head /\ Supersede(host.head)
\* reconcileBindings, in a full sweep: any run with a pull request not yet merged.
SweepHead ==
    /\ ctl.pc = "idle" /\ run.head # 0 /\ run.merged = 0 /\ host.head # run.head
    /\ run.status \notin {"validated", "quarantined"} /\ Supersede(host.head)
AdoptHead ==
    /\ ctl.pc = "newhead"
    /\ MoveTo(IF run.status \in {"finals", "merging"} THEN "reviewing" ELSE run.status, ctl.head)
    /\ ctl' = NoCtl
    /\ UNCHANGED <<work, review, checks, proof, down, host, votes, greens, count>>
NotReviewable ==
    /\ Judging /\ host.head = run.head /\ host.state # "open" /\ Quarantine
    /\ UNCHANGED <<review, finals, checks, proof, down, host, votes, greens, count>>

AskForRework ==
    /\ Judging /\ Steady /\ Against(Stage)
    /\ run' = [run EXCEPT !.status = "rework"]
    /\ UNCHANGED <<work, review, finals, checks, proof, ctl, down, host, votes, greens, count>>
\* A repair after the merge starts over with a pull request of its own.
ReturnToAuthor ==
    /\ ctl.pc = "idle" /\ run.status = "rework"
    /\ IF run.merged = 0 THEN run' = [run EXCEPT !.status = "implementing"] /\ UNCHANGED finals
       ELSE /\ run' = [run EXCEPT !.status = "implementing", !.head = 0, !.merged = 0,
                                  !.notice = FALSE]
            /\ finals' = {}
    /\ UNCHANGED <<work, review, checks, proof, ctl, down, host, votes, greens, count>>

\* enforceReviewGate reads the payload of the newest row.
EnterFinals ==
    /\ Judging /\ Steady /\ Stage = "review" /\ ~Against("review") /\ Enough("review")
    /\ review[run.head] = "yes"
    /\ run' = [run EXCEPT !.status = "finals"]
    /\ UNCHANGED <<work, review, finals, checks, proof, ctl, down, host, votes, greens, count>>
\* recordMergeEvidence: what CI says now is recorded, and read at the gate.
MergeEvidence ==
    /\ Judging /\ Steady /\ Stage = "final" /\ ~Against("final") /\ Enough("final")
    /\ Record("head", run.head, host.ci)
    /\ ctl' = IF host.ci = "green" THEN [NoCtl EXCEPT !.pc = "gate"] ELSE NoCtl
    /\ UNCHANGED <<run, work, review, finals, proof, down, host, votes, greens, count>>
\* enforceMergeGate; a refusal because of CI is looked at again.
MergeGate == /\ review[run.head] = "yes"
             /\ Cardinality({f \in finals : f[1] = run.head}) >= 2
             /\ checks["head"][run.head].newest = "green"
EnterMerge ==
    /\ ctl.pc = "gate" /\ ctl' = NoCtl
    /\ run' = IF MergeGate THEN [run EXCEPT !.status = "merging"] ELSE run
    /\ UNCHANGED <<work, review, finals, checks, proof, down, host, votes, greens, count>>
Commission ==
    /\ Judging /\ Steady /\ ~Against(Stage) /\ ~Enough(Stage)
    /\ Begin(Stage, {a.prov : a \in DoneFor(Stage, run.head)})

\* The marker of an idle session is published as a review of the head.
Attest ==
    /\ Judging /\ Steady /\ ~Against(Stage) /\ ~Enough(Stage)
    /\ \E a \in ActiveFor(Stage) :
          /\ a.st = "answered"
          /\ ctl' = [NoCtl EXCEPT !.pc = "attested", !.verdict = a.verdict]
    /\ UNCHANGED <<run, work, review, finals, checks, proof, down, host, votes, greens, count>>
\* recordEvidence; a row under a key that exists is not written again.
RecordVote ==
    /\ ctl.pc = "attested" /\ ctl' = [ctl EXCEPT !.pc = "evidenced"]
    /\ \E a \in ActiveFor(Stage) :
          IF Stage = "review"
          THEN /\ review' = [review EXCEPT ![run.head] = IF a.verdict = "approve" THEN "yes" ELSE "no"]
               /\ UNCHANGED finals
          ELSE /\ finals' = IF a.verdict = "approve" THEN finals \cup {<<run.head, a.prov>>} ELSE finals
               /\ UNCHANGED review
    /\ UNCHANGED <<run, work, checks, proof, down, host, votes, greens, count>>
CompleteVote ==
    /\ ctl.pc = "evidenced" /\ ctl' = NoCtl
    /\ \E a \in ActiveFor(Stage) : work' = With(a, "completed", ctl.verdict)
    /\ UNCHANGED <<run, review, finals, checks, proof, down, host, votes, greens, count>>

-----------------------------------------------------------------------------
(* Merge: the owner merges, the controller adopts                           *)

Merging == ctl.pc = "idle" /\ run.status = "merging"
\* Mutant: any merge of the pull request is adopted.
AdoptAnyMerge ==
    /\ Merging /\ run.merged = 0 /\ host.state = "merged"
    /\ run' = [run EXCEPT !.merged = host.head]
    /\ UNCHANGED <<work, review, finals, checks, proof, ctl, down, host, votes, greens, count>>

AdoptMerge ==
    /\ Merging /\ run.merged = 0 /\ host.state = "merged" /\ host.head = run.head
    /\ run' = [run EXCEPT !.merged = run.head]
    /\ UNCHANGED <<work, review, finals, checks, proof, ctl, down, host, votes, greens, count>>
RefuseMerge ==
    /\ Merging /\ run.merged = 0 /\ host.state = "merged" /\ host.head # run.head /\ Quarantine
    /\ UNCHANGED <<review, finals, checks, proof, down, host, votes, greens, count>>
\* At this stage only a passing gate is recorded.
KeepGateFresh ==
    /\ Merging /\ run.merged = 0 /\ Steady /\ host.ci = "green"
    /\ Record("head", run.head, "green")
    /\ UNCHANGED <<run, work, review, finals, proof, ctl, down, host, votes, greens, count>>
PostNotice ==
    /\ Merging /\ run.merged # 0 /\ ~run.notice
    /\ run' = [run EXCEPT !.notice = TRUE]
    /\ UNCHANGED <<work, review, finals, checks, proof, ctl, down, host, votes, greens, count>>
EnterValidation ==
    /\ Merging /\ run.merged # 0 /\ run.notice
    /\ run' = [run EXCEPT !.status = "validating"]
    /\ UNCHANGED <<work, review, finals, checks, proof, ctl, down, host, votes, greens, count>>

-----------------------------------------------------------------------------
(* Validation of the merged commit                                          *)

Validating == ctl.pc = "idle" /\ run.status = "validating"
Passed == \E a \in DoneFor("validation", run.merged) : a.verdict = "passed"

\* Every visit reads the merged commit's checks first, and records them.
ReadMergedCi ==
    /\ Validating /\ Record("merged", run.merged, host.ci)
    /\ ctl' = CASE host.ci = "green" -> [NoCtl EXCEPT !.pc = "validate"]
                 [] host.ci = "red" -> [NoCtl EXCEPT !.pc = "repair"]
                 [] OTHER -> NoCtl
    /\ greens' = IF host.ci = "green" THEN greens \cup {run.merged} ELSE greens
    /\ UNCHANGED <<run, work, review, finals, proof, down, host, votes, count>>
Repair ==
    /\ ctl.pc = "repair" /\ ctl' = NoCtl /\ run' = [run EXCEPT !.status = "rework"]
    /\ work' = {a \in work : a.role # "validation"}
    /\ UNCHANGED <<review, finals, checks, proof, down, host, votes, greens, count>>

\* enforceValidationGate.  A refusal because of CI is looked at again; any other
\* is thrown, and ends the worker, which starts over.
ValidationGate == checks["merged"][run.merged].newest = "green" /\ proof[run.merged] = "yes"

Validated ==
    /\ ctl.pc = "validate" /\ Passed /\ ctl' = NoCtl
    /\ run' = IF ValidationGate THEN [run EXCEPT !.status = "validated"] ELSE run
    /\ UNCHANGED <<work, review, finals, checks, proof, down, host, votes, greens, count>>
BeginValidation ==
    /\ ctl.pc = "validate" /\ ~Passed /\ ActiveFor("validation") = {}
    /\ LET p == Selected("validation", {}) IN
          work' = IF p = "none" THEN work
                  ELSE work \cup {[role |-> "validation", prov |-> p, head |-> run.merged,
                                   st |-> "commissioned", verdict |-> "none"]}
    /\ ctl' = NoCtl
    /\ UNCHANGED <<run, review, finals, checks, proof, down, host, votes, greens, count>>
\* The prompt goes out, the session is looked at, or its receipts are recorded.
WorkOnValidation ==
    /\ ctl.pc = "validate" /\ ~Passed
    /\ \E a \in ActiveFor("validation") :
          \/ a.st = "commissioned" /\ work' = With(a, "working", "none") /\ ctl' = NoCtl
             /\ UNCHANGED <<proof, down, count>>
          \/ a.st = "commissioned" /\ Trouble /\ Fails(a) /\ ctl' = NoCtl /\ UNCHANGED proof
          \/ a.st = "working" /\ ctl' = NoCtl /\ UNCHANGED <<work, proof, down, count>>
          \/ a.st = "answered" /\ UNCHANGED <<work, down, count>>
             /\ proof' = [proof EXCEPT ![run.merged] = IF a.verdict = "passed" THEN "yes" ELSE "no"]
             /\ ctl' = [NoCtl EXCEPT !.pc = "proved", !.verdict = a.verdict]
    /\ UNCHANGED <<run, review, finals, checks, host, votes, greens>>
SettleValidation ==
    /\ ctl.pc = "proved"
    /\ \E a \in ActiveFor("validation") :
          IF ctl.verdict = "passed" THEN work' = With(a, "completed", "passed") /\ ctl' = NoCtl
          ELSE work' = work \ {a} /\ ctl' = [NoCtl EXCEPT !.pc = "repair"]
    /\ UNCHANGED <<run, review, finals, checks, proof, down, host, votes, greens, count>>

-----------------------------------------------------------------------------
(* Agents, the Git host, the clock and the process                          *)

Vote(a, verdict) == [role |-> a.role, prov |-> a.prov, author |-> run.author,
                     head |-> a.head, verdict |-> verdict]
\* The author leaves with a head that nobody has refused.
AuthorAnswers(a) ==
    /\ a.role = "implementation" /\ a.st = "working" /\ count.pushes < MaxPushes
    /\ work' = With(a, "answered", "pr")
    /\ host' = [state |-> "open", head |-> count.pushes + 1, ci |-> "pending"]
    /\ count' = [count EXCEPT !.pushes = @ + 1]
    /\ UNCHANGED <<run, review, finals, checks, proof, ctl, down, votes, greens>>
JudgeAnswers(a) ==
    /\ a.role # "implementation" /\ a.st = "working"
    /\ LET validation == a.role = "validation" IN
       \/ /\ work' = With(a, "answered", IF validation THEN "passed" ELSE "approve")
          /\ votes' = votes \cup {Vote(a, IF validation THEN "passed" ELSE "approve")}
          /\ UNCHANGED count
       \/ /\ Spend("rejects", MaxRejects)
          /\ work' = With(a, "answered", IF validation THEN "failed" ELSE "changes")
          /\ votes' = votes \cup {Vote(a, IF validation THEN "failed" ELSE "changes")}
    /\ UNCHANGED <<run, review, finals, checks, proof, ctl, down, host, greens>>
\* Somebody pushes to the branch, or forces it back.
Push ==
    /\ host.state = "open" /\ count.pushes < MaxPushes
    /\ \E h \in 1..(count.pushes + 1) :
          /\ h # host.head /\ host' = [host EXCEPT !.head = h, !.ci = "pending"]
    /\ count.foreign < MaxForeign
    /\ count' = [count EXCEPT !.pushes = @ + 1, !.foreign = @ + 1]
    /\ UNCHANGED <<run, work, review, finals, checks, proof, ctl, down, votes, greens>>
CiDecides ==
    /\ host.ci = "pending" /\ host.state # "none"
    /\ \/ host' = [host EXCEPT !.ci = "green"] /\ UNCHANGED count
       \/ host' = [host EXCEPT !.ci = "red"] /\ Spend("rejects", MaxRejects)
    /\ UNCHANGED <<run, work, review, finals, checks, proof, ctl, down, votes, greens>>
CiReruns ==
    /\ host.ci # "pending" /\ Spend("reruns", MaxReruns)
    /\ host' = [host EXCEPT !.ci = "pending"]
    /\ UNCHANGED <<run, work, review, finals, checks, proof, ctl, down, votes, greens>>
OwnerMerges ==
    /\ host.state = "open" /\ host' = [host EXCEPT !.state = "merged", !.ci = "pending"]
    /\ UNCHANGED <<run, work, review, finals, checks, proof, ctl, down, votes, greens, count>>
OwnerConfirms == run.status = "merging" /\ OwnerMerges
OwnerCloses ==
    /\ host.state = "open" /\ Trouble /\ host' = [host EXCEPT !.state = "closed"]
    /\ UNCHANGED <<run, work, review, finals, checks, proof, ctl, down, votes, greens>>

\* Mutant: the evidence of a merged commit is keyed without its window.
WindowOfHeads ==
    /\ \E h \in Heads : checks["head"][h].window # {}
    /\ checks' = [checks EXCEPT !["head"] = [h \in Heads |-> [@[h] EXCEPT !.window = {}]]]
    /\ UNCHANGED <<run, work, review, finals, proof, ctl, down, host, votes, greens, count>>

\* EVIDENCE_WINDOW_MS is over.
WindowEnds ==
    /\ \E k \in DOMAIN checks : \E h \in Heads : checks[k][h].window # {}
    /\ checks' = [k \in DOMAIN checks |-> [h \in Heads |-> [checks[k][h] EXCEPT !.window = {}]]]
    /\ UNCHANGED <<run, work, review, finals, proof, ctl, down, host, votes, greens, count>>
\* A recorded validation is older than fifteen minutes.
ProofAges ==
    /\ \E h \in Heads : proof[h] = "yes"
    /\ proof' = [h \in Heads |-> IF proof[h] = "yes" THEN "old" ELSE proof[h]]
    /\ Spend("ages", MaxAges)
    /\ UNCHANGED <<run, work, review, finals, checks, ctl, down, host, votes, greens>>
CapacityFills ==
    /\ Trouble /\ \E p \in Providers \ down : down' = down \cup {p}
    /\ UNCHANGED <<run, work, review, finals, checks, proof, ctl, host, votes, greens>>
ProvidersRecover ==
    /\ down # {} /\ down' = {}
    /\ UNCHANGED <<run, work, review, finals, checks, proof, ctl, host, votes, greens, count>>
Crash ==
    /\ ctl.pc # "idle" /\ Trouble /\ ctl' = NoCtl
    /\ UNCHANGED <<run, work, review, finals, checks, proof, down, host, votes, greens>>

Controller ==
    \/ SelectAuthor \/ RotateAuthor \/ BeginAuthor \/ ReadPr \/ BindPr \/ EnterReview
    \/ HeadMoved \/ AdoptHead \/ NotReviewable \/ AskForRework \/ ReturnToAuthor \/ EnterFinals
    \/ MergeEvidence \/ EnterMerge \/ Commission \/ Attest \/ RecordVote \/ CompleteVote
    \/ AdoptMerge \/ RefuseMerge \/ PostNotice \/ EnterValidation
    \/ ReadMergedCi \/ Repair \/ Validated \/ BeginValidation \/ WorkOnValidation
    \/ SettleValidation
Prompts == \E a \in work : ctl.pc = "idle" /\ Prompt(a)
Attempts == Prompts \/ \E a \in work : ctl.pc = "idle" /\ GivesUp(a)
Answers == \E a \in work : AuthorAnswers(a) \/ JudgeAnswers(a)
Next ==
    \/ Controller \/ SweepHead \/ KeepGateFresh \/ Attempts \/ Answers
    \/ Push \/ CiDecides \/ CiReruns \/ OwnerMerges \/ OwnerCloses
    \/ WindowEnds \/ ProofAges \/ CapacityFills \/ ProvidersRecover \/ Crash

Spec == Init /\ [][Next]_vars

Fairness ==
    /\ WF_vars(Controller) /\ WF_vars(Prompts)
    /\ WF_vars(Answers) /\ WF_vars(CiDecides) /\ WF_vars(SweepHead)
    /\ WF_vars(WindowEnds) /\ WF_vars(ProvidersRecover)
    /\ WF_vars(OwnerConfirms)
FairSpec == Spec /\ Fairness

-----------------------------------------------------------------------------
(* Properties                                                               *)

TypeOK ==
    /\ run.status \in {"queued", "implementing", "pr_bound", "reviewing", "rework", "finals",
                       "merging", "validating", "validated", "quarantined"}
    /\ run.author \in Providers \cup {"none"} /\ {run.head, run.merged} \subseteq {0} \cup Heads
    /\ \A a \in work : a.role \in Roles /\ a.prov \in Providers /\ a.head \in {0} \cup Heads
                       /\ a.st \in Active \cup {"completed"}
    /\ finals \subseteq Heads \X Providers /\ down \subseteq Providers

Voted(role, h, verdict) ==
    {v.prov : v \in {w \in votes : w.role = role /\ w.head = h /\ w.verdict = verdict
                                  /\ (role = "final" \/ w.prov # w.author)}}
\* A head that reaches the merge was approved, as that very head, by a reviewer
\* who did not write it and by two final reviewers, whatever was pushed, forced
\* back, lost or begun again on the way.
MergeIsEarned ==
    LET earned(h) == Voted("review", h, "approve") # {}
                     /\ Cardinality(Voted("final", h, "approve")) >= 2
    IN  /\ run.status = "merging" => earned(run.head)
        /\ run.merged # 0 => earned(run.merged)

\* A run is validated only when somebody else than the author has proved the
\* merged commit, and its own checks were green.
ValidationIsEarned ==
    run.status = "validated" =>
        Voted("validation", run.merged, "passed") # {} /\ run.merged \in greens

\* The run commissions one agent at a time.
OneAgentAtWork ==
    \A a, b \in work : a.st \in Active /\ b.st \in Active => a = b

\* A run gets to its end, unless the checks of its head stay red, or its pull
\* request is closed while it waits for the owner's merge.
Stalled == \/ host.state = "open" /\ host.ci = "red"
           \/ host.state = "closed" /\ run.status = "merging"
Ended == run.status \in {"validated", "quarantined"}
RunEnds == <>Ended \/ <>[]Stalled
=============================================================================
