---------------------------- MODULE LaneStagesProofs ----------------------------
(***************************************************************************)
(* Proofs about LaneStages, for every rotation of providers and every bound.*)
(*                                                                          *)
(* IInv says what the controller knows between two writes: where it is in a *)
(* handler (Between), who is at work and why (Agents: one attempt, of the   *)
(* role of the status, for the head that is judged and not decided yet),    *)
(* and that everything favourable that is written down was answered by      *)
(* somebody, for that very head (Books).  A vote is history and is never    *)
(* withdrawn, so that what a gate has let through stays earned.             *)
(***************************************************************************)
EXTENDS LaneStages, FiniteSetTheorems, NaturalsInduction, TLAPS

Verdicts == {"none", "pr", "approve", "changes", "passed", "failed"}
Statuses == {"queued", "implementing", "pr_bound", "reviewing", "rework", "finals",
             "merging", "validating", "validated", "quarantined"}
Places == {"idle", "bind", "newhead", "gate", "attested", "evidenced", "validate",
           "proved", "repair"}
Head0 == {0} \cup Heads
CiStates == {"pending", "green", "red"}
Attempt == [role : Roles, prov : Providers, head : Head0,
            st : Active \cup {"completed"}, verdict : Verdicts]
Ballot == [role : Roles, prov : Providers, author : Providers \cup {"none"},
           head : Head0, verdict : Verdicts]
Rows == [newest : CiStates \cup {"none"}, window : SUBSET CiStates]

\* The types of the variables.
Shape ==
    /\ run \in [status : Statuses, author : Providers \cup {"none"}, head : Head0,
                merged : Head0, notice : BOOLEAN]
    /\ work \subseteq Attempt
    /\ ctl \in [pc : Places, head : Head0, verdict : Verdicts]
    /\ review \in [Heads -> {"none", "yes", "no"}]
    /\ finals \subseteq Heads \X Providers
    /\ checks \in [{"head", "merged"} -> [Heads -> Rows]]
    /\ proof \in [Heads -> {"none", "yes", "no", "old"}]
    /\ down \subseteq Providers
    /\ host \in [state : {"none", "open", "merged", "closed"}, head : Head0, ci : CiStates]
    /\ votes \subseteq Ballot
    /\ count \in [{"pushes", "foreign", "rejects", "reruns", "trouble", "ages"} -> Nat]
    /\ count.pushes <= MaxPushes

\* Where a head or a merged commit is known.
Known ==
    /\ host.head = 0 =>
          /\ run.head = 0 /\ ctl.pc \notin {"bind", "newhead"}
          /\ \A a \in work : a.role = "implementation" => a.st # "answered"
    /\ run.status \in {"pr_bound", "reviewing", "finals", "merging"} => run.head # 0
    /\ ctl.pc \in {"bind", "newhead"} => ctl.head # 0
    /\ run.status \in {"validating", "validated"} => run.merged # 0

\* Who is at work.
RoleNow == CASE run.status = "implementing" -> "implementation"
             [] run.status = "reviewing" -> "review"
             [] run.status = "finals" -> "final"
             [] run.status = "validating" -> "validation"
             [] OTHER -> "none"
AtWork == {a \in work : a.st \in Active}
Ours == \A a \in AtWork : a.role = RoleNow
Current ==
    \A a \in AtWork :
        /\ a.role \in {"review", "final"} =>
               a.head = run.head /\ ~Against(a.role) /\ ~Enough(a.role)
        /\ a.role = "validation" => a.head = run.merged /\ ~Passed
        /\ a.role \in {"review", "validation"} => a.prov # run.author
\* What holds between two writes of one handler.
Between ==
    /\ ctl.pc = "bind" => run.status = "implementing" /\ AtWork = {}
    /\ ctl.pc = "gate" => run.status = "finals" /\ AtWork = {}
    /\ ctl.pc = "newhead" => \A a \in AtWork : a.role \notin {"review", "final"}
    /\ ctl.pc \in {"validate", "proved", "repair"} => run.status = "validating"
Agents == OneAgentAtWork /\ Ours /\ Current /\ Between

\* What is written down is what somebody answered.
Books ==
    /\ \A a \in AtWork : a.role # "implementation" /\ a.verdict # "none" =>
           a.prov \in Voted(a.role, a.head, a.verdict)
    /\ \A h \in Heads : review[h] = "yes" => Voted("review", h, "approve") # {}
    /\ \A f \in finals : f[2] \in Voted("final", f[1], "approve")
    /\ \A h \in Heads : proof[h] \in {"yes", "old"} => Voted("validation", h, "passed") # {}
    /\ \A h \in Heads : checks["merged"][h].newest = "green" => h \in greens
IInv == Shape /\ Known /\ Agents /\ Books /\ MergeIsEarned /\ ValidationIsEarned

-----------------------------------------------------------------------------
(* Operators                                                                *)

LEMMA ProvidersFinite == IsFiniteSet(Providers)
<1> DEFINE nth == [i \in 1..Len(Rotation) |-> Rotation[i]]
<1>1. Len(Rotation) \in Nat
  BY StagesBounds
<1>2. IsFiniteSet(1..Len(Rotation))
  BY <1>1, FS_Interval
<1>3. nth \in Surjection(1..Len(Rotation), Providers)
  BY DEF Surjection, Providers
<1> HIDE DEF nth
<1> QED
  BY <1>2, <1>3, FS_Surjection

\* A set of indices that is not empty has a least one.
Below == {ss \in Nat \X Nat : ss[1] < ss[2]}
LEMMA LeastIndex ==
  ASSUME NEW may, may \subseteq Nat, may # {}
  PROVE  \E i \in may : \A j \in may : i <= j
<1>1. OpToRel(<, Nat) = Below
  BY DEF OpToRel, Below
<1>2. IsWellFoundedOn(Below, Nat)
  BY <1>1, NatLessThanWellFounded, Zenon
<1>3. PICK i \in may : \A j \in may : ~(<<j, i>> \in Below)
  BY <1>2, WFMin
<1>4. \A j, k \in Nat : j < k => <<j, k>> \in Below
  BY DEF Below
<1>5. ASSUME NEW j \in may PROVE i <= j
  <2>1. i \in Nat /\ j \in Nat
    BY <1>3
  <2>2. ~(j < i)
    BY <1>3, <1>4, <2>1, Zenon
  <2> QED
    BY <2>1, <2>2
<1> QED
  BY <1>5

\* Whoever is selected is a provider, and no author judges its own work.
LEMMA SelectedMay ==
  ASSUME NEW role, NEW used, Selected(role, used) # "none"
  PROVE  /\ Selected(role, used) \in Providers
         /\ role \in {"review", "validation"} => Selected(role, used) # run.author
<1> DEFINE may == May(role, used)
<1>1. may # {} /\ may \subseteq 1..Len(Rotation) /\ may \subseteq Nat
  BY DEF Selected, May
<1>2. \E i \in may : \A j \in may : i <= j
  BY <1>1, LeastIndex
<1>3. PICK i \in may : Selected(role, used) = Rotation[i]
  BY <1>1, <1>2 DEF Selected
<1> QED
  BY <1>3 DEF May, Providers

LEMMA VotersFinite ==
  ASSUME votes \subseteq Ballot, NEW role, NEW h, NEW verdict
  PROVE  /\ Voted(role, h, verdict) \subseteq Providers
         /\ IsFiniteSet(Voted(role, h, verdict))
<1>1. Voted(role, h, verdict) \subseteq Providers
  BY DEF Voted, Ballot
<1> QED
  BY <1>1, ProvidersFinite, FS_Subset

\* No vote is withdrawn.
LEMMA VotesGrow ==
  ASSUME votes \subseteq votes', votes' \subseteq Ballot, NEW role, NEW h, NEW verdict
  PROVE  /\ Voted(role, h, verdict) \subseteq Voted(role, h, verdict)'
         /\ Cardinality(Voted(role, h, verdict)) >= 2 =>
                Cardinality(Voted(role, h, verdict)') >= 2
<1>1. Voted(role, h, verdict) \subseteq Voted(role, h, verdict)'
  BY DEF Voted
<1>2. IsFiniteSet(Voted(role, h, verdict)')
  <2>1. Voted(role, h, verdict)' \subseteq Providers
    BY DEF Voted, Ballot
  <2> QED
    BY <2>1, ProvidersFinite, FS_Subset
<1>3. /\ Cardinality(Voted(role, h, verdict)) <= Cardinality(Voted(role, h, verdict)')
      /\ IsFiniteSet(Voted(role, h, verdict))
  BY <1>1, <1>2, FS_Subset
<1>4. /\ Cardinality(Voted(role, h, verdict)) \in Nat
      /\ Cardinality(Voted(role, h, verdict)') \in Nat
  BY <1>2, <1>3, FS_CardinalityType
<1> QED
  BY <1>1, <1>3, <1>4

\* Two accepted rows of a head are the approvals of two providers.
LEMMA TwoVoices ==
  ASSUME Shape, NEW h \in Heads,
         \A f \in finals : f[2] \in Voted("final", f[1], "approve"),
         Cardinality({f \in finals : f[1] = h}) >= 2
  PROVE  Cardinality(Voted("final", h, "approve")) >= 2
<1> DEFINE F == {f \in finals : f[1] = h}
           V == Voted("final", h, "approve")
<1>1. finals \subseteq Heads \X Providers /\ votes \subseteq Ballot
  BY DEF Shape
<1>2. IsFiniteSet(F)
  <2>1. IsFiniteSet(Heads)
    BY StagesBounds, FS_Interval DEF Heads
  <2>2. IsFiniteSet(Heads \X Providers)
    BY <2>1, ProvidersFinite, FS_Product
  <2> QED
    BY <1>1, <2>2, FS_Subset
<1>3. PICK f \in F : TRUE
  BY <1>2, FS_EmptySet
<1>4. PICK g \in F : g # f
  <2>1. Cardinality(F \ {f}) = Cardinality(F) - 1 /\ IsFiniteSet(F \ {f})
    BY <1>2, FS_RemoveElement
  <2>2. F \ {f} # {}
    BY <1>2, <2>1, FS_EmptySet, FS_CardinalityType
  <2> QED
    BY <2>2
<1>5. f[2] \in V /\ g[2] \in V /\ f[2] # g[2]
  BY <1>1, <1>3, <1>4
<1>6. Cardinality({f[2]} \cup {g[2]}) = 2
  <2>1. IsFiniteSet({f[2]}) /\ Cardinality({f[2]}) = 1
    BY FS_Singleton
  <2>2. g[2] \notin {f[2]}
    BY <1>5
  <2>3. Cardinality({f[2]} \cup {g[2]}) =
          IF g[2] \in {f[2]} THEN Cardinality({f[2]}) ELSE Cardinality({f[2]}) + 1
    BY <2>1, FS_AddElement, Zenon
  <2> QED
    BY <2>1, <2>2, <2>3
<1>7. IsFiniteSet(V)
  BY <1>1, VotersFinite
<1>8. Cardinality({f[2]} \cup {g[2]}) <= Cardinality(V) /\ Cardinality(V) \in Nat
  BY <1>5, <1>7, FS_Subset, FS_CardinalityType
<1> QED
  BY <1>6, <1>8

-----------------------------------------------------------------------------
(* What a step does to the agents                                           *)

\* A run that nobody works for.
LEMMA Nobody ==
  ASSUME AtWork' = {}, Between'
  PROVE  Agents'
BY DEF Agents, OneAgentAtWork, Ours, Current, AtWork

Finished == {a \in work : a.st = "completed"}

LEMMA FinishedDecides ==
  ASSUME Finished' = Finished, run' = run
  PROVE  /\ \A role : Against(role)' = Against(role)
         /\ \A role : Enough(role)' = Enough(role)
         /\ Passed' = Passed
<1>1. \A role, h : DoneFor(role, h)' = DoneFor(role, h)
  BY DEF DoneFor, Finished
<1> QED
  BY <1>1 DEF Against, Enough, For, Passed

\* The agents at work stay, or fewer do.
LEMMA Fewer ==
  ASSUME Agents, AtWork' \subseteq AtWork, Finished' = Finished, run' = run, Between'
  PROVE  Agents'
BY FinishedDecides DEF Agents, OneAgentAtWork, Ours, Current, AtWork, RoleNow

\* The agent at work goes on.
LEMMA GoesOn ==
  ASSUME Shape, Agents, NEW a \in AtWork, NEW st \in Active, NEW verdict,
         work' = With(a, st, verdict), run' = run, ctl' = ctl \/ ctl' = NoCtl
  PROVE  Agents'
<1> DEFINE b == [a EXCEPT !.st = st, !.verdict = verdict]
<1>1. /\ b.role = a.role /\ b.prov = a.prov /\ b.head = a.head /\ b.st = st
      /\ a \in work /\ a.st \in Active /\ "completed" \notin Active
  BY DEF Shape, Attempt, AtWork, Active
<1>2. AtWork = {a} /\ AtWork' = {b}
  BY <1>1 DEF Agents, OneAgentAtWork, AtWork, With
<1>3. Finished' = Finished
  BY <1>1 DEF Finished, With
<1>4. OneAgentAtWork' /\ Ours' /\ Current'
  <2>1. OneAgentAtWork'
    <3> SUFFICES ASSUME NEW x \in work', NEW y \in work', x.st \in Active, y.st \in Active
                 PROVE  x = y
      BY DEF OneAgentAtWork
    <3>1. x \in AtWork' /\ y \in AtWork'
      BY DEF AtWork
    <3> QED
      BY <1>2, <3>1
  <2>2. RoleNow' = RoleNow
    BY DEF RoleNow
  <2>3. Ours'
    BY <1>1, <1>2, <2>2 DEF Agents, Ours
  <2>4. /\ a.role \in {"review", "final"} =>
              a.head = run.head /\ ~Against(a.role) /\ ~Enough(a.role)
        /\ a.role = "validation" => a.head = run.merged /\ ~Passed
        /\ a.role \in {"review", "validation"} => a.prov # run.author
    BY DEF Agents, Current
  <2>5. Current'
    BY <1>1, <1>2, <1>3, <2>4, FinishedDecides DEF Current
  <2> QED
    BY <2>1, <2>3, <2>5
<1>5. Between'
  BY <1>1, <1>2 DEF Agents, Between, NoCtl
<1> QED
  BY <1>4, <1>5 DEF Agents

\* An agent is commissioned when nobody is at work.
LEMMA Begins ==
  ASSUME Shape, AtWork = {}, NEW n \in Attempt, n.st = "commissioned",
         work' = work \cup {n}, run' = run, ctl'.pc = "idle", n.role = RoleNow,
         n.role \in {"review", "final"} =>
             n.head = run.head /\ ~Against(n.role) /\ ~Enough(n.role),
         n.role = "validation" => n.head = run.merged /\ ~Passed,
         n.role \in {"review", "validation"} => n.prov # run.author
  PROVE  Agents'
<1>1. AtWork' = {n}
  BY DEF AtWork, Active
<1>2. Finished' = Finished
  BY DEF Finished
<1>3. OneAgentAtWork' /\ Ours' /\ Current'
  BY <1>1, <1>2, FinishedDecides DEF OneAgentAtWork, Ours, Current, AtWork, RoleNow
<1>4. Between'
  BY DEF Between
<1> QED
  BY <1>3, <1>4 DEF Agents

\* Nobody works in a status that has no role, or once the stage has decided.
LEMMA Unstaffed ==
  ASSUME Shape, Agents
  PROVE  /\ run.status \notin {"implementing", "reviewing", "finals", "validating"} => AtWork = {}
         /\ \A role : ActiveFor(role) = {} /\ role = RoleNow => AtWork = {}
         /\ Stage # "none" /\ (Against(Stage) \/ Enough(Stage)) => AtWork = {}
         /\ run.status = "validating" /\ Passed => AtWork = {}
         /\ \A a \in AtWork : AtWork = {a} /\ a.role = RoleNow /\ a \in work
<1>1. \A a \in AtWork : AtWork = {a} /\ a.role = RoleNow /\ a \in work /\ a.st \in Active
  BY DEF Agents, OneAgentAtWork, Ours, AtWork
<1>2. \A a \in AtWork : a.role \in Roles /\ "none" \notin Roles
  BY DEF Shape, Attempt, AtWork, Roles
<1>3. \A role : ActiveFor(role) = {} /\ role = RoleNow => AtWork = {}
  BY <1>1 DEF ActiveFor
<1>4. Stage # "none" => Stage = RoleNow /\ Stage \in {"review", "final"}
  BY DEF Stage, RoleNow
<1>5. Stage # "none" /\ (Against(Stage) \/ Enough(Stage)) => AtWork = {}
  BY <1>1, <1>4 DEF Agents, Current
<1>6. run.status = "validating" /\ Passed => AtWork = {}
  BY <1>1 DEF Agents, Current, RoleNow
<1>7. run.status \notin {"implementing", "reviewing", "finals", "validating"} => AtWork = {}
  BY <1>1, <1>2 DEF RoleNow
<1> QED
  BY <1>1, <1>3, <1>5, <1>6, <1>7

-----------------------------------------------------------------------------
(* Types                                                                    *)

LEMMA WithTyped ==
  ASSUME work \subseteq Attempt, NEW a \in work,
         NEW st \in Active \cup {"completed"}, NEW verdict \in Verdicts
  PROVE  With(a, st, verdict) \subseteq Attempt
<1>1. a \in [role : Roles, prov : Providers, head : Head0,
             st : Active \cup {"completed"}, verdict : Verdicts]
  BY DEF Attempt
<1>2. [a EXCEPT !.st = st, !.verdict = verdict] \in Attempt
  BY <1>1 DEF Attempt
<1> QED
  BY <1>2 DEF With

LEMMA RecordTyped ==
  ASSUME Shape, NEW kind \in {"head", "merged"}, NEW h \in Heads, NEW verdict \in CiStates,
         Record(kind, h, verdict)
  PROVE  /\ checks' \in [{"head", "merged"} -> [Heads -> Rows]]
         /\ \A k \in {"head", "merged"}, g \in Heads :
               k # kind \/ g # h => checks'[k][g] = checks[k][g]
         /\ checks'[kind][h].newest \in {checks[kind][h].newest, verdict}
<1>1. checks \in [{"head", "merged"} -> [Heads -> Rows]]
  BY DEF Shape
<1>2. CASE verdict \in checks[kind][h].window
  BY <1>1, <1>2 DEF Record
<1>3. CASE verdict \notin checks[kind][h].window
  <2> DEFINE row == [newest |-> verdict, window |-> checks[kind][h].window \cup {verdict}]
  <2>1. row \in Rows /\ row.newest = verdict
    BY <1>1 DEF Rows
  <2>2. checks' = [checks EXCEPT ![kind][h] = row]
    BY <1>3 DEF Record
  <2> QED
    BY <1>1, <2>1, <2>2
<1> QED
  BY <1>2, <1>3

LEMMA MoveTyped ==
  ASSUME Shape, NEW status \in Statuses, NEW h \in Head0, MoveTo(status, h)
  PROVE  /\ run' \in [status : Statuses, author : Providers \cup {"none"}, head : Head0,
                      merged : Head0, notice : BOOLEAN]
         /\ run'.status = status /\ run'.head = h /\ run'.merged = run.merged
         /\ finals' \subseteq finals
<1>1. run \in [status : Statuses, author : Providers \cup {"none"}, head : Head0,
               merged : Head0, notice : BOOLEAN]
  BY DEF Shape
<1> QED
  BY <1>1 DEF MoveTo

\* Steps of the run's row alone.
LEMMA RowStep ==
  ASSUME Shape, Known, Between,
         \/ SelectAuthor \/ RotateAuthor \/ EnterReview \/ AskForRework \/ ReturnToAuthor
         \/ EnterFinals \/ EnterMerge \/ AdoptMerge \/ PostNotice \/ EnterValidation
         \/ Validated \/ BindPr \/ AdoptHead
  PROVE  Shape' /\ Known'
<1> USE DEF Shape, Known
<1>1. CASE SelectAuthor
  <2>1. Selected("implementation", {}) \in Providers
    BY <1>1, SelectedMay DEF SelectAuthor
  <2> QED
    BY <1>1, <2>1 DEF SelectAuthor, Statuses
<1>2. CASE RotateAuthor
  <2>1. Selected("implementation", {}) \in Providers
    BY <1>2, SelectedMay DEF RotateAuthor
  <2> QED
    BY <1>2, <2>1 DEF RotateAuthor
<1>3. CASE EnterReview
  BY <1>3 DEF EnterReview, Statuses
<1>4. CASE AskForRework
  BY <1>4 DEF AskForRework, Statuses
<1>5. CASE ReturnToAuthor
  <2> DEFINE Row == [status : Statuses, author : Providers \cup {"none"}, head : Head0,
                     merged : Head0, notice : BOOLEAN]
  <2>1. run' \in Row /\ run'.status = "implementing" /\ run'.head \in {0, run.head}
    <3>1. run \in Row /\ 0 \in Head0 /\ "implementing" \in Statuses
      BY DEF Head0, Statuses
    <3>2. CASE run.merged = 0
      BY <1>5, <3>1, <3>2 DEF ReturnToAuthor
    <3>3. CASE run.merged # 0
      <4> DEFINE r1 == [run EXCEPT !.status = "implementing"]
                 r2 == [r1 EXCEPT !.head = 0]
                 r3 == [r2 EXCEPT !.merged = 0]
      <4>1. run' = [r3 EXCEPT !.notice = FALSE]
        BY <1>5, <3>3 DEF ReturnToAuthor
      <4>2. r1 \in Row /\ r1.status = "implementing"
        BY <3>1
      <4>3. r2 \in Row /\ r2.status = "implementing" /\ r2.head = 0
        BY <3>1, <4>2
      <4>4. r3 \in Row /\ r3.status = "implementing" /\ r3.head = 0
        BY <3>1, <4>3
      <4> QED
        BY <4>1, <4>4
    <3> QED
      BY <3>2, <3>3
  <2>2. finals' \subseteq finals
    BY <1>5 DEF ReturnToAuthor
  <2> HIDE DEF Row
  <2>3. Shape'
    BY <1>5, <2>1, <2>2 DEF ReturnToAuthor, Row
  <2>4. Known'
    BY <1>5, <2>1 DEF ReturnToAuthor
  <2> QED
    BY <2>3, <2>4
<1>6. CASE EnterFinals
  BY <1>6 DEF EnterFinals, Statuses, Judging, Stage
<1>7. CASE EnterMerge
  BY <1>7 DEF EnterMerge, Statuses, Places, NoCtl, Between, Head0, Verdicts
<1>8. CASE AdoptMerge
  BY <1>8 DEF AdoptMerge, Merging
<1>9. CASE PostNotice
  BY <1>9 DEF PostNotice
<1>10. CASE EnterValidation
  BY <1>10 DEF EnterValidation, Merging, Statuses
<1>11. CASE Validated
  BY <1>11 DEF Validated, Statuses, Places, NoCtl, Between, Head0, Verdicts
<1>12. CASE BindPr
  <2>1. ctl.head \in Head0 /\ "pr_bound" \in Statuses
    BY DEF Statuses
  <2>2. MoveTo("pr_bound", ctl.head)
    BY <1>12 DEF BindPr
  <2>3. /\ run' \in [status : Statuses, author : Providers \cup {"none"}, head : Head0,
                      merged : Head0, notice : BOOLEAN]
        /\ run'.status = "pr_bound" /\ run'.head = ctl.head /\ finals' \subseteq finals
    BY <2>1, <2>2, MoveTyped
  <2>4. Shape'
    BY <1>12, <2>3 DEF BindPr, Places, NoCtl, Head0, Verdicts
  <2>5. Known'
    BY <1>12, <2>3 DEF BindPr, NoCtl
  <2> QED
    BY <2>4, <2>5
<1>13. CASE AdoptHead
  <2> DEFINE status == IF run.status \in {"finals", "merging"} THEN "reviewing" ELSE run.status
  <2>1. ctl.head \in Head0 /\ status \in Statuses
    BY DEF Statuses
  <2>2. MoveTo(status, ctl.head)
    BY <1>13 DEF AdoptHead
  <2>3. status \in {"validating", "validated"} => run.status \in {"validating", "validated"}
    OBVIOUS
  <2> HIDE DEF status
  <2>4. /\ run' \in [status : Statuses, author : Providers \cup {"none"}, head : Head0,
                      merged : Head0, notice : BOOLEAN]
        /\ run'.status = status /\ run'.head = ctl.head /\ run'.merged = run.merged
        /\ finals' \subseteq finals
    BY <2>1, <2>2, MoveTyped
  <2>5. Shape'
    BY <1>13, <2>4 DEF AdoptHead, Places, NoCtl, Head0, Verdicts
  <2>6. Known'
    BY <1>13, <2>3, <2>4 DEF AdoptHead, NoCtl
  <2> QED
    BY <2>5, <2>6
<1> QED
  BY <1>1, <1>2, <1>3, <1>4, <1>5, <1>6, <1>7, <1>8, <1>9, <1>10, <1>11, <1>12, <1>13

\* Steps of the attempts.
LEMMA AttemptStep ==
  ASSUME Shape, Known, Between,
         \/ BeginAuthor \/ Commission \/ BeginValidation \/ CompleteVote \/ SettleValidation
         \/ Repair \/ WorkOnValidation \/ ReadPr \/ HeadMoved \/ SweepHead
         \/ NotReviewable \/ RefuseMerge \/ Attempts \/ Answers
  PROVE  Shape' /\ Known'
<1> USE DEF Shape, Known
<1>0. ASSUME Trouble
      PROVE  /\ count' \in [{"pushes", "foreign", "rejects", "reruns", "trouble", "ages"} -> Nat]
             /\ count'.pushes <= MaxPushes
  BY <1>0 DEF Trouble, Spend
<1>1. ASSUME NEW role \in Roles, NEW used, Begin(role, used)
      PROVE  Shape' /\ Known'
  <2>1. Selected(role, used) \in Providers
    BY <1>1, SelectedMay DEF Begin
  <2>2. Bound(role) \in Head0
    BY DEF Bound, Head0
  <2> QED
    BY <1>1, <2>1, <2>2 DEF Begin, Attempt, Active, Verdicts
<1>2. CASE BeginAuthor
  BY <1>1, <1>2 DEF BeginAuthor, Roles
<1>3. CASE Commission
  BY <1>1, <1>3 DEF Commission, Judging, Stage, Roles
<1>4. CASE BeginValidation
  <2> DEFINE p == Selected("validation", {})
  <2>1. p # "none" => p \in Providers
    BY SelectedMay
  <2>2. work' \subseteq Attempt /\ \A a \in work' : a \in work \/ a.role = "validation"
    BY <1>4, <2>1 DEF BeginValidation, Attempt, Active, Verdicts, Roles
  <2> QED
    BY <1>4, <2>2 DEF BeginValidation, NoCtl, Places, Head0, Verdicts
<1>5. ASSUME NEW a \in work, NEW st \in Active \cup {"completed"}, NEW verdict \in Verdicts,
             work' = With(a, st, verdict), st = "answered" => a.role # "implementation"
      PROVE  /\ work' \subseteq Attempt
             /\ \A b \in work' : b.role = "implementation" /\ b.st = "answered" => b \in work
  <2>1. work' \subseteq Attempt
    BY <1>5, WithTyped
  <2>2. a \in [role : Roles, prov : Providers, head : Head0,
               st : Active \cup {"completed"}, verdict : Verdicts]
    BY DEF Attempt
  <2>3. /\ [a EXCEPT !.st = st, !.verdict = verdict].role = a.role
        /\ [a EXCEPT !.st = st, !.verdict = verdict].st = st
    BY <2>2
  <2> QED
    BY <1>5, <2>1, <2>3 DEF With
<1>6. CASE CompleteVote
  <2>1. PICK a \in ActiveFor(Stage) : work' = With(a, "completed", ctl.verdict)
    BY <1>6 DEF CompleteVote
  <2>2. a \in work /\ ctl.verdict \in Verdicts
    BY DEF ActiveFor
  <2>3. /\ work' \subseteq Attempt
        /\ \A b \in work' : b.role = "implementation" /\ b.st = "answered" => b \in work
    BY <1>5, <2>1, <2>2
  <2> QED
    BY <1>6, <2>3 DEF CompleteVote, NoCtl, Places, Head0, Verdicts
<1>7. CASE SettleValidation
  <2>1. PICK a \in ActiveFor("validation") :
           IF ctl.verdict = "passed" THEN work' = With(a, "completed", "passed") /\ ctl' = NoCtl
           ELSE work' = work \ {a} /\ ctl' = [NoCtl EXCEPT !.pc = "repair"]
    BY <1>7 DEF SettleValidation
  <2>2. a \in work
    BY DEF ActiveFor
  <2>3. /\ work' \subseteq Attempt
        /\ \A b \in work' : b.role = "implementation" /\ b.st = "answered" => b \in work
    <3>1. CASE ctl.verdict = "passed"
      BY <1>5, <2>1, <2>2, <3>1 DEF Verdicts
    <3>2. CASE ctl.verdict # "passed"
      BY <2>1, <3>2
    <3> QED
      BY <3>1, <3>2
  <2>4. ctl' \in {NoCtl, [NoCtl EXCEPT !.pc = "repair"]}
    BY <2>1
  <2> QED
    BY <1>7, <2>3, <2>4 DEF SettleValidation, NoCtl, Places, Head0, Verdicts
<1>8. CASE Repair
  BY <1>8 DEF Repair, NoCtl, Places, Head0, Verdicts, Statuses
<1>9. CASE WorkOnValidation
  <2>1. PICK a \in ActiveFor("validation") :
          \/ a.st = "commissioned" /\ work' = With(a, "working", "none") /\ ctl' = NoCtl
             /\ UNCHANGED <<proof, down, count>>
          \/ a.st = "commissioned" /\ Trouble /\ Fails(a) /\ ctl' = NoCtl /\ UNCHANGED proof
          \/ a.st = "working" /\ ctl' = NoCtl /\ UNCHANGED <<work, proof, down, count>>
          \/ a.st = "answered" /\ UNCHANGED <<work, down, count>>
             /\ proof' = [proof EXCEPT ![run.merged] = IF a.verdict = "passed" THEN "yes" ELSE "no"]
             /\ ctl' = [NoCtl EXCEPT !.pc = "proved", !.verdict = a.verdict]
    BY <1>9 DEF WorkOnValidation
  <2>2. /\ a \in work /\ a.prov \in Providers /\ a.verdict \in Verdicts
        /\ a.role = "validation"
    BY DEF ActiveFor, Attempt
  <2>3. /\ work' \subseteq Attempt
        /\ \A b \in work' : b.role = "implementation" /\ b.st = "answered" => b \in work
    <3>1. CASE work' = With(a, "working", "none")
      BY <1>5, <2>2, <3>1 DEF Active, Verdicts
    <3> QED
      BY <2>1, <3>1 DEF Fails
  <2>4. down' \subseteq Providers
    BY <2>1, <2>2 DEF Fails
  <2>5. /\ count' \in [{"pushes", "foreign", "rejects", "reruns", "trouble", "ages"} -> Nat]
        /\ count'.pushes <= MaxPushes
    BY <2>1, <1>0
  <2>6. ctl' \in [pc : Places, head : Head0, verdict : Verdicts] /\ ctl'.pc \in {"idle", "proved"}
    <3>1. NoCtl \in [pc : Places, head : Head0, verdict : Verdicts] /\ NoCtl.pc = "idle"
      BY DEF NoCtl, Places, Head0, Verdicts
    <3> DEFINE proved == [NoCtl EXCEPT !.pc = "proved"]
    <3>2. proved \in [pc : Places, head : Head0, verdict : Verdicts] /\ proved.pc = "proved"
      BY <3>1 DEF Places
    <3>3. CASE ctl' = NoCtl
      BY <3>1, <3>3
    <3>4. CASE ctl' = [proved EXCEPT !.verdict = a.verdict]
      BY <2>2, <3>2, <3>4
    <3> QED
      BY <2>1, <3>3, <3>4
  <2>7. proof' \in [Heads -> {"none", "yes", "no", "old"}]
    BY <2>1
  <2> QED
    BY <1>9, <2>3, <2>4, <2>5, <2>6, <2>7 DEF WorkOnValidation
<1>10. CASE ReadPr
  <2>1. PICK a \in work : /\ a.role = "implementation" /\ a.st = "answered"
                          /\ ctl' = [NoCtl EXCEPT !.pc = "bind", !.head = host.head]
                          /\ work' = work \ {a}
    BY <1>10 DEF ReadPr, ActiveFor
  <2>2. host.head # 0
    BY <2>1
  <2> QED
    BY <1>10, <2>1, <2>2 DEF ReadPr, NoCtl, Places, Head0, Verdicts
<1>11. CASE HeadMoved \/ SweepHead
  <2>1. Supersede(host.head) /\ run.head # 0
    BY <1>11 DEF HeadMoved, SweepHead, Judging, Stage
  <2> QED
    BY <2>1 DEF Supersede, NoCtl, Places, Head0, Verdicts
<1>12. CASE NotReviewable \/ RefuseMerge
  <2>1. Quarantine /\ UNCHANGED <<review, finals, checks, proof, down, host, votes, greens, count>>
    BY <1>12 DEF NotReviewable, RefuseMerge
  <2> QED
    BY <2>1 DEF Quarantine, NoCtl, Places, Head0, Verdicts, Statuses
<1>13. CASE Attempts
  <2>1. PICK a \in work : Prompt(a) \/ GivesUp(a)
    BY <1>13 DEF Attempts, Prompts
  <2>2. a.prov \in Providers
    BY DEF Attempt
  <2>3. /\ work' \subseteq Attempt
        /\ \A b \in work' : b.role = "implementation" /\ b.st = "answered" => b \in work
    <3>1. CASE work' = With(a, "working", "none")
      BY <1>5, <3>1 DEF Active, Verdicts
    <3> QED
      BY <2>1, <3>1 DEF Prompt, GivesUp, Fails
  <2>4. down' \subseteq Providers
    BY <2>1, <2>2 DEF Prompt, GivesUp, Fails
  <2>5. /\ count' \in [{"pushes", "foreign", "rejects", "reruns", "trouble", "ages"} -> Nat]
        /\ count'.pushes <= MaxPushes
    BY <2>1, <1>0 DEF Prompt, GivesUp
  <2> QED
    BY <2>1, <2>3, <2>4, <2>5 DEF Prompt, GivesUp
<1>14. CASE Answers
  <2>1. PICK a \in work : AuthorAnswers(a) \/ JudgeAnswers(a)
    BY <1>14 DEF Answers
  <2>2. CASE AuthorAnswers(a)
    <3>1. work' \subseteq Attempt
      BY <2>2, WithTyped DEF AuthorAnswers, Active, Verdicts
    <3>2. count.pushes + 1 \in Heads
      BY <2>2, StagesBounds DEF AuthorAnswers, Heads
    <3>3. host' \in [state : {"none", "open", "merged", "closed"}, head : Head0, ci : CiStates]
          /\ host'.head # 0
      BY <2>2, <3>2 DEF AuthorAnswers, Head0, CiStates, Heads
    <3>4. /\ count' \in [{"pushes", "foreign", "rejects", "reruns", "trouble", "ages"} -> Nat]
          /\ count'.pushes <= MaxPushes
      <4>1. count.pushes + 1 \in Nat /\ count.pushes + 1 <= MaxPushes
        BY <2>2, StagesBounds DEF AuthorAnswers
      <4>2. count' = [count EXCEPT !.pushes = count.pushes + 1]
        BY <2>2 DEF AuthorAnswers
      <4> QED
        BY <4>1, <4>2
    <3> QED
      BY <2>2, <3>1, <3>3, <3>4 DEF AuthorAnswers
  <2>3. CASE JudgeAnswers(a)
    <3>1. PICK v \in Verdicts : work' = With(a, "answered", v) /\ votes' = votes \cup {Vote(a, v)}
      BY <2>3 DEF JudgeAnswers, Verdicts
    <3>2. /\ work' \subseteq Attempt
          /\ \A b \in work' : b.role = "implementation" /\ b.st = "answered" => b \in work
      BY <1>5, <2>3, <3>1 DEF JudgeAnswers, Active
    <3>3. votes' \subseteq Ballot
      BY <3>1 DEF Vote, Ballot, Attempt
    <3>4. /\ count' \in [{"pushes", "foreign", "rejects", "reruns", "trouble", "ages"} -> Nat]
          /\ count'.pushes <= MaxPushes
      <4>1. CASE count' = [count EXCEPT !["rejects"] = count["rejects"] + 1]
        BY <4>1
      <4> QED
        BY <2>3, <4>1 DEF JudgeAnswers, Spend
    <3> QED
      BY <2>3, <3>2, <3>3, <3>4 DEF JudgeAnswers
  <2> QED
    BY <2>1, <2>2, <2>3
<1> QED
  BY <1>2, <1>3, <1>4, <1>6, <1>7, <1>8, <1>9, <1>10, <1>11, <1>12, <1>13, <1>14

\* Steps of the evidence.
LEMMA EvidenceStep ==
  ASSUME Shape, Known, Between,
         MergeEvidence \/ Attest \/ RecordVote \/ KeepGateFresh \/ ReadMergedCi
  PROVE  Shape' /\ Known'
<1>1. CASE MergeEvidence
  <2>1. run.head \in Heads /\ host.ci \in CiStates /\ Record("head", run.head, host.ci)
    BY <1>1 DEF MergeEvidence, Judging, Stage, Shape, Known, Head0
  <2>2. checks' \in [{"head", "merged"} -> [Heads -> Rows]]
    BY <2>1, RecordTyped
  <2>3. ctl' \in {NoCtl, [NoCtl EXCEPT !.pc = "gate"]}
    BY <1>1 DEF MergeEvidence
  <2> QED
    BY <1>1, <2>2, <2>3 DEF MergeEvidence, Shape, Known, NoCtl, Places, Head0, Verdicts
<1>2. CASE Attest
  <2>1. PICK a \in work : ctl' = [NoCtl EXCEPT !.pc = "attested", !.verdict = a.verdict]
    BY <1>2 DEF Attest, ActiveFor
  <2>2. a.verdict \in Verdicts
    BY DEF Shape, Attempt
  <2>3. ctl' \in [pc : Places, head : Head0, verdict : Verdicts] /\ ctl'.pc = "attested"
    BY <2>1, <2>2 DEF NoCtl, Places, Head0, Verdicts
  <2> QED
    BY <1>2, <2>3 DEF Attest, Shape, Known
<1>3. CASE RecordVote
  <2>1. PICK a \in ActiveFor(Stage) :
          IF Stage = "review"
          THEN /\ review' = [review EXCEPT ![run.head] = IF a.verdict = "approve" THEN "yes" ELSE "no"]
               /\ UNCHANGED finals
          ELSE /\ finals' = IF a.verdict = "approve" THEN finals \cup {<<run.head, a.prov>>} ELSE finals
               /\ UNCHANGED review
    BY <1>3 DEF RecordVote
  <2>2. a \in work /\ a.prov \in Providers /\ a.role = Stage /\ a.role \in Roles
    BY DEF ActiveFor, Shape, Attempt
  <2>3. run.head \in Heads
    BY <2>2 DEF Stage, Roles, Shape, Known, Head0
  <2>4. finals' \subseteq Heads \X Providers /\ review' \in [Heads -> {"none", "yes", "no"}]
    BY <2>1, <2>2, <2>3 DEF Shape
  <2>5. ctl' \in [pc : Places, head : Head0, verdict : Verdicts] /\ ctl'.pc = "evidenced"
    BY <1>3 DEF RecordVote, Shape, Places
  <2> QED
    BY <1>3, <2>4, <2>5 DEF RecordVote, Shape, Known
<1>4. CASE KeepGateFresh
  <2>1. run.head \in Heads /\ Record("head", run.head, "green") /\ "green" \in CiStates
    BY <1>4 DEF KeepGateFresh, Merging, Shape, Known, Head0, CiStates
  <2>2. checks' \in [{"head", "merged"} -> [Heads -> Rows]]
    BY <2>1, RecordTyped
  <2> QED
    BY <1>4, <2>2 DEF KeepGateFresh, Shape, Known
<1>5. CASE ReadMergedCi
  <2>1. run.merged \in Heads /\ host.ci \in CiStates /\ Record("merged", run.merged, host.ci)
    BY <1>5 DEF ReadMergedCi, Validating, Shape, Known, Head0
  <2>2. checks' \in [{"head", "merged"} -> [Heads -> Rows]]
    BY <2>1, RecordTyped
  <2>3. ctl' \in {NoCtl, [NoCtl EXCEPT !.pc = "validate"], [NoCtl EXCEPT !.pc = "repair"]}
    BY <1>5 DEF ReadMergedCi
  <2> QED
    BY <1>5, <2>2, <2>3 DEF ReadMergedCi, Shape, Known, NoCtl, Places, Head0, Verdicts
<1> QED
  BY <1>1, <1>2, <1>3, <1>4, <1>5

\* Steps of the host, the clock and the process.
LEMMA WorldStep ==
  ASSUME Shape, Known,
         \/ Push \/ CiDecides \/ CiReruns \/ OwnerMerges \/ OwnerCloses
         \/ WindowEnds \/ ProofAges \/ CapacityFills \/ ProvidersRecover \/ Crash
  PROVE  Shape' /\ Known'
<1> DEFINE Counts == [{"pushes", "foreign", "rejects", "reruns", "trouble", "ages"} -> Nat]
           Hosts == [state : {"none", "open", "merged", "closed"}, head : Head0, ci : CiStates]
<1>0. count \in Counts /\ count.pushes <= MaxPushes /\ host \in Hosts
  BY DEF Shape
<1>1. ASSUME NEW k \in {"foreign", "rejects", "reruns", "trouble", "ages"}, NEW bound,
             Spend(k, bound)
      PROVE  count' \in Counts /\ count'.pushes <= MaxPushes
  BY <1>0, <1>1 DEF Spend
<1>2. CASE Push
  <2>0. /\ count.pushes \in Nat /\ count.foreign \in Nat /\ MaxPushes \in Nat
        /\ count.pushes < MaxPushes
    BY <1>0, <1>2, StagesBounds DEF Push
  <2> HIDE DEF Counts
  <2>1. PICK h \in 1..(count.pushes + 1) : host' = [host EXCEPT !.head = h, !.ci = "pending"]
    BY <1>2 DEF Push
  <2>2. h \in Heads /\ h # 0 /\ "pending" \in CiStates
    BY <2>0 DEF Heads, CiStates
  <2>3. host' \in Hosts /\ host'.head # 0
    <3> DEFINE one == [host EXCEPT !.head = h]
    <3>1. one \in Hosts /\ one.head = h
      BY <1>0, <2>2 DEF Head0
    <3>2. host' = [one EXCEPT !.ci = "pending"]
      BY <2>1
    <3> QED
      BY <2>2, <3>1, <3>2
  <2>4. count' \in Counts /\ count'.pushes <= MaxPushes
    <3>1. count.pushes + 1 \in Nat /\ count.foreign + 1 \in Nat /\ count.pushes + 1 <= MaxPushes
      BY <2>0
    <3> USE DEF Counts
    <3> DEFINE one == [count EXCEPT !.pushes = count.pushes + 1]
    <3>2. one \in Counts /\ one.pushes <= MaxPushes /\ one.foreign = count.foreign
      BY <1>0, <3>1
    <3>3. count' = [one EXCEPT !.foreign = count.foreign + 1]
      BY <1>2, <3>2 DEF Push
    <3> QED
      BY <3>1, <3>2, <3>3
  <2>5. UNCHANGED <<run, work, review, finals, checks, proof, ctl, down, votes, greens>>
    BY <1>2 DEF Push
  <2>6. Shape'
    BY <2>3, <2>4, <2>5 DEF Shape, Counts
  <2>7. Known'
    BY <2>3, <2>5 DEF Known
  <2> QED
    BY <2>6, <2>7
<1>3. CASE CiDecides \/ CiReruns \/ OwnerMerges \/ OwnerCloses
  <2>1. host' \in Hosts /\ host'.head = host.head
    <3>1. CASE CiDecides \/ CiReruns \/ OwnerCloses
      <4>1. \/ \E ci \in CiStates : host' = [host EXCEPT !.ci = ci]
            \/ host' = [host EXCEPT !.state = "closed"]
        BY <3>1 DEF CiDecides, CiReruns, OwnerCloses, CiStates
      <4> QED
        BY <1>0, <4>1
    <3>2. CASE OwnerMerges
      <4> DEFINE one == [host EXCEPT !.state = "merged"]
      <4>1. one \in Hosts /\ one.head = host.head
        BY <1>0
      <4>2. host' = [one EXCEPT !.ci = "pending"] /\ "pending" \in CiStates
        BY <3>2 DEF OwnerMerges, CiStates
      <4> QED
        BY <4>1, <4>2
    <3> QED
      BY <1>3, <3>1, <3>2
  <2>2. count' \in Counts /\ count'.pushes <= MaxPushes
    <3>1. \/ count' = count \/ Spend("rejects", MaxRejects)
          \/ Spend("reruns", MaxReruns) \/ Spend("trouble", MaxTrouble)
      BY <1>3 DEF CiDecides, CiReruns, OwnerMerges, OwnerCloses, Trouble
    <3> HIDE DEF Counts
    <3> QED
      BY <1>0, <1>1, <3>1
  <2> QED
    BY <1>3, <2>1, <2>2 DEF CiDecides, CiReruns, OwnerMerges, OwnerCloses, Shape, Known
<1>4. CASE WindowEnds
  <2>1. checks' \in [{"head", "merged"} -> [Heads -> Rows]]
    <3>1. checks \in [{"head", "merged"} -> [Heads -> Rows]] /\ DOMAIN checks = {"head", "merged"}
      BY DEF Shape
    <3>2. \A k \in {"head", "merged"}, h \in Heads : [checks[k][h] EXCEPT !.window = {}] \in Rows
      BY <3>1 DEF Rows
    <3> QED
      BY <1>4, <3>1, <3>2 DEF WindowEnds
  <2> QED
    BY <1>4, <2>1 DEF WindowEnds, Shape, Known
<1>5. CASE ProofAges
  <2>1. count' \in Counts /\ count'.pushes <= MaxPushes
    BY <1>1, <1>5 DEF ProofAges
  <2>2. proof' \in [Heads -> {"none", "yes", "no", "old"}]
    BY <1>5 DEF ProofAges, Shape
  <2> QED
    BY <1>5, <2>1, <2>2 DEF ProofAges, Shape, Known
<1>6. CASE CapacityFills \/ ProvidersRecover \/ Crash
  <2>1. count' \in Counts /\ count'.pushes <= MaxPushes
    BY <1>0, <1>1, <1>6 DEF CapacityFills, ProvidersRecover, Crash, Trouble
  <2>2. down' \subseteq Providers
    BY <1>6 DEF CapacityFills, ProvidersRecover, Crash, Shape
  <2>3. ctl' \in {ctl, NoCtl}
    BY <1>6 DEF CapacityFills, ProvidersRecover, Crash
  <2> QED
    BY <1>6, <2>1, <2>2, <2>3
    DEF CapacityFills, ProvidersRecover, Crash, Shape, Known, NoCtl, Places, Head0, Verdicts
<1> QED
  BY <1>2, <1>3, <1>4, <1>5, <1>6

LEMMA ShapeStep ==
  ASSUME Shape, Known, Between, [Next]_vars
  PROVE  Shape' /\ Known'
<1>1. CASE UNCHANGED vars
  BY <1>1 DEF vars, Shape, Known
<1> QED
  BY <1>1, RowStep, AttemptStep, EvidenceStep, WorldStep DEF Next, Controller

-----------------------------------------------------------------------------
(* One agent at a time                                                      *)

\* A new head takes the judges of the old one with it.
LEMMA HeadLeaves ==
  ASSUME Agents, host.head # run.head, Supersede(host.head)
  PROVE  Agents'
<1>1. AtWork' = {a \in AtWork : a.role \notin {"review", "final"}}
  BY DEF Supersede, AtWork, Agents, Current
<1>2. run' = run /\ ctl'.pc = "newhead"
  BY DEF Supersede, NoCtl
<1>3. \A h : DoneFor("validation", h)' = DoneFor("validation", h)
  BY DEF Supersede, DoneFor
<1>4. Passed' = Passed
  BY <1>2, <1>3 DEF Passed
<1>5. OneAgentAtWork'
  <2> SUFFICES ASSUME NEW x \in work', NEW y \in work', x.st \in Active, y.st \in Active
               PROVE  x = y
    BY DEF OneAgentAtWork
  <2>1. x \in work /\ y \in work
    BY DEF Supersede
  <2> QED
    BY <2>1 DEF Agents, OneAgentAtWork
<1>6. RoleNow' = RoleNow
  BY <1>2 DEF RoleNow
<1>7. Ours' /\ Current'
  BY <1>1, <1>2, <1>4, <1>6 DEF Agents, Ours, Current
<1>8. Between'
  BY <1>1, <1>2 DEF Between
<1> QED
  BY <1>5, <1>7, <1>8 DEF Agents

LEMMA HeadAdopted ==
  ASSUME Shape, Agents, AdoptHead
  PROVE  Agents'
<1> DEFINE status == IF run.status \in {"finals", "merging"} THEN "reviewing" ELSE run.status
<1>1. run'.status = status /\ run'.merged = run.merged /\ run'.author = run.author
  BY DEF AdoptHead, MoveTo, Shape
<1>2. work' = work /\ ctl'.pc = "idle"
  BY DEF AdoptHead, NoCtl
<1>3. AtWork' = AtWork /\ OneAgentAtWork'
  BY <1>2 DEF AtWork, Agents, OneAgentAtWork
<1>4. \A a \in AtWork : a.role \notin {"review", "final"} /\ a.role = RoleNow /\ a.role # "none"
  BY DEF AdoptHead, Agents, Between, Ours, Shape, Attempt, AtWork, Roles
<1>5. run.status \in {"finals", "merging", "reviewing"} => RoleNow \in {"final", "none", "review"}
  BY DEF RoleNow
<1>6. run.status \notin {"finals", "merging"} => RoleNow' = RoleNow
  BY <1>1 DEF RoleNow
<1>7. Passed' = Passed
  BY <1>1, <1>2 DEF Passed, DoneFor
<1>8. Ours' /\ Current'
  BY <1>1, <1>3, <1>4, <1>5, <1>6, <1>7 DEF Agents, Ours, Current
<1> QED
  BY <1>2, <1>3, <1>8 DEF Agents, Between

\* The agent at work is done, or gone: nobody is left.
LEMMA Leaves ==
  ASSUME Agents, NEW a \in AtWork, \A b \in work' : b.st \in Active => b \in work /\ b # a,
         Between'
  PROVE  Agents'
<1>1. AtWork' = {}
  BY DEF AtWork, Agents, OneAgentAtWork
<1> QED
  BY <1>1, Nobody

LEMMA AgentsController ==
  ASSUME Shape, Known, Agents, Controller \/ SweepHead \/ KeepGateFresh
  PROVE  Agents'
<1>1. /\ run.status \notin {"implementing", "reviewing", "finals", "validating"} => AtWork = {}
      /\ \A role : ActiveFor(role) = {} /\ role = RoleNow => AtWork = {}
      /\ Stage # "none" /\ (Against(Stage) \/ Enough(Stage)) => AtWork = {}
      /\ run.status = "validating" /\ Passed => AtWork = {}
      /\ \A a \in AtWork : AtWork = {a} /\ a.role = RoleNow /\ a \in work
  BY Unstaffed
<1>2. Between
  BY DEF Agents
<1>3. ASSUME AtWork = {}, work' = work, Between' PROVE Agents'
  BY <1>3, Nobody DEF AtWork
<1>4. CASE SelectAuthor \/ EnterReview \/ ReturnToAuthor \/ PostNotice \/ EnterValidation
           \/ AdoptMerge
  <2>1. AtWork = {} /\ work' = work /\ ctl'.pc = "idle"
    BY <1>1, <1>4
    DEF SelectAuthor, EnterReview, ReturnToAuthor, PostNotice, EnterValidation, AdoptMerge, Merging
  <2> QED
    BY <1>3, <2>1 DEF Between
<1>5. CASE RotateAuthor
  <2>1. AtWork = {} /\ work' = work /\ ctl'.pc = "idle"
    BY <1>1, <1>5 DEF RotateAuthor, RoleNow
  <2> QED
    BY <1>3, <2>1 DEF Between
<1>6. CASE AskForRework \/ EnterFinals
  <2>1. AtWork = {} /\ work' = work /\ ctl'.pc = "idle"
    BY <1>1, <1>6 DEF AskForRework, EnterFinals, Judging
  <2> QED
    BY <1>3, <2>1 DEF Between
<1>7. CASE MergeEvidence
  <2>1. AtWork = {} /\ work' = work /\ run' = run /\ run.status = "finals"
    BY <1>1, <1>7 DEF MergeEvidence, Judging, Stage
  <2>2. ctl'.pc \in {"idle", "gate"}
    BY <1>7 DEF MergeEvidence, NoCtl
  <2>3. AtWork' = {}
    BY <2>1 DEF AtWork
  <2> QED
    BY <2>1, <2>2, <2>3, Nobody DEF Between
<1>8. CASE EnterMerge \/ BindPr
  <2>1. AtWork = {} /\ work' = work /\ ctl'.pc = "idle"
    BY <1>2, <1>8 DEF EnterMerge, BindPr, Between, NoCtl
  <2> QED
    BY <1>3, <2>1 DEF Between
<1>9. CASE Validated
  <2>1. AtWork = {} /\ work' = work /\ ctl'.pc = "idle"
    BY <1>1, <1>2, <1>9 DEF Validated, Between, NoCtl
  <2> QED
    BY <1>3, <2>1 DEF Between
<1>10. CASE NotReviewable \/ RefuseMerge
  <2>1. AtWork' = {} /\ ctl'.pc = "idle"
    BY <1>10 DEF NotReviewable, RefuseMerge, Quarantine, AtWork, NoCtl
  <2> QED
    BY <2>1, Nobody DEF Between
<1>11. CASE HeadMoved \/ SweepHead
  <2>1. host.head # run.head /\ Supersede(host.head)
    BY <1>11 DEF HeadMoved, SweepHead
  <2> QED
    BY <2>1, HeadLeaves
<1>12. CASE AdoptHead
  BY <1>12, HeadAdopted
<1>13. CASE BeginAuthor
  <2> DEFINE n == [role |-> "implementation", prov |-> Selected("implementation", {}),
                   head |-> Bound("implementation"), st |-> "commissioned", verdict |-> "none"]
  <2>1. /\ work' = work \cup {n} /\ run' = run /\ ctl' = ctl /\ ctl.pc = "idle"
        /\ ActiveFor("implementation") = {} /\ n.role = RoleNow
        /\ Selected("implementation", {}) # "none"
    BY <1>13 DEF BeginAuthor, Begin, RoleNow
  <2>2. n \in Attempt
    BY <2>1, SelectedMay DEF Bound, Attempt, Head0, Active, Verdicts, Roles
  <2>3. AtWork = {} /\ n.st = "commissioned" /\ n.role = "implementation"
    BY <1>1, <2>1
  <2> HIDE DEF n
  <2> QED
    BY <2>1, <2>2, <2>3, Begins
<1>14. CASE Commission
  <2> DEFINE used == {a.prov : a \in DoneFor(Stage, run.head)}
             n == [role |-> Stage, prov |-> Selected(Stage, used),
                   head |-> Bound(Stage), st |-> "commissioned", verdict |-> "none"]
  <2>1. /\ work' = work \cup {n} /\ run' = run /\ ctl' = ctl /\ ctl.pc = "idle"
        /\ ActiveFor(Stage) = {} /\ ~Against(Stage) /\ ~Enough(Stage)
        /\ Selected(Stage, used) # "none"
    BY <1>14 DEF Commission, Begin, Judging
  <2>2. Stage \in {"review", "final"} /\ Stage = RoleNow /\ Bound(Stage) = run.head
    BY <1>14 DEF Commission, Judging, Stage, RoleNow, Bound
  <2>3. /\ Selected(Stage, used) \in Providers
        /\ Stage = "review" => Selected(Stage, used) # run.author
    BY <2>1, SelectedMay
  <2>4. n \in Attempt /\ n.role = Stage /\ n.head = run.head /\ n.st = "commissioned"
        /\ (n.role \in {"review", "validation"} => n.prov # run.author)
    BY <2>2, <2>3 DEF Attempt, Head0, Active, Verdicts, Roles, Shape
  <2>5. AtWork = {}
    BY <1>1, <2>1, <2>2
  <2> HIDE DEF n
  <2> QED
    BY <2>1, <2>2, <2>4, <2>5, Begins
<1>15. CASE BeginValidation
  <2> DEFINE p == Selected("validation", {})
             n == [role |-> "validation", prov |-> p, head |-> run.merged,
                   st |-> "commissioned", verdict |-> "none"]
  <2>1. /\ run' = run /\ ctl'.pc = "idle" /\ ~Passed /\ ActiveFor("validation") = {}
        /\ run.status = "validating" /\ RoleNow = "validation"
    BY <1>2, <1>15 DEF BeginValidation, Between, NoCtl, RoleNow
  <2>2. AtWork = {}
    BY <1>1, <2>1
  <2>3. CASE p = "none"
    BY <1>3, <1>15, <2>1, <2>2, <2>3 DEF BeginValidation, Between
  <2>4. CASE p # "none"
    <3>1. work' = work \cup {n}
      BY <1>15, <2>4 DEF BeginValidation
    <3>2. n \in Attempt /\ n.role = "validation" /\ n.head = run.merged
          /\ n.st = "commissioned" /\ n.prov # run.author
      BY <2>4, SelectedMay DEF Attempt, Head0, Active, Verdicts, Roles, Shape
    <3> HIDE DEF n
    <3> QED
      BY <2>1, <2>2, <3>1, <3>2, Begins
  <2> QED
    BY <2>3, <2>4
<1>16. ASSUME work' = work, run' = run, Between' PROVE Agents'
  BY <1>16, Fewer DEF AtWork, Finished
<1>17. CASE Attest \/ RecordVote \/ KeepGateFresh
  <2>1. work' = work /\ run' = run /\ ctl'.pc \in {"attested", "evidenced", "idle"}
    BY <1>17 DEF Attest, RecordVote, KeepGateFresh, Merging, NoCtl, Shape
  <2> QED
    BY <1>16, <2>1 DEF Between
<1>18. CASE ReadMergedCi
  <2>1. /\ work' = work /\ run' = run /\ ctl'.pc \in {"validate", "repair", "idle"}
        /\ run.status = "validating"
    BY <1>18 DEF ReadMergedCi, Validating, NoCtl
  <2> QED
    BY <1>16, <2>1 DEF Between
<1>19. ASSUME NEW a \in AtWork, NEW st, st \notin Active, NEW verdict, work' = With(a, st, verdict)
       PROVE  \A b \in work' : b.st \in Active => b \in work /\ b # a
  <2>1. [a EXCEPT !.st = st, !.verdict = verdict].st = st
    BY DEF AtWork, Shape, Attempt
  <2> QED
    BY <1>19, <2>1 DEF With
<1>20. "completed" \notin Active
  BY DEF Active
<1>21. CASE CompleteVote
  <2>1. PICK a \in AtWork : work' = With(a, "completed", ctl.verdict)
    BY <1>21 DEF CompleteVote, ActiveFor, AtWork
  <2>2. \A b \in work' : b.st \in Active => b \in work /\ b # a
    BY <1>19, <1>20, <2>1
  <2>3. Between'
    BY <1>21 DEF CompleteVote, NoCtl, Between
  <2> QED
    BY <2>2, <2>3, Leaves
<1>22. CASE SettleValidation
  <2>1. PICK a \in AtWork :
           IF ctl.verdict = "passed" THEN work' = With(a, "completed", "passed") /\ ctl' = NoCtl
           ELSE work' = work \ {a} /\ ctl' = [NoCtl EXCEPT !.pc = "repair"]
    BY <1>22 DEF SettleValidation, ActiveFor, AtWork
  <2>2. \A b \in work' : b.st \in Active => b \in work /\ b # a
    BY <1>19, <1>20, <2>1
  <2>3. run' = run /\ run.status = "validating" /\ ctl'.pc \in {"idle", "repair"}
    BY <1>2, <1>22, <2>1 DEF SettleValidation, Between, NoCtl
  <2>4. Between'
    BY <2>3 DEF Between
  <2> QED
    BY <2>2, <2>4, Leaves
<1>23. CASE ReadPr
  <2>1. PICK a \in AtWork : work' = work \ {a}
    BY <1>23 DEF ReadPr, ActiveFor, AtWork
  <2>2. AtWork' = {} /\ run' = run /\ run.status = "implementing" /\ ctl'.pc = "bind"
    BY <1>1, <1>23, <2>1 DEF ReadPr, AtWork, NoCtl
  <2> QED
    BY <2>2, Nobody DEF Between
<1>24. CASE Repair
  <2>1. RoleNow = "validation"
    BY <1>2, <1>24 DEF Repair, Between, RoleNow
  <2>2. AtWork' = {} /\ ctl'.pc = "idle"
    BY <1>1, <1>24, <2>1 DEF Repair, AtWork, NoCtl
  <2> QED
    BY <2>2, Nobody DEF Between
<1>25. CASE WorkOnValidation
  <2>1. PICK a \in AtWork :
          \/ work' = With(a, "working", "none") /\ ctl' = NoCtl
          \/ Fails(a) /\ ctl' = NoCtl
          \/ ctl' = NoCtl /\ work' = work
          \/ work' = work /\ ctl' = [NoCtl EXCEPT !.pc = "proved", !.verdict = a.verdict]
    BY <1>25 DEF WorkOnValidation, ActiveFor, AtWork
  <2>2. run' = run /\ run.status = "validating"
    BY <1>2, <1>25 DEF WorkOnValidation, Between
  <2>3. ctl'.pc \in {"idle", "proved"}
    <3> DEFINE proved == [NoCtl EXCEPT !.pc = "proved"]
    <3>1. proved = [pc |-> "proved", head |-> 0, verdict |-> "none"] /\ NoCtl.pc = "idle"
      BY DEF NoCtl
    <3>2. [proved EXCEPT !.verdict = a.verdict].pc = "proved"
      BY <3>1
    <3>3. ctl' = NoCtl \/ ctl' = [proved EXCEPT !.verdict = a.verdict]
      BY <2>1
    <3> HIDE DEF proved
    <3> QED
      BY <3>1, <3>2, <3>3
  <2>4. Between'
    BY <2>2, <2>3 DEF Between
  <2>5. CASE work' = With(a, "working", "none") /\ ctl' = NoCtl
    BY <2>2, <2>5, GoesOn DEF Active
  <2>6. CASE Fails(a)
    BY <2>4, <2>6, Leaves DEF Fails
  <2>7. CASE work' = work
    BY <1>16, <2>2, <2>4, <2>7
  <2> QED
    BY <2>1, <2>5, <2>6, <2>7
<1> QED
  BY <1>4, <1>5, <1>6, <1>7, <1>8, <1>9, <1>10, <1>11, <1>12, <1>13, <1>14, <1>15, <1>17,
     <1>18, <1>21, <1>22, <1>23, <1>24, <1>25 DEF Controller

LEMMA AgentsWorld ==
  ASSUME Shape, Agents,
         \/ Attempts \/ Answers \/ Push \/ CiDecides \/ CiReruns \/ OwnerMerges \/ OwnerCloses
         \/ WindowEnds \/ ProofAges \/ CapacityFills \/ ProvidersRecover \/ Crash
  PROVE  Agents'
<1>1. ASSUME work' = work, run' = run, ctl' \in {ctl, NoCtl} PROVE Agents'
  <2>1. AtWork' = AtWork /\ Finished' = Finished
    BY <1>1 DEF AtWork, Finished
  <2>2. Between'
    BY <1>1, <2>1 DEF Agents, Between, NoCtl
  <2> QED
    BY <1>1, <2>1, <2>2, Fewer
<1>2. CASE Attempts
  <2>1. PICK a \in work : ctl.pc = "idle" /\ (Prompt(a) \/ GivesUp(a))
    BY <1>2 DEF Attempts, Prompts
  <2>2. a \in AtWork /\ run' = run /\ ctl' = ctl
    BY <2>1 DEF Prompt, GivesUp, AtWork, Active
  <2>3. CASE work' = With(a, "working", "none")
    BY <2>2, <2>3, GoesOn DEF Active
  <2>4. CASE work' = work \ {a}
    <3>1. \A b \in work' : b.st \in Active => b \in work /\ b # a
      BY <2>4
    <3>2. Between'
      BY <2>1, <2>2 DEF Between
    <3> QED
      BY <2>2, <3>1, <3>2, Leaves
  <2> QED
    BY <2>1, <2>3, <2>4 DEF Prompt, GivesUp, Fails
<1>3. CASE Answers
  <2>1. PICK a \in work : AuthorAnswers(a) \/ JudgeAnswers(a)
    BY <1>3 DEF Answers
  <2>2. PICK v : work' = With(a, "answered", v)
    BY <2>1 DEF AuthorAnswers, JudgeAnswers
  <2>3. a \in AtWork /\ run' = run /\ ctl' = ctl
    BY <2>1 DEF AuthorAnswers, JudgeAnswers, AtWork, Active
  <2> QED
    BY <2>2, <2>3, GoesOn DEF Active
<1>4. CASE \/ Push \/ CiDecides \/ CiReruns \/ OwnerMerges \/ OwnerCloses
           \/ WindowEnds \/ ProofAges \/ CapacityFills \/ ProvidersRecover \/ Crash
  BY <1>1, <1>4 DEF Push, CiDecides, CiReruns, OwnerMerges, OwnerCloses, WindowEnds, ProofAges,
                    CapacityFills, ProvidersRecover, Crash
<1> QED
  BY <1>2, <1>3, <1>4

LEMMA AgentsStep ==
  ASSUME Shape, Known, Agents, [Next]_vars
  PROVE  Agents'
<1>1. CASE UNCHANGED vars
  <2>1. AtWork' = AtWork /\ Finished' = Finished /\ run' = run /\ ctl' = ctl
    BY <1>1 DEF vars, AtWork, Finished
  <2> QED
    BY <2>1, Fewer DEF Agents, Between
<1> QED
  BY <1>1, AgentsController, AgentsWorld DEF Next

-----------------------------------------------------------------------------
(* What is written down is what somebody answered                           *)

LEMMA HistoryGrows ==
  ASSUME [Next]_vars
  PROVE  votes \subseteq votes' /\ greens \subseteq greens'
<1>1. CASE UNCHANGED vars
  BY <1>1 DEF vars
<1>2. CASE Answers
  BY <1>2 DEF Answers, AuthorAnswers, JudgeAnswers
<1>3. CASE Attempts
  BY <1>3 DEF Attempts, Prompts, Prompt, GivesUp
<1>4. CASE Controller \/ SweepHead \/ KeepGateFresh
  <2>1. CASE \/ SelectAuthor \/ RotateAuthor \/ BeginAuthor \/ ReadPr \/ BindPr \/ EnterReview
             \/ AdoptHead \/ NotReviewable \/ AskForRework \/ ReturnToAuthor \/ EnterFinals
             \/ MergeEvidence \/ EnterMerge \/ Commission \/ Attest \/ RecordVote \/ CompleteVote
    BY <2>1 DEF SelectAuthor, RotateAuthor, BeginAuthor, Begin, ReadPr, BindPr, EnterReview,
                AdoptHead, NotReviewable, AskForRework, ReturnToAuthor, EnterFinals, MergeEvidence,
                EnterMerge, Commission, Attest, RecordVote, CompleteVote
  <2>2. CASE \/ HeadMoved \/ SweepHead \/ KeepGateFresh \/ AdoptMerge \/ RefuseMerge \/ PostNotice
             \/ EnterValidation \/ ReadMergedCi \/ Repair \/ Validated \/ BeginValidation
             \/ WorkOnValidation \/ SettleValidation
    BY <2>2 DEF HeadMoved, SweepHead, Supersede, KeepGateFresh, AdoptMerge, RefuseMerge,
                PostNotice, EnterValidation, ReadMergedCi, Repair, Validated, BeginValidation,
                WorkOnValidation, SettleValidation
  <2> QED
    BY <1>4, <2>1, <2>2 DEF Controller
<1>5. CASE \/ Push \/ CiDecides \/ CiReruns \/ OwnerMerges \/ OwnerCloses
           \/ WindowEnds \/ ProofAges \/ CapacityFills \/ ProvidersRecover \/ Crash
  BY <1>5 DEF Push, CiDecides, CiReruns, OwnerMerges, OwnerCloses, WindowEnds, ProofAges,
              CapacityFills, ProvidersRecover, Crash
<1> QED
  BY <1>1, <1>2, <1>3, <1>4, <1>5 DEF Next

\* A step that writes nothing favourable down.
LEMMA Quiet ==
  ASSUME Books, votes \subseteq votes', greens \subseteq greens',
         \A a \in AtWork' : a.role = "implementation" \/ a.verdict = "none" \/ a \in AtWork,
         \A h \in Heads : review'[h] = "yes" => review[h] = "yes",
         finals' \subseteq finals,
         \A h \in Heads : proof'[h] \in {"yes", "old"} => proof[h] \in {"yes", "old"},
         \A h \in Heads : checks'["merged"][h].newest = "green" =>
                              checks["merged"][h].newest = "green"
  PROVE  Books'
<1>1. \A role, h, verdict : Voted(role, h, verdict) \subseteq Voted(role, h, verdict)'
  BY DEF Voted
<1>2. \A a \in AtWork' : a.role # "implementation" /\ a.verdict # "none" =>
          a.prov \in Voted(a.role, a.head, a.verdict)'
  BY <1>1 DEF Books
<1>3. /\ \A h \in Heads : review'[h] = "yes" => Voted("review", h, "approve")' # {}
      /\ \A f \in finals' : f[2] \in Voted("final", f[1], "approve")'
      /\ \A h \in Heads : proof'[h] \in {"yes", "old"} => Voted("validation", h, "passed")' # {}
      /\ \A h \in Heads : checks'["merged"][h].newest = "green" => h \in greens'
  BY <1>1 DEF Books
<1> QED
  BY <1>2, <1>3 DEF Books

\* What an action does to the agents at work adds no answer.
LEMMA Unanswered ==
  ASSUME Shape, NEW a \in work, NEW st, NEW verdict, work' = With(a, st, verdict),
         st \notin Active \/ verdict = "none" \/ a.role = "implementation"
  PROVE  \A b \in AtWork' : b.role = "implementation" \/ b.verdict = "none" \/ b \in AtWork
<1> DEFINE one == [a EXCEPT !.st = st]
           two == [one EXCEPT !.verdict = verdict]
<1>1. a \in Attempt
  BY DEF Shape
<1>2. one.role = a.role /\ one.st = st
  BY <1>1 DEF Attempt
<1>3. two.role = a.role /\ two.st = st /\ two.verdict = verdict
  BY <1>1 DEF Attempt
<1>4. work' = (work \ {a}) \cup {two}
  BY DEF With
<1> HIDE DEF one, two
<1> QED
  BY <1>3, <1>4 DEF AtWork

\* A vote is written down as it was given.
LEMMA VoteRecorded ==
  ASSUME Shape, Known, Agents, Books, RecordVote
  PROVE  Books'
<1>1. PICK a \in ActiveFor(Stage) :
        IF Stage = "review"
        THEN /\ review' = [review EXCEPT ![run.head] = IF a.verdict = "approve" THEN "yes" ELSE "no"]
             /\ UNCHANGED finals
        ELSE /\ finals' = IF a.verdict = "approve" THEN finals \cup {<<run.head, a.prov>>} ELSE finals
             /\ UNCHANGED review
  BY DEF RecordVote
<1>2. a \in AtWork /\ a.role = Stage /\ Stage \in {"review", "final"}
  BY DEF ActiveFor, AtWork, Stage, Shape, Attempt, Roles
<1>3. a.head = run.head
  BY <1>2 DEF Agents, Current
<1>4. a.verdict = "approve" => a.prov \in Voted(Stage, run.head, "approve")
  BY <1>2, <1>3 DEF Books
<1>5. UNCHANGED <<work, votes, greens, proof, checks>>
  BY DEF RecordVote
<1>6. AtWork' = AtWork /\ \A role, h, verdict : Voted(role, h, verdict)' = Voted(role, h, verdict)
  BY <1>5 DEF AtWork, Voted
<1>7. \A h \in Heads : review'[h] = "yes" => Voted("review", h, "approve") # {}
  BY <1>1, <1>2, <1>4 DEF Books, Shape
<1>8. \A f \in finals' : f[2] \in Voted("final", f[1], "approve")
  <2> SUFFICES ASSUME NEW f \in finals', f \notin finals
               PROVE  f[2] \in Voted("final", f[1], "approve")
    BY DEF Books
  <2>1. f = <<run.head, a.prov>> /\ a.verdict = "approve" /\ Stage = "final"
    BY <1>1, <1>2
  <2> QED
    BY <1>4, <2>1
<1> QED
  BY <1>5, <1>6, <1>7, <1>8 DEF Books

\* So is a validation, and the checks of a merged commit.
LEMMA ProofRecorded ==
  ASSUME Shape, Known, Agents, Books, WorkOnValidation
  PROVE  Books'
<1>1. PICK a \in ActiveFor("validation") :
        \/ work' = With(a, "working", "none") /\ proof' = proof
        \/ work' \subseteq work /\ proof' = proof
        \/ work' \subseteq work
           /\ proof' = [proof EXCEPT ![run.merged] = IF a.verdict = "passed" THEN "yes" ELSE "no"]
  BY DEF WorkOnValidation, Fails
<1>2. a \in AtWork /\ a.role = "validation" /\ a \in work
  BY DEF ActiveFor, AtWork
<1>3. a.head = run.merged
  BY <1>2 DEF Agents, Current
<1>4. a.verdict = "passed" => a.prov \in Voted("validation", run.merged, "passed")
  BY <1>2, <1>3 DEF Books
<1>5. UNCHANGED <<review, finals, checks, votes, greens>>
  BY DEF WorkOnValidation
<1>6. \A b \in AtWork' : b.role = "implementation" \/ b.verdict = "none" \/ b \in AtWork
  <2>1. CASE work' = With(a, "working", "none")
    BY <1>2, <2>1, Unanswered
  <2>2. CASE work' \subseteq work
    BY <2>2 DEF AtWork
  <2> QED
    BY <1>1, <2>1, <2>2
<1>7. CASE proof' = proof
  BY <1>5, <1>6, <1>7, Quiet
<1>8. CASE proof' = [proof EXCEPT ![run.merged] = IF a.verdict = "passed" THEN "yes" ELSE "no"]
  <2>1. \A role, h, verdict : Voted(role, h, verdict)' = Voted(role, h, verdict)
    BY <1>5 DEF Voted
  <2>2. \A h \in Heads : proof'[h] \in {"yes", "old"} => Voted("validation", h, "passed") # {}
    BY <1>4, <1>8 DEF Books, Shape
  <2> QED
    BY <1>5, <1>6, <2>1, <2>2 DEF Books
<1> QED
  BY <1>1, <1>7, <1>8

LEMMA ChecksRecorded ==
  ASSUME Shape, Known, Books, ReadMergedCi
  PROVE  Books'
<1>1. run.merged \in Heads /\ host.ci \in CiStates /\ Record("merged", run.merged, host.ci)
  BY DEF ReadMergedCi, Validating, Shape, Known, Head0
<1>2. \A h \in Heads : checks'["merged"][h].newest = "green" => h \in greens'
  <2>1. greens' = IF host.ci = "green" THEN greens \cup {run.merged} ELSE greens
    BY DEF ReadMergedCi
  <2>2. checks'["merged"][run.merged].newest \in {checks["merged"][run.merged].newest, host.ci}
    BY <1>1, RecordTyped
  <2>3. \A h \in Heads : h # run.merged => checks'["merged"][h] = checks["merged"][h]
    BY <1>1, RecordTyped
  <2> QED
    BY <2>1, <2>2, <2>3 DEF Books
<1>3. UNCHANGED <<work, review, finals, proof, votes>>
  BY DEF ReadMergedCi
<1>4. AtWork' = AtWork /\ \A role, h, verdict : Voted(role, h, verdict)' = Voted(role, h, verdict)
  BY <1>3 DEF AtWork, Voted
<1> QED
  BY <1>2, <1>3, <1>4 DEF Books

\* An answer is a vote.
LEMMA AnswerCounts ==
  ASSUME Shape, Agents, Books, NEW a \in work, JudgeAnswers(a)
  PROVE  Books'
<1>1. PICK v : work' = With(a, "answered", v) /\ votes' = votes \cup {Vote(a, v)}
  BY DEF JudgeAnswers
<1> DEFINE one == [a EXCEPT !.st = "answered"]
           two == [one EXCEPT !.verdict = v]
<1>2. a \in Attempt /\ a \in AtWork /\ a.role \in {"review", "final", "validation"}
  BY DEF Shape, JudgeAnswers, AtWork, Active, Attempt, Roles
<1>3. one.role = a.role /\ one.head = a.head /\ one.prov = a.prov
  BY <1>2 DEF Attempt
<1>4. two.role = a.role /\ two.head = a.head /\ two.prov = a.prov /\ two.verdict = v
  BY <1>2, <1>3 DEF Attempt
<1>5. work' = (work \ {a}) \cup {two}
  BY <1>1 DEF With
<1>6. a.role = "final" \/ a.prov # run.author
  BY <1>2 DEF Agents, Current
<1>7. a.prov \in Voted(a.role, a.head, v)'
  <2>1. Vote(a, v) \in votes'
    BY <1>1
  <2>2. /\ Vote(a, v).role = a.role /\ Vote(a, v).head = a.head /\ Vote(a, v).verdict = v
        /\ Vote(a, v).prov = a.prov /\ Vote(a, v).author = run.author
    BY DEF Vote
  <2> QED
    BY <1>6, <2>1, <2>2 DEF Voted
<1>8. \A role, h, verdict : Voted(role, h, verdict) \subseteq Voted(role, h, verdict)'
  BY <1>1 DEF Voted
<1>9. UNCHANGED <<review, finals, checks, proof, greens>>
  BY DEF JudgeAnswers
<1>10. \A b \in AtWork' : b.role # "implementation" /\ b.verdict # "none" =>
           b.prov \in Voted(b.role, b.head, b.verdict)'
  <2> SUFFICES ASSUME NEW b \in AtWork', b.role # "implementation", b.verdict # "none"
               PROVE  b.prov \in Voted(b.role, b.head, b.verdict)'
    OBVIOUS
  <2> HIDE DEF one, two
  <2>1. b = two \/ b \in AtWork
    BY <1>5 DEF AtWork
  <2>2. CASE b = two
    BY <1>4, <1>7, <2>2
  <2>3. CASE b \in AtWork
    BY <1>8, <2>3 DEF Books
  <2> QED
    BY <2>1, <2>2, <2>3
<1> QED
  BY <1>8, <1>9, <1>10 DEF Books

LEMMA BooksStep ==
  ASSUME Shape, Known, Agents, Books, [Next]_vars
  PROVE  Books'
<1>0. votes \subseteq votes' /\ greens \subseteq greens'
  BY HistoryGrows
<1>1. ASSUME AtWork' \subseteq AtWork, UNCHANGED <<review, finals, proof, checks>>
      PROVE  Books'
  BY <1>0, <1>1, Quiet
<1>2. ASSUME work' \subseteq work PROVE AtWork' \subseteq AtWork
  BY <1>2 DEF AtWork
<1>3. CASE UNCHANGED vars
  BY <1>1, <1>2, <1>3 DEF vars
<1>4. CASE \/ SelectAuthor \/ RotateAuthor \/ EnterReview \/ AskForRework \/ EnterFinals
           \/ EnterMerge \/ AdoptMerge \/ PostNotice \/ EnterValidation \/ Validated \/ Attest
  BY <1>1, <1>2, <1>4 DEF SelectAuthor, RotateAuthor, EnterReview, AskForRework, EnterFinals,
     EnterMerge, AdoptMerge, PostNotice, EnterValidation, Validated, Attest
<1>5. CASE ReadPr \/ HeadMoved \/ SweepHead \/ NotReviewable \/ RefuseMerge \/ Repair
  BY <1>1, <1>2, <1>5 DEF ReadPr, HeadMoved, SweepHead, Supersede, NotReviewable, RefuseMerge,
     Quarantine, Repair
<1>6. CASE \/ Push \/ CiDecides \/ CiReruns \/ OwnerMerges \/ OwnerCloses
           \/ CapacityFills \/ ProvidersRecover \/ Crash
  BY <1>1, <1>2, <1>6 DEF Push, CiDecides, CiReruns, OwnerMerges, OwnerCloses, CapacityFills,
     ProvidersRecover, Crash
<1>7. CASE BindPr \/ AdoptHead \/ ReturnToAuthor
  <2>1. finals' \subseteq finals /\ UNCHANGED <<work, review, proof, checks>>
    BY <1>7 DEF BindPr, AdoptHead, ReturnToAuthor, MoveTo
  <2>2. AtWork' = AtWork
    BY <2>1 DEF AtWork
  <2> QED
    BY <1>0, <2>1, <2>2, Quiet
<1>8. CASE MergeEvidence \/ KeepGateFresh
  <2>1. PICK v \in CiStates : run.head \in Heads /\ Record("head", run.head, v)
    BY <1>8 DEF MergeEvidence, KeepGateFresh, Judging, Merging, Stage, Shape, Known, Head0, CiStates
  <2>2. \A h \in Heads : checks'["merged"][h] = checks["merged"][h]
    BY <2>1, RecordTyped
  <2>3. UNCHANGED <<work, review, proof, finals>>
    BY <1>8 DEF MergeEvidence, KeepGateFresh
  <2>4. AtWork' = AtWork
    BY <2>3 DEF AtWork
  <2> QED
    BY <1>0, <2>2, <2>3, <2>4, Quiet
<1>9. CASE WindowEnds
  <2>1. \A h \in Heads : checks'["merged"][h].newest = checks["merged"][h].newest
    <3>1. /\ checks \in [{"head", "merged"} -> [Heads -> Rows]]
          /\ DOMAIN checks = {"head", "merged"}
      BY DEF Shape
    <3>2. \A h \in Heads : checks'["merged"][h] = [checks["merged"][h] EXCEPT !.window = {}]
      BY <1>9, <3>1 DEF WindowEnds
    <3>3. \A h \in Heads : checks["merged"][h] \in Rows
      BY <3>1
    <3> QED
      BY <3>2, <3>3 DEF Rows
  <2>2. UNCHANGED <<work, review, proof, finals>>
    BY <1>9 DEF WindowEnds
  <2>3. AtWork' = AtWork
    BY <2>2 DEF AtWork
  <2> QED
    BY <1>0, <2>1, <2>2, <2>3, Quiet
<1>10. CASE ProofAges
  <2>1. \A h \in Heads : proof'[h] \in {"yes", "old"} => proof[h] \in {"yes", "old"}
    BY <1>10 DEF ProofAges
  <2>2. UNCHANGED <<work, review, checks, finals>>
    BY <1>10 DEF ProofAges
  <2>3. AtWork' = AtWork
    BY <2>2 DEF AtWork
  <2> QED
    BY <1>0, <2>1, <2>2, <2>3, Quiet
<1>11. ASSUME \A a \in AtWork' : a.role = "implementation" \/ a.verdict = "none" \/ a \in AtWork,
              UNCHANGED <<review, finals, proof, checks>>
       PROVE  Books'
  BY <1>0, <1>11, Quiet
<1>12. CASE BeginAuthor \/ Commission \/ BeginValidation
  <2>1. \A a \in work' : a \in work \/ a.verdict = "none"
    BY <1>12 DEF BeginAuthor, Commission, BeginValidation, Begin
  <2> QED
    BY <1>11, <1>12, <2>1 DEF BeginAuthor, Commission, BeginValidation, Begin, AtWork
<1>13. CASE CompleteVote \/ SettleValidation
  <2>1. PICK a \in work :
           \/ work' = With(a, "completed", ctl.verdict) \/ work' = With(a, "completed", "passed")
           \/ work' = work \ {a}
    BY <1>13 DEF CompleteVote, SettleValidation, ActiveFor
  <2>2. \A b \in AtWork' : b.role = "implementation" \/ b.verdict = "none" \/ b \in AtWork
    <3>1. CASE work' = work \ {a}
      BY <3>1 DEF AtWork
    <3> QED
      BY <2>1, <3>1, Unanswered DEF Active
  <2> QED
    BY <1>11, <1>13, <2>2 DEF CompleteVote, SettleValidation
<1>14. CASE Attempts
  <2>1. PICK a \in work : work' = With(a, "working", "none") \/ work' = work \ {a}
    BY <1>14 DEF Attempts, Prompts, Prompt, GivesUp, Fails
  <2>2. \A b \in AtWork' : b.role = "implementation" \/ b.verdict = "none" \/ b \in AtWork
    <3>1. CASE work' = work \ {a}
      BY <3>1 DEF AtWork
    <3> QED
      BY <2>1, <3>1, Unanswered
  <2> QED
    BY <1>11, <1>14, <2>2 DEF Attempts, Prompts, Prompt, GivesUp
<1>15. CASE Answers
  <2>1. PICK a \in work : AuthorAnswers(a) \/ JudgeAnswers(a)
    BY <1>15 DEF Answers
  <2>2. CASE AuthorAnswers(a)
    <3>1. \A b \in AtWork' : b.role = "implementation" \/ b.verdict = "none" \/ b \in AtWork
      BY <2>2, Unanswered DEF AuthorAnswers
    <3> QED
      BY <1>11, <2>2, <3>1 DEF AuthorAnswers
  <2> QED
    BY <2>1, <2>2, AnswerCounts
<1> QED
  BY <1>3, <1>4, <1>5, <1>6, <1>7, <1>8, <1>9, <1>10, <1>12, <1>13, <1>14, <1>15,
     VoteRecorded, ProofRecorded, ChecksRecorded DEF Next, Controller

-----------------------------------------------------------------------------
(* The invariant                                                            *)

Voices(vs, role, h, verdict) ==
    {v.prov : v \in {w \in vs : w.role = role /\ w.head = h /\ w.verdict = verdict
                               /\ (role = "final" \/ w.prov # w.author)}}
Earned(vs, h) == /\ Voices(vs, "review", h, "approve") # {}
                 /\ Cardinality(Voices(vs, "final", h, "approve")) >= 2

LEMMA MergeReads ==
  /\ MergeIsEarned <=> /\ run.status = "merging" => Earned(votes, run.head)
                       /\ run.merged # 0 => Earned(votes, run.merged)
  /\ MergeIsEarned' <=> /\ run'.status = "merging" => Earned(votes', run'.head)
                        /\ run'.merged # 0 => Earned(votes', run'.merged)
BY DEF MergeIsEarned, Earned, Voices, Voted

LEMMA ValidationReads ==
  /\ ValidationIsEarned <=>
        (run.status = "validated" =>
            Voices(votes, "validation", run.merged, "passed") # {} /\ run.merged \in greens)
  /\ ValidationIsEarned' <=>
        (run'.status = "validated" =>
            Voices(votes', "validation", run'.merged, "passed") # {} /\ run'.merged \in greens')
BY DEF ValidationIsEarned, Voices, Voted

\* What the row says of a merge and of a validation stays earned.
LEMMA RowKeeps ==
  ASSUME MergeIsEarned, ValidationIsEarned,
         votes \subseteq votes', votes' \subseteq Ballot, greens \subseteq greens',
         run'.status = "merging" => run.status = "merging" /\ run'.head = run.head,
         run'.merged \in {0, run.merged},
         run'.status = "validated" => run.status = "validated" /\ run'.merged = run.merged
  PROVE  MergeIsEarned' /\ ValidationIsEarned'
<1>1. \A h : Earned(votes, h) => Earned(votes', h)
  <2> SUFFICES ASSUME NEW h, Earned(votes, h) PROVE Earned(votes', h)
    OBVIOUS
  <2>1. \A role, verdict :
           /\ Voices(votes, role, h, verdict) = Voted(role, h, verdict)
           /\ Voices(votes', role, h, verdict) = Voted(role, h, verdict)'
    BY DEF Voices, Voted
  <2>2. /\ Voted("review", h, "approve") \subseteq Voted("review", h, "approve")'
        /\ Cardinality(Voted("final", h, "approve")) >= 2 =>
               Cardinality(Voted("final", h, "approve")') >= 2
    BY VotesGrow
  <2> QED
    BY <2>1, <2>2 DEF Earned
<1>2. MergeIsEarned'
  BY <1>1, MergeReads
<1>3. \A h : Voices(votes, "validation", h, "passed") \subseteq
                Voices(votes', "validation", h, "passed")
  BY DEF Voices
<1>4. ValidationIsEarned'
  BY <1>3, ValidationReads
<1> QED
  BY <1>2, <1>4

\* The gate of the merge lets through only what two final reviewers approved.
LEMMA GateIsEarned ==
  ASSUME Shape, Known, Agents, Books, ctl.pc = "gate", MergeGate
  PROVE  Earned(votes, run.head)
<1>1. run.head \in Heads
  BY DEF Agents, Between, Shape, Known, Head0
<1>2. Voted("review", run.head, "approve") # {}
  BY <1>1 DEF MergeGate, Books
<1>3. Cardinality(Voted("final", run.head, "approve")) >= 2
  BY <1>1, TwoVoices DEF MergeGate, Books
<1> QED
  BY <1>2, <1>3 DEF Earned, Voted, Voices

LEMMA EarnedStep ==
  ASSUME IInv, Shape', [Next]_vars
  PROVE  MergeIsEarned' /\ ValidationIsEarned'
<1>0. /\ votes \subseteq votes' /\ votes' \subseteq Ballot /\ greens \subseteq greens'
      /\ MergeIsEarned /\ ValidationIsEarned
  BY HistoryGrows DEF Shape, IInv
<1>1. CASE run' = run
  BY <1>0, <1>1, RowKeeps
<1>2. ASSUME run'.status \notin {"merging", "validated"}, run'.merged \in {0, run.merged}
      PROVE  MergeIsEarned' /\ ValidationIsEarned'
  BY <1>0, <1>2, RowKeeps
<1>3. run \in [status : Statuses, author : Providers \cup {"none"}, head : Head0,
               merged : Head0, notice : BOOLEAN]
  BY DEF IInv, Shape
<1>4. CASE \/ SelectAuthor \/ EnterReview \/ AskForRework \/ EnterFinals \/ EnterValidation
           \/ NotReviewable \/ RefuseMerge \/ Repair
  BY <1>2, <1>3, <1>4 DEF SelectAuthor, EnterReview, AskForRework, EnterFinals, EnterValidation,
     NotReviewable, RefuseMerge, Quarantine, Repair
<1>5. CASE ReturnToAuthor
  <2>1. CASE run.merged = 0
    BY <1>2, <1>3, <1>5, <2>1 DEF ReturnToAuthor
  <2>2. CASE run.merged # 0
    <3> DEFINE r1 == [run EXCEPT !.status = "implementing"]
               r2 == [r1 EXCEPT !.head = 0]
               r3 == [r2 EXCEPT !.merged = 0]
    <3>1. run' = [r3 EXCEPT !.notice = FALSE]
      BY <1>5, <2>2 DEF ReturnToAuthor
    <3>2. r1.status = "implementing" /\ r2.status = "implementing"
          /\ r3.status = "implementing" /\ r3.merged = 0
      BY <1>3
    <3>3. run'.status = "implementing" /\ run'.merged = 0
      <4>1. r3 \in [status : Statuses, author : Providers \cup {"none"}, head : Head0,
                    merged : Head0, notice : BOOLEAN]
        BY <1>3 DEF Statuses, Head0
      <4> HIDE DEF r3
      <4> QED
        BY <3>1, <3>2, <4>1
    <3> QED
      BY <1>2, <3>3
  <2> QED
    BY <2>1, <2>2
<1>6. CASE RotateAuthor \/ PostNotice
  <2>1. run'.status = run.status /\ run'.head = run.head /\ run'.merged = run.merged
    BY <1>3, <1>6 DEF RotateAuthor, PostNotice
  <2> QED
    BY <1>0, <2>1, RowKeeps
<1>7. CASE BindPr
  <2>1. run'.status = "pr_bound" /\ run'.merged = run.merged
    BY <1>3, <1>7 DEF BindPr, MoveTo
  <2> QED
    BY <1>2, <2>1
<1>8. CASE AdoptHead
  <2>1. /\ run'.merged = run.merged /\ run'.status # "merging"
        /\ run'.status = "validated" => run.status = "validated"
    BY <1>3, <1>8 DEF AdoptHead, MoveTo
  <2> QED
    BY <1>0, <2>1, RowKeeps
<1>9. CASE EnterMerge
  <2>1. CASE ~MergeGate
    BY <1>1, <1>9, <2>1 DEF EnterMerge
  <2>2. CASE MergeGate
    <3>1. /\ run'.status = "merging" /\ run'.head = run.head /\ run'.merged = run.merged
          /\ votes' = votes
      BY <1>3, <1>9, <2>2 DEF EnterMerge
    <3>2. Earned(votes, run.head)
      BY <1>9, <2>2, GateIsEarned DEF EnterMerge, IInv
    <3> QED
      BY <1>0, <3>1, <3>2, MergeReads, ValidationReads
  <2> QED
    BY <2>1, <2>2
<1>10. CASE AdoptMerge
  <2>1. /\ run'.merged = run.head /\ run'.head = run.head /\ run'.status = "merging"
        /\ run.status = "merging" /\ votes' = votes
    BY <1>3, <1>10 DEF AdoptMerge, Merging
  <2> QED
    BY <1>0, <2>1, MergeReads, ValidationReads
<1>11. CASE Validated
  <2>1. CASE ~ValidationGate
    BY <1>1, <1>11, <2>1 DEF Validated
  <2>2. CASE ValidationGate
    <3>1. /\ run'.status = "validated" /\ run'.merged = run.merged /\ votes' = votes
          /\ greens' = greens
      BY <1>3, <1>11, <2>2 DEF Validated
    <3>2. run.merged \in Heads
      BY <1>3, <1>11 DEF Validated, IInv, Agents, Between, Known, Head0
    <3>3. Voted("validation", run.merged, "passed") # {} /\ run.merged \in greens
      BY <2>2, <3>2 DEF ValidationGate, IInv, Books
    <3>4. Voices(votes, "validation", run.merged, "passed") # {}
      BY <3>3 DEF Voted, Voices
    <3> QED
      BY <1>0, <3>1, <3>3, <3>4, MergeReads, ValidationReads
  <2> QED
    BY <2>1, <2>2
<1>12. CASE \/ BeginAuthor \/ ReadPr \/ HeadMoved \/ SweepHead \/ MergeEvidence \/ Commission
            \/ Attest \/ RecordVote \/ CompleteVote \/ ReadMergedCi \/ BeginValidation
            \/ WorkOnValidation \/ SettleValidation \/ KeepGateFresh
  BY <1>1, <1>12 DEF BeginAuthor, Begin, ReadPr, HeadMoved, SweepHead, Supersede, MergeEvidence,
     Commission, Attest, RecordVote, CompleteVote, ReadMergedCi, BeginValidation,
     WorkOnValidation, SettleValidation, KeepGateFresh
<1>13. CASE \/ Attempts \/ Answers \/ Push \/ CiDecides \/ CiReruns \/ OwnerMerges \/ OwnerCloses
            \/ WindowEnds \/ ProofAges \/ CapacityFills \/ ProvidersRecover \/ Crash
  BY <1>1, <1>13 DEF Attempts, Prompts, Prompt, GivesUp, Answers, AuthorAnswers, JudgeAnswers,
     Push, CiDecides, CiReruns, OwnerMerges, OwnerCloses, WindowEnds, ProofAges, CapacityFills,
     ProvidersRecover, Crash
<1>14. CASE UNCHANGED vars
  BY <1>1, <1>14 DEF vars
<1> QED
  BY <1>4, <1>5, <1>6, <1>7, <1>8, <1>9, <1>10, <1>11, <1>12, <1>13, <1>14 DEF Next, Controller

LEMMA Begun == Init => IInv
<1> SUFFICES ASSUME Init PROVE IInv
  OBVIOUS
<1>1. Shape
  <2>1. /\ NoRows \in Rows /\ NoCtl \in [pc : Places, head : Head0, verdict : Verdicts]
    BY DEF NoRows, Rows, NoCtl, Places, Head0, Verdicts
  <2> QED
    <3>1. {"pushes", "foreign", "rejects", "reruns", "trouble", "ages"} # {} /\ MaxPushes \in Nat
      BY StagesBounds
    <3>2. run \in [status : Statuses, author : Providers \cup {"none"}, head : Head0,
                   merged : Head0, notice : BOOLEAN]
      BY DEF Init, Statuses, Head0
    <3>3. host \in [state : {"none", "open", "merged", "closed"}, head : Head0, ci : CiStates]
      BY DEF Init, Head0, CiStates
    <3>4. /\ count \in [{"pushes", "foreign", "rejects", "reruns", "trouble", "ages"} -> Nat]
          /\ count.pushes <= MaxPushes
      BY <3>1 DEF Init
    <3>5. /\ checks \in [{"head", "merged"} -> [Heads -> Rows]]
          /\ review \in [Heads -> {"none", "yes", "no"}]
          /\ proof \in [Heads -> {"none", "yes", "no", "old"}]
      BY <2>1 DEF Init
    <3> QED
      BY <2>1, <3>2, <3>3, <3>4, <3>5 DEF Init, Shape
<1>2. Known
  BY DEF Init, Known, NoCtl
<1>3. Agents
  <2>1. AtWork = {} /\ work = {}
    BY DEF Init, AtWork
  <2>2. OneAgentAtWork /\ Ours /\ Current
    BY <2>1 DEF OneAgentAtWork, Ours, Current
  <2>3. Between
    BY DEF Init, Between, NoCtl
  <2> QED
    BY <2>2, <2>3 DEF Agents
<1>4. Books
  <2>1. AtWork = {} /\ finals = {}
    BY DEF Init, AtWork
  <2>2. \A h \in Heads : /\ review[h] = "none" /\ proof[h] = "none"
                         /\ checks["merged"][h].newest = "none"
    BY DEF Init, NoRows
  <2> QED
    BY <2>1, <2>2 DEF Books
<1>5. MergeIsEarned /\ ValidationIsEarned
  BY DEF Init, MergeIsEarned, ValidationIsEarned
<1> QED
  BY <1>1, <1>2, <1>3, <1>4, <1>5 DEF IInv

LEMMA Inductive == Spec => []IInv
<1>1. IInv /\ [Next]_vars => IInv'
  <2> SUFFICES ASSUME IInv, [Next]_vars PROVE IInv'
    OBVIOUS
  <2>1. Shape' /\ Known'
    BY ShapeStep DEF IInv, Agents
  <2>2. Agents'
    BY AgentsStep DEF IInv
  <2>3. Books'
    BY BooksStep DEF IInv
  <2>4. MergeIsEarned' /\ ValidationIsEarned'
    BY <2>1, EarnedStep
  <2> QED
    BY <2>1, <2>2, <2>3, <2>4 DEF IInv
<1> QED
  BY Begun, <1>1, PTL DEF Spec

-----------------------------------------------------------------------------
(* Theorems                                                                 *)

\* The row, the attempts and the evidence of a run (controller.ts advanceRun and
\* the store's gates) keep their types.
THEOREM TypeCorrect == Spec => []TypeOK
<1>1. IInv => TypeOK
  BY DEF IInv, Shape, TypeOK, Statuses, Head0, Attempt
<1> QED
  BY Inductive, <1>1, PTL

\* The controller commissions one agent at a time: an attempt is begun only when
\* the one before has been completed, failed or superseded, however the heads
\* move, the providers fail and the worker dies between its writes.
THEOREM OneAtATime == Spec => []OneAgentAtWork
<1>1. IInv => OneAgentAtWork
  BY DEF IInv, Agents
<1> QED
  BY Inductive, <1>1, PTL

\* A head that reaches the merge, and the commit of a merge that is adopted, had
\* a reviewer other than its author and two final reviewers approve that very
\* head (enforceReviewGate, enforceMergeGate).
THEOREM MergesAreApproved == Spec => []MergeIsEarned
<1>1. IInv => MergeIsEarned
  BY DEF IInv
<1> QED
  BY Inductive, <1>1, PTL

\* A validated run has a proof of its merged commit by somebody other than the
\* author, and that commit's own checks were read as green (enforceValidationGate).
THEOREM ValidationsAreProved == Spec => []ValidationIsEarned
<1>1. IInv => ValidationIsEarned
  BY DEF IInv
<1> QED
  BY Inductive, <1>1, PTL
=============================================================================
