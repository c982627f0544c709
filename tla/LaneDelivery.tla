---------------------------- MODULE LaneDelivery ----------------------------
(***************************************************************************)
(* The legacy lanes scheduler delivers one lane's pull request              *)
(* (src/lanes/pipeline.ts, called by src/lanes/scheduler.ts): review,       *)
(* feedback to the author, two final reviews, the owner's merge, validation *)
(* and the archiving of finished workspaces.  A tick is a sequence of calls *)
(* to Conductor, GitHub and SQLite; the agents, the owner and GitHub go on  *)
(* between any two of them, and the process may die there.                  *)
(*                                                                          *)
(* A lane with every stage, the review when HasReview.  Its author has      *)
(* opened the pull request.  Merge agents are only retired by this release  *)
(* (retireLegacyMergeSessions), so that state.merge is never set.  A head   *)
(* is a number, and the merge commit has the number of the merged head.     *)
(***************************************************************************)
EXTENDS Naturals, Sequences, FiniteSets

CONSTANTS
    Rotation,     \* the providers of a stage, in order
    Author,       \* the author's provider
    HasReview,    \* the lane's delivery has a review stage
    MaxPushes,    \* heads that exist
    MaxChanges,   \* reviews that ask for changes
    MaxSessions,  \* sessions commissioned by the pipeline
    MaxTrouble    \* failed calls, deaths, agents idle too early, outages, conflicts

\* What an instance assumes of its constants.
DeliveryBounds ==
    /\ Rotation \in Seq(STRING) /\ HasReview \in BOOLEAN
    /\ MaxPushes \in Nat \ {0} /\ {MaxChanges, MaxSessions, MaxTrouble} \subseteq Nat

VARIABLES
    state,    \* lane_delivery_state in SQLite
    spaces,   \* workspaces by role token: state and provider in the name
    desk,     \* commissioned sessions
    posts,    \* reviews on GitHub
    author,   \* the author's session
    host,     \* GitHub: the pull request
    out,      \* providers with an outage
    tick,     \* where the tick is, and what it has read
    count

vars == <<state, spaces, desk, posts, author, host, out, tick, count>>

Heads == 1..MaxPushes
NoRun == [prov |-> "none", nonce |-> 0, head |-> 0, verdict |-> "none"]
Idle == [pc |-> "idle", live |-> {}, gone |-> {}, prov |-> "none", id |-> "none"]
Slots == {1, 2}
Tokens == {<<"review", 0, 0>>, <<"validation", 0, 0>>}
             \cup {<<"final", r, s>> : r \in 1..(MaxPushes + MaxSessions), s \in Slots}
FirstStage == IF HasReview THEN "review" ELSE "finals"
Trouble == count.trouble < MaxTrouble /\ count' = [count EXCEPT !.trouble = @ + 1]

Init ==
    /\ state = [stage |-> FirstStage, round |-> 1, head |-> 1, review |-> NoRun,
                finals |-> <<>>, proof |-> NoRun, feedback |-> "none", merged |-> 0]
    /\ spaces = [t \in Tokens |-> [st |-> "none", prov |-> "none"]] /\ desk = {} /\ posts = {}
    /\ author = [st |-> "idle", new |-> FALSE, told |-> {}]
    /\ host = [state |-> "open", head |-> 1, conflict |-> FALSE, green |-> FALSE]
    /\ out = {} /\ tick = Idle
    /\ count = [k \in {"pushes", "changes", "sessions", "trouble"} |-> IF k = "pushes" THEN 1 ELSE 0]

-----------------------------------------------------------------------------
(* The tick                                                                 *)

At(pc) == tick.pc = pc
Goto(pc) == tick' = [tick EXCEPT !.pc = pc]

\* runLanesTick: the index of the workspaces, archived ones included.
TickBegins ==
    /\ At("idle")
    /\ tick' = [Idle EXCEPT !.pc = "check", !.live = {t \in Tokens : spaces[t].st = "live"},
                            !.gone = {t \in Tokens : spaces[t].st = "archived"}]
    /\ UNCHANGED <<state, spaces, desk, posts, author, host, out, count>>

\* Mutant: the approvals of the head that was left still count.
StartOverKeeping == state' = [state EXCEPT !.head = host.head, !.feedback = "none"]

\* A new head starts over with the lane's first stage.
StartOver == state' = [state EXCEPT !.head = host.head, !.round = @ + 1, !.review = NoRun,
                                    !.finals = <<>>, !.feedback = "none", !.stage = FirstStage]

HeadChanged ==
    /\ At("check") /\ state.merged = 0 /\ host.head # state.head
    /\ StartOver /\ Goto("hygiene")
    /\ UNCHANGED <<spaces, desk, posts, author, host, out, count>>
\* Mutant: the next round starts with the verdicts of the last one.
NextRoundKeeping == [state EXCEPT !.stage = "finals", !.feedback = "none", !.round = @ + 1]

\* The author's turn after feedback: finals, in a round of their own.
NextRound == [state EXCEPT !.stage = "finals", !.feedback = "none", !.round = @ + 1,
                           !.finals = <<>>]

HeadSteady ==
    /\ At("check") /\ (state.merged # 0 \/ host.head = state.head) /\ Goto("advance")
    /\ state' = IF state.feedback = "sent" /\ author.new
                THEN IF state.stage = "review_fixes"
                     THEN [state EXCEPT !.stage = "finals", !.feedback = "none"]
                     ELSE NextRound
                ELSE state
    /\ UNCHANGED <<spaces, desk, posts, author, host, out, count>>

-----------------------------------------------------------------------------
(* A run of a stage: its workspace, session and prompt                      *)

Final(s) == state.finals[s]
Providers(runs) == {runs[i].prov : i \in DOMAIN runs}
Working == {s.prov : s \in {d \in desk : d.st = "working"}}
              \cup (IF author.st = "working" THEN {Author} ELSE {})

\* The token of the run that the stage lacks, if it lacks one.
Lacking ==
    CASE state.stage = "review" /\ state.review = NoRun -> {<<"review", 0, 0>>}
      [] state.stage = "finals" /\ Len(state.finals) < 2
         /\ \A i \in DOMAIN state.finals : Final(i).verdict = "approve"
         -> {<<"final", state.round, Len(state.finals) + 1>>}
      [] state.stage = "validation" /\ state.proof = NoRun -> {<<"validation", 0, 0>>}
      [] OTHER -> {}
\* Mutant: the second final reviewer may be the first.
ExcludedAuthor == {Author}

Excluded ==
    {Author} \cup (IF state.stage = "finals" THEN Providers(state.finals)
                   ELSE IF state.stage = "validation" THEN {Final(Len(state.finals)).prov} ELSE {})

\* selectRotatedProvider
Free == {i \in 1..Len(Rotation) : Rotation[i] \notin Excluded \cup Working \cup out}
Selected == Rotation[CHOOSE i \in Free : \A j \in Free : i <= j]

\* ensureRun: a workspace that was archived is never opened again; in one that is
\* there, the provider of its name stands in when no other is free.
OpenWorkspace ==
    /\ At("advance") /\ count.sessions < MaxSessions
    /\ \E t \in {l \in Lacking \ tick.gone : Free # {} \/ l \in tick.live} :
          /\ spaces' = IF t \in tick.live THEN spaces
                       ELSE [spaces EXCEPT ![t] = [st |-> "live", prov |-> Selected]]
          /\ tick' = [tick EXCEPT !.pc = "prompt", !.id = t,
                          !.prov = IF Free # {} THEN Selected ELSE spaces[t].prov]
    /\ UNCHANGED <<state, desk, posts, author, host, out, count>>
NoRunNow ==
    /\ At("advance") /\ Lacking # {} /\ (Lacking \subseteq tick.gone \/ (Free = {} /\ Lacking \cap tick.live = {}))
    /\ Goto("hygiene")
    /\ UNCHANGED <<state, spaces, desk, posts, author, host, out, count>>

Nonce == count.sessions
PromptRun ==
    /\ At("prompt") /\ Goto("save")
    /\ count' = [count EXCEPT !.sessions = @ + 1]
    /\ desk' = desk \cup {[space |-> tick.id, prov |-> tick.prov, nonce |-> count.sessions + 1,
                           head |-> IF tick.id[1] = "validation" THEN state.merged ELSE state.head,
                           st |-> "working", says |-> "none"]}
    /\ UNCHANGED <<state, spaces, posts, author, host, out>>
SaveRun ==
    /\ At("save") /\ Goto("hygiene")
    /\ LET s == CHOOSE d \in desk : d.nonce = Nonce
           run == [prov |-> s.prov, nonce |-> s.nonce, head |-> s.head, verdict |-> "none"]
       IN  state' = CASE tick.id[1] = "review" -> [state EXCEPT !.review = run]
                      [] tick.id[1] = "final" -> [state EXCEPT !.finals = Append(@, run)]
                      [] OTHER -> [state EXCEPT !.proof = run]
    /\ UNCHANGED <<spaces, desk, posts, author, host, out, count>>

-----------------------------------------------------------------------------
(* What a run has answered                                                  *)

\* The commissioned run that the stage waits for.
Pending ==
    CASE state.stage = "review" /\ state.review # NoRun -> {state.review}
      [] state.stage = "finals" -> {r \in {Final(i) : i \in DOMAIN state.finals} : r.verdict = "none"}
      [] state.stage = "validation" /\ state.proof # NoRun -> {state.proof}
      [] OTHER -> {}
Session(run) == CHOOSE d \in desk : d.nonce = run.nonce
\* commissionedGithubAttestation: the first of this nonce on this very head.
Attested(run) == {p \in posts : p.nonce = run.nonce /\ p.head = run.head /\ p.on = state.head
                                /\ host.head = state.head}
\* A transcript's marker is accepted with its receipt, and with green CI if it passed.
Proved(run) == Session(run).says = "failed" \/ (Session(run).says = "passed" /\ host.green)

Unanswered(run) ==
    /\ Session(run).st # "working"
    /\ IF state.stage = "validation" THEN Session(run).says = "none" ELSE Attested(run) = {}
\* keepRunAlive: a nudge, or a new session that goes on in the same workspace.
KeepAlive ==
    /\ At("advance") /\ Goto("hygiene")
    /\ \E run \in Pending :
          desk' = IF Unanswered(run)
                  THEN (desk \ {Session(run)}) \cup {[Session(run) EXCEPT !.st = "working"]}
                  ELSE desk
    /\ \A run \in Pending : Session(run).st # "working" =>
          IF state.stage = "validation" THEN ~Proved(run) ELSE Attested(run) = {}
    /\ UNCHANGED <<state, spaces, posts, author, host, out, count>>

Judged(run) == run \in Pending /\ Session(run).st # "working" /\ Attested(run) # {}
Verdict(run) == (CHOOSE p \in Attested(run) : TRUE).verdict
\* The verdict and the message's id are saved, then the author is told.
TakeReview ==
    /\ At("advance") /\ state.stage = "review" /\ Judged(state.review) /\ Goto("tell")
    /\ state' = [state EXCEPT !.review.verdict = Verdict(state.review), !.feedback = "saved"]
    /\ UNCHANGED <<spaces, desk, posts, author, host, out, count>>
TakeFinal ==
    /\ At("advance") /\ state.stage = "finals"
    /\ \E i \in DOMAIN state.finals :
          /\ Judged(Final(i))
          /\ LET v == Verdict(Final(i))
                 s == [state EXCEPT !.finals[i].verdict = v]
             IN  IF v = "changes"
                 THEN state' = [s EXCEPT !.feedback = "saved"] /\ Goto("tell")
                 ELSE /\ Goto("hygiene")
                      /\ state' = IF i = 2 THEN [s EXCEPT !.stage = "merge"] ELSE s
    /\ UNCHANGED <<spaces, desk, posts, author, host, out, count>>

\* messageAuthor, under the saved id, which Conductor takes once.
TellAuthor ==
    /\ At("tell") /\ Goto("told")
    /\ LET id == <<state.round, state.stage>> IN
          author' = IF id \in author.told THEN author
                    ELSE [st |-> "working", new |-> FALSE, told |-> author.told \cup {id}]
    /\ UNCHANGED <<state, spaces, desk, posts, host, out, count>>
SaveTold ==
    /\ At("told") /\ Goto("hygiene")
    /\ state' = [state EXCEPT !.feedback = "sent",
                     !.stage = IF @ = "review" THEN "review_fixes" ELSE "final_fixes"]
    /\ UNCHANGED <<spaces, desk, posts, author, host, out, count>>

-----------------------------------------------------------------------------
(* Merge, validation and hygiene                                            *)

Approved == {r \in {Final(i) : i \in DOMAIN state.finals} : r.verdict = "approve"}
AtMerge == At("advance") /\ state.stage = "merge" /\ Cardinality(Approved) = 2
\* prBindingMatches, and the merge that GitHub reports is adopted.
RecordMerge ==
    /\ AtMerge /\ host.state = "merged" /\ host.head = state.head /\ Goto("hygiene")
    /\ state' = [state EXCEPT !.merged = host.head, !.stage = "validation"]
    /\ UNCHANGED <<spaces, desk, posts, author, host, out, count>>
MergeConflict ==
    /\ AtMerge /\ host.state = "open" /\ host.head = state.head /\ host.conflict /\ Goto("tell")
    /\ state' = [state EXCEPT !.feedback = "saved"]
    /\ UNCHANGED <<spaces, desk, posts, author, host, out, count>>
TakeProof ==
    /\ At("advance") /\ state.stage = "validation" /\ state.proof # NoRun /\ Goto("hygiene")
    /\ Session(state.proof).st # "working" /\ Proved(state.proof)
    /\ state' = [state EXCEPT !.proof.verdict = Session(state.proof).says,
          !.stage = IF Session(state.proof).says = "passed" THEN "complete" ELSE "validation_failed"]
    /\ UNCHANGED <<spaces, desk, posts, author, host, out, count>>
\* Nothing to do at this stage.
Waits ==
    /\ At("advance") /\ Goto("hygiene")
    /\ \/ state.stage \in {"review_fixes", "final_fixes", "complete", "validation_failed"}
       \/ state.stage = "merge" /\ host.state = "open" /\ ~host.conflict
       \/ state.stage = "merge" /\ host.head # state.head
       \/ state.stage = "finals" /\ Lacking = {} /\ Pending = {}
    /\ UNCHANGED <<state, spaces, desk, posts, author, host, out, count>>

\* Mutant: a final review's workspace is finished in its own round.
FinishedThisRound(t) ==
    IF state.merged # 0 THEN TRUE
    ELSE CASE t[1] = "review" -> state.stage # "review"
           [] t[1] = "final" -> t[2] <= state.round
           [] OTHER -> FALSE

\* shouldArchiveWorkspace
Finished(t) ==
    IF state.merged # 0
    THEN t[1] = "validation" => state.stage \in {"complete", "validation_failed"}
    ELSE CASE t[1] = "review" -> state.stage # "review"
           [] t[1] = "final" -> \/ t[2] < state.round
                                \/ t[3] \in DOMAIN state.finals /\ Final(t[3]).verdict # "none"
           [] OTHER -> FALSE


\* runLaneHygiene leaves a workspace whose newest session works.
Hygiene ==
    /\ At("hygiene") /\ tick' = Idle
    /\ spaces' = [t \in Tokens |->
          IF t \in tick.live /\ Finished(t) /\ ~\E d \in desk : d.space = t /\ d.st = "working"
          THEN [spaces[t] EXCEPT !.st = "archived"] ELSE spaces[t]]
    /\ UNCHANGED <<state, desk, posts, author, host, out, count>>
HygieneFails ==
    /\ At("hygiene") /\ Trouble /\ tick' = Idle
    /\ UNCHANGED <<state, spaces, desk, posts, author, host, out>>

\* A call fails and ends the pipeline, or the process dies.
CallFails ==
    /\ ~At("idle") /\ ~At("hygiene") /\ Trouble /\ tick' \in {Idle, [tick EXCEPT !.pc = "hygiene"]}
    /\ UNCHANGED <<state, spaces, desk, posts, author, host, out>>

-----------------------------------------------------------------------------
(* Agents, the owner, GitHub                                                *)

\* A reviewer posts its review on the branch's current head.
ReviewerPosts ==
    /\ \E d \in desk : \E v \in {"approve", "changes"} :
          /\ d.st = "working" /\ d.space[1] # "validation"
          /\ posts' = posts \cup {[nonce |-> d.nonce, head |-> d.head, on |-> host.head,
                                   stage |-> d.space[1], prov |-> d.prov, verdict |-> v]}
          /\ desk' = (desk \ {d}) \cup {[d EXCEPT !.st = "idle"]}
          /\ IF v = "approve" THEN UNCHANGED count
             ELSE count.changes < MaxChanges /\ count' = [count EXCEPT !.changes = @ + 1]
    /\ UNCHANGED <<state, spaces, author, host, out, tick>>
ValidatorReports ==
    /\ \E d \in desk :
          /\ d.st = "working" /\ d.space[1] = "validation"
          /\ \E v \in {"passed", "failed"} :
                desk' = (desk \ {d}) \cup {[d EXCEPT !.st = "idle", !.says = v]}
    /\ UNCHANGED <<state, spaces, posts, author, host, out, tick, count>>
AgentStops ==
    /\ Trouble /\ \E d \in desk : d.st = "working"
                                  /\ desk' = (desk \ {d}) \cup {[d EXCEPT !.st = "idle"]}
    /\ UNCHANGED <<state, spaces, posts, author, host, out, tick>>
\* The author, or somebody else, pushes to the branch.
Pushes ==
    /\ host.state = "open" /\ count.pushes < MaxPushes
    /\ count' = [count EXCEPT !.pushes = @ + 1]
    /\ host' = [host EXCEPT !.head = count.pushes + 1, !.conflict = FALSE]
    /\ UNCHANGED <<state, spaces, desk, posts, author, out, tick>>
AuthorEnds ==
    /\ author.st = "working" /\ author' = [author EXCEPT !.st = "idle", !.new = TRUE]
    /\ UNCHANGED <<state, spaces, desk, posts, host, out, tick, count>>
OwnerMerges ==
    /\ host.state = "open" /\ ~host.conflict /\ host' = [host EXCEPT !.state = "merged"]
    /\ UNCHANGED <<state, spaces, desk, posts, author, out, tick, count>>
OwnerConfirms == state.stage = "merge" /\ OwnerMerges
Conflicts ==
    /\ host.state = "open" /\ ~host.conflict /\ Trouble /\ host' = [host EXCEPT !.conflict = TRUE]
    /\ UNCHANGED <<state, spaces, desk, posts, author, out, tick>>
MergedCiPasses ==
    /\ host.state = "merged" /\ ~host.green /\ host' = [host EXCEPT !.green = TRUE]
    /\ UNCHANGED <<state, spaces, desk, posts, author, out, tick, count>>
Outage ==
    /\ Trouble /\ \E i \in 1..Len(Rotation) : out' = out \cup {Rotation[i]}
    /\ UNCHANGED <<state, spaces, desk, posts, author, host, tick>>
OutageEnds ==
    /\ out # {} /\ out' = {}
    /\ UNCHANGED <<state, spaces, desk, posts, author, host, tick, count>>

Tick ==
    \/ TickBegins \/ HeadChanged \/ HeadSteady \/ OpenWorkspace \/ NoRunNow \/ PromptRun
    \/ SaveRun \/ KeepAlive \/ TakeReview \/ TakeFinal \/ TellAuthor \/ SaveTold
    \/ RecordMerge \/ MergeConflict \/ TakeProof \/ Waits \/ Hygiene
Next ==
    \/ Tick \/ HygieneFails \/ CallFails \/ ReviewerPosts \/ ValidatorReports \/ AgentStops
    \/ Pushes \/ AuthorEnds \/ OwnerMerges \/ Conflicts \/ MergedCiPasses
    \/ Outage \/ OutageEnds

Spec == Init /\ [][Next]_vars
\* supervisedInterval; agents answer, the owner merges what is ready, CI ends.
Fairness ==
    /\ WF_vars(Tick) /\ WF_vars(ReviewerPosts) /\ WF_vars(ValidatorReports)
    /\ WF_vars(AuthorEnds) /\ WF_vars(OwnerConfirms)
    /\ WF_vars(MergedCiPasses) /\ WF_vars(OutageEnds)
FairSpec == Spec /\ Fairness

-----------------------------------------------------------------------------
(* Properties                                                               *)

Runs == {state.review, state.proof} \cup {Final(i) : i \in DOMAIN state.finals}
TypeOK ==
    /\ state.stage \in {"review", "review_fixes", "finals", "final_fixes", "merge",
                        "validation", "complete", "validation_failed"}
    /\ state.head \in Heads /\ state.merged \in {0} \cup Heads /\ Len(state.finals) <= 2
    /\ \A r \in Runs \ {NoRun} : \E d \in desk : d.nonce = r.nonce /\ d.prov = r.prov
    /\ \A t \in Tokens : spaces[t].st \in {"none", "live", "archived"}

\* A merge is adopted only when two providers, neither the author's, approved that
\* very head, whatever was pushed, lost or said again in between.
MergeHasTwoFinals ==
    state.merged # 0 =>
        Cardinality({p.prov : p \in {q \in posts : /\ q.stage = "final" /\ q.on = state.merged
                                                   /\ q.verdict = "approve"}} \ {Author}) >= 2

\* The workspace of a run whose answer is awaited is never archived.
AwaitedStays ==
    /\ Pending # {} /\ state.stage = "review" => spaces[<<"review", 0, 0>>].st # "archived"
    /\ \A i \in DOMAIN state.finals :
          state.stage = "finals" /\ Final(i).verdict = "none" =>
              spaces[<<"final", state.round, i>>].st # "archived"
    /\ Pending # {} /\ state.stage = "validation" => spaces[<<"validation", 0, 0>>].st # "archived"

\* A lane whose pull request is left alone gets to its end.
Ended == state.stage \in {"complete", "validation_failed"}
MergedByHand == host.state = "merged" /\ state.merged = 0
DeliveryEnds == <>Ended \/ <>[]MergedByHand
\* A pushed turn starts a fresh round.
FreshRound == state.stage = "review" /\ state.review = NoRun /\ host.state = "open"
                 ~> state.review # NoRun \/ host.state = "merged"
\* The author hears of a final review that asks for changes, or the head moves, or
\* somebody merges.
ChangeAsked == state.stage = "finals" /\ \E i \in DOMAIN state.finals : Final(i).verdict = "changes"
ChangesReachAuthor == ChangeAsked ~> ~ChangeAsked \/ host.state = "merged"
=============================================================================
