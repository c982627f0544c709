---------------------------- MODULE LaneDispatch ----------------------------
(***************************************************************************)
(* The legacy lanes scheduler gives its lanes to providers                  *)
(* (src/lanes/scheduler.ts runLanesTick and executeLaneAction, with         *)
(* src/lanes/decide.ts decideLaneActions).  A tick lists the workspaces,    *)
(* reads every lane, then decides and executes one action after another.    *)
(* Conductor, the owner's commands and deaths of the process come between   *)
(* any two calls.                                                           *)
(*                                                                          *)
(* Lanes without a workspaceId or sessionId of their own in the config.     *)
(* The age of the last message is a flag (rested): gapHours have passed.    *)
(***************************************************************************)
EXTENDS Naturals, Sequences, FiniteSets

CONSTANTS
    Lanes,       \* lane ids, in the config's order
    Providers,   \* provider names, in the config's order
    Wants,       \* lane -> its provider, or "any"
    After,       \* lane -> lanes that must be done before
    MaxActive,   \* lanes that may work at once, for every provider
    MaxNudges,   \* nudges, or failed first prompts, before a lane is left alone
    MaxTrouble   \* failed calls, deaths of the process and agents that stop without a PR

\* What an instance assumes of its constants.
DispatchBounds ==
    /\ Lanes \in Seq(STRING) /\ Providers \in Seq(STRING)
    /\ {MaxActive, MaxNudges, MaxTrouble} \subseteq Nat

VARIABLES
    space,    \* Conductor: per lane, its workspace and newest session
    ledger,   \* lane_actions and lane_sessions in SQLite: last action, failures, nudges
    paused,   \* the flag behind /lanes pause and /lanes resume
    tick,     \* tickInFlight, and what the tick has read and done
    made,     \* history: workspaces created for a lane
    asked,    \* history: first prompts that a lane's agent was given
    trouble

vars == <<space, ledger, paused, tick, made, asked, trouble>>

Ids == {Lanes[i] : i \in 1..Len(Lanes)}
Names == {Providers[i] : i \in 1..Len(Providers)}
NoAct == [type |-> "none", lane |-> "none", prov |-> "none"]
Idle == [pc |-> "idle", listed |-> {}, snap |-> [l \in Ids |-> "unread"], prov |-> [l \in Ids |-> "none"],
         failed |-> {}, used |-> {}, act |-> NoAct]
Trouble == trouble < MaxTrouble /\ trouble' = trouble + 1
Quiet == UNCHANGED trouble

Init ==
    /\ space = [l \in Ids |-> [prov |-> "none", st |-> "none", heard |-> FALSE, rested |-> FALSE]]
    /\ ledger = [l \in Ids |-> [last |-> "none", nudges |-> 0, failures |-> 0]]
    /\ paused = FALSE /\ tick = Idle
    /\ made = [l \in Ids |-> 0] /\ asked = [l \in Ids |-> 0] /\ trouble = 0

-----------------------------------------------------------------------------
(* Reading                                                                  *)

At(pc) == tick.pc = pc
\* loadWorkspaceIndex: absence is proved, or there is no tick.
TickBegins ==
    /\ At("idle") /\ ~paused /\ Quiet
    /\ tick' = [Idle EXCEPT !.pc = "read", !.listed = {l \in Ids : space[l].st # "none"}]
    /\ UNCHANGED <<space, ledger, paused, made, asked>>

\* deriveLaneRuntimeState, for a session that answers.
Seen(l) ==
    IF l \notin tick.listed THEN "not_created"
    ELSE IF space[l].st = "working" THEN "working"
    ELSE IF ~space[l].heard THEN "initializing"
    ELSE IF space[l].st = "done" THEN "done" ELSE "paused"
\* Mutant: a lane the listing missed, or that cannot be read, was never created.
SnapshotMissing(l, ok) == IF ok THEN Seen(l) ELSE "not_created"
\* snapshotLane: what cannot be read is unknown.
Snapshot(l, ok) == IF ok \/ l \notin tick.listed THEN Seen(l) ELSE "unknown"
ReadLane ==
    /\ At("read")
    /\ LET i == CHOOSE n \in 1..Len(Lanes) :
                   tick.snap[Lanes[n]] = "unread" /\ \A m \in 1..(n - 1) : tick.snap[Lanes[m]] # "unread"
           l == Lanes[i]
       IN  \E ok \in BOOLEAN :
              /\ IF ok THEN Quiet ELSE Trouble
              /\ tick' = [tick EXCEPT !.snap[l] = Snapshot(l, ok),
                    !.prov[l] = IF l \in tick.listed THEN space[l].prov
                                ELSE IF Wants[l] = "any" THEN "none" ELSE Wants[l],
                    !.pc = IF i = Len(Lanes) THEN "decide" ELSE "read"]
    /\ UNCHANGED <<space, ledger, paused, made, asked>>

-----------------------------------------------------------------------------
(* Deciding: decideLaneActions                                              *)

Assigned(l, p) == IF tick.prov[l] # "none" THEN tick.prov[l] = p ELSE Wants[l] \in {"any", p}
Busy(p) == {l \in Ids : tick.snap[l] \in {"working", "unknown"} /\ Assigned(l, p)}
Ready(l) == l \notin tick.failed /\ \A d \in After[l] : tick.snap[d] = "done"
Resting(p) == {l \in Ids : Ready(l) /\ tick.snap[l] = "paused" /\ Assigned(l, p) /\ space[l].rested}
Restarts(p) == {l \in Resting(p) : ledger[l].nudges >= 2}
Nudges(p) == {l \in Resting(p) : ledger[l].nudges < MaxNudges}
\* Mutant: only a failed repetition of the first prompt is repeated.
PromptsOnce(p) == {l \in Ids : /\ Ready(l) /\ tick.snap[l] = "initializing" /\ Assigned(l, p)
                               /\ ledger[l].last = "prompt_failed" /\ ledger[l].failures < MaxNudges}
Prompts(p) == {l \in Ids : /\ Ready(l) /\ tick.snap[l] = "initializing" /\ Assigned(l, p)
                           /\ ledger[l].last \in {"create_failed", "prompt_failed"}
                           /\ ledger[l].failures < MaxNudges}
Creates(p) == {l \in Ids : Ready(l) /\ tick.snap[l] = "not_created" /\ Wants[l] \in {"any", p}}

\* What provider p gets when the earlier ones have claimed their lanes: the first
\* kind of action for which there is a lane, on its first lane; at most one action.
Kinds == <<"restart", "nudge", "prompt", "create">>
Acts == [type : {Kinds[k] : k \in 1..4}, lane : Ids, prov : Names]
Candidates(k, p, claimed) ==
    (CASE k = 1 -> Restarts(p) [] k = 2 -> Nudges(p) [] k = 3 -> Prompts(p) [] k = 4 -> Creates(p))
    \ claimed
First(k, i, p, claimed) ==
    /\ Lanes[i] \in Candidates(k, p, claimed)
    /\ \A j \in 1..(k - 1) : Candidates(j, p, claimed) = {}
    /\ \A j \in 1..(i - 1) : Lanes[j] \notin Candidates(k, p, claimed)
Choice(p, claimed) ==
    IF Cardinality(Busy(p)) >= MaxActive THEN {}
    ELSE {[type |-> Kinds[x[1]], lane |-> Lanes[x[2]], prov |-> p] :
             x \in {y \in (1..4) \X (1..Len(Lanes)) : First(y[1], y[2], p, claimed)}}
Claimed[n \in 0..Len(Providers)] ==
    IF n = 0 THEN {} ELSE Claimed[n - 1] \cup {a.lane : a \in Choice(Providers[n], Claimed[n - 1])}
\* Of the plan, the first action whose provider has not had one in this tick.
Planned(n) == {a \in Choice(Providers[n], Claimed[n - 1]) : a.prov \notin tick.used}
Decide ==
    /\ At("decide") /\ Quiet
    /\ \/ (\A n \in 1..Len(Providers) : Planned(n) = {}) /\ tick' = Idle
       \/ \E n \in 1..Len(Providers) : \E a \in Planned(n) :
             /\ \A m \in 1..(n - 1) : Planned(m) = {}
             /\ tick' = [tick EXCEPT !.act = a, !.pc = a.type]
    /\ UNCHANGED <<space, ledger, paused, made, asked>>

-----------------------------------------------------------------------------
(* Executing: executeLaneAction                                             *)

L == tick.act.lane
Works == [space EXCEPT ![L] = [@ EXCEPT !.st = "working", !.heard = TRUE, !.rested = FALSE]]
Recorded(kind) == [ledger EXCEPT ![L].last = kind]
\* applyLocalSnapshotUpdate
Done(seen) == tick' = [tick EXCEPT !.pc = "decide", !.used = @ \cup {tick.act.prov}, !.act = NoAct,
                                   !.snap[L] = seen, !.prov[L] = tick.act.prov]
Failed == tick' = [tick EXCEPT !.pc = "decide", !.failed = @ \cup {L}, !.act = NoAct]

\* A nudge, or a new session in the same workspace after two without an answer;
\* when the restart fails, the session may exist without its message.
Wake ==
    /\ tick.pc \in {"nudge", "restart"}
    /\ \/ /\ space' = Works /\ Done("working") /\ Quiet
          /\ ledger' = [ledger EXCEPT ![L] = [@ EXCEPT !.last = tick.pc,
                           !.nudges = IF At("nudge") THEN ledger[L].nudges + 1 ELSE 0]]
       \/ /\ Trouble /\ Failed /\ ledger' = Recorded(IF At("nudge") THEN "nudge_failed" ELSE "restart_failed")
          /\ space' \in {space, Works} \cup
                (IF At("restart") THEN {[space EXCEPT ![L] = [@ EXCEPT !.st = "idle", !.heard = FALSE]]} ELSE {})
    /\ UNCHANGED <<paused, made, asked>>
\* The first prompt again, after it, or the creation, was recorded as failed.
PromptAgain ==
    /\ At("prompt")
    /\ \/ /\ space' = Works /\ asked' = [asked EXCEPT ![L] = @ + 1]
          /\ ledger' = Recorded("prompt") /\ Done("paused") /\ Quiet
       \/ /\ Trouble /\ Failed
          /\ ledger' = [ledger EXCEPT ![L] = [@ EXCEPT !.last = "prompt_failed", !.failures = ledger[L].failures + 1]]
          /\ \/ UNCHANGED <<space, asked>>
             \/ space' = Works /\ asked' = [asked EXCEPT ![L] = @ + 1]
    /\ UNCHANGED <<paused, made>>
\* createWorkspace: its answer may be lost after it took effect.
Create ==
    /\ At("create")
    /\ \/ /\ space' = [space EXCEPT ![L] = [@ EXCEPT !.prov = tick.act.prov, !.st = "idle"]]
          /\ made' = [made EXCEPT ![L] = @ + 1]
          /\ \/ tick' = [tick EXCEPT !.pc = "first"] /\ UNCHANGED ledger /\ Quiet
             \/ Trouble /\ Failed /\ ledger' = Recorded("create_failed")
       \/ Trouble /\ Failed /\ ledger' = Recorded("create_failed") /\ UNCHANGED <<space, made>>
    /\ UNCHANGED <<paused, asked>>
FirstPrompt ==
    /\ At("first")
    /\ \/ /\ space' = Works /\ asked' = [asked EXCEPT ![L] = @ + 1]
          /\ ledger' = Recorded("create") /\ Done("paused") /\ Quiet
       \/ /\ Trouble /\ Failed /\ ledger' = Recorded("create_failed")
          /\ \/ UNCHANGED <<space, asked>>
             \/ space' = Works /\ asked' = [asked EXCEPT ![L] = @ + 1]
    /\ UNCHANGED <<paused, made>>

-----------------------------------------------------------------------------
(* Conductor, the owner and the process                                     *)

\* A turn ends with the pull request, or without; an answer forgets the nudges.
TurnEnds ==
    /\ \E l \in Ids :
          /\ space[l].st = "working"
          /\ \/ /\ space' = [space EXCEPT ![l].st = "done"] /\ Quiet
                /\ ledger' = [ledger EXCEPT ![l].nudges = 0]
             \/ space' = [space EXCEPT ![l].st = "idle"] /\ Trouble /\ UNCHANGED ledger
    /\ UNCHANGED <<paused, tick, made, asked>>
GapElapses ==
    /\ \E l \in Ids : /\ space[l].heard /\ ~space[l].rested
                      /\ space' = [space EXCEPT ![l].rested = TRUE]
    /\ UNCHANGED <<ledger, paused, tick, made, asked, trouble>>
OwnerPauses ==
    /\ paused' = ~paused /\ UNCHANGED <<space, ledger, tick, made, asked, trouble>>
Crash ==
    /\ ~At("idle") /\ Trouble /\ tick' = Idle
    /\ UNCHANGED <<space, ledger, paused, made, asked>>

Tick == TickBegins \/ ReadLane \/ Decide \/ Wake \/ PromptAgain \/ Create \/ FirstPrompt
Next == Tick \/ TurnEnds \/ GapElapses \/ OwnerPauses \/ Crash
Spec == Init /\ [][Next]_vars

\* The interval comes round, and finds the scheduler resumed again and again;
\* a turn ends; time passes.
Fairness ==
    /\ SF_vars(TickBegins) /\ WF_vars(Tick) /\ WF_vars(TurnEnds) /\ WF_vars(GapElapses)
FairSpec == Spec /\ Fairness

-----------------------------------------------------------------------------
(* Properties                                                               *)

\* Every value stays in its set, and the bounds hold.
TypeOK ==
    /\ \A l \in Ids : space[l].st \in {"none", "idle", "working", "done"}
                      /\ space[l].prov \in Names \cup {"none"}
    /\ tick.failed \subseteq Ids /\ tick.used \subseteq Names /\ trouble <= MaxTrouble

\* A lane gets one workspace and is given its prompt once, whatever call failed,
\* whichever answer was lost and whenever the process died.
OneOfEach == \A l \in Ids : made[l] <= 1 /\ asked[l] <= 1
\* No provider has more lanes at work than it may.
WithinCapacity ==
    \A p \in Names : Cardinality({l \in Ids : space[l].st = "working" /\ space[l].prov = p}) <= MaxActive
Unprompted(l) == space[l].st = "idle" /\ ~space[l].heard
LeftAlone(l) == ledger[l].failures >= MaxNudges
\* A first prompt that was recorded as failed is sent until the agent has it, or
\* until it failed MaxNudges times, if the owner lets the scheduler run.
FirstFailed(l) == Unprompted(l) /\ ledger[l].last \in {"create_failed", "prompt_failed"}
Reached(l) == space[l].heard \/ LeftAlone(l)
Unpaused == ~paused
FailedPromptReturns == []<>Unpaused => \A l \in Ids : FirstFailed(l) ~> Reached(l)
\* No lane whose newest session was never given a message is skipped for ever.
NeverSkipped == []<>Unpaused => \A l \in Ids : Unprompted(l) ~> Reached(l)
=============================================================================
