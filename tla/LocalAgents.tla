------------------------------ MODULE LocalAgents ------------------------------
(***************************************************************************)
(* The agent processes of one local workspace (src/bot/launcher.ts): what   *)
(* the bot keeps of them in memory, one entry per workspace however many    *)
(* processes run, and the starts, exits, questions, answers and presses of  *)
(* Stop that read and write it.                                             *)
(*                                                                          *)
(* A prompt to a Claude thread first asks the CLI whether it is logged in;  *)
(* its start token is visible to Stop meanwhile, and is kept until the      *)
(* process has ended.  A prompt to a Codex thread and a read-only review    *)
(* spawn at once and have no token.                                         *)
(***************************************************************************)
EXTENDS Naturals, FiniteSets

CONSTANTS
    MaxAgents,   \* agents started in the workspace
    MaxStops,    \* presses of Stop
    MaxAsks      \* questions the agents ask

\* What an instance assumes of its constants.
AgentBounds == MaxAgents \in Nat /\ MaxStops \in Nat /\ MaxAsks \in Nat

Agents == 1..MaxAgents

VARIABLES
    main,      \* the CLI of the workspace's own thread
    agent,     \* each process: its CLI, where it is, its handle's `killed` flag
               \* and whether the five-second timer of a Stop is set
    entry,     \* runningAgents: the process the workspace's key holds, or 0
    starts,    \* pendingAgentStarts: the agents whose token is in the set
    canceled,  \* the tokens a Stop has canceled
    session,   \* sessions.status of the own thread and of the review thread
    row,       \* the workspaces row
    stdin,     \* pendingStdinDecisions: questions not yet answered
    asked,     \* history: questions asked
    heard,     \* history: <<process, question>>: answers written to its stdin
    count      \* presses of Stop

vars == <<main, agent, entry, starts, canceled, session, row, stdin, asked, heard, count>>

None == [cli |-> "none", pc |-> "new", killed |-> FALSE, timer |-> FALSE]
Thread(cli) == IF cli = "review" THEN "review" ELSE "own"
Alive == {a \in Agents : agent[a].pc \in {"running", "stopping"}}

Init ==
    /\ main \in {"claude", "codex"}
    /\ agent = [a \in Agents |-> None]
    /\ entry = 0 /\ starts = {} /\ canceled = {}
    /\ session = [t \in {"own", "review"} |-> "idle"] /\ row = "running"
    /\ stdin = {} /\ asked = {} /\ heard = {} /\ count = 0

-----------------------------------------------------------------------------
(* Starts: sendToSession, launchWorkspaceSession, spawnAgent                *)

\* The next agent; refused while a start token is in the set.
MayStart(a) ==
    /\ agent[a].pc = "new" /\ \A b \in Agents : b < a => agent[b].pc # "new"
    /\ starts = {}
\* spawnClaudeProcess and spawnCodexAgent: the key now holds this process.
Spawns(a, cli) ==
    /\ agent' = [agent EXCEPT ![a] = [@ EXCEPT !.cli = cli, !.pc = "running"]]
    /\ entry' = a
    /\ session' = [session EXCEPT ![Thread(cli)] = "working"]

\* A prompt to a Claude thread: the token, then the authentication preflight.
StartsClaude(a) ==
    /\ main = "claude" /\ MayStart(a)
    /\ agent' = [agent EXCEPT ![a] = [@ EXCEPT !.cli = "claude", !.pc = "preflight"]]
    /\ starts' = starts \cup {a}
    /\ session' = [session EXCEPT !["own"] = "working"] /\ row' = "running"
    /\ UNCHANGED <<main, entry, canceled, stdin, asked, heard, count>>

\* A prompt to a Codex thread, or a review with its own thread.
StartsCodex(a) ==
    /\ main = "codex" /\ MayStart(a) /\ Spawns(a, "codex") /\ row' = "running"
    /\ UNCHANGED <<main, starts, canceled, stdin, asked, heard, count>>
StartsReview(a) ==
    /\ MayStart(a) /\ Spawns(a, "review") /\ row' = "running"
    /\ UNCHANGED <<main, starts, canceled, stdin, asked, heard, count>>

\* The end of a run: what the `finally` and the exit handler clear.
EndsIn(a) ==
    /\ agent' = [agent EXCEPT ![a].pc = "ended"]
    /\ session' = [session EXCEPT ![Thread(agent[a].cli)] = "idle"]

\* Mutant: only the exit of the preflight is looked at.
GoesAhead(a) == TRUE

\* The preflight let the run through, and no Stop canceled its token.
MayGoAhead(a) == a \notin canceled

\* Mutant: the token goes as soon as there is a process.
TokenAfterSpawn(a) == starts \ {a}

\* The token stays until `done` resolves.
TokenKept(a) == starts

PreflightPasses(a) ==
    /\ agent[a].pc = "preflight" /\ MayGoAhead(a) /\ Spawns(a, "claude")
    /\ starts' = TokenKept(a)
    /\ UNCHANGED <<main, canceled, row, stdin, asked, heard, count>>
PreflightCanceled(a) ==
    /\ agent[a].pc = "preflight" /\ ~MayGoAhead(a)
    /\ EndsIn(a) /\ starts' = starts \ {a}
    /\ UNCHANGED <<main, entry, canceled, row, stdin, asked, heard, count>>
\* The CLI is not logged in: the run fails without a process.  What becomes of
\* its prompt is LocalTakeover's subject.
PreflightFails(a) ==
    /\ agent[a].pc = "preflight" /\ MayGoAhead(a)
    /\ EndsIn(a) /\ starts' = starts \ {a} /\ row' = "failed"
    /\ UNCHANGED <<main, entry, canceled, stdin, asked, heard, count>>

\* The process exits, or could not be spawned: the key's entry goes, whatever
\* process it holds.  A run killed by a signal is no failure.
Exits(a, failed) ==
    /\ agent[a].pc \in {"running", "stopping"}
    /\ failed => agent[a].pc = "running"
    /\ EndsIn(a) /\ entry' = 0 /\ starts' = starts \ {a}
    /\ row' = IF failed THEN "failed" ELSE row
    /\ UNCHANGED <<main, canceled, stdin, asked, heard, count>>

-----------------------------------------------------------------------------
(* Stop: stopConductorAgent, stopAgent and what handleStop writes           *)

\* Every token is canceled; the process the key holds is sent SIGTERM.
Stop ==
    /\ count < MaxStops /\ count' = count + 1
    /\ canceled' = canceled \cup starts
    /\ agent' = IF entry = 0 THEN agent
                ELSE [agent EXCEPT ![entry] = [@ EXCEPT !.pc = "stopping", !.killed = TRUE, !.timer = TRUE]]
    /\ entry' = 0 /\ row' = "stopped"
    /\ session' = [t \in {"own", "review"} |->
           IF \E a \in starts : Thread(agent[a].cli) = t THEN "idle" ELSE session[t]]
    /\ UNCHANGED <<main, starts, stdin, asked, heard>>

\* Five seconds later: SIGKILL, unless the handle says `killed`, which Node
\* sets when it has delivered a signal, not when the process has ended.
ForceKills(a) ==
    /\ agent[a].timer
    /\ LET pc == IF agent[a].pc = "stopping" /\ ~agent[a].killed THEN "ended" ELSE agent[a].pc IN
       agent' = [agent EXCEPT ![a] = [@ EXCEPT !.pc = pc, !.timer = FALSE]]
    /\ UNCHANGED <<main, entry, starts, canceled, session, row, stdin, asked, heard, count>>

-----------------------------------------------------------------------------
(* Questions: processStreamMessage, answerPendingStdinDecision              *)

Asks(a) ==
    /\ agent[a].pc = "running" /\ agent[a].cli # "codex" /\ a \notin asked
    /\ Cardinality(asked) < MaxAsks
    /\ asked' = asked \cup {a} /\ stdin' = stdin \cup {a}
    /\ UNCHANGED <<main, agent, entry, starts, canceled, session, row, heard, count>>

\* The owner answers: the question leaves the map, and whichever process the
\* workspace's key holds by then is written to (Codex has no stdin).
Answers(a) ==
    /\ a \in stdin /\ stdin' = stdin \ {a}
    /\ heard' = IF entry = 0 \/ agent[entry].cli = "codex" THEN heard
                ELSE heard \cup {<<entry, a>>}
    /\ UNCHANGED <<main, agent, entry, starts, canceled, session, row, asked, count>>

Next ==
    \/ Stop
    \/ \E a \in Agents :
        \/ StartsClaude(a) \/ StartsCodex(a) \/ StartsReview(a)
        \/ PreflightPasses(a) \/ PreflightCanceled(a) \/ PreflightFails(a)
        \/ Exits(a, TRUE) \/ Exits(a, FALSE) \/ ForceKills(a) \/ Asks(a) \/ Answers(a)

Spec == Init /\ [][Next]_vars
\* The preflight has a timeout of ten seconds and the timer of a Stop fires; a
\* process is free to run for ever, and to ignore SIGTERM.
FairSpec ==
    /\ Spec
    /\ \A a \in Agents :
        /\ WF_vars(PreflightPasses(a) \/ PreflightCanceled(a) \/ PreflightFails(a))
        /\ WF_vars(ForceKills(a))

-----------------------------------------------------------------------------
(* Properties                                                               *)

\* Types; a token belongs to a start or a process of the own thread.
TypeOK ==
    /\ entry \in {0} \cup Agents
    /\ \A a \in starts : agent[a].cli = "claude"
                            /\ agent[a].pc \in {"preflight", "running", "stopping"}
    /\ row \in {"running", "stopped", "failed"}
    /\ session \in [{"own", "review"} -> {"idle", "working"}]
    /\ stdin \subseteq asked

\* Two processes never resume one Claude conversation at a time, a process
\* that is being stopped included (the token outlives the spawn).
OneResume ==
    \A a, b \in Agents :
        agent[a].cli = "claude" /\ agent[b].cli = "claude" /\ {a, b} \subseteq Alive => a = b

\* A start that Stop met in its preflight never becomes a process.
HoldsCanceled == \A a \in canceled : agent[a].pc = "preflight" => agent'[a].pc # "running"
CanceledStaysDown == [][HoldsCanceled]_vars

\* "Stop a running agent by workspace name": it leaves none running.
StopReachesAll == [][count' # count => \A a \in Agents : agent'[a].pc # "running"]_vars

\* "Give it 5s for graceful shutdown, then force kill": a process that was
\* stopped ends.
StoppedEnds == \A a \in Agents : agent[a].pc = "stopping" ~> agent[a].pc = "ended"

\* An answer is heard by the process that asked.
AskerHears == \A h \in heard : h[1] = h[2]
=============================================================================
