# conductor-telegram: models, checks and proofs

conductor-telegram lets one owner drive Conductor workspaces from Telegram. The repository holds three
programs that share code:

- the **cloud gateway** (`src/cloud`): a long-polling Telegram bot with a durable SQLite queue, which launches
  workspaces through the Conductor API, sends messages to their threads, polls their transcripts and keeps a
  status card per turn;
- the **lanes worker** (`src/lanes`): a controller that runs scheduled repository work through Conductor and a
  Git host, under a fenced lease that two sites compete for; and the older in-process scheduler and pipeline
  that do the same for one bot;
- the **bot on one machine** (`src/bot`): the older bot, which drives local agents and, in hybrid mode, hands
  their work to the cloud.

All three live with the same difficulty: calls that cannot be repeated blindly, made by processes that stop at
any moment, on behalf of an owner who changes his mind meanwhile. That is what the models are about. Paths in
this file and in the modules' comments are relative to the repository's root.

## 1. How to run

    tlc -workers 2 -config GatewayQueue.cfg MCGatewayQueue     # a run: module and cfg as in PROJECT.json
    tlapm GatewayQueueProofs.tla                               # the proofs of a component

`PROJECT.json` is the index: components, runs, a mutant for every property, the source lines of every
definition, hazards, findings and theorems. Cfgs that are not a run there reproduce a finding of section 7.

## 2. Inventory

For each component: its state, what it does, what is hard about it, when it is correct, and its modules.

**Gateway queue, lease and dispatchers** (`src/cloud/store.ts`, `runtime.ts`, `telegram.ts`). Tables
`gateway_queue` and `gateway_state`; in memory the rows each dispatcher runs. Takes, renews and loses the lease;
recovers, ingests, claims, retries, gives up. Every other part of the gateway is a handler of one of its rows.
*Hard:* dispatchers and late handlers interleave, processes crash or lose the lease between two awaits.
*Correct when* lanes stay in order, a row is run by one handler at a time, no update is lost or reordered, and
everything settles. — GatewayQueue

**Cloud engine: launches, sends, threads** (`engine.ts`, `messages.ts`). Intents (`create-attempt:`,
`send-attempted:`, `stop:`), bindings, the row's card. *Hard:* ambiguous answers, a stop between any two awaits.
*Correct when* nothing is created or submitted twice, a stop fences what follows, and the owner reads the truth.
— CloudTurn

**Cloud engine: polling and recovery** (`engine.ts`, `poller.ts`). Per session: cursor, turn, what was seen of it;
episodes of provider fall-back. *Hard:* transcript and status are two reads, with sends and stops between them.
*Correct when* a task goes on in one place, every turn's end is told, and only failures are recovered. — CloudPoll

**Names and titles** (`engine.ts`, `sync.ts`). Three writers of one name, in three places. *Correct when* the
places agree and the owner's name wins. — WorkspaceNaming

**Telegram delivery** (`telegram.ts`). Delivery rows, topics, cards and their replacements. *Hard:* Telegram's
calls have no idempotency key; people close and delete topics. *Correct when* nothing waits for ever, a card ends
on the newest text, and retired topics are put away. — TopicDelivery

**Commands and attachments** (`commands.ts`). Albums, media jobs, reserved actions: two rows cooperate across
retries. *Correct when* each file is sent once, with those collected beside it, or reported. — Attachments

**Discovery** (`sync.ts`). Adopts workspaces made elsewhere while launches make some. *Correct when* none is
followed under two records and none that stays is missed. — Discovery

**Router** (`router.ts`). One session decides where a message goes. *Correct when* a message is put to it once and
routed by the answer to itself. — RouterTurn

**Lanes worker, lease and state store** (`src/lanes/worker.ts`, `state-store*.ts`). The fenced lease of two sites,
the action ledger, controls, holds, runs, attempts, evidence. *Correct when* one worker writes and the ledger is
true of what happened outside. — LaneActions, LaneControls, LaneStages

**Lanes controller** (`controller.ts`, `controller-policy.ts`). A tick applies controls, settles unresolved
actions, then does one piece of due work. *Correct when* mutations take effect once, holds and pauses are
respected, and a merge is made only of a head that was approved. — LaneActions, LaneControls, LaneStages

**Lanes scheduler and pipeline** (`scheduler.ts`, `decide.ts`, `pipeline.ts`). The in-process predecessor: gives
lanes to providers, then delivers their pull requests. *Correct when* a lane gets one workspace and one prompt, and
the same merge rule holds. — LaneDispatch, LaneDelivery

**Owner's lane commands** (`src/bot/durable-lanes-command.ts`). Queue controls. — LaneControls

**Bot on one machine and workspace store** (`src/bot/index.ts`, `launcher.ts`, `commands.ts`, `src/store`). Launch
sagas, work leases, terminal intents, an outbox, thread cursors and cycles in SQLite; the maps of local processes
and takeovers in memory. *Hard:* the foreground of a command, three reconcilers and the owner's buttons
interleave at every await; the process dies. *Correct when* what was called off does not run, no request is lost
or made twice, every reply is forwarded, and a stopped process ends. — CloudSaga, SessionPoll, LocalTakeover,
LocalAgents

Not modelled: **bridge** (decisions are rows written once behind an HTTP surface), **gateway helpers** (a cache, a
one-time import, start-up checks), **lanes configuration and evidence** (functions of their input), **bot
integrations and formatting**, **Conductor API client** (the models take from it which errors mean what),
**command line, services, MCP server**. Section 9 has the reasons.

## 3. Modules

    FifoLanes    <-implements- GatewayQueue                   MCGatewayQueue, GatewayQueueProofs
                               CloudTurn                      MCCloudTurn, CloudTurnProofs
                               TopicDelivery                  GatewayQueueProofs
                               WorkspaceNaming
                               CloudPoll, Attachments         GatewayQueueProofs
                               RouterTurn, Discovery          PartsProofs
    EffectLedger <-implements- LaneActions                    MCLaneActions, LaneActionsProofs
                               LaneControls                   MCLaneControls, LaneControlsProofs
                               LaneStages                     MCLaneStages, LaneStagesProofs
                               LaneDispatch, LaneDelivery     MCLaneDispatch, MCLaneDelivery, LaneActionsProofs
                               CloudSaga                      CloudSagaProofs
                               SessionPoll                    PartsProofs
                               LocalTakeover, LocalAgents     PartsProofs
    MCComponents, MCSettles    many of these, side by side    ComponentsProofs

The levels are stacked by what each takes from the one before. The gateway's modules assume what `GatewayQueue`
shows: a lane is worked in order, one row at a time, and a crash puts running rows back. `CloudPoll` takes a
submission as `CloudTurn` shows it. `LaneControls` and `LaneStages` assume what `LaneActions` shows: one worker at
a time writes, and a mutation takes effect once; `LaneStages` also takes controls as absent, `LaneControls` the
stages as one. `LocalTakeover` drives the saga of `CloudSaga` in memory, which `CloudSaga` takes through crashes.

### 3.1 GatewayQueue and FifoLanes

| state | code |
| --- | --- |
| `lease` | key `gateway-lease`; `live` is "its 90 seconds are not over" |
| `pc` | where a process is in `runtime.ts`: it waits, has acquired, serves, stops, is gone |
| `tasks`, `batch` | `QueueDispatcher.running`, the answer of `getUpdates` not yet ingested |
| `rowid`, `state`, `ready` | the row in `gateway_queue`; `ready` is "`available_at` has passed" |
| `failures`, `transient`, `notices` | `queue-failures:`, `retryable-failures:`, what is queued for the owner |
| `offset`, `published`, `acked` | key `telegram-offset`, and Telegram's own side of it |

Actions are the life of a process (`Start`, `Acquire`, `Recover`, `Abort`, `Exit`, `Crash`, `Expire`), ingestion
(`Publish`, `Fetch`, `LoseBatch`, `Ingest`) and the dispatchers (`Tick`, `Enqueue` and one action for each way in
which `processClaimedRow` ends a handler). A handler is abstract: it queues its jobs and ends. The check of the
lease and the write behind it are one synchronous block in JavaScript, hence one step. `Recover` alone asks for no
lease, as in the code. Every process is a fresh lease owner (`randomUUID`), so a restart is another member of `Procs`.
`FifoLanes` is what the queue promises to whoever puts a row in it: arrival order per lane, each row settled once.

### 3.2 CloudTurn

One workspace: row 0 launches it, later rows open a thread of their own or send to one, and the control lane holds
a stop and an archive. A handler runs from one await to the next in one step: `at[t]` names the await, `call[t]` is
what became of it. `Make`, `Accept`, `Refuse`, `Search`, `Cancel`, `LandMake`, `LandPost`, `Prepare`, `Remove` and
`Finish` are Conductor, as the code's handling of its answers shows it (external). A call that is given up is
counted in `lateMakes` or `latePosts` and may take effect at any later time, or never.

### 3.3 CloudPoll

The other half of a turn. `visit` is a poll of one session between its awaits: it has read a page of the transcript,
then the status, and judges with both. `sess[s]` is the stored `SessionState`, `cursor[s]` the last row forwarded,
`current` the binding's session, `tried` and `resumed` what was tried for an episode (`tried` as pairs, `Tried(ep)` its
providers). `rows` are the message rows the owner and the poller queue (`Send`, `Replacement`), `pc` their handler;
`transcript`, `work`, `waiting`, `err`, `asleep` and `outcome`, the turns that ended with how they did, are Conductor's
agents. An episode is one task however often it is continued; `episode[n]` says which one turn n belongs to. Left out:
reviews, pull-request links, questions, reanchoring, `adoptTitle` (WorkspaceNaming), the aggregate status, turns without
text, and the event stream.

### 3.4 RouterTurn, Discovery, WorkspaceNaming, Attachments

*RouterTurn* has the router's workspace and session, which somebody may remove, the submission of one row at a time
and the turn that answers it. Every text of a turn carries its row's number, so that "the answer to itself" can be
asked for. A session is opened in the router its call named (`pc.into`), even when the call is answered too late (`loose`).
Parsing and prompts are abstract. A session works from the moment it takes a prompt.

*Discovery* has a scan's jobs, each with what the listing said, beside launches (with retries, and give-up after
`MaxFails`), retirement by the poller, stop and archive, renames in Conductor. A record is a topic's row.

*WorkspaceNaming* has one workspace's `remote`, `name` and `topicName`, and the owner's rename, the title and the scan
each at its await. `fence` is `workspace-titled:<id>`. Tags, pacing and retirement meanwhile are left out.

*Attachments* numbers rows by their file: `update` is the update row, `job` its media job, `turn` its action. Two
`workers` may be at work on an action, since a release puts one back that is running. Voice and reviews are left out.

### 3.5 TopicDelivery

`rows` is the delivery queue in order, with each row's lane, target and text; `call` is the one request in flight
(the sender is single and paced); `topic` and `messages` are Telegram. Engine actions (`Start`, `OpenTopic`, `Speak`,
`Update`, `Retire`) queue rows, `Tick` claims one, `Take*` lets Telegram act, `Answer*` brings the answer, `Lose` loses
it. People close or delete topics. `link` and `replaced` are the stored keys of the same name. Left out: files, progress
bubbles, repository topics, decision messages, `editForumTopic` and pacing.

### 3.6 LaneActions and EffectLedger

A request `<<r, s>>` is the s-th mutation of a run. `pc[w]` names the call a worker comes to, and every write of the
store is one transaction behind `Valid(w)`; reads and external calls are not behind it, so a worker may be suspended
between `Renew` and `Call` and make its call when another site holds the fence. `Doubt`, `StoreFails` and `Crash` are
the failures between calls. Intents that were refused are counted (`refused`) rather than kept as rows. Versions of
rows are left out: under a valid lease no other writer exists, so they never conflict. `KeepsContract` says that
every 2xx answer is one the client can read. `EffectLedger` is the promise: what happened outside is recorded once,
after it happened.

### 3.7 LaneControls

Controls are queued rows, applied in order before any work. `hold` is the lane's row of `lane_v2_lane_controls` and
`status`, `resume`, `origin` describe the lane's latest run. The stages between queued and merging are one status,
`working`: controls do not tell them apart. Where the code makes two store calls the model has two steps: a retry
and its settlement, a safety pause and its application, a controller's hold and its application, recorded evidence
and the repair that follows. One manifest revision is active.

### 3.8 LaneStages

One run from its first prompt to its validation, `advanceRun` and what it calls. `run` is the run's row, `work` its
attempts that still count, `review`, `finals`, `checks` and `proof` the evidence rows that gates read, per head;
`checks` distinguishes the newest row from the ones inside the window of the gate. `host` is the pull request and its
CI. `ctl` names a handler between two writes: an attestation accepted and not yet counted, a validation failed and not
yet reworked. `votes` and `greens` are history, for the properties: what agents really answered, and for which head.
The author pushes while reviewers work, others push, the owner merges, providers are down, evidence ages.

### 3.9 LaneDispatch and LaneDelivery

*LaneDispatch* is `runLanesTick`: the workspaces are listed, every lane is read, then actions are decided and executed
one by one, with the world going on in between. The providers choose in order, and `Claimed[n]` are the lanes the first
n of them have taken. `space` is Conductor, `ledger` the rows in SQLite; `made` and `asked` are
history. A prompt that was accepted shows by the next tick; lanes have no workspace of their own in the
configuration; a turn ending without a pull request counts as trouble.

*LaneDelivery* is the pipeline of one lane with a pull request. `state` is `lane_delivery_state`; `spaces` are workspaces
found again by name; `posts` the marker reviews; a tick is a sequence of awaits (`tick.pc`). Merge agents are retired
by this release, so the owner merges.

### 3.10 CloudSaga

One tracked workspace of the bot. `row`, `saga`, `receipt`, `intent`, `lease`, `outbox`, `outcome`, `notices` are what their
rows in SQLite are; `runner["fg"]` is a launch in its command, `runner["rec"]` the reconciler's, `term` the terminal
reconciliation, `sender`, `flush` and `stopper` the other handlers, each at its await; `home`, `where`, `wire`, `seen`, `live`
and `gone` are Conductor. Only notices that close the topic are kept. A POST that was given up is taken or never. One
foreground launch, one sender and one flush at a time; bindings detached by hand are left out.

### 3.11 SessionPoll, LocalTakeover, LocalAgents

*SessionPoll*: `poll` is the poller's visit with what it has read so far, `cycle` the thread's reservation, `cursor` its
stored cursor with the epoch of the transcript it belongs to; `log`, `epoch` and `agent` are Conductor, which may rebuild a
transcript under lower indexes. Steering while busy is off, as nothing sets `allowCloudSteeringWhileBusy`.

*LocalTakeover*: `taker` is `performLocalCloudRecovery` with its in-flight entry, `request[r]` the handler of each prompt;
`Polls` and `Flushes` are the poller's work on the saga and the outbox. The process does not die here (see CloudSaga).

*LocalAgents*: `entry` is the one map entry a workspace has, `agent[a]` each process; preflights, exits, questions,
answers and Stop read and write both.

### 3.12 MCComponents and MCSettles

Two runs check many components at once, each in an instance of its own: `picked` says which one a behavior is of
and never changes, so the state space is the disjoint union of theirs. **Nothing is composed here**; it is a way to
check thirteen components in one run. Every conjunct of a property is guarded by `picked`, since the variables `v1`, `v2`,
... mean something else elsewhere. The parameters of the instances that are proved about are parameters of MCComponents
too, and those instances are of the modules with the proofs, so that ComponentsProofs can use their invariants for
every value of them: `Workers` of GatewayQueueProofs (with TopicDelivery as `Workers!Sender`, Attachments as `Workers!Photos` and CloudPoll as `Workers!Cloud`), `Actions` of LaneActionsProofs
(with LaneDelivery and LaneDispatch) and `Parts` of PartsProofs (with the five modules of that part of section 6). In
MCSettles the fairness of each module is written out for its instance as the premise of the property.

## 4. Runs

Bounds are constants: nothing is cut by a state constraint. Each passing run is a complete search.

| run | instance | distinct states | shows |
| --- | --- | --- | --- |
| `gateway_queue` | 2 processes, 2 updates of a conversation, a job of another kind, 1 setback, limit 1 | see below | running rows owned, no update lost or reordered, `FifoLanes` implemented |
| `cloud_turn` | launch and thread, stop and archive, 2 providers, 2 troubles | 2,243,512 | nothing made or submitted twice, the stop is a fence, cards and orders tell the truth |
| `lane_effects` | 2 sites, 1 run of two mutations, 2 troubles | 100,498 | effects once, never two unresolved, ledger true, `EffectLedger` implemented, effects recorded in the end |
| `lane_controls` | a one-shot lane and a recurring one that needs it, 4 controls, 2 troubles | 3,313,557 | no stranded run, safe retries, holds and pauses are respected, approvals are named |
| `cloud_saga` | 2 launches, a send, a recovered request, 2 stops, an archive, a crash; 4 of these together | 1,791,288 | what was called off rests, sends do not overlap, the binding stays usable, no request is lost |
| `saga_settles` | 2 launches, a request, a stop, an archive, a crash; 3 of these together | 181,156 | nothing stays pending for ever |
| `components` | thirteen instances of thirteen modules, below | 1,274,778 | their safety |
| `settles` | fifteen instances of thirteen modules, below | 271,276 | their liveness |
| `lane_wedge`, `lane_misread`, `takeover_stop`, `agents_kill` | | | violations, see 7 |

`gateway_queue` counts states up to the symmetry of its processes: 742,137. Each run takes about three
minutes at most with two workers.

**`components`.** One line per instance: bounds, states, properties (their conjuncts carry these names in the modules).

| instance | bounds | states | what is checked |
| --- | --- | --- | --- |
| LaneStages | 2 providers, 2 pushes, 1 of somebody else, 1 rejection, 1 trouble, 1 aged proof | 101,255 | a head that reaches the merge was approved, as that head, by a reviewer and two finals who did not write it; a validation was proved by somebody else on a green commit; one agent at a time |
| LaneActions | 2 sites, 2 runs of one mutation, unreadable answers, 1 trouble | 22,473 | never two unresolved actions |
| GatewayQueue | 1 process, 4 rows of 4 lanes, 1 worker per kind | 32,715 | no kind runs more handlers than it has workers |
| LaneDelivery | 3 providers, review stage, 2 pushes, 1 trouble | 65,487 | the merge rule of the pipeline; the workspace of an awaited answer is not archived |
| LaneDispatch | 3 lanes, one behind another, 2 providers, 1 trouble | 21,208 | one workspace and one prompt per lane |
| TopicDelivery | 2 works, 2 topics | 137,191 | no message lands in a topic behind one of newer work that lives there |
| RouterTurn | 2 rows, 2 routers, 3 sessions, 1 removal, 1 trouble | 47,029 | own answer, one submission, one router |
| Discovery | 2 workspaces, 1 launch, 2 records, 1 trouble | 189,760 | no workspace under two records |
| CloudPoll | 1 send, 2 providers, 1 fault, 1 trouble, stop | 169,490 | one session works on a task; only failures are replaced, and nothing goes on after a stop |
| Attachments | 2 files, 1 wait, 1 crash | 66,770 | each file saved and sent once, with those collected beside it |
| SessionPoll | 2 sends, 2 replies, 1 stop, 1 rebuilt transcript | 209,418 | one turn at a time, no reply skipped |
| LocalTakeover | 3 requests, 1 stop, 1 trouble | 149,969 | each request reaches Cloud once; one that a Stop found queued never does |
| LocalAgents | 3 processes, 2 stops, 1 question | 62,013 | two processes never resume one conversation; a canceled start stays down |

**`settles`.** GatewayQueue (43,476 states), CloudTurn (23,694), CloudPoll with a fault (28,180) and with a sleeping
workspace (6,731), RouterTurn (2,773), Discovery (7,100), TopicDelivery with a lost answer (44,346) and with a topic
somebody closes (5,031), WorkspaceNaming (25,804), Attachments (6,153), SessionPoll (25,414), LocalTakeover (15,014),
LaneStages (18,231), LaneDelivery (17,655), LaneDispatch (1,674). The properties say, under each module's fairness: every
queued row is done or reported; every recorded turn ends and its end is told; messages are routed or handed to the
owner; workspaces that stay are followed and records of those gone are retired; deliveries and names come to rest on
the newest; every file is sent or reported; threads are read to their end and freed; takeovers answer everybody; lanes
end validated or in quarantine. Exceptions are part of the properties and are listed in section 7: each has a
definition of its own (`Missed`, `Forgotten`, `Overwritten`, `Stalled`, `MergedByHand`).

**Why these bounds are enough.** Two processes give a holder and a successor, or a holder and one that lost the
lease with handlers in flight; a third would be one of these again. Two updates in a lane and a job in another give
an order to break and a lane to overtake in. Two troubles are the smallest number that covers a lost answer followed
by a crash, or by a second loss, during the retry. Four controls make a hold, a hold over it, an approval of either
and a retry. In the saga any four events make the cases its transactions are about: a launch in doubt, a stop of it,
a send or request into it and a crash. Two heads make a stale approval, two sends a stale turn, two workspaces a
stranger, three requests one that leads, one that joins in time and one too late. `MaxTrouble` of 1 in the
union runs is what their state space allows; wherever the mechanism is a retry of a retry the module has a run of its
own. Every property has a mutant, listed in `PROJECT.json`, which breaks it in the same instance, so the bounds
reach the case it is about; for properties of several conjuncts the modules keep further mutants ("Mutant:"), each for
another conjunct. What holds beyond the bounds is in section 6.

**Symmetry** is used for processes in `gateway_queue` only: the definitions treat the members alike, and no run of
liveness uses it.

**Deadlock** is off in every run: a bounded instance comes to rest when its inputs are used up, as an idle program does.

## 5. Fairness

Failures, crashes and the owner are never fair. What is:

- `GatewayQueue`: the loops that fetch, ingest, tick and report run every 100 ms to 1 s; a handler goes on, since every
  upstream call has a timeout; a delay passes. Nothing is assumed of starts, crashes or the lease; settling is promised
  if some process keeps the lease from some moment on.
- `CloudTurn`: the dispatcher comes back to both lanes, a call is answered or times out, and a workspace in
  preparation is ready one day or given up. Late calls need never land.
- `CloudPoll`: the handler and a visit go on; an agent takes what waits and finishes what it works on (a turn that
  never ends is not the gateway's to end). Visits are strongly fair per session, because the poller goes round all
  sessions and a visit is disabled while another one runs.
- `RouterTurn`, `Discovery`, `Attachments`, `TopicDelivery`, `WorkspaceNaming`: handlers, jobs, scans and ticks go on, answers
  come, and the router's limit passes. The router's agent need never answer.
- `LaneActions`: a worker that is up goes on and one that is down is restarted by its service; calls are answered or
  time out; a lease nobody renews runs out.
- `LaneControls`: the worker ticks for ever (`WF(Worker)`), which says nothing of which work it does.
- `LaneStages`, `LaneDelivery`, `LaneDispatch`: ticks come round; agents answer; CI decides; the owner merges what is ready
  (`OwnerConfirms`); providers recover. `TickBegins` of the dispatcher is strongly fair, since the owner may pause it.
- `CloudSaga`: the three reconcilers are called by the poller for ever, and Conductor answers a call that is made
  again and again (strong fairness of its answers, since each attempt may also fail).
- `SessionPoll`, `LocalTakeover`: the poller and handlers go on, a posted message is accepted or refused, a turn ends.
- `LocalAgents`: a preflight ends within its ten seconds and the timer of a Stop fires; a process may run for ever.

## 6. Proofs

The theorems hold for all values of the constants that satisfy the modules' named assumptions: any number of
processes, rows, lanes, sites, runs, heads, agents, and any bound on trouble.

**GatewayQueueProofs.** Type correctness; `LaneInOrder`, `RunningIsOwned`, `NoAckedLoss`, `ArrivalOrder`, `GivesUp`,
`SettledIsFinal`; `WorkersBounded`; and that the queue implements `FifoLanes`. All but the first assume `~StartupMayStall`, that a
process which took the lease recovers before its 90 seconds are over; GatewayStall.cfg shows what happens otherwise.
`RunningIsOwned` is not inductive: `IInv` adds that a process before `serving` has no task (`NoTaskBeforeServing`),
that one in `acquired` holds the lease (`StartingHoldsLease`), that inserted rows are those with a state and have
distinct rowids, and that the stored offset separates the updates in the table from the others (`OffsetIsExact`).
`SettledIsFinal` is a consequence: a holder writes only its own tasks' rows, and those are running. In the refinement,
`Ingest` and `Enqueue` map to `Arrive`, a handler's end to `Settle` or to a stutter, and everything else to a stutter;
that a settled row has nothing open ahead of it is `LaneInOrder`. `WorkersBounded` counts tasks, and for that the table
must be finite whatever set the rows come from: rowids are distinct and at most `lastRowid` (`TableIsFinite`).

TopicDelivery has its proofs here too: type correctness, and `NewestSpeaks`, that no message lands in a topic behind one of
newer work that lives there. Whether a message may go is decided when its row is claimed, and the request lands later.
`PostInv` says why nothing comes between. One request is in flight, so from the claim of a message to its landing
nothing else lands (`CallClear`). Newer work that spoke in a topic still lives there, unless the topic was made for that
work or is deleted (`Spoken`); a topic made for a work was no older one's (`Elsewhere`, `CallNew`); and only work without a
topic, or with one of its own making or a deleted one, waits for a new one (`Homeless`). The check before a send asks
whom the topic follows, which is the newest that lives there (`FollowerNewest`), so the claim would have been refused.

So has Attachments: `FilesOnce`, `SentWhole`. A file is sent once because it is in one job at most: updates of an album are
settled in order (`InTurn`), only the leader's job has files of others, and those it absorbed were closed before they
could make a job of their own (`Led`, `Carries`). A turn at work was released with all the files of its job
(`Reserved`, `AtWork`), and what was submitted are the files of the attempted turns (`SentOnce`).

And so has CloudPoll: `OneContinues`, `ReplacesFailed`, `LeavesStopped`. A session has a turn from the turn's row only, and has it
before that row is done (`Homes`), so no two sessions have the same turn (`OwnTurns`). A turn and those that continue it
are an episode. What of an episode is at an agent, what of it waits in a row (`OneRowEach`: one row at most) and a session
whose state names its newest turn and may still go on are all of one and the same session (`OnePlace`, from `Only`);
what a visit has read of a turn holds as long as the session's state still names that turn (`Reads`). For
`ReplacesFailed` the poller's picture must also be true of the turn it names (`FailInv`): a line that says that a turn
failed is right, an error a session shows is that of the last turn it was given (`Failures`), and until a stop a
session's state is about the last turn it was given (`LastSent`).
This assumes `ErrorClears`: **Conductor drops a session's error once a message waits in it.** The code does not show
that it does, and without it `OnlyFailedReplaced` fails (section 7): a session is replaced for a message that
was sent into it after an earlier turn had failed. The theorems state the assumption; `LeavesStopped` does not use it.

**CloudTurnProofs.** Type correctness; `MadeOnce`, `SubmittedOnce`, `CardIsTrue`, `StopIsAFence`. The invariant
`RequestInv` counts, per row, the requests that took effect, are under way or are late, and bounds the sum by one as
long as the row's intent is set; a cleared intent means that the sum is zero. The other conjuncts say what an answer
that has arrived means for that sum and for the card. `OrdersAreHonest` takes a second invariant on top of it,
`OrderInv`: where a row stands (`Stand`), that nothing works outside a ready workspace (`Place`), what the order's handler
may rely on at each await (`Ordered`), and that of the messages that were sent before an order those it has not yet
canceled are still among the ones it is going through (`Left`). A stop is honest because that set is empty when it
reports; an archive because the workspace was removed, or was never bound and its launch is settled.

**CloudSagaProofs.** Type correctness; `OutboxAccounted`, `OneSender`, `BoundAlive`, `CalledOffWorkRests`. `IInv` is built
in layers. `Launched`: a pending saga is the row's binding, begun on a row that pointed at nothing or at something
final, and only the foreground begins one. `Prompts`: a launch somebody still works for is pending, final or
archived. `Leased`: a lease is for the bound workspace, while nothing is pending on it. `CalledOff`: what a Stop or an
Archive wrote in the row, the saga, the intent and the attempt that reconciles it agree, and a queued request is in the
outbox or has its outcome (this layer is `OutboxAccounted`). `Cleaned`: cleanup archives only what is not final and can
no longer become so, from which `BoundAlive` follows. `Carried`: the message on the wire is the lease holder's, and each
is posted once, from which `OneSender` follows. `Fenced`, for `CalledOffWorkRests`: what a Stop named is sent by nobody
again, and what of it still runs is the prompt of a launch that is to be rolled back, or runs in a workspace the intent
is to archive or in a session the attempt has yet to cancel. Each action is one lemma per layer; frame predicates
(`SameLaunch`, `PhaseMoves`, `IntentMoves`, ...) say of many actions at once that a layer is left alone. TLC checked `IInv`
at the bounds of `cloud_saga` before it was proved.

**LaneActionsProofs.** Type correctness, and, in two layers, the rest. `Fencing` needs no assumption: at most one
worker is valid, and a valid worker about to write an intent saw a ledger with nothing unresolved, so that
`OneUnresolved` holds whatever services do. `Effects` assumes `KeepsContract`: a worker between an intent and its end
is alone with its request, and its call is the only one that ever was or will be. From it follow `TakesEffectOnce`,
`LedgerIsTrue`, `CallsAreIntended` and the implementation of `EffectLedger`. `lane_misread` shows that the assumption
cannot be dropped. The older lanes have their proofs here too:

- *LaneDelivery*: `MergeHasTwoFinals`, `AwaitedStays`. `DeliveryInv` says that the finals of a round are sessions this round
  started, in workspaces named for two providers who are not the author; that an approval in the state was posted by
  that session on the head the state names; and what a tick has in hand between two awaits (an index, a run, a message)
  still belongs to the stage it read. Posts are never withdrawn, so a merge adopted on that head stays earned. A workspace
  whose answer is awaited is not finished in the sense of the hygiene, whatever round the state has reached.
- *LaneDispatch*: `OneOfEach`. A tick acts on a picture it took before its first action. Of the lanes for which no action of
  this tick has failed it still believes rightly whether there is a workspace and whether the prompt is due (`TickKnows`,
  `Believed`), and the action in hand fits the world and not only the picture (`ActFits`). The ledger tells an agent that
  was never prompted from one whose lane was restarted (`LaneIsKnown`). Hence no second workspace and no second prompt.

**LaneControlsProofs.** Type correctness; `PausedRunIsHeld`, `OneRunPerRetry`, `SafetyPauseHolds`, `HeldLanesRest`,
`PausedLanesRest`, `HoldsEndByName`. `Inv` has four parts that are inductive one by one over types: `Stopped` (an
authorized validation remembers that it came from validation, so that failing puts it back where its hold says),
`Bound` (what the worker may rely on between two store calls, since the owner can only queue meanwhile),
`SafetyPauseHolds` itself, and `Retries` (a retry that made its run and is still pending is still the first control,
and its run has not moved).

**LaneStagesProofs.** Type correctness; `OneAgentAtWork`, `MergeIsEarned`, `ValidationIsEarned`. `IInv` says what the
controller knows between two writes. `Between` relates `ctl` to the run: an attestation that was accepted and is not
counted yet, a proof that is written and not acted on. `Agents` says who is at work and why: one attempt, of the role
of the status, for the head that is judged, and none once its answer is decided (`Ours`, `Current`). `Books` says that
everything favourable that is written down was answered by somebody, for that very head: an accepted review has a
vote "approve" of a reviewer who is not the author, each accepted final has one, a good proof has a validator's. Votes
are history and are never withdrawn, so what a gate let through stays earned although the head, the author or the
attempts change afterwards. The gate counts distinct providers; that two of them mean two voices is a lemma on
cardinality (`TwoVoices`).

**PartsProofs.** Five modules whose proofs need nothing of each other, one part each.

- *LocalTakeover, LocalAgents*: `ReplayedOnce`, `QueuedStopHolds`; `OneResume`, `CanceledStaysDown`. A request is accepted
  once because there are three disjoint ways into Cloud, and `IInv` keeps them apart: one that has not failed locally is
  nowhere else (`Fresh`); one that waits for a takeover is in the first prompt or in the durable outbox, not both
  (`Apart`, `Composed`); a prompt that was not accepted carries only what nothing carried (`Unsent`, `Queued`). A fence a
  Stop found in time stays: the row is settled and takes nothing in (`Fenced`). That two processes never resume one
  conversation rests on the start tokens: a start is refused while a token is out, so there is one at most (`OneToken`),
  and whoever resumes the conversation or is about to holds it until its process has ended (`Tokens`). The entry of the
  map is a running process (`Held`), so a Stop takes no token along.
- *Discovery*: `OneRecord`. Scans and launches read, await and write, each not knowing what the other did meanwhile. What
  keeps them apart is the creation key in a workspace's name: a launch is about to bind what bears its key (`Aims`), a
  job of a scan reads a workspace without one (`Listed`), and no record but its own is bound to one that has a key
  (`Keyed`); so two records with one workspace are the same record (`OneEach`). Workspaces somebody renamed before their
  launch bound them (`early`) are excepted, in the property too.
- *RouterTurn*: `OwnAnswer`, `SubmittedOnce`, `OneRouter`. `PlacesInv` is about workspaces and sessions: of the routers that
  were not retired there is one at most that is there, was there, or has a session being opened in it (`SeenOnce`), it is
  the bound one (`BoundSeen`), and none is known while one is being made (`MadeAlone`); the handler and a creation it gave
  up on are not under way in the same router (`CallsApart`). `TalkInv` is about messages: only the row at the head of
  the lane is put to a session, so every transcript speaks of one message after the other and of none behind an open
  one (`InOrder`); hence the last text after a row's own prompt is about that row.
- *SessionPoll*: `OneTurnAtATime`, `NothingSkipped`. A thread that rests with a turn open has the owner's message at its
  end (`TurnShows`), which a send sees when it looks; between its look and its post only its own message could open a
  turn (`TurnAlone`). What the poller forwards is a piece of the transcript behind a place up to which all was told
  (`BatchTold`), so its cursor, moved message by message, never passes over one (`CursorTold`); cursors and listings of
  a transcript that Conductor has rebuilt since are known by their epoch (`EpochsPast`) and say nothing of the new one.

**ComponentsProofs.** That `WorkersStayBounded`, `TopicsSpeakInTurn`, `LocalRunsGoOnce`, `FollowedOnce`, `MergesAreEarned`, `LanesGetOneOfEach`,
`FilesGoOnce`, `RoutedOnce`, `ThreadsAreFollowed`, `OneSessionWorks` and `RecoveryIsFenced`, as the run `components` states
them, hold for every value of MCComponents' parameters: from the invariants above, since a behavior is that of one
component throughout. The last two assume that errors clear, as above.

*Types.* `TypesStay`: `TypesHold`, the type invariant of every component of that run, for any parameters. The invariants above
have the types their proofs needed; what a module's `TypeOK` says beyond them is proved beside them, and most of it is
not a matter of types only. A transcript is no longer than the messages handed out and the replies counted, one that is
on the wire included (`ThreadCounted`), and the places a poller remembers lie in it, of a transcript that was rebuilt
since as well (`ThreadPlaces`). A row fails as often as it may and then rests (`Lapses`, `Worn`). What discovery keeps of a
workspace, it keeps of one with a record (`RecordsKept`); a kill timer belongs to a process that was signaled
(`Signaled`); a merge is of a head there has been (`MergedKnown`); two files of an album are fetched at a time
(`AlbumBounds`); what was forwarded of a session is there to read, and the episodes and providers that recovery tried are
those there are (`ChatTyped`). This last one uses `OneContinues`, so `TypesStay` assumes that errors clear, too.

**Only model-checked.** Liveness, which is beyond the prover's reach. Every safety property of the passing runs is stated
by a theorem, under the conditions named above. What the modules of MCComponents assume of their constants is a definition,
which MCComponents assumes of each instance.

## 7. Findings

Four runs show behaviour that a document, a comment or the code's own intent rules out; the others are reproduced by
the cfg and module named. `PROJECT.json` quotes the lines.

| finding | reproduce with |
| --- | --- |
| An approval whose hold was replaced is refused by the store (`src/lanes/state-store-sqlite.ts:2879`) and stays the first pending control: no later one, a pause included, is applied. | run `lane_wedge` |
| A 2xx answer that the client cannot parse is taken for a refusal (`src/lanes/controller.ts:365`) and the mutation is made again. | run `lane_misread` |
| A Stop pressed while a takeover checks the checkout for the last time does not keep the prompt from being sent (`src/bot/launcher.ts:4286`). | run `takeover_stop` |
| A local agent that ignores SIGTERM is never killed: `child.killed` is set by the first signal (`launcher.ts:4331`). A review overwrites the entry of the session at work, so that Stop reaches one of two (`:4311`) and an answer may reach the wrong one (`:1554`). | run `agents_kill`; same cfg, `StopReachesAll`, `AskerHears` |
| `recover()` asks for no lease (`src/cloud/store.ts:157`): a process suspended while starting resets rows its successor runs. | GatewayStall, MCGatewayQueue |
| A launch whose create call lost its answer and which is then stopped leaves its workspace unbound (`src/cloud/engine.ts:246`). | CloudUnbound, MCCloudTurn |
| A turn that fails between the poller's two reads is reported finished (`engine.ts:1102`); a session is replaced although its newest turn did not fail (`:1262`); output read before the turn is recorded is credited to none (`:977`). | PollFindings, CloudPoll: `FinishedIsTrue`, `OnlyFailedReplaced`, `OutputIsCredited` |
| Files absorbed by an album's leader after its turn was queued are forgotten (`src/cloud/commands.ts:584`). | AlbumForgotten, Attachments |
| A topic that replaces a deleted one is not closed when its work is retired meanwhile (`telegram.ts:258`). | TopicRetired, TopicDelivery |
| The repair of the owner's name may undo a later rename of his (`engine.ts:605`). | NamingOwner, WorkspaceNaming |
| A local handler writes the row's status over the launch of a takeover, which then never ends (`src/bot/commands.ts:4939`); a request the owner is asked to resend has been replayed (`:5165`). | run `takeover_stop`; same cfg, `NotReplayedIsTrue`, and `EveryLaunchEnds` with `MaxStops = 0` |
| A workspace is called done while a turn runs (`src/bot/index.ts:778`), and a stopped one is overwritten by the poller (`:809`). | SessionFindings, SessionPoll: `DoneMeansIdle`, `StoppedStays` |
| A validation that grew old before its transition fails every tick for ever (`state-store-sqlite.ts:1060`). | StagesEnd, MCLaneStages |
| A final review's "changes" is saved before the author is told (`src/lanes/pipeline.ts:787`): if that call fails nobody tells him any more, and the lane stays in its finals. | DeliveryWedge, MCLaneDelivery: `ChangesReachAuthor` |
| A pushed head does not start a fresh review: the reviewer's workspace of the first round is archived and never recreated (`src/lanes/pipeline.ts:1140`). | DeliveryWedge, MCLaneDelivery: `FreshRound`, bounds in its comment |
| A lane whose workspace was made and never prompted is skipped for ever after a crash (`src/lanes/scheduler.ts:649`); a lost answer gives one provider two lanes. | DispatchFindings, MCLaneDispatch: `NeverSkipped`, `WithinCapacity` |
| An archived row is downgraded to stopped, failed or running by writers that read it before. | CloudSaga.cfg with `ArchivedStays` as its property |

A cfg that names several checks one at a time; the others are commented out in it.

Further observations, without a run:

- *Lanes.* In active mode an authorized validation that fails goes back on hold and, in the same tick, on to repair
  (`controller.ts:3778`), while `docs/lanes-command-center-integration.md:60-63` says it restores the hold "without
  entering repair"; `LanesRest` says this never happens in a pause or on a hold of the owner's. The controller's own
  hold has a key of run and reason (`controller.ts:1120-1157`), so a second one is reported and not made. An
  authorization is matched by run and not by merged commit (`:923`). A retry of a retired lane makes a run that no tick
  takes up. An action no look-up finds leaves the lanes paused until somebody settles it: the safe side of the bargain.
  README.md:156 says that only one worker mutates; a worker suspended after it renewed may still make its call under a
  successor's lease, and what protects the mutation is the ledger (`CallsAreIntended`).
  A pull request closed while merging, or a head whose CI stays red, waits for ever (`Stalled`); finals accepted before
  their attempt failed make every tick fail on "distinct per head".
- *Topics.* A lost answer of `createForumTopic` opens a second topic, against `docs/cloud-workspace-sync.md:65`; two rows
  that fail on one deleted topic open two; a row that reopens a deleted topic is blocked.
- *Router.* A router creation that never took effect leaves `router-create-attempted` set: routing is off until a
  candidate appears.
- *Discovery.* A workspace renamed before its launch binds it is followed under two records (`early`); a launch that is
  blocked before it binds leaves a workspace nobody follows.
- *Bot's poller.* A stored boundary stays behind when the transcript is rebuilt under lower indexes, and the cycle stays
  in flight (the exception in `Free`); a second turn that fails while the row is "failed" leaves its cycle open; the tail
  of a transcript that failed to be forwarded may be passed over when the cursor is made anew (`TailIsDelivered`).
- *Stop in the bot.* An unconfirmed Stop does not name an older thread's session that got its first prompt only through
  the launch saga.

## 8. Conventions

- *Control in full, data by what properties tell apart.* Names, prompts, payloads and clocks are model values or
  flags. Time is "any moment may be the one": leases run out, delays pass and timeouts fire nondeterministically.
- *A step is what no other actor can interrupt*: a synchronous block of JavaScript, or a transaction of a store that is
  remote.
- *Definitions that begin with "Mutant:"* are plausible wrong versions of the definition after them. No specification
  uses them; each shows that a property notices the difference.
- *Several fields of one entry* change as a record, `[f EXCEPT ![a] = [@ EXCEPT !.x = .., !.y = ..]]`, and not by several
  paths of one EXCEPT: tlapm 1.4.5 takes several paths that begin with the same argument as facts that hold at once, so
  proofs must not see that form.
- *Variables called history* are there for properties; an action reads one at most to bound it.
- *Unbounded things are bounded in guards* by the constants `Max...`, `Attempts`, `NumUpdates` and `NumTasks`.
  `FailureLimit`, `SlowAfter`, `MaxFails`, `MaxTries`, `MaxNudges`, `TitleAttempts`, `MaxSettles` and `Page` are the
  code's own limits, made small.

## 9. Not modelled, and why

Left out for good: parsing and wording of commands, rendering, HTTP routes and tokens, the installer and generated
service files, tmux and git, project caches, one-time imports: no state that outlives a call and interacts, or pure
input and output. The Conductor client is in the models as what its errors mean to callers; its retries and parsing are
not. The bridge's decisions are written once by a handler of the queue; `handleDecisionCallback` has no state of its own.

Left out within modelled parts, which is why no component is called modelled in full: bindings of somebody else's
workspaces, review rows, provider switches, archive approvals, the staging of manifests, alerts and notifications,
the rollback of a local launch (`launcher.ts:2061-2300`), the bot's forum topics and supervisor, model rate limits of
the scheduler. Each row of `components` in `PROJECT.json` says so for its part.

Not composed: LaneActions, LaneControls and LaneStages are three models of one controller, each taking the others as
its assumptions state. The product is beyond TLC at bounds where anything happens.

## 10. Plan

1. **Abstract specifications** of the pollers: a transcript delivered once and in order, implemented by SessionPoll and
   CloudPoll.
2. **Composition** of LaneControls with LaneStages on one lane, so that a hold meets every stage.
3. **Rest of the bot**: the rollback of local launches, archive approvals, forum topics.
