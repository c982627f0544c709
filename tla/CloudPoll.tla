------------------------------ MODULE CloudPoll ------------------------------
(***************************************************************************)
(* The poller of one cloud workspace, src/cloud/engine.ts: it reads the      *)
(* transcript and the status of each session, forwards what is new, judges   *)
(* how the turn stands, and has failed or sleeping turns continued: once in  *)
(* the same session, then in a session of the next provider.  Beside it run  *)
(* the handler of the workspace's message rows, the owner, and the agents.   *)
(* How a submission is made and reconciled is module CloudTurn's subject.    *)
(***************************************************************************)
EXTENDS Naturals, Sequences, FiniteSets

CONSTANTS
  MaxSends,    \* messages of the owner
  Providers,   \* the length of the ladder of providers
  Page,        \* transcript rows a poll reads at a time (100 in the code)
  MaxFaults,   \* turns that fail
  MaxSleeps,   \* times Conductor puts the workspace to sleep
  Stops,       \* whether the owner may stop the workspace
  ErrorClears, \* whether Conductor drops a session's error once a message waits
  MaxTrouble   \* calls without an answer, and restarts of the gateway

\* What an instance assumes of its constants.
CloudPollAssumption ==
  /\ {MaxSends, Providers, Page} \subseteq Nat \ {0}
  /\ {MaxFaults, MaxSleeps, MaxTrouble} \subseteq Nat /\ {Stops, ErrorClears} \subseteq BOOLEAN

Sessions == 1..(1 + MaxFaults)
Ladder == 1..Providers

VARIABLES
  rows,     \* the message rows of the workspace, in order
  asked,    \* ids of the rows the poller queued: <<kind, session, turn>>
  episode,  \* the episode of each message id handed out: the turn it began with
  pc,       \* the handler of the first row: where it waits
  sess,     \* SessionState of each session, and its provider
  cursor,   \* the last transcript row forwarded of each session
  tried,    \* recovery-providers:<episode>, as pairs of an episode and a provider
  resumed,  \* recovery-resumed:<episode>
  notices,  \* cards and notices: <<kind, turn>>
  current,  \* binding.sessionId
  stop,     \* stop:<id>
  visit,    \* the poll: where it waits, and what it has read
  transcript, \* of each session: [turn, kind] in order
  work,     \* the turn each session works on, 0 when it rests
  waiting,  \* turns Conductor has queued behind it
  err,      \* a session's status "error", and why
  asleep,   \* the workspace sleeps
  outcome,  \* how turns ended for their agents: <<turn, how>>
  used      \* sends, faults, sleeps and trouble so far

handler == <<rows, asked, episode, pc>>
store == <<sess, cursor, tried, resumed, notices, current, stop>>
agents == <<transcript, work, waiting, err, asleep, outcome>>
vars == <<rows, asked, episode, pc, sess, cursor, tried, resumed, notices, current, stop, visit,
          transcript, work, waiting, err, asleep, outcome, used>>

NoState == [provider |-> 0, sent |-> 0, terminal |-> FALSE, stopped |-> FALSE, seenReply |-> FALSE,
            seenWorking |-> FALSE, edge |-> FALSE, continued |-> FALSE,
            completed |-> FALSE, failure |-> "none"]
NoVisit == [at |-> "rest", session |-> 0, upto |-> 0, full |-> FALSE, dormant |-> FALSE,
            sent |-> 0, detail |-> "none"]
Rest == [at |-> "rest", working |-> FALSE]

Init ==
  /\ rows = << >> /\ asked = {} /\ episode = << >> /\ pc = Rest
  /\ sess = [s \in Sessions |-> IF s = 1 THEN [NoState EXCEPT !.provider = 1] ELSE NoState]
  /\ cursor = [s \in Sessions |-> 0]
  /\ tried = {} /\ resumed = {} /\ notices = {}
  /\ current = 1 /\ stop = FALSE
  /\ visit = NoVisit
  /\ transcript = [s \in Sessions |-> << >>]
  /\ work = [s \in Sessions |-> 0] /\ waiting = [s \in Sessions |-> << >>]
  /\ err = [s \in Sessions |-> "none"] /\ asleep = FALSE
  /\ outcome = {}
  /\ used = [sends |-> 0, faults |-> 0, sleeps |-> 0, trouble |-> 0]

Trouble == used.trouble < MaxTrouble /\ used' = [used EXCEPT !.trouble = @ + 1]

Made(s) == sess[s].provider # 0
Status(s) ==
  IF err[s] # "none" /\ ~(ErrorClears /\ waiting[s] # << >>) THEN "error"
  ELSE IF work[s] # 0 THEN "working" ELSE "idle"
WaitingIn(s) == {waiting[s][i] : i \in DOMAIN waiting[s]}
Busy(s) == WaitingIn(s) \cup ({work[s]} \ {0})
PromptsIn(s) == {transcript[s][i].turn : i \in DOMAIN transcript[s]}

-----------------------------------------------------------------------------
(* The owner, and the handler of the rows. *)

\* Rows still without an id: a message to session s, 0 for the current one, and
\* the replacement of a session whose turn n failed by one of provider p.
Send(s, recovery) ==
  [turn |-> 0, type |-> "send", session |-> s, recovery |-> recovery, prev |-> 0, prevTurn |-> 0,
   provider |-> 0]
Replacement(s, n, p) ==
  [turn |-> 0, type |-> "thread", session |-> 0, recovery |-> TRUE, prev |-> s, prevTurn |-> n,
   provider |-> p]

\* A row and its message id; ep = 0 begins an episode of its own.
Queue(row, ep) ==
  LET n == Len(episode) + 1 IN
    /\ rows' = Append(rows, [row EXCEPT !.turn = n])
    /\ episode' = Append(episode, IF ep = 0 THEN n ELSE ep)

\* A message to the workspace, or a reply into one of its sessions.
OwnerSends(s) ==
  /\ used.sends < MaxSends /\ ~stop
  /\ s # 0 => Made(s)
  /\ used' = [used EXCEPT !.sends = @ + 1]
  /\ Queue(Send(s, FALSE), 0)
  /\ UNCHANGED <<asked, pc, store, visit, agents>>

OwnerStops ==
  /\ Stops /\ ~stop
  /\ stop' = TRUE
  /\ UNCHANGED <<handler, sess, cursor, tried, resumed, notices, current, visit, agents, used>>

Over(old) == [old EXCEPT !.terminal = TRUE]

\* The stop row cancels each session and marks it.
StopCancels(s) ==
  /\ stop /\ Made(s) /\ ~sess[s].stopped
  /\ work' = [work EXCEPT ![s] = 0]
  /\ waiting' = [waiting EXCEPT ![s] = << >>]
  /\ sess' = [sess EXCEPT ![s] = [Over(sess[s]) EXCEPT !.stopped = TRUE]]
  /\ UNCHANGED <<handler, cursor, tried, resumed, notices, current, stop, visit,
                 transcript, err, asleep, outcome, used>>

Row == rows[1]
RowDone == rows' = Tail(rows) /\ pc' = Rest
Goes(p, s, working) == pc' = [at |-> p, working |-> working] /\ rows' = [rows EXCEPT ![1].session = s]

\* A replacement needs a predecessor that is still failed, on the same turn.
StillFailed ==
  /\ sess[Row.prev].sent = Row.prevTurn
  /\ Status(Row.prev) = "error" \/ (Status(Row.prev) = "idle" /\ sess[Row.prev].failure # "none")

\* A message goes to its session, which is written into the row; a replacement
\* makes one, once, which becomes the workspace's thread.
RowStarts ==
  /\ rows # << >> /\ pc.at = "rest"
  /\ \/ /\ stop \/ (Row.type = "thread" /\ ~StillFailed)
        /\ RowDone /\ UNCHANGED <<sess, current>>
     \/ /\ ~stop /\ (Row.session # 0 \/ Row.type = "send")
        /\ Row.type = "thread" => StillFailed
        /\ LET s == IF Row.session = 0 THEN current ELSE Row.session IN Goes("post", s, Status(s) = "working")
        /\ UNCHANGED <<sess, current>>
     \/ /\ ~stop /\ Row.session = 0 /\ Row.type = "thread" /\ StillFailed
        /\ \E s \in Sessions :
             /\ ~Made(s) /\ \A r \in 1..(s - 1) : Made(r)
             /\ sess' = [sess EXCEPT ![s].provider = Row.provider]
             /\ current' = s
             /\ Goes("post", s, FALSE)
  /\ UNCHANGED <<asked, episode, cursor, tried, resumed, notices, stop, visit, agents, used>>

\* Conductor takes the message, unless it has it from before a restart.
RowPosts ==
  /\ pc.at = "post"
  /\ \/ /\ stop /\ RowDone /\ UNCHANGED waiting
     \/ /\ ~stop /\ UNCHANGED rows
        /\ pc' = [pc EXCEPT !.at = "record"]
        /\ waiting' = IF Row.turn \in PromptsIn(Row.session) \cup Busy(Row.session) THEN waiting
                      ELSE [waiting EXCEPT ![Row.session] = Append(@, Row.turn)]
  /\ UNCHANGED <<asked, episode, store, visit, transcript, work, err, asleep, outcome, used>>

\* Mutant: what was seen of the turn before is kept for the next.
SubmittedOver(s, old) == [old EXCEPT !.sent = Row.turn, !.terminal = FALSE, !.continued = FALSE]

\* The state of a session with a new turn.
Submitted(s, old) ==
  LET edge == pc.working \/ (old.sent # 0 /\ (~old.terminal \/ work[s] # Row.turn))
  IN  [[[NoState EXCEPT !.provider = old.provider] EXCEPT !.sent = Row.turn] EXCEPT !.edge = edge]

\* The submission is recorded, or cancelled when a stop came in meanwhile.
RowRecords ==
  /\ pc.at = "record"
  /\ RowDone
  /\ LET s == Row.session
         ep == episode[Row.turn]
     IN \/ /\ stop
           /\ work' = [work EXCEPT ![s] = 0] /\ waiting' = [waiting EXCEPT ![s] = << >>]
           /\ UNCHANGED <<sess, tried, resumed>>
        \/ /\ ~stop
           /\ sess' = [sess EXCEPT ![s] = Submitted(s, sess[s])]
           /\ tried' = (IF Row.recovery THEN tried ELSE {t \in tried : t[1] # ep}) \cup {<<ep, sess[s].provider>>}
           /\ resumed' = IF Row.recovery THEN resumed ELSE resumed \ {ep}
           /\ UNCHANGED <<work, waiting>>
  /\ UNCHANGED <<asked, episode, cursor, notices, current, stop, visit, transcript, err, asleep, outcome, used>>

\* A call fails, or the gateway restarts: the row starts over.
RowBreaks ==
  /\ pc.at # "rest"
  /\ Trouble
  /\ pc' = Rest
  /\ UNCHANGED <<rows, asked, episode, store, visit, agents>>

-----------------------------------------------------------------------------
(* The poll of a session. *)

VisitStarts(s) ==
  /\ visit.at = "rest" /\ Made(s)
  /\ visit' = [[[NoVisit EXCEPT !.at = "list"] EXCEPT !.session = s] EXCEPT !.dormant = asleep]
  /\ UNCHANGED <<handler, store, agents, used>>

Lesser(a, b) == IF a <= b THEN a ELSE b

VisitLists ==
  /\ visit.at = "list"
  /\ LET s == visit.session
         upto == Lesser(Len(transcript[s]), cursor[s] + Page)
         full == upto = cursor[s] + Page
     IN visit' = [[[visit EXCEPT !.at = "status"] EXCEPT !.upto = upto] EXCEPT !.full = full]
  /\ UNCHANGED <<handler, store, agents, used>>

\* The turn's own rows among what was read.
Own(s) ==
  {transcript[s][i].kind : i \in {j \in (cursor[s] + 1)..visit.upto : transcript[s][j].turn = sess[s].sent}}

\* What the session's state becomes by the rows and the status that were read.
Observed(s) ==
  LET old == sess[s]
      own == IF old.sent = 0 THEN {} ELSE Own(s)
      failed == own \cap {"interrupted", "spent", "other"}
      read == [[old EXCEPT !.seenReply = @ \/ "text" \in own] EXCEPT !.completed = @ \/ "completed" \in own]
      seen == [[read EXCEPT !.seenWorking = @ \/ (Status(s) = "working" /\ ~old.edge)]
                 EXCEPT !.edge = @ /\ Status(s) = "working"]
  IN IF failed = {} THEN seen ELSE [seen EXCEPT !.failure = CHOOSE f \in failed : TRUE]

Judged(s) == sess[s].sent # 0 /\ ~sess[s].terminal /\ ~sess[s].stopped /\ ~stop

Completes(s, new) ==
  /\ Status(s) = "idle" /\ new.failure = "none" /\ ~visit.full
  /\ new.seenReply /\ (visit.dormant => new.completed)

\* Mutant: only the status of the session tells a failure.
FailingByStatus(s, new) == Status(s) = "error"

Failing(s, new) == Status(s) = "error" \/ (Status(s) = "idle" /\ new.failure # "none" /\ ~visit.full)

\* A turn nobody works on in a sleeping workspace, which ran, or waited too long.
Slept(s, new, late) ==
  /\ Status(s) = "idle" /\ new.failure = "none" /\ visit.dormant /\ ~visit.full /\ ~new.continued
  /\ new.seenWorking \/ new.seenReply \/ late

Wakes(id) == id \notin asked

\* Every visit forwards what it read and writes the session's state.
Applies(s, new) ==
  /\ visit.at = "status" /\ visit.session = s
  /\ cursor' = [cursor EXCEPT ![s] = visit.upto]
  /\ UNCHANGED <<pc, tried, resumed, current, stop, agents, used>>

VisitApplies ==
  \E s \in Sessions :
    LET new == Observed(s)
        n == sess[s].sent
        detail == IF new.failure # "none" THEN new.failure ELSE err[s]
    IN /\ Applies(s, new)
       /\ UNCHANGED <<rows, asked, episode>>
       /\ \/ /\ ~Judged(s) \/ (~Completes(s, new) /\ ~Failing(s, new) /\ ~Slept(s, new, FALSE))
             /\ sess' = [sess EXCEPT ![s] = new] /\ visit' = NoVisit /\ UNCHANGED notices
          \/ /\ Judged(s) /\ Completes(s, new)
             /\ sess' = [sess EXCEPT ![s] = [new EXCEPT !.terminal = TRUE]]
             /\ notices' = notices \cup {<<"complete", n>>} /\ visit' = NoVisit
          \/ /\ Judged(s) /\ Failing(s, new)
             /\ sess' = [sess EXCEPT ![s] = new]
             /\ \/ detail = "other" /\ notices' = notices \cup {<<"error", n>>} /\ visit' = NoVisit
                \/ detail # "other" /\ new.continued /\ visit' = NoVisit /\ UNCHANGED notices
                \/ /\ detail # "other" /\ ~new.continued /\ UNCHANGED notices
                   /\ visit' = [[[visit EXCEPT !.at = "confirm"] EXCEPT !.sent = n] EXCEPT !.detail = detail]

VisitWakes(s) ==
  LET new == Observed(s)
      n == sess[s].sent
      wake == <<"wake", s, IF n = 0 THEN 0 ELSE episode[n]>>
  IN /\ Applies(s, new)
     /\ Judged(s) /\ ~Completes(s, new) /\ \E late \in BOOLEAN : Slept(s, new, late)
     /\ visit' = NoVisit
     /\ \/ /\ Wakes(wake)
           /\ asked' = asked \cup {wake}
           /\ sess' = [sess EXCEPT ![s] = [new EXCEPT !.continued = TRUE]]
           /\ Queue(Send(s, TRUE), episode[n])
           /\ UNCHANGED notices
        \/ /\ ~Wakes(wake)
           /\ sess' = [sess EXCEPT ![s] = new]
           /\ notices' = notices \cup {<<"attention", n>>}
           /\ UNCHANGED <<rows, asked, episode>>

\* Mutant: a stop that arrives between two reads is not looked for.
CurrentTurnUnstopped(s) == sess[s].sent = visit.sent

\* After each await: still the turn that was read, and not stopped.
CurrentTurn(s) == sess[s].sent = visit.sent /\ ~sess[s].stopped /\ ~stop

\* The providers that were tried in an episode.
Tried(ep) == {p \in Ladder : <<ep, p>> \in tried}

\* recover: a second status read, then a continuation in the same session, once
\* an episode, or the next provider nobody tried in it.
VisitConfirms ==
  /\ visit.at = "confirm"
  /\ LET s == visit.session
         failed == Status(s) = "error" \/ (Status(s) = "idle" /\ sess[s].failure # "none")
         ep == episode[visit.sent]
         resume == visit.detail = "interrupted" /\ ep \notin resumed
         continued == [sess EXCEPT ![s].continued = TRUE]
     IN \/ /\ ~failed \/ ~CurrentTurn(s)
           /\ visit' = NoVisit
           /\ UNCHANGED <<rows, episode, sess, resumed, notices>>
        \/ /\ failed /\ CurrentTurn(s) /\ resume
           /\ resumed' = resumed \cup {ep}
           /\ sess' = continued
           /\ Queue(Send(s, TRUE), ep)
           /\ visit' = NoVisit /\ UNCHANGED notices
        \/ /\ failed /\ CurrentTurn(s) /\ ~resume /\ Tried(ep) = Ladder
           /\ notices' = notices \cup {<<"blocked", visit.sent>>}
           /\ sess' = continued
           /\ visit' = NoVisit /\ UNCHANGED <<rows, episode, resumed>>
        \/ /\ failed /\ CurrentTurn(s) /\ ~resume /\ Tried(ep) # Ladder
           /\ visit' = [visit EXCEPT !.at = "tail"]
           /\ UNCHANGED <<rows, episode, sess, resumed, notices>>
  /\ UNCHANGED <<asked, pc, cursor, tried, current, stop, agents, used>>

\* Once the context of the failed session is read, its replacement is queued.
VisitReplaces ==
  /\ visit.at = "tail"
  /\ visit' = NoVisit
  /\ LET s == visit.session
         ep == episode[visit.sent]
     IN \/ /\ CurrentTurn(s)
           /\ sess' = [sess EXCEPT ![s] = [Over(sess[s]) EXCEPT !.continued = TRUE]]
           /\ \E next \in Ladder \ Tried(ep) :
                /\ \A q \in Ladder \ Tried(ep) : next <= q
                /\ tried' = tried \cup {<<ep, next>>}
                /\ Queue(Replacement(s, visit.sent, next), ep)
        \/ ~CurrentTurn(s) /\ UNCHANGED <<tried, sess, rows, episode>>
  /\ UNCHANGED <<asked, pc, cursor, resumed, notices, current, stop, agents, used>>

\* A read fails, or the gateway restarts: the session is polled again later.
VisitBreaks ==
  /\ visit.at # "rest"
  /\ Trouble
  /\ visit' = NoVisit
  /\ UNCHANGED <<handler, store, agents>>

-----------------------------------------------------------------------------
(* Conductor and its agents. *)

AgentTakes(s) ==
  /\ ~asleep /\ work[s] = 0 /\ waiting[s] # << >>
  /\ work' = [work EXCEPT ![s] = waiting[s][1]]
  /\ waiting' = [waiting EXCEPT ![s] = Tail(@)]
  /\ transcript' = [transcript EXCEPT ![s] = Append(@, [turn |-> waiting[s][1], kind |-> "prompt"])]
  /\ err' = [err EXCEPT ![s] = "none"]
  /\ UNCHANGED <<handler, store, visit, asleep, outcome, used>>

Ends(s, how) ==
  /\ work' = [work EXCEPT ![s] = 0]
  /\ outcome' = outcome \cup {<<work[s], how>>}

AgentSpeaks(s) ==
  /\ work[s] # 0
  /\ ~\E i \in DOMAIN transcript[s] : transcript[s][i] = [turn |-> work[s], kind |-> "text"]
  /\ transcript' = [transcript EXCEPT ![s] = Append(@, [turn |-> work[s], kind |-> "text"])]
  /\ UNCHANGED <<handler, store, visit, work, waiting, err, asleep, outcome, used>>

AgentFinishes(s) ==
  /\ work[s] # 0
  /\ Ends(s, "done")
  /\ transcript' = [transcript EXCEPT ![s] =
       @ \o << [turn |-> work[s], kind |-> "text"], [turn |-> work[s], kind |-> "completed"] >>]
  /\ UNCHANGED <<handler, store, visit, waiting, err, asleep, used>>

\* A failure is a row of the transcript, or the status of the session.
AgentFails(s, detail) ==
  /\ work[s] # 0
  /\ used.faults < MaxFaults /\ used' = [used EXCEPT !.faults = @ + 1]
  /\ Ends(s, "failed")
  /\ \/ /\ transcript' = [transcript EXCEPT ![s] = Append(@, [turn |-> work[s], kind |-> detail])]
        /\ UNCHANGED err
     \/ err' = [err EXCEPT ![s] = detail] /\ UNCHANGED transcript
  /\ UNCHANGED <<handler, store, visit, waiting, asleep>>

\* A sleeping workspace loses the turns it was at, and is woken by a message.
Sleeps ==
  /\ ~asleep
  /\ used.sleeps < MaxSleeps /\ used' = [used EXCEPT !.sleeps = @ + 1]
  /\ asleep' = TRUE
  /\ work' = [s \in Sessions |-> 0]
  /\ UNCHANGED <<handler, store, visit, transcript, waiting, err, outcome>>

Woken ==
  /\ asleep /\ \E s \in Sessions : waiting[s] # << >>
  /\ asleep' = FALSE
  /\ UNCHANGED <<handler, store, visit, transcript, work, waiting, err, outcome, used>>

Handler == RowStarts \/ RowPosts \/ RowRecords
Visit == VisitLists \/ VisitApplies \/ VisitConfirms \/ VisitReplaces \/ \E s \in Sessions : VisitWakes(s)

Next ==
  \/ \E s \in {0} \cup Sessions : OwnerSends(s)
  \/ OwnerStops \/ Handler \/ RowBreaks \/ Visit \/ VisitBreaks \/ Sleeps \/ Woken
  \/ \E s \in Sessions :
       \/ StopCancels(s) \/ VisitStarts(s) \/ AgentTakes(s) \/ AgentSpeaks(s) \/ AgentFinishes(s)
       \/ \E detail \in {"interrupted", "spent", "other"} : AgentFails(s, detail)

\* The loops of the gateway visit every session and row; Conductor wakes for a
\* message and starts it, and a turn ends.
Fairness ==
  /\ WF_vars(Handler) /\ WF_vars(Visit) /\ WF_vars(Woken)
  /\ \A s \in Sessions :
       /\ SF_vars(VisitStarts(s)) /\ SF_vars(VisitWakes(s)) /\ WF_vars(StopCancels(s))
       /\ WF_vars(AgentTakes(s)) /\ WF_vars(AgentFinishes(s))

Spec == Init /\ [][Next]_vars
FairSpec == Spec /\ Fairness

-----------------------------------------------------------------------------
(* Properties. *)

\* Rows, sessions and notes speak of turns that were handed out and providers that exist.
TypeOK ==
  /\ \A n \in DOMAIN episode : episode[n] \in 1..n
  /\ \A i \in DOMAIN rows : rows[i].turn \in DOMAIN episode /\ rows[i].session \in Sessions \cup {0}
  /\ pc.at \in {"rest", "post", "record"}
  /\ \A s \in Sessions : /\ sess[s].provider \in Ladder \cup {0} /\ sess[s].sent \in DOMAIN episode \cup {0}
                         /\ cursor[s] <= Len(transcript[s])
                         /\ Busy(s) \subseteq DOMAIN episode
  /\ tried \subseteq (DOMAIN episode) \X Ladder
  /\ resumed \subseteq DOMAIN episode /\ current \in Sessions
  /\ visit.at \in {"rest", "list", "status", "confirm", "tail"}

\* No two sessions ever work on one episode: a task is continued in one place,
\* whatever the owner sent meanwhile and whatever the poller had read.
OneContinues ==
  \A s, t \in Sessions :
    s # t /\ work[s] # 0 /\ work[t] # 0 => episode[work[s]] # episode[work[t]]

\* Nothing is continued after the owner's stop, whatever the poller had read.
LeavesStopped == stop => Len(episode') = Len(episode)
StoppedIsLeft == [][LeavesStopped]_vars

\* What a poll forwarded of the turn before its submission was recorded.
Missed(s) ==
  LET read == {transcript[s][i].kind : i \in {j \in 1..cursor[s] : transcript[s][j].turn = sess[s].sent}}
  IN \/ "text" \in read /\ ~sess[s].seenReply
     \/ read \cap {"interrupted", "spent", "other"} # {} /\ sess[s].failure = "none"

Settled(s) ==
  \/ sess[s].sent = 0 \/ sess[s].terminal
  \/ \E kind \in {"error", "blocked", "attention"} : <<kind, sess[s].sent>> \in notices

\* Every recorded turn comes to an end the owner is told of, or the owner stops
\* it, unless its output was read before its submission was recorded.
AllSettled == stop \/ \A s \in Sessions : Settled(s) \/ Missed(s)
TurnsSettle == <>[]AllSettled

\* Without the exception: "A successful result completes once the session is
\* idle"; what was read too early is credited to no turn.
OutputIsCredited == <>[](stop \/ \A s \in Sessions : Settled(s))

\* A session is replaced only for a turn that failed, or was put to sleep: "an
\* older failed turn cannot replace a newly submitted turn".
ReplacesFailed == \A s \in Sessions : ~Made(s) /\ Made(s)' => <<Row.prevTurn, "failed">> \in outcome
OnlyFailedReplaced == [][ReplacesFailed]_vars

\* A turn's card says it finished only if its agent finished it.
FinishedIsTrue == \A n \in DOMAIN episode : <<"complete", n>> \in notices => <<n, "failed">> \notin outcome
=============================================================================
