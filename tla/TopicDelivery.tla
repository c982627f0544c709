---------------------------- MODULE TopicDelivery ----------------------------
(***************************************************************************)
(* How the native gateway's messages reach Telegram topics: the paced      *)
(* single sender of src/cloud/telegram.ts, the rows engine.ts queues for   *)
(* it when a workspace asks for its topic, speaks, updates its status card *)
(* or is retired, and Telegram itself, whose topics and messages the owner *)
(* closes and deletes.  Works and topics are numbered in the order they    *)
(* come into being; 0 is "none", or the General topic of the group.        *)
(***************************************************************************)
EXTENDS Naturals, Sequences, FiniteSets

CONSTANTS
  MaxWorks,    \* workspaces the owner starts
  MaxTopics,   \* topics Telegram opens
  MaxNotes,    \* messages the workspaces send beside their first one
  MaxEdits,    \* updates of their status cards
  MaxTries,    \* claims of a row after which a refused topic blocks it (5 in the code)
  MaxTouches,  \* topics the owner closes or deletes
  MaxLost,     \* Telegram answers lost, restarts of the gateway included
  Deletes      \* whether the owner deletes topics, or only closes them

\* What an instance assumes of its constants.
DeliveryAssumption ==
  /\ {MaxWorks, MaxTopics} \subseteq Nat \ {0}
  /\ {MaxNotes, MaxEdits, MaxTries, MaxTouches, MaxLost} \subseteq Nat
  /\ Deletes \in BOOLEAN

Works == 1..MaxWorks
Topics == 1..MaxTopics

VARIABLES
  \* The gateway's durable state.
  rows,       \* the delivery rows of gateway_queue, in rowid order
  thread,     \* telegram_thread_id of each work's record
  life,       \* "unborn", "live" or "retired" (archived_at)
  required,   \* topic-required:<work>
  link,       \* created-link:<work>, held until there is a place to say it
  replaced,   \* telegram-replacement:<card>, the message that took a card's place
  \* The sender.
  call,       \* the Telegram request in flight, or Idle
  \* Telegram.
  topic,      \* what became of each topic
  messages,   \* the messages that landed, in order
  \* What happened, for the properties and the bounds.
  known,      \* the topics whose creation was answered, for each work
  used        \* how much of each bound is spent

gateway == <<rows, thread, life, required, link, replaced>>
vars == <<rows, thread, life, required, link, replaced, call, topic, messages,
          known, used>>

Idle == [row |-> 0]

Init ==
  /\ rows = << >>
  /\ thread = [w \in Works |-> 0]
  /\ life = [w \in Works |-> "unborn"]
  /\ required = [w \in Works |-> FALSE]
  /\ link = [w \in Works |-> FALSE]
  /\ replaced = [w \in Works |-> 0]
  /\ call = Idle
  /\ topic = [t \in Topics |-> "none"]
  /\ messages = << >>
  /\ known = [w \in Works |-> {}]
  /\ used = [notes |-> 0, edits |-> 0, touches |-> 0, lost |-> 0]

-----------------------------------------------------------------------------
(* The queue. *)

\* A delivery row.  "for" is the workspaceId a job is targeted at, "about" the
\* work an untargeted one is about; an edit carries the text of its card's
\* state, and "card" is the work whose card it edits or replaces.
Row(id, op, for, about, at, lane) ==
  [id |-> id, op |-> op, for |-> for, about |-> about, at |-> at, lane |-> lane,
   state |-> "pending", tries |-> 0, card |-> 0, text |-> 0, msg |-> 0]

InState(r, s) == [r EXCEPT !.state = s]

\* INSERT OR IGNORE: an id that was ever used queues nothing.
Queued(rs, r) == IF \E i \in DOMAIN rs : rs[i].id = r.id THEN rs ELSE Append(rs, r)

\* The work a topic follows: the newest live one whose record names it.
Follower(t) ==
  LET here == {w \in Works : life[w] = "live" /\ thread[w] = t} IN
  IF t = 0 \/ here = {} THEN 0 ELSE CHOOSE w \in here : \A v \in here : v <= w

Opening(w) == required[w] /\ thread[w] = 0

\* A message lane, and the lanes of a topic's owner-facing cards and of its
\* own operations, each first in, first out.
Lane(t, kind) == <<t, kind>>

Note(w, id) == Row(id, "send", w, 0, thread[w], Lane(thread[w], "notes"))

RowOf(id) == CHOOSE i \in DOMAIN rows : rows[i].id = id
HasRow(id) == \E i \in DOMAIN rows : rows[i].id = id

-----------------------------------------------------------------------------
(* What the rest of the gateway asks of the sender. *)

\* The owner starts work w from General or from a topic, which then follows
\* it; the acknowledgement is the turn's status card.
Start(w, t) ==
  /\ life[w] = "unborn" /\ \A v \in Works : v < w => life[v] # "unborn"
  /\ t # 0 => topic[t] = "open"
  /\ life' = [life EXCEPT ![w] = "live"]
  /\ thread' = [thread EXCEPT ![w] = t]
  /\ link' = [link EXCEPT ![w] = TRUE]
  /\ rows' = Queued(rows, Row(<<"card", w>>, "send", 0, w, t, Lane(t, "control")))
  /\ UNCHANGED <<required, replaced, call, topic, messages, known, used>>

\* openTopic and announceCreated: a launch that sends, a poll that finds
\* something to say, the bridge and discovery all ask for the topic.
OpenTopic(w) ==
  /\ life[w] = "live"
  /\ thread[w] = 0 \/ link[w]
  /\ LET opened == IF thread[w] # 0 THEN rows
                   ELSE Queued(rows, Row(<<"create", w>>, "create", w, 0, 0, Lane(0, "topics")))
     IN rows' = IF link[w] THEN Queued(opened, Note(w, <<"created", w>>)) ELSE opened
  /\ required' = IF thread[w] = 0 THEN [required EXCEPT ![w] = TRUE] ELSE required
  /\ link' = [link EXCEPT ![w] = FALSE]
  /\ <<rows', required', link'>> # <<rows, required, link>>
  /\ UNCHANGED <<thread, life, replaced, call, topic, messages, known, used>>

Speak(w) ==
  /\ life[w] = "live" /\ used.notes < MaxNotes
  /\ used' = [used EXCEPT !.notes = @ + 1]
  /\ rows' = Queued(rows, Note(w, <<"note", used'.notes>>))
  /\ UNCHANGED <<thread, life, required, link, replaced, call, topic, messages, known>>

Supersede(rs, w) ==
  [i \in DOMAIN rs |-> IF rs[i].op = "edit" /\ rs[i].card = w /\ rs[i].state = "pending"
                       THEN InState(rs[i], "done") ELSE rs[i]]

\* Mutant: an edit waits in the lane of the topic its workspace lives in now.
EditLaneNow(w) == Lane(thread[w], "control")

EditLane(w) == rows[RowOf(<<"card", w>>)].lane

\* enqueueStatus: the edit waits in its card's own lane, and replaces an
\* undelivered older one.
Update(w) ==
  /\ life[w] = "live" /\ used.edits < MaxEdits
  /\ used' = [used EXCEPT !.edits = @ + 1]
  /\ LET n == used'.edits
         edit == [[Row(<<"edit", n>>, "edit", w, 0, 0, EditLane(w)) EXCEPT !.card = w] EXCEPT !.text = n]
     IN rows' = Queued(Supersede(rows, w), edit)
  /\ UNCHANGED <<thread, life, required, link, replaced, call, topic, messages, known>>

\* What retire does to the queue: a topic this gateway opened for the work, and
\* that nobody newer follows, is closed behind its own notices; one still
\* waiting to be opened is cancelled, with everything that waits for it.
Retired(w) ==
  IF ~HasRow(<<"create", w>>) THEN rows
  ELSE IF thread[w] # 0 THEN
    IF Follower(thread[w]) \notin {0, w} THEN rows
    ELSE Queued(rows, Row(<<"retire", w>>, "close", w, 0, thread[w], Lane(thread[w], "notes")))
  ELSE IF rows[RowOf(<<"create", w>>)].state = "pending" THEN
    [i \in DOMAIN rows |-> IF rows[i].for = w /\ rows[i].state = "pending"
                           THEN InState(rows[i], "done") ELSE rows[i]]
  ELSE rows

Retire(w) ==
  /\ life[w] = "live"
  /\ life' = [life EXCEPT ![w] = "retired"]
  /\ required' = [required EXCEPT ![w] = FALSE]
  /\ link' = [link EXCEPT ![w] = FALSE]
  /\ rows' = Retired(w)
  /\ UNCHANGED <<thread, replaced, call, topic, messages, known, used>>

-----------------------------------------------------------------------------
(* One tick of the sender, from the claim to the Telegram call. *)

Foremost(i) ==
  /\ rows[i].state = "pending"
  /\ \A j \in 1..(i - 1) : rows[j].lane = rows[i].lane => rows[j].state \notin {"pending", "running"}

Finished(i) == [rows EXCEPT ![i] = InState(rows[i], "done")]
Tried(n) == IF n > MaxTries THEN n ELSE n + 1

\* fallback: the row becomes a message with the text of the edit.
AsMessage(r, t) == [[InState(r, "pending") EXCEPT !.op = "send"] EXCEPT !.at = t]

\* The message a card's edits now change: its replacement, or what its own
\* delivery answered.
Anchor(w) ==
  IF replaced[w] # 0 THEN replaced[w] ELSE rows[RowOf(<<"card", w>>)].msg

\* A job with its own thread is refused when newer work follows the thread, and
\* a topic operation of retired work unless it closes the topic.
Adopted(r, t) == t # 0 /\ Follower(t) \notin {0, r.for}

\* Mutant: only the thread a job was queued with is checked, not the one its
\* workspace lives in now.
SuppressedAsQueued(r) ==
  /\ r.for # 0 /\ r.op # "edit"
  /\ \/ Adopted(r, r.at)
     \/ r.op = "send" /\ life[r.for] = "retired"
     \/ r.op = "reopen" /\ life[r.for] = "retired"

Suppressed(r) ==
  /\ r.for # 0 /\ r.op # "edit"
  /\ \/ Adopted(r, r.at)
     \/ r.op \in {"send", "reopen"} /\ life[r.for] = "retired"
     \/ r.op = "send" /\ Adopted(r, thread[r.for])

\* Mutant: a message waits as long as its workspace has asked for a topic,
\* whether or not the topic has opened.
WaitsStill(r) == r.op = "send" /\ r.for # 0 /\ required[r.for]

Waits(r) == r.op = "send" /\ r.for # 0 /\ Opening(r.for)

\* Where a message goes: the topic its workspace lives in now.
Thread(r) == IF r.op = "send" /\ r.for # 0 /\ thread[r.for] # 0 THEN thread[r.for] ELSE r.at

Request(i) ==
  LET r == rows[i] IN
  [row |-> i, op |-> r.op, at |-> Thread(r), msg |-> IF r.op = "edit" THEN Anchor(r.card) ELSE 0,
   answer |-> "none", made |-> 0]

Tick(i) ==
  /\ call = Idle /\ Foremost(i)
  /\ LET r == [rows[i] EXCEPT !.tries = Tried(@)] IN
     \/ /\ r.op = "edit" /\ Anchor(r.card) = 0
        /\ rows' = [rows EXCEPT ![i] = AsMessage(r, 0)]
        /\ UNCHANGED call
     \/ /\ r.op = "edit" => Anchor(r.card) # 0
        /\ Suppressed(r)
        /\ rows' = Finished(i)
        /\ UNCHANGED call
     \/ /\ ~Suppressed(r) /\ Waits(r)
        /\ rows' = [rows EXCEPT ![i] = r]
        /\ UNCHANGED call
     \/ /\ r.op = "edit" => Anchor(r.card) # 0
        /\ ~Suppressed(r) /\ ~Waits(r)
        /\ rows' = [rows EXCEPT ![i] = InState(r, "running")]
        /\ call' = Request(i)
  /\ UNCHANGED <<thread, life, required, link, replaced, topic, messages, known, used>>

-----------------------------------------------------------------------------
(* Telegram takes the request. *)

Answer(a, made) == call' = [[call EXCEPT !.answer = a] EXCEPT !.made = made]

Waiting == call # Idle /\ call.answer = "none"

TakeCreate ==
  /\ Waiting /\ call.op = "create"
  /\ \E t \in Topics :
       /\ topic[t] = "none" /\ \A s \in 1..(t - 1) : topic[s] # "none"
       /\ topic' = [topic EXCEPT ![t] = "open"]
       /\ Answer("ok", t)
  /\ UNCHANGED <<gateway, messages, known, used>>

TakeTopicChange ==
  /\ Waiting /\ call.op \in {"reopen", "close"}
  /\ LET wanted == IF call.op = "close" THEN "closed" ELSE "open" IN
     \/ /\ topic[call.at] = "deleted"
        /\ Answer("missing", 0) /\ UNCHANGED topic
     \/ /\ topic[call.at] = wanted
        /\ Answer("unchanged", 0) /\ UNCHANGED topic
     \/ /\ topic[call.at] \notin {wanted, "deleted"}
        /\ topic' = [topic EXCEPT ![call.at] = wanted]
        /\ Answer("ok", 0)
  /\ UNCHANGED <<gateway, messages, known, used>>

TakeSend ==
  /\ Waiting /\ call.op = "send"
  /\ LET r == rows[call.row] IN
     \/ /\ call.at # 0 /\ topic[call.at] = "deleted"
        /\ Answer("missing", 0) /\ UNCHANGED messages
     \/ /\ call.at # 0 /\ topic[call.at] = "closed"
        /\ Answer("closed", 0) /\ UNCHANGED messages
     \/ /\ call.at # 0 => topic[call.at] = "open"
        /\ messages' = Append(messages, [at |-> call.at, for |-> r.for, text |-> r.text])
        /\ Answer("ok", Len(messages'))
  /\ UNCHANGED <<gateway, topic, known, used>>

TakeEdit ==
  /\ Waiting /\ call.op = "edit"
  /\ LET m == messages[call.msg]
         text == rows[call.row].text
     IN \/ /\ m.at # 0 /\ topic[m.at] = "deleted"
           /\ Answer("refused", 0) /\ UNCHANGED messages
        \/ /\ m.at # 0 => topic[m.at] # "deleted"
           /\ m.text = text
           /\ Answer("unchanged", 0) /\ UNCHANGED messages
        \/ /\ m.at # 0 => topic[m.at] # "deleted"
           /\ m.text # text
           /\ messages' = [messages EXCEPT ![call.msg] = [m EXCEPT !.text = text]]
           /\ Answer("ok", call.msg)
  /\ UNCHANGED <<gateway, topic, known, used>>

\* The request or its answer is lost: a timeout, a reset connection, a 429.
Lose ==
  /\ call # Idle /\ used.lost < MaxLost
  /\ used' = [used EXCEPT !.lost = @ + 1]
  /\ rows' = [rows EXCEPT ![call.row] = InState(rows[call.row], "pending")]
  /\ call' = Idle
  /\ UNCHANGED <<thread, life, required, link, replaced, topic, messages, known>>

-----------------------------------------------------------------------------
(* The answer, in one transaction with the receipts. *)

Settle == call # Idle /\ call.answer # "none" /\ call' = Idle

\* Mutant: a topic opened for work retired meanwhile is left open.
CreatedForgetful(w, t) == Finished(call.row)

\* The work can be retired while its topic is being opened: the delivery that
\* completes the creation closes what nobody will use.
Created(w, t) ==
  IF life[w] # "retired" THEN Finished(call.row)
  ELSE Queued(Finished(call.row), Row(<<"retire", w>>, "close", w, 0, t, Lane(t, "topics")))

Delivered(r, m) == [InState(r, "done") EXCEPT !.msg = m]

AnswerOk ==
  /\ Settle /\ call.answer = "ok"
  /\ LET r == rows[call.row] IN
     \/ /\ call.op = "create"
        /\ thread' = [thread EXCEPT ![r.for] = call.made]
        /\ known' = [known EXCEPT ![r.for] = @ \cup {call.made}]
        /\ rows' = Created(r.for, call.made)
        /\ UNCHANGED replaced
     \/ /\ call.op = "send"
        /\ rows' = [rows EXCEPT ![call.row] = Delivered(r, call.made)]
        /\ replaced' = IF r.card = 0 THEN replaced ELSE [replaced EXCEPT ![r.card] = call.made]
        /\ UNCHANGED <<thread, known>>
     \/ /\ call.op \notin {"create", "send"}
        /\ rows' = Finished(call.row)
        /\ UNCHANGED <<thread, known, replaced>>
  /\ UNCHANGED <<life, required, link, topic, messages, used>>

AnswerUnchanged ==
  /\ Settle /\ call.answer = "unchanged"
  /\ rows' = Finished(call.row)
  /\ UNCHANGED <<thread, life, required, link, replaced, topic, messages, known, used>>

\* A card that cannot be edited still reports its state, as a message.
AnswerRefused ==
  /\ Settle /\ call.answer = "refused"
  /\ rows' = [rows EXCEPT ![call.row] = AsMessage(rows[call.row], 0)]
  /\ UNCHANGED <<thread, life, required, link, replaced, topic, messages, known, used>>

Recovery(i, answer) ==
  LET w == rows[i].for IN
  IF answer = "closed"
  THEN Row(<<"recover", i>>, "reopen", w, 0, thread[w], Lane(thread[w], "topics"))
  ELSE Row(<<"recover", i>>, "create", w, 0, 0, Lane(0, "topics"))

\* The topic is closed or gone: live work gets it back through a topic operation
\* of its own, an answer about retired work falls back to General, and retired
\* work's own late messages are dropped.
AnswerTopicGone ==
  /\ Settle /\ call.answer \in {"closed", "missing"}
  /\ LET i == call.row
         r == rows[i]
     IN \/ /\ r.for # 0 /\ life[r.for] = "live"
           /\ rows' = Queued([rows EXCEPT ![i] = InState(r, IF r.tries > MaxTries THEN "blocked" ELSE "pending")],
                             Recovery(i, call.answer))
        \/ /\ r.for = 0 /\ r.op = "send"
           /\ rows' = [rows EXCEPT ![i] = AsMessage(r, 0)]
        \/ /\ r.for # 0 /\ life[r.for] # "live"
           /\ rows' = Finished(i)
  /\ UNCHANGED <<thread, life, required, link, replaced, topic, messages, known, used>>

-----------------------------------------------------------------------------
(* The owner's own hand on the topics. *)

Touch(t) ==
  /\ used.touches < MaxTouches
  /\ used' = [used EXCEPT !.touches = @ + 1]
  /\ \/ topic[t] = "open" /\ topic' = [topic EXCEPT ![t] = "closed"]
     \/ /\ Deletes /\ topic[t] \in {"open", "closed"}
        /\ topic' = [topic EXCEPT ![t] = "deleted"]
  /\ UNCHANGED <<gateway, call, messages, known>>

AnyTick == \E i \in DOMAIN rows : Tick(i)
Next ==
  \/ \E w \in Works : \/ \E t \in Topics \cup {0} : Start(w, t)
                      \/ OpenTopic(w) \/ Speak(w) \/ Update(w) \/ Retire(w)
  \/ AnyTick
  \/ TakeCreate \/ TakeTopicChange \/ TakeSend \/ TakeEdit \/ Lose
  \/ AnswerOk \/ AnswerUnchanged \/ AnswerRefused \/ AnswerTopicGone
  \/ \E t \in Topics : Touch(t)

\* The sender runs a few times a second; Telegram answers, or the call times out.
Fairness ==
  /\ WF_vars(AnyTick)
  /\ WF_vars(TakeCreate \/ TakeTopicChange \/ TakeSend \/ TakeEdit)
  /\ WF_vars(AnswerOk \/ AnswerUnchanged \/ AnswerRefused \/ AnswerTopicGone)

Spec == Init /\ [][Next]_vars
FairSpec == Spec /\ Fairness

-----------------------------------------------------------------------------
(* Properties. *)

RowType ==
  [id : {"card", "create", "created", "note", "edit", "retire", "recover"} \X Nat,
   op : {"send", "edit", "create", "reopen", "close"},
   for : Works \cup {0}, about : Works \cup {0}, at : Topics \cup {0},
   lane : (Topics \cup {0}) \X {"notes", "control", "topics"},
   state : {"pending", "running", "done", "blocked"}, tries : 0..(MaxTries + 1),
   card : Works \cup {0}, text : 0..MaxEdits, msg : Nat]

TypeOK ==
  /\ \A i \in DOMAIN rows : rows[i] \in RowType
  /\ thread \in [Works -> Topics \cup {0}]
  /\ life \in [Works -> {"unborn", "live", "retired"}]
  /\ {required, link} \subseteq [Works -> BOOLEAN]
  /\ replaced \in [Works -> 0..Len(messages)]
  /\ topic \in [Topics -> {"none", "open", "closed", "deleted"}]
  /\ known \in [Works -> SUBSET Topics]
  /\ \A i \in DOMAIN rows : rows[i].state = "running" <=> (call # Idle /\ call.row = i)

\* Once newer work that lives in a topic has spoken there, no message of the work
\* that lived there before lands behind it, whatever was queued, retried or being
\* opened when the topic changed hands (telegram.ts, "Topic was adopted by newer
\* work").
SpeaksInTurn ==
  Len(messages') > Len(messages) =>
    LET m == messages'[Len(messages')] IN
    m.for # 0 /\ m.at # 0 =>
      ~\E i \in DOMAIN messages :
         /\ messages[i].at = m.at /\ messages[i].for > m.for
         /\ life[messages[i].for] = "live"
NewestSpeaks == [][SpeaksInTurn]_vars

Done(i) == rows[i].state \in {"done", "blocked"}

\* Every row is delivered, dropped for a reason or blocked: nothing waits for
\* ever behind a topic that does not open (engine.ts retire, "rows left waiting
\* for it would hold their delivery lane forever").
AllDone == \A i \in DOMAIN rows : Done(i)
NothingWaits == <>[]AllDone

\* What becomes of a retired work's topics: closed or gone, unless newer work
\* lives there.
PutAway(w, t) ==
  topic[t] \in {"closed", "deleted"} \/ \E v \in Works : v > w /\ thread[v] = t

\* Every topic the gateway knows it opened for a work is closed after the work is
\* retired, the one whose opening was under way included (telegram.ts, "Close
\* what nobody will use").
RetiredPutAway == \A w \in Works : life[w] = "retired" => \A t \in known[w] : PutAway(w, t)
RetiredIsPutAway == <>[]RetiredPutAway

\* The message that now is the card of a work that lives, in a topic still its
\* own, ends up with the last state the turn reported.
CardTells ==
  \A w \in Works :
    LET edits == {i \in DOMAIN rows : rows[i].card = w} IN
    (edits # {} /\ life[w] = "live" /\ Follower(thread[w]) \in {0, w}
       /\ \A i \in edits : rows[i].state # "blocked") =>
      LET last == CHOOSE i \in edits : \A j \in edits : j <= i
          m == Anchor(w)
      IN m # 0 /\ \/ messages[m].text = rows[last].text
                  \/ messages[m].at # 0 /\ topic[messages[m].at] = "deleted"
CardTellsLast == <>[]CardTells
=============================================================================
