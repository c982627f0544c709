---------------------------- MODULE CloudSagaProofs ----------------------------
(***************************************************************************)
(* Proofs about CloudSaga, for every number of launches, messages, presses  *)
(* and crashes.                                                             *)
(*                                                                          *)
(* IInv is built in layers, each of which rests on the ones before it: what *)
(* a pending saga says about the row (Launched); that a launch anybody still*)
(* works for is pending, final or archived (Prompts); whose lease it can be *)
(* (Leased); that what was called off is marked as such in the row, the     *)
(* saga, the outbox and the attempt that reconciles it (CalledOff); what    *)
(* cleanup may have archived (Cleaned); whose message is on the wire        *)
(* (Carried); and where the work a Stop must fence still stands (Fenced).   *)
(***************************************************************************)
EXTENDS CloudSaga, FiniteSetTheorems, NaturalsInduction, TLAPS

Statuses == {"starting", "running", "done", "failed", "stopped", "archived"}
Phases == {"provisioned", "send", "sent", "cleanup", "cancel"}
Launch0 == {0} \cup Launches
Runners == {"fg", "rec"}
Rows == [status : Statuses, ws : Launch0, ses : Launch0, archivedAt : BOOLEAN]
PendingSagas == [id : Launches, phase : Phases,
                 prev : [status : Statuses, ws : Launch0, ses : Launch0]]
TerminalIntents == [action : {"stop", "archive"}, ws : Launches, ses : Launch0,
                    sessions : SUBSET Launch0, at : Nat \ {0}]
Leases == [by : {"send", "flush", "thread", "dead"}, ws : Launches, ses : Launch0]
Outcomes == {"new", "queued", "suppressed", "failed", "delivered"}
LaunchRuns == [pc : {"creating", "orphan", "validate", "post", "posted", "naming",
                     "archiving", "archived", "handoff", "get"}, id : Launches, ses : Launch0]
Attempts == [pc : {"calling", "confirmed"}, want : TerminalIntents, unresolved : BOOLEAN,
             todo : SUBSET Launch0]
Sends == [pc : {"target", "posted"}, id : 1..MaxSends, ses : Launches]
Flushes == [pc : {"get"}, req : {0}, ses : Launch0, todo : (SUBSET Requests) \ {{}}]
               \cup [pc : {"posted"}, req : Requests, ses : Launch0,
                     todo : (SUBSET Requests) \ {{}}]
Counts == [launch : Nat, send : Nat, stop : Nat, archive : Nat, crash : Nat, at : Nat]

fg == runner["fg"]
rec == runner["rec"]
Early == {"creating", "orphan"}
Undone == {"cleanup", "cancel"}
Plain == {m \in Msgs : m[1] # "first"}
PlainWire == wire \cap Plain
Known == wire \cup live \cup seen

-----------------------------------------------------------------------------
(* The layers of the inductive invariant                                    *)

\* The types of the variables.
LaunchShape ==
    /\ row \in Rows /\ saga \in {NoSaga} \cup PendingSagas /\ receipt \in Launch0
    /\ runner \in [Runners -> {Idle} \cup LaunchRuns]
    /\ home \in [Launches -> Launch0] /\ finals \subseteq Launches /\ count \in Counts
IntentShape ==
    /\ intent \in {NoIntent} \cup TerminalIntents /\ targets \subseteq Launches
    /\ term \in {TermIdle} \cup Attempts /\ stopper \in BOOLEAN /\ notices \subseteq FinalNotices
    /\ gaveUp \in BOOLEAN
MessageShape ==
    /\ lease \in {NoLease} \cup Leases /\ sender \in {Idle} \cup Sends
    /\ outbox \subseteq [req : Requests, ses : Launch0] /\ outcome \in [Requests -> Outcomes]
    /\ flush \in {FlushIdle} \cup Flushes /\ eager \in BOOLEAN
RemoteShape ==
    /\ where \in [Msgs -> Launch0] /\ gone \subseteq {"ws", "ses"} \X Launch0
    /\ wire \subseteq Msgs /\ seen \subseteq Msgs /\ live \subseteq Msgs /\ doomed \subseteq Msgs
Shape == LaunchShape /\ IntentShape /\ MessageShape /\ RemoteShape

\* A pending saga is the binding of the row.  It was begun on an unbound row,
\* before anything was final, or as a thread of a workspace that is final; a
\* row without a saga points at nothing or at something final.
SagaBound ==
    /\ row.ws = 0 <=> row.ses = 0
    /\ saga # NoSaga =>
          /\ saga.id <= count.launch /\ saga.id \notin finals
          /\ row.ws = home[saga.id] /\ row.ses = saga.id
          /\ IF home[saga.id] = saga.id
             THEN saga.prev.ws = 0 /\ saga.prev.ses = 0 /\ finals = {}
             ELSE saga.prev.ws = row.ws /\ saga.prev.ses \in finals /\ row.ws \in finals
    /\ saga = NoSaga /\ row.ws # 0 => row.ses \in finals /\ row.ws \in finals
Homes ==
    /\ \A k \in Launches :
          IF k > count.launch THEN home[k] = 0
          ELSE home[k] \in Launches /\ home[k] <= k /\ home[home[k]] = home[k]
    /\ \A k \in finals : k <= count.launch /\ home[k] = row.ws
\* Only the foreground begins a saga, one at a time.
Foreground ==
    /\ fg.pc # "idle" => fg.id = count.launch
    /\ fg.pc \in Early => saga = NoSaga /\ fg.id \notin finals /\ rec.id # fg.id
    /\ fg.pc = "creating" => IF home[fg.id] = fg.id THEN row.ws = 0 ELSE row.ws = home[fg.id]
    /\ saga # NoSaga /\ fg.pc # "idle" => saga.id = fg.id
    /\ rec.pc # "idle" => rec.id <= count.launch
Launched == SagaBound /\ Homes /\ Foreground

\* A launch whose prompt is about, or that somebody works for, is the pending
\* saga, is final, or its session is archived.
InHand(k) == \/ First(k) \in Known
             \/ fg.id = k /\ fg.pc \notin {"idle"} \cup Early
             \/ rec.id = k
Owned == \A k \in Launches : InHand(k) =>
             k <= count.launch /\ (saga.id = k \/ k \in finals \/ SessionGone(k))
\* Cleanup works for launches that did not become final.
Cleanups == \A p \in Runners : runner[p].pc \in {"archiving", "archived"} =>
    /\ runner[p].id \notin finals
    /\ saga.id = runner[p].id => saga.phase \in Undone
    /\ runner[p].pc = "archived" => Resource(runner[p].id) \in gone
\* Nothing is called sent that Conductor has not accepted.
Accepted ==
    /\ \A k \in Launches : First(k) \in Known => where[First(k)] = k
    /\ saga.phase = "sent" => First(saga.id) \in seen
    /\ \A k \in finals : First(k) \in seen
Prompts == Owned /\ Cleanups /\ Accepted

\* A lease is for the bound workspace, while nothing is pending on it, and is
\* bound to one of its sessions.
Leased == lease # NoLease =>
    /\ saga = NoSaga /\ row.ws # 0 /\ lease.ws = row.ws /\ ~row.archivedAt
    /\ lease.ses # 0 => home[lease.ses] = lease.ws

\* A Stop or an Archive leaves its mark on the row, the saga and the outbox.
Marked ==
    /\ intent # NoIntent => row.status \in Terminal
    /\ saga # NoSaga /\ row.status \in Terminal => saga.phase = "cancel"
    /\ outbox # {} => row.status \notin Terminal /\ row.ws # 0
    /\ fg.pc = "creating" /\ home[fg.id] = fg.id => intent = NoIntent
\* The intent is about the bound workspace, or about one that is archived.
Intended ==
    /\ intent # NoIntent =>
          /\ row.ws = intent.ws \/ (row.ws = 0 /\ <<"ws", intent.ws>> \in gone)
          /\ intent.action = "archive" => row.archivedAt
    /\ \A s \in intent.sessions : s # 0 /\ home[s] = intent.ws
    /\ intent.at <= count.at
\* An attempt works on the intent, or on one that has been replaced since.
Attempted ==
    /\ stopper => term # TermIdle
    /\ term # TermIdle =>
          /\ intent # NoIntent /\ term.want.ws = intent.ws
          /\ term.want.at <= intent.at
          /\ term.want.at = intent.at => term.want = intent
          /\ term.want.action = "archive" => row.archivedAt
          /\ term.pc = "confirmed" =>
                term.want.action = "archive" /\ <<"ws", term.want.ws>> \in gone
          /\ term.want.action = "stop" /\ ~term.unresolved => lease = NoLease
CalledOff == Marked /\ Intended /\ Attempted /\ OutboxAccounted

\* Cleanup never archives what is final or may still become so.
Cleaned ==
    /\ \A g \in gone : /\ g[2] \in Launches /\ g[2] <= count.launch
                       /\ g[1] = "ws" => home[g[2]] = g[2]
    /\ \A k \in finals : <<"ses", k>> \notin gone /\ (<<"ws", k>> \notin gone \/ row.archivedAt)
    /\ saga # NoSaga /\ saga.phase \notin Undone =>
          <<"ses", saga.id>> \notin gone /\ (<<"ws", row.ws>> \notin gone \/ row.archivedAt)
    /\ fg.pc = "creating" => <<"ses", fg.id>> \notin gone /\ <<"ws", fg.id>> \notin gone
    /\ row.status = "archived" \/ saga.prev.status = "archived" => row.archivedAt

\* Who holds the lease.  An Archive takes it from everybody.
Holders ==
    /\ fg.pc = "creating" /\ home[fg.id] # fg.id => lease.by = "thread" \/ row.archivedAt
    /\ lease.by = "thread" => fg.pc \in Early
    /\ sender.pc # "idle" => lease.by = "send" \/ row.archivedAt
    /\ lease.by = "send" => sender.pc # "idle"
    /\ flush.pc = "posted" => lease.by = "flush" \/ row.archivedAt
    /\ lease.by = "flush" => flush.pc = "posted"
\* Where a message was posted, and that it is posted once.
Posted ==
    /\ \A m \in Plain : where[m] # 0 => finals # {} /\ home[where[m]] = row.ws
    /\ \A m \in Plain : m \in Known => where[m] # 0
    /\ PlainWire \cap seen = {}
    /\ \A n \in 1..MaxSends : where[<<"send", n>>] # 0 =>
           n <= count.send /\ (sender.pc = "target" => n # sender.id)
    /\ sender.pc # "idle" => sender.id <= count.send
    /\ \A r \in Requests : where[Req(r)] # 0 => outcome[r] # "new"
\* The message on the wire is the one of the holder.
Tokens ==
    /\ \A m \in PlainWire :
          \/ row.archivedAt
          \/ /\ lease.ses = where[m]
             /\ \/ lease.by = "send" /\ sender.pc = "posted" /\ m = <<"send", sender.id>>
                \/ lease.by = "flush" /\ flush.pc = "posted" /\ m = Req(flush.req)
                \/ lease.by = "dead"
    /\ \A m, n \in PlainWire : m = n
    /\ saga # NoSaga \/ fg.pc = "creating" => PlainWire = {}
    /\ \A m \in PlainWire : ~SessionGone(where[m]) /\ row.archivedAt =>
           row.status = "archived" /\ intent.action # "stop"
Carried == Holders /\ Posted /\ Tokens

\* What a Stop named is not sent again.
NotAgain ==
    /\ \A r \in Requests : Req(r) \in doomed => r \notin Queued /\ outcome[r] # "new"
    /\ \A m \in doomed : m \in Plain => where[m] # 0
    /\ \A k \in Launches : First(k) \in doomed =>
           (saga.id = k /\ saga.phase = "cancel") \/ k \in finals \/ SessionGone(k)
\* What still runs of it is the first prompt of a launch that is to be rolled
\* back, or in a workspace that is to be archived, or in a session the intent
\* names and the attempt has yet to cancel.
Fences(m) ==
    \/ m = First(saga.id) /\ saga.phase = "cancel"
    \/ intent.action = "archive"
    \/ /\ intent.action = "stop" /\ where[m] \in intent.sessions
       /\ term # TermIdle /\ term.want.at = intent.at /\ ~term.unresolved =>
             where[m] \in term.todo
Fenced == NotAgain /\ (gaveUp \/ \A m \in doomed \cap Running : Fences(m))

IInv == Shape /\ Launched /\ Prompts /\ Leased /\ CalledOff /\ Cleaned /\ Carried /\ Fenced

-----------------------------------------------------------------------------
(* Operators                                                                *)

\* The order of the requests, as a relation.
Below == {ss \in Nat \X Nat : ss[1] < ss[2]}

\* A set of requests that is not empty has a least one.
LEMMA LeastRequest ==
  ASSUME NEW todo, todo \subseteq Nat, todo # {}
  PROVE  \E x \in todo : \A y \in todo : x <= y
<1>1. OpToRel(<, Nat) = Below
  BY DEF OpToRel, Below
<1>2. IsWellFoundedOn(Below, Nat)
  BY <1>1, NatLessThanWellFounded, Zenon
<1>3. PICK x \in todo : \A y \in todo : ~(<<y, x>> \in Below)
  BY <1>2, WFMin
<1>4. \A y, z \in Nat : y < z => <<y, z>> \in Below
  BY DEF Below
<1>5. ASSUME NEW y \in todo PROVE x <= y
  <2>1. y \in Nat /\ x \in Nat
    BY <1>3
  <2>2. ~(y < x)
    BY <1>3, <1>4, <2>1, Zenon
  <2> QED
    BY <2>1, <2>2
<1> QED
  BY <1>5

\* The phase of a saga changes, and nothing else of it.
LEMMA Phased ==
  ASSUME NEW s \in PendingSagas, NEW ph \in Phases
  PROVE  /\ [s EXCEPT !.phase = ph] \in PendingSagas
         /\ [s EXCEPT !.phase = ph].id = s.id /\ [s EXCEPT !.phase = ph].prev = s.prev
         /\ [s EXCEPT !.phase = ph].phase = ph
BY DEF PendingSagas

\* A pending saga has an id, a phase and a launch; NoSaga has none of them.
LEMMA NoSagaFacts ==
  /\ 0 \notin Launches
  /\ NoSaga \notin PendingSagas
  /\ NoSaga.id = 0 /\ NoSaga.phase = "none" /\ NoSaga.prev.status = "none"
  /\ \A s \in PendingSagas : s.id \in Launches /\ s.id # 0 /\ s.phase # "none"
BY SagaBounds DEF NoSaga, PendingSagas, Launches, Phases

\* What tells a process at rest from one at work, and no intent or lease from one.
LEMMA IdleFacts ==
  /\ Idle.pc = "idle" /\ Idle.id = 0
  /\ \A a \in LaunchRuns : a.pc # "idle" /\ a.id \in Launches /\ a.id # 0
  /\ \A a \in Sends : a.pc # "idle"
  /\ FlushIdle.pc = "idle" /\ FlushIdle.req = 0
  /\ \A a \in Flushes : /\ a.pc # "idle" /\ a.todo # {} /\ a.todo \subseteq Requests
                        /\ a.pc = "get" => a.req = 0
                        /\ a.pc = "posted" => a.req \in Requests
  /\ TermIdle.pc = "idle" /\ TermIdle.want = NoIntent
  /\ \A a \in Attempts : a.pc # "idle" /\ a.want \in TerminalIntents
  /\ NoIntent.action = "none" /\ NoIntent.at = 0 /\ NoIntent.ws = 0 /\ NoIntent.sessions = {}
  /\ \A i \in TerminalIntents : i.action # "none" /\ i.ws # 0 /\ i.at # 0
  /\ NoLease.by = "none" /\ NoLease.ws = 0 /\ NoLease.ses = 0
  /\ \A l \in Leases : l.by # "none" /\ l.ws # 0
BY SagaBounds DEF Idle, LaunchRuns, Sends, FlushIdle, Flushes, TermIdle, Attempts, NoIntent,
                  TerminalIntents, NoLease, Leases, Launches, Requests

\* An archive stays one; otherwise the new intent takes over, with the sessions
\* of an earlier one of its kind.
LEMMA Merged ==
  ASSUME intent \in {NoIntent} \cup TerminalIntents, NEW new \in TerminalIntents
  PROVE  /\ MergedIntent(new) \in TerminalIntents
         /\ \/ MergedIntent(new) = intent /\ intent.action = "archive" /\ new.action = "stop"
            \/ /\ MergedIntent(new).action = new.action /\ MergedIntent(new).ws = new.ws
               /\ MergedIntent(new).at = new.at
               /\ intent.action = "archive" => new.action = "archive"
               /\ new.sessions \subseteq MergedIntent(new).sessions
               /\ MergedIntent(new).sessions \subseteq new.sessions \cup intent.sessions
               /\ \/ MergedIntent(new).sessions = new.sessions
                  \/ intent.ws = new.ws /\ intent.action = new.action
               /\ intent.ws = new.ws /\ intent.action = new.action =>
                      intent.sessions \subseteq MergedIntent(new).sessions
BY DEF MergedIntent, TerminalIntents, NoIntent

\* Requests leave the outbox, each with its outcome.
Answers ==
    /\ outbox' \subseteq outbox /\ outcome' \in [Requests -> Outcomes]
    /\ \A r \in Requests : IF r \in Queued /\ r \notin Queued'
                          THEN outcome'[r] \in {"delivered", "suppressed", "failed"}
                          ELSE outcome'[r] = outcome[r]
\* Record writes an outcome for each request that leaves the outbox.
LEMMA RecordAnswers ==
  ASSUME MessageShape, NEW rs, NEW result \in {"delivered", "suppressed", "failed"},
         Record(rs, result), outbox' \subseteq outbox,
         \A r \in Requests : r \in rs <=> r \in Queued /\ r \notin Queued'
  PROVE  Answers
BY DEF Record, Answers, MessageShape, Outcomes

\* The same when the whole outbox is emptied.
LEMMA EmptiedAnswers ==
  ASSUME MessageShape, NEW result \in {"delivered", "suppressed", "failed"},
         Record(Queued, result), outbox' = {}
  PROVE  Answers
<1>1. outbox' \subseteq outbox /\ Queued' = {}
  BY DEF Queued
<1> QED
  BY <1>1, RecordAnswers

\* ClearOutbox writes an outcome for all it takes out.
LEMMA ClearAnswers ==
  ASSUME MessageShape, NEW scope, NEW result \in {"delivered", "suppressed", "failed"},
         ClearOutbox(scope, result)
  PROVE  Answers
<1>1. Record({x.req : x \in {y \in outbox : y.req \in scope}}, result)
  BY DEF ClearOutbox
<1>2. outbox' = {x \in outbox : x.req \notin scope}
  BY DEF ClearOutbox
<1>3. outbox' \subseteq outbox
  BY <1>2
<1>4. ASSUME NEW r \in Requests
      PROVE  r \in {x.req : x \in {y \in outbox : y.req \in scope}} <=>
                 r \in Queued /\ r \notin Queued'
  BY <1>2 DEF Queued
<1> QED
  BY <1>1, <1>3, <1>4, RecordAnswers

\* What MarkCanceled and Stop write.
LEMMA CancelsWrites ==
  ASSUME Shape, row.ws = 0 <=> row.ses = 0, NEW presses \in Nat, Cancels(presses)
  PROVE  /\ saga = NoSaga => saga' = NoSaga
         /\ saga # NoSaga => /\ saga' \in PendingSagas /\ saga'.phase = "cancel"
                             /\ saga'.id = saga.id /\ saga'.prev = saga.prev
         /\ row.ws = 0 => intent' = intent
         /\ row.ws # 0 =>
                \E new \in TerminalIntents :
                    /\ intent' = MergedIntent(new) /\ intent' \in TerminalIntents
                    /\ new.action = IF row.status = "archived" THEN "archive" ELSE "stop"
                    /\ new.ws = row.ws /\ new.at = count.at + 1
                    /\ \A s \in new.sessions :
                          \/ s = row.ses
                          \/ s \in targets /\ home[s] = row.ws
                          \/ lease.ws = row.ws /\ s = lease.ses /\ s # 0
         /\ outbox' = {} /\ Answers
         /\ count' \in Counts /\ count'.launch = count.launch /\ count'.send = count.send
         /\ count'.at = count.at + 1
<1> USE DEF Shape
<1>1. saga = NoSaga => saga' = NoSaga
  BY DEF Cancels
<1>2. saga # NoSaga => /\ saga' \in PendingSagas /\ saga'.phase = "cancel"
                       /\ saga'.id = saga.id /\ saga'.prev = saga.prev
  <2> SUFFICES ASSUME saga # NoSaga PROVE saga' \in PendingSagas /\ saga'.phase = "cancel"
                                          /\ saga'.id = saga.id /\ saga'.prev = saga.prev
    OBVIOUS
  <2>1. saga' = [saga EXCEPT !.phase = "cancel"] /\ saga \in PendingSagas
    BY DEF Cancels, LaunchShape
  <2>2. "cancel" \in Phases
    BY DEF Phases
  <2> QED
    BY <2>1, <2>2, Phased
<1>3. row.ws = 0 => intent' = intent
  BY DEF Cancels
<1>4. ASSUME row.ws # 0
      PROVE  \E new \in TerminalIntents :
                    /\ intent' = MergedIntent(new) /\ intent' \in TerminalIntents
                    /\ new.action = IF row.status = "archived" THEN "archive" ELSE "stop"
                    /\ new.ws = row.ws /\ new.at = count.at + 1
                    /\ \A s \in new.sessions :
                          \/ s = row.ses
                          \/ s \in targets /\ home[s] = row.ws
                          \/ lease.ws = row.ws /\ s = lease.ses /\ s # 0
  <2> DEFINE new == [action |-> IF row.status = "archived" THEN "archive" ELSE "stop",
                     ws |-> row.ws, ses |-> row.ses, at |-> count.at + 1,
                     sessions |-> {row.ses} \cup {s \in targets : home[s] = row.ws}
                         \cup (IF lease.ws = row.ws THEN {lease.ses} \ {0} ELSE {})]
  <2>1. intent' = MergedIntent(new)
    BY <1>4 DEF Cancels
  <2>2. new.sessions \subseteq Launch0
    BY DEF LaunchShape, IntentShape, MessageShape, Rows, Launch0, Leases, NoLease
  <2>3. row.ws \in Launches /\ row.ses \in Launch0 /\ count.at + 1 \in Nat \ {0}
    BY <1>4 DEF LaunchShape, Rows, Launch0, Counts
  <2>4. new \in TerminalIntents
    BY <2>2, <2>3 DEF TerminalIntents
  <2>5. \A s \in new.sessions : \/ s = row.ses
                                \/ s \in targets /\ home[s] = row.ws
                                \/ lease.ws = row.ws /\ s = lease.ses /\ s # 0
    OBVIOUS
  <2>6. MergedIntent(new) \in TerminalIntents
    BY <2>4, Merged DEF IntentShape
  <2> QED
    BY <2>1, <2>4, <2>5, <2>6
<1>5. outbox' = {} /\ Answers
  BY EmptiedAnswers DEF Cancels
<1>7. /\ count' \in Counts /\ count'.launch = count.launch /\ count'.send = count.send
      /\ count'.at = count.at + 1
  <2> DEFINE c == [count EXCEPT !.at = count.at + 1]
  <2>1. /\ c \in Counts /\ c.launch = count.launch /\ c.send = count.send
        /\ c.at = count.at + 1 /\ c.stop = count.stop
    BY DEF LaunchShape, Counts
  <2>2. count' = [c EXCEPT !.stop = count.stop + presses]
    BY DEF Cancels
  <2> HIDE DEF c
  <2> QED
    BY <2>1, <2>2 DEF Counts
<1> QED
  BY <1>1, <1>2, <1>3, <1>4, <1>5, <1>7

\* What an attempt starts from.
LEMMA BeginsWith ==
  ASSUME NEW i \in TerminalIntents, NEW l \in {NoLease} \cup Leases
  PROVE  /\ TermBegins(i, l) \in Attempts /\ TermBegins(i, l).want = i
         /\ TermBegins(i, l).todo = i.sessions /\ TermBegins(i, l).pc = "calling"
         /\ TermBegins(i, l).unresolved <=> (i.action = "stop" /\ l.ws = i.ws)
BY DEF TermBegins, Attempts, TerminalIntents

\* A runner that goes on works for the same launch, and the other is left alone.
LEMMA Steps ==
  ASSUME LaunchShape, NEW p \in Runners, runner[p] \in LaunchRuns,
         NEW pc \in {"validate", "orphan", "post", "posted", "naming", "archiving",
                     "archived", "handoff"}, Step(p, pc)
  PROVE  /\ runner' \in [Runners -> {Idle} \cup LaunchRuns]
         /\ runner'[p] \in LaunchRuns /\ runner'[p].pc = pc /\ runner'[p].id = runner[p].id
         /\ \A q \in Runners \ {p} : runner'[q] = runner[q]
<1> DEFINE a == [runner[p] EXCEPT !.pc = pc]
<1>1. a \in LaunchRuns /\ a.pc = pc /\ a.id = runner[p].id
  BY DEF LaunchRuns
<1>2. runner' = [runner EXCEPT ![p] = a]
  BY DEF Step
<1> HIDE DEF a
<1> QED
  BY <1>1, <1>2 DEF LaunchShape

\* A runner that ends is idle, and the other is left alone.
LEMMA Finishes ==
  ASSUME LaunchShape, NEW p \in Runners, Finish(p)
  PROVE  /\ runner' \in [Runners -> {Idle} \cup LaunchRuns]
         /\ runner'[p] = Idle
         /\ \A q \in Runners \ {p} : runner'[q] = runner[q]
BY DEF LaunchShape, Finish

\* PersistLaunch binds the row to the launch and makes its saga the pending one.
LEMMA Persists ==
  ASSUME LaunchShape, MessageShape, NEW k \in Launches, NEW phase \in Phases,
         PersistLaunch(k, phase)
  PROVE  /\ saga' \in PendingSagas /\ saga'.id = k /\ saga'.phase = phase
         /\ saga'.prev.status = row.status /\ saga'.prev.ws = row.ws /\ saga'.prev.ses = row.ses
         /\ row' \in Rows /\ row'.ws = home[k] /\ row'.ses = k
         /\ row'.status = (IF phase = "provisioned" THEN "starting" ELSE row.status)
         /\ row'.archivedAt = row.archivedAt
         /\ receipt' = 0 /\ lease' = NoLease
         /\ outbox' = IF phase = "cancel" THEN {} ELSE outbox
<1> USE DEF LaunchShape
<1>1. /\ saga' \in PendingSagas /\ saga'.id = k /\ saga'.phase = phase
      /\ saga'.prev.status = row.status /\ saga'.prev.ws = row.ws /\ saga'.prev.ses = row.ses
  BY DEF PersistLaunch, PendingSagas, Rows
<1>2. /\ row' \in Rows /\ row'.ws = home[k] /\ row'.ses = k
      /\ row'.status = (IF phase = "provisioned" THEN "starting" ELSE row.status)
      /\ row'.archivedAt = row.archivedAt
  <2> DEFINE r1 == [row EXCEPT !.ws = home[k]]
             r2 == [r1 EXCEPT !.ses = k]
             st == IF phase = "provisioned" THEN "starting" ELSE row.status
  <2>1. row' = [r2 EXCEPT !.status = st]
    BY DEF PersistLaunch
  <2>2. /\ r1 \in Rows /\ r1.ws = home[k] /\ r1.archivedAt = row.archivedAt
    BY DEF Rows
  <2>3. st \in Statuses
    BY DEF Rows, Statuses
  <2>4. k \in Launch0
    BY DEF Launch0
  <2> HIDE DEF r1, st
  <2>5. r2 \in Rows /\ r2.ws = home[k] /\ r2.ses = k /\ r2.archivedAt = row.archivedAt
    BY <2>2, <2>4 DEF Rows
  <2> HIDE DEF r2
  <2>6. /\ row' \in Rows /\ row'.ws = home[k] /\ row'.ses = k /\ row'.status = st
        /\ row'.archivedAt = row.archivedAt
    BY <2>1, <2>3, <2>5 DEF Rows
  <2> QED
    BY <2>6 DEF st
<1>3. receipt' = 0 /\ lease' = NoLease /\ outbox' = IF phase = "cancel" THEN {} ELSE outbox
  BY DEF PersistLaunch
<1> QED
  BY <1>1, <1>2, <1>3

\* FinalizeLaunch makes the launch running, with its receipt.
LEMMA Finalizes ==
  ASSUME LaunchShape, NEW k \in Launches, saga # NoSaga, Finalize(k)
  PROVE  /\ row' \in Rows /\ row'.ws = home[k] /\ row'.ses = k /\ row'.status = "running"
         /\ row'.archivedAt = row.archivedAt
         /\ saga' = NoSaga /\ receipt' = k /\ finals' = finals \cup {k}
<1> USE DEF LaunchShape
<1> DEFINE r1 == [row EXCEPT !.status = "running"]
           r2 == [r1 EXCEPT !.ws = home[k]]
<1>1. row' = [r2 EXCEPT !.ses = k]
  BY DEF Finalize
<1>2. r1 \in Rows /\ r1.status = "running" /\ r1.archivedAt = row.archivedAt
  BY DEF Rows, Statuses
<1> HIDE DEF r1
<1>3. r2 \in Rows /\ r2.status = "running" /\ r2.ws = home[k] /\ r2.archivedAt = row.archivedAt
  BY <1>2 DEF Rows
<1> HIDE DEF r2
<1>4. /\ row' \in Rows /\ row'.ws = home[k] /\ row'.ses = k /\ row'.status = "running"
      /\ row'.archivedAt = row.archivedAt
  BY <1>1, <1>3 DEF Rows, Launch0
<1> QED
  BY <1>4 DEF Finalize

\* A rollback restores the binding; a canceled one leaves a terminal status.
LEMMA Restores ==
  ASSUME LaunchShape, MessageShape, IntentShape, saga \in PendingSagas, RestoreLaunch
  PROVE  /\ row' \in Rows /\ row'.ws = saga.prev.ws /\ row'.ses = saga.prev.ses
         /\ row'.archivedAt = row.archivedAt
         /\ saga.phase = "cancel" => row'.status \in Terminal
         /\ row'.status = "archived" => row.status = "archived" \/ saga.prev.status = "archived"
         /\ saga' = NoSaga /\ outbox' = {} /\ lease' = NoLease
         /\ notices' \subseteq FinalNotices /\ Answers
<1> USE DEF LaunchShape
<1> DEFINE canceled == saga.phase = "cancel"
           status == IF canceled
                     THEN IF "archived" \in {row.status, saga.prev.status}
                          THEN "archived" ELSE "stopped"
                     ELSE IF home[saga.id] # saga.id THEN saga.prev.status ELSE "failed"
           lost == IF status \in Terminal THEN "suppressed" ELSE "failed"
           r1 == [row EXCEPT !.ws = saga.prev.ws]
           r2 == [r1 EXCEPT !.ses = saga.prev.ses]
<1>1. row' = [r2 EXCEPT !.status = status]
  BY DEF RestoreLaunch
<1>0. /\ Record(Queued, lost) /\ saga' = NoSaga /\ outbox' = {} /\ lease' = NoLease
      /\ notices' = notices \cup (IF canceled THEN {"launch_canceled"} ELSE {})
  BY DEF RestoreLaunch
<1>2. /\ status \in Statuses
      /\ canceled => status \in Terminal
      /\ status = "archived" => row.status = "archived" \/ saga.prev.status = "archived"
  BY DEF Statuses, PendingSagas, Rows, Terminal
<1>3. r1 \in Rows /\ r1.ws = saga.prev.ws /\ r1.archivedAt = row.archivedAt
  BY DEF Rows, PendingSagas
<1> HIDE DEF r1, status
<1>4. /\ r2 \in Rows /\ r2.ws = saga.prev.ws /\ r2.ses = saga.prev.ses
      /\ r2.archivedAt = row.archivedAt
  BY <1>3 DEF Rows, PendingSagas
<1> HIDE DEF r2
<1>5. /\ row' \in Rows /\ row'.ws = saga.prev.ws /\ row'.ses = saga.prev.ses
      /\ row'.archivedAt = row.archivedAt /\ row'.status = status
  BY <1>1, <1>2, <1>4 DEF Rows
<1>6. notices' \subseteq FinalNotices
  BY <1>0 DEF FinalNotices, IntentShape
<1>7. Answers
  BY <1>0, EmptiedAnswers
<1>8. saga.phase = "cancel" => row'.status \in Terminal
  BY <1>2, <1>5
<1> QED
  BY <1>0, <1>2, <1>5, <1>6, <1>7, <1>8

\* Settling an attempt ends it, and may leave a stopped row.
LEMMA Settlement ==
  ASSUME LaunchShape, NEW result \in {"completed", "none", "pending", "failed"}, Settle(result)
  PROVE  /\ term' = TermIdle /\ stopper' = FALSE
         /\ row' \in Rows /\ row'.ws = row.ws /\ row'.ses = row.ses
         /\ row'.archivedAt = row.archivedAt
         /\ row' = row \/ (row'.status = "stopped" /\ stopper /\ result \in {"completed", "none"})
BY DEF LaunchShape, Settle, Rows, Statuses

\* A flush goes on with its remaining requests, or is done.
LEMMA NextOfFlush ==
  ASSUME MessageShape, flush \in Flushes, NEW r \in Requests, FlushNext(r)
  PROVE  /\ flush' = FlushIdle \/ (flush' \in Flushes /\ flush'.pc = "get")
<1> DEFINE f1 == [flush EXCEPT !.pc = "get"]
           f2 == [f1 EXCEPT !.req = 0]
<1>1. \/ flush' = FlushIdle
      \/ flush.todo # {r} /\ flush' = [f2 EXCEPT !.todo = flush.todo \ {r}]
  BY DEF FlushNext
<1>2. CASE flush' = FlushIdle
  BY <1>2
<1>3. CASE flush.todo # {r} /\ flush' = [f2 EXCEPT !.todo = flush.todo \ {r}]
  <2> DEFINE any == [pc : {"get", "posted"}, req : {0} \cup Requests, ses : Launch0,
                     todo : SUBSET Requests]
  <2>1. flush \in any /\ flush.todo # {} /\ flush.todo \subseteq Requests
    BY DEF Flushes
  <2>2. f1 \in any /\ f1.pc = "get"
    BY <2>1
  <2> HIDE DEF f1
  <2>3. f2 \in any /\ f2.pc = "get" /\ f2.req = 0
    BY <2>2
  <2> HIDE DEF f2
  <2>4. flush.todo \ {r} \in (SUBSET Requests) \ {{}}
    BY <1>3, <2>1
  <2>5. flush' \in any /\ flush'.pc = "get" /\ flush'.req = 0 /\ flush'.todo = flush.todo \ {r}
    BY <1>3, <2>1, <2>3
  <2> QED
    BY <2>4, <2>5 DEF Flushes
<1> QED
  BY <1>1, <1>2, <1>3

\* What a flush does with an accepted message.
LEMMA CompletesWrites ==
  ASSUME LaunchShape, MessageShape, flush \in Flushes, NEW r \in Requests, Completes(r)
  PROVE  /\ row' \in Rows /\ row'.ws = row.ws /\ row'.ses = row.ses
         /\ row'.archivedAt = row.archivedAt
         /\ row' = row \/ (row'.status = "running" /\ row.status \notin Terminal)
         /\ Answers
         /\ flush' = FlushIdle \/ (flush' \in Flushes /\ flush'.pc = "get")
<1> DEFINE gate == MessageGate(r, flush.ses)
<1>1. CASE gate = "send"
  <2>1. /\ outbox' = {x \in outbox : x.req # r} /\ Record({r}, "delivered")
        /\ row' = [row EXCEPT !.status = "running"] /\ FlushNext(r)
    BY <1>1 DEF Completes
  <2>2. [req |-> r, ses |-> flush.ses] \in outbox /\ row.status \notin Terminal
    BY <1>1 DEF MessageGate
  <2>3. r \in Queued /\ outbox' \subseteq outbox
    BY <2>1, <2>2 DEF Queued
  <2>4. \A x \in Requests : x \in {r} <=> x \in Queued /\ x \notin Queued'
    BY <2>1, <2>3 DEF Queued
  <2>5. Answers
    BY <2>1, <2>3, <2>4, RecordAnswers
  <2>6. /\ row' \in Rows /\ row'.ws = row.ws /\ row'.ses = row.ses
        /\ row'.archivedAt = row.archivedAt /\ row'.status = "running"
    BY <2>1 DEF LaunchShape, Rows, Statuses
  <2> QED
    BY <2>1, <2>2, <2>5, <2>6, NextOfFlush
<1>2. CASE gate = "suppressed"
  <2>1. Record(Queued, "suppressed") /\ outbox' = {} /\ flush' = FlushIdle /\ row' = row
    BY <1>2 DEF Completes
  <2> QED
    BY <2>1, EmptiedAnswers DEF LaunchShape
<1>3. CASE gate \notin {"send", "suppressed"}
  <2>1. /\ FlushNext(r) \/ flush' = FlushIdle
        /\ outbox' = outbox /\ outcome' = outcome /\ row' = row
    BY <1>3 DEF Completes
  <2>2. Answers
    BY <2>1 DEF Answers, Queued, MessageShape
  <2> QED
    BY <2>1, <2>2, NextOfFlush DEF LaunchShape
<1> QED
  BY <1>1, <1>2, <1>3

\* "cleanup" is written unless something stronger is there.
LEMMA CleansUp ==
  ASSUME LaunchShape, NEW k \in Launches,
         saga' = IF CleanupAllowed(k) THEN [saga EXCEPT !.phase = "cleanup"] ELSE saga
  PROVE  /\ saga' = saga \/ /\ saga \in PendingSagas /\ saga' \in PendingSagas
                            /\ saga.id = k /\ saga'.id = k /\ saga'.prev = saga.prev
                            /\ saga'.phase = "cleanup" /\ saga.phase \notin {"cancel", "sent"}
         /\ saga.id = k /\ saga.phase # "sent" => saga'.id = k /\ saga'.phase \in Undone
<1>1. saga.id = k => saga \in PendingSagas
  BY NoSagaFacts DEF LaunchShape
<1>2. "cleanup" \in Phases
  BY DEF Phases
<1> QED
  BY <1>1, <1>2, Phased DEF CleanupAllowed, Undone

\* "sent" is written over "send" only.
LEMMA MarksSent ==
  ASSUME LaunchShape, NEW k \in Launches, MarkSentAllowed(k),
         saga' = IF saga = NoSaga THEN saga ELSE [saga EXCEPT !.phase = "sent"]
  PROVE  \/ saga = NoSaga /\ saga' = NoSaga
         \/ /\ saga \in PendingSagas /\ saga' \in PendingSagas
            /\ saga.id = k /\ saga'.id = k /\ saga'.prev = saga.prev
            /\ saga.phase = "send" /\ saga'.phase = "sent" /\ row.status = "starting"
<1>1. "sent" \in Phases
  BY DEF Phases
<1> QED
  BY <1>1, Phased DEF LaunchShape, MarkSentAllowed, LaunchCanSend

\* A new intent begins an attempt, or is left to the one that is under way.
LEMMA Joins ==
  ASSUME IntentShape, NEW l \in {NoLease} \cup Leases, TermJoins(l), intent' \in TerminalIntents
  PROVE  IF term = TermIdle
         THEN /\ term' \in Attempts /\ term'.pc = "calling" /\ term'.want = intent'
              /\ term'.todo = intent'.sessions
              /\ term'.unresolved <=> (intent'.action = "stop" /\ l.ws = intent'.ws)
         ELSE term' = term
<1>1. CASE term = TermIdle
  <2>1. term' = TermBegins(intent', l)
    BY <1>1 DEF TermJoins
  <2> QED
    BY <1>1, <2>1, BeginsWith
<1> QED
  BY <1>1 DEF TermJoins

\* The request a flush takes first is one.
LEMMA LeastFlushed ==
  ASSUME MessageShape, flush \in Flushes
  PROVE  (CHOOSE x \in flush.todo : \A y \in flush.todo : x <= y) \in Requests
<1>1. flush.todo \subseteq Requests /\ flush.todo # {}
  BY IdleFacts
<1>2. \E x \in flush.todo : \A y \in flush.todo : x <= y
  BY <1>1, LeastRequest DEF Requests
<1> QED
  BY <1>1, <1>2

\* A flush finds its next message accepted, posts it, or lets it be.
FlushPosts(r) ==
    /\ Req(r) \notin seen /\ [req |-> r, ses |-> flush.ses] \in outbox
    /\ row.ws # 0 /\ row.ws = home[flush.ses] /\ row.ses = flush.ses /\ flush.ses \in Launches
    /\ row.status \notin Terminal /\ LeaseFree(TRUE)
    /\ lease' \in Leases /\ lease'.by = "flush" /\ lease'.ws = row.ws /\ lease'.ses = flush.ses
    /\ targets' = targets \cup {flush.ses}
    /\ wire' = wire \cup {Req(r)} /\ where' = [where EXCEPT ![Req(r)] = flush.ses]
    /\ flush' \in Flushes /\ flush'.pc = "posted" /\ flush'.req = r
    /\ UNCHANGED <<row, outbox, outcome>>
FlushLeaves ==
    /\ flush' = FlushIdle \/ (flush' \in Flushes /\ flush'.pc = "get")
    /\ Answers /\ UNCHANGED <<row, lease, targets, wire, where>>
\* FlushGet by its three outcomes.
LEMMA FlushGetWrites ==
  ASSUME LaunchShape, MessageShape, SagaBound, FlushGet
  PROVE  /\ flush \in Flushes /\ flush.pc = "get"
         /\ \E r \in Requests :
               \/ Req(r) \in seen /\ Completes(r) /\ UNCHANGED <<lease, targets, wire, where>>
               \/ FlushPosts(r)
               \/ FlushLeaves
<1> DEFINE r == CHOOSE x \in flush.todo : \A y \in flush.todo : x <= y
           s == flush.ses
           gate == MessageGate(r, s)
           post == gate = "send" /\ LeaseFree(TRUE)
<1>1. flush \in Flushes /\ flush.pc = "get"
  BY IdleFacts DEF FlushGet, MessageShape
<1>2. r \in Requests
  BY <1>1, LeastFlushed
<1>3. CASE Req(r) \in seen
  BY <1>1, <1>2, <1>3 DEF FlushGet
<1>4. CASE Req(r) \notin seen /\ post
  <2>1. /\ lease' = [by |-> "flush", ws |-> row.ws, ses |-> s]
        /\ targets' = targets \cup {s}
        /\ wire' = wire \cup {Req(r)} /\ where' = [where EXCEPT ![Req(r)] = s]
        /\ flush' = [flush EXCEPT !.pc = "posted", !.req = r]
        /\ UNCHANGED <<row, outbox, outcome>>
    BY <1>4 DEF FlushGet
  <2>2. [req |-> r, ses |-> s] \in outbox /\ row.ws = home[s] /\ row.ses = s
        /\ row.status \notin Terminal
    BY <1>4 DEF MessageGate
  <2>3. row.ws # 0 /\ row.ws \in Launches /\ s \in Launches
    BY <1>4, <2>2 DEF LeaseFree, LaunchShape, Rows, Launch0, SagaBound
  <2>4. lease' \in Leases /\ lease'.by = "flush" /\ lease'.ws = row.ws /\ lease'.ses = s
    BY <2>1, <2>3 DEF Leases, Launch0
  <2>5. flush' \in Flushes /\ flush'.pc = "posted" /\ flush'.req = r
    <3> DEFINE any == [pc : {"get", "posted"}, req : {0} \cup Requests, ses : Launch0,
                       todo : (SUBSET Requests) \ {{}}]
               f == [flush EXCEPT !.pc = "posted"]
    <3>1. flush \in any
      BY <1>1 DEF Flushes
    <3>2. f \in any /\ f.pc = "posted"
      BY <3>1
    <3>3. flush' = [f EXCEPT !.req = r]
      BY <2>1
    <3> HIDE DEF f, r
    <3>4. flush' \in any /\ flush'.pc = "posted" /\ flush'.req = r
      BY <1>2, <3>2, <3>3
    <3> QED
      BY <1>2, <3>4 DEF Flushes
  <2> HIDE DEF r
  <2>6. FlushPosts(r)
    BY <1>4, <2>1, <2>2, <2>3, <2>4, <2>5 DEF FlushPosts
  <2> QED
    BY <1>1, <1>2, <2>6
<1>5. CASE Req(r) \notin seen /\ ~post
  <2>1. /\ UNCHANGED <<row, lease, targets, wire, where>>
        /\ flush' = FlushIdle \/ FlushNext(r)
        /\ \/ \E result \in {"failed", "suppressed"} : ClearOutbox(flush.todo, result)
           \/ outbox' = outbox /\ outcome' = outcome
    BY <1>5 DEF FlushGet
  <2> HIDE DEF r
  <2>2. flush' = FlushIdle \/ (flush' \in Flushes /\ flush'.pc = "get")
    BY <1>1, <1>2, <2>1, NextOfFlush
  <2>3. Answers
    <3>1. CASE \E result \in {"failed", "suppressed"} : ClearOutbox(flush.todo, result)
      BY <3>1, ClearAnswers
    <3>2. CASE outbox' = outbox /\ outcome' = outcome
      BY <3>2 DEF Answers, Queued, MessageShape
    <3> QED
      BY <2>1, <3>1, <3>2
  <2>4. FlushLeaves
    BY <2>1, <2>2, <2>3 DEF FlushLeaves
  <2> QED
    BY <1>1, <1>2, <2>4
<1> QED
  BY <1>3, <1>4, <1>5

\* What Archive writes to the row, and which clock it moves.
LEMMA ArchiveWrites ==
  ASSUME LaunchShape, Archive
  PROVE  /\ row' \in Rows /\ row'.ws = row.ws /\ row'.ses = row.ses
         /\ row'.status = "archived" /\ row'.archivedAt
         /\ count' \in Counts /\ count'.launch = count.launch /\ count'.send = count.send
         /\ count'.at = count.at + 1
<1> USE DEF LaunchShape
<1> DEFINE r == [row EXCEPT !.status = "archived"]
           c == [count EXCEPT !.archive = count.archive + 1]
<1>1. row' = [r EXCEPT !.archivedAt = TRUE]
  BY DEF Archive
<1>2. count' = [c EXCEPT !.at = count.at + 1]
  BY DEF Archive
<1>3. r \in Rows /\ r.ws = row.ws /\ r.ses = row.ses /\ r.status = "archived"
  BY DEF Rows, Statuses
<1>4. c \in Counts /\ c.launch = count.launch /\ c.send = count.send
  BY DEF Counts
<1> HIDE DEF r, c
<1>5. /\ row' \in Rows /\ row'.ws = row.ws /\ row'.ses = row.ses
      /\ row'.status = "archived" /\ row'.archivedAt
  BY <1>1, <1>3 DEF Rows
<1>6. /\ count' \in Counts /\ count'.launch = count.launch /\ count'.send = count.send
      /\ count'.at = count.at + 1
  BY <1>2, <1>4 DEF Counts
<1> QED
  BY <1>5, <1>6

\* Every step keeps the types of the row, the saga and the runners.
LEMMA LaunchShapeStep ==
  ASSUME Shape, Launched, [Next]_vars
  PROVE  LaunchShape'
<1> USE DEF Shape, LaunchShape
<1>1. ASSUME NEW k \in Launches, NEW w \in Launches, FgCreate(k, w) PROVE LaunchShape'
  <2> DEFINE a == [pc |-> "creating", id |-> k, ses |-> row.ses]
  <2>1. a \in LaunchRuns
    BY DEF LaunchRuns, Rows
  <2>2. runner' = [runner EXCEPT !["fg"] = a]
    BY <1>1 DEF FgCreate
  <2> HIDE DEF a
  <2>3. runner' \in [Runners -> {Idle} \cup LaunchRuns]
    BY <2>1, <2>2 DEF Runners
  <2>4. home' \in [Launches -> Launch0]
    BY <1>1 DEF FgCreate, Launch0
  <2>5. count' \in Counts
    BY <1>1 DEF FgCreate, Counts, Launches
  <2> QED
    BY <1>1, <2>3, <2>4, <2>5 DEF FgCreate, ghosts
<1>2. ASSUME FgCreateFails PROVE LaunchShape'
  BY <1>2, Finishes DEF FgCreateFails, Runners, Rows, Statuses, remote, ghosts
<1>3. ASSUME FgPersist PROVE LaunchShape'
  <2>1. fg \in LaunchRuns /\ fg.id \in Launches
    BY <1>3, IdleFacts DEF FgPersist, fg, Runners
  <2>2. UNCHANGED <<home, finals, count>>
    BY <1>3 DEF FgPersist, remote, ghosts
  <2>3. CASE \E phase \in Phases : PersistLaunch(fg.id, phase) /\ Step("fg", "validate")
    BY <2>1, <2>2, <2>3, Steps, Persists DEF fg, Runners, Launch0
  <2>4. CASE Step("fg", "orphan") /\ UNCHANGED <<row, saga, receipt>>
    BY <2>1, <2>2, <2>4, Steps DEF fg, Runners
  <2> QED
    BY <1>3, <2>3, <2>4 DEF FgPersist, fg, Phases
<1>4. ASSUME FgOrphan PROVE LaunchShape'
  BY <1>4, Steps, Finishes, IdleFacts, NoSagaFacts DEF FgOrphan, Runners, ghosts
<1>5. ASSUME FgPromote PROVE LaunchShape'
  BY <1>5, Steps, Finishes, IdleFacts, NoSagaFacts, Phased DEF FgPromote, Runners, Phases,
     remote, ghosts
<1>6. ASSUME FgPost PROVE LaunchShape'
  BY <1>6, Steps, Finishes, IdleFacts, NoSagaFacts DEF FgPost, Runners, store, ghosts
<1>7. ASSUME FgError PROVE LaunchShape'
  BY <1>7, Steps, Finishes, IdleFacts, NoSagaFacts, CancelsWrites, CleansUp DEF FgError,
     Runners, MarkCanceled, CanceledRow, Rows, Statuses, SagaBound, Launched, ghosts
<1>8. ASSUME FgHandoff PROVE LaunchShape'
  BY <1>8, Steps, Finishes, IdleFacts, NoSagaFacts DEF FgHandoff, Runners, store, remote, ghosts
<1>9. ASSUME RecStart PROVE LaunchShape'
  <2>1. saga \in PendingSagas /\ saga.id \in Launches
    BY <1>9, NoSagaFacts DEF RecStart
  <2>2. UNCHANGED <<receipt, home, finals>>
    BY <1>9 DEF RecStart, remote, ghosts
  <2>3. CASE MarkCanceled /\ UNCHANGED runner
    BY <2>1, <2>2, <2>3, CancelsWrites DEF MarkCanceled, CanceledRow, Rows, Statuses,
       SagaBound, Launched
  <2>4. CASE /\ saga' = IF saga.phase = "provisioned"
                        THEN [saga EXCEPT !.phase = "cleanup"] ELSE saga
             /\ \E pc \in {"naming", "get", "archiving"} :
                   runner' = [runner EXCEPT !["rec"] = [pc |-> pc, id |-> saga.id, ses |-> 0]]
             /\ row' = row /\ count' = count
    <3>1. saga' \in PendingSagas
      BY <2>1, <2>4, Phased DEF Phases
    <3>2. PICK pc \in {"naming", "get", "archiving"} :
              runner' = [runner EXCEPT !["rec"] = [pc |-> pc, id |-> saga.id, ses |-> 0]]
      BY <2>4
    <3>3. [pc |-> pc, id |-> saga.id, ses |-> 0] \in LaunchRuns
      BY <2>1, <3>2 DEF LaunchRuns, Launch0
    <3>4. runner' \in [Runners -> {Idle} \cup LaunchRuns]
      BY <3>2, <3>3 DEF Runners
    <3> QED
      BY <2>2, <2>4, <3>1, <3>4
  <2> QED
    BY <1>9, <2>3, <2>4 DEF RecStart
<1>10. ASSUME RecGet PROVE LaunchShape'
  BY <1>10, Steps, Finishes, IdleFacts, NoSagaFacts, MarksSent DEF RecGet, Runners, ghosts
<1>11. ASSUME RecFails PROVE LaunchShape'
  BY <1>11, Steps, Finishes, IdleFacts, NoSagaFacts, CleansUp, Phased DEF RecFails, Runners,
     CleanupAllowed, Phases, ghosts
<1>12. ASSUME NEW p \in Runners, Answered(p) PROVE LaunchShape'
  BY <1>12, Steps, Finishes, IdleFacts, NoSagaFacts, MarksSent DEF Answered, Runners, remote,
     ghosts
<1>13. ASSUME NEW p \in Runners, NamedAndFinal(p) PROVE LaunchShape'
  <2>1. runner[p].id \in Launches
    BY <1>13, IdleFacts DEF NamedAndFinal
  <2>2. UNCHANGED <<home, count>>
    BY <1>13 DEF NamedAndFinal, remote
  <2>3. CASE saga = NoSaga
    BY <1>13, <2>2, <2>3, Finishes DEF NamedAndFinal, Finalize
  <2>4. CASE saga # NoSaga
    BY <1>13, <2>1, <2>2, <2>4, Finishes, Finalizes DEF NamedAndFinal, Launch0
  <2> QED
    BY <2>3, <2>4
<1>14. ASSUME NEW p \in Runners, Archives(p) PROVE LaunchShape'
  BY <1>14, Steps, Finishes, IdleFacts, NoSagaFacts, CleansUp DEF Archives, ghosts
<1>15. ASSUME NEW p \in Runners, ArchiveFails(p) PROVE LaunchShape'
  BY <1>15, Steps, Finishes, IdleFacts, NoSagaFacts, CleansUp DEF ArchiveFails, remote, ghosts
<1>16. ASSUME NEW p \in Runners, RollsBack(p) PROVE LaunchShape'
  BY <1>16, Steps, Finishes, IdleFacts, NoSagaFacts, Restores DEF RollsBack, remote, ghosts
<1>17. ASSUME Stop PROVE LaunchShape'
  BY <1>17, CancelsWrites DEF Stop, CanceledRow, Rows, Statuses, SagaBound, Launched, remote
<1>18. ASSUME Archive PROVE LaunchShape'
  <2>1. UNCHANGED <<receipt, runner, home, finals>>
    BY <1>18 DEF Archive, remote
  <2>2. saga' \in {NoSaga} \cup PendingSagas
    BY <1>18, Phased DEF Archive, Phases
  <2>3. row' \in Rows /\ count' \in Counts
    BY <1>18, ArchiveWrites
  <2> QED
    BY <2>1, <2>2, <2>3
<1>19. ASSUME TermConfirms PROVE LaunchShape'
  BY <1>19, Settlement DEF TermConfirms, remote, ghosts
<1>20. ASSUME TermFails PROVE LaunchShape'
  BY <1>20, Settlement DEF TermFails, remote
<1>21. ASSUME SendBegin PROVE LaunchShape'
  BY <1>21 DEF SendBegin, Counts, remote, ghosts
<1>22. ASSUME SendAnswered PROVE LaunchShape'
  BY <1>22 DEF SendAnswered, Counts, Rows, Statuses, remote
<1>23. ASSUME FlushGet PROVE LaunchShape'
  BY <1>23, CompletesWrites, LeastFlushed, IdleFacts DEF FlushGet, MessageShape, ghosts
<1>24. ASSUME FlushAnswered PROVE LaunchShape'
  BY <1>24, CompletesWrites, IdleFacts DEF FlushAnswered, MessageShape, remote, ghosts
<1>25. ASSUME TurnEnds PROVE LaunchShape'
  BY <1>25 DEF TurnEnds, Rows, Statuses, procs, ghosts
<1>26. ASSUME Crash PROVE LaunchShape'
  BY <1>26 DEF Crash, Counts, Runners, remote, ghosts
<1>27. CASE TermStart \/ (\E s \in Launches : TermCancels(s)) \/ TermArchives
            \/ (\E s \in Launches : SendPost(s))
  BY <1>27 DEF TermStart, store, remote, ghosts, TermCancels, TermArchives, SendPost
<1>28. CASE SendFails \/ (\E r \in Requests : LateRequest(r)) \/ FlushStart \/ FlushFails
  BY <1>28 DEF SendFails, ghosts, LateRequest, remote, FlushStart, FlushFails
<1>29. CASE (\E m \in Msgs : RemoteTake(m)) \/ PublishNotices \/ LeaseExpires
  BY <1>29 DEF RemoteTake, store, procs, ghosts, PublishNotices, remote, LeaseExpires
<1>30. CASE UNCHANGED vars
  BY <1>30 DEF vars, store, remote, procs, ghosts
<1> QED
  BY <1>1, <1>2, <1>3, <1>4, <1>5, <1>6, <1>7, <1>8, <1>9, <1>10, <1>11, <1>12, <1>13, <1>14,
     <1>15, <1>16, <1>17, <1>18, <1>19, <1>20, <1>21, <1>22, <1>23, <1>24, <1>25, <1>26,
     <1>27, <1>28, <1>29, <1>30 DEF Next, Runs, Runners

\* Archive intends the workspace of the row, or of the pending launch, if any.
LEMMA ArchiveIntends ==
  ASSUME LaunchShape, Archive
  PROVE  \/ /\ intent' = intent /\ term' = term
            /\ row.ws = 0 /\ (saga # NoSaga => home[saga.id] = 0)
         \/ \E new \in TerminalIntents :
               /\ intent' = MergedIntent(new) /\ TermJoins(NoLease)
               /\ new.action = "archive" /\ new.at = count.at + 1 /\ new.sessions = {}
               /\ IF row.ws # 0 THEN new.ws = row.ws ELSE saga # NoSaga /\ new.ws = home[saga.id]
<1> DEFINE w == IF row.ws # 0 THEN row.ws ELSE IF saga = NoSaga THEN 0 ELSE home[saga.id]
           new == [action |-> "archive", ws |-> w, at |-> count.at + 1,
                   ses |-> IF row.ws # 0 THEN row.ses ELSE saga.id, sessions |-> {}]
<1>1. CASE w = 0
  BY <1>1 DEF Archive, LaunchShape
<1>2. CASE w # 0
  <2>1. intent' = MergedIntent(new) /\ TermJoins(NoLease)
    BY <1>2 DEF Archive
  <2>2. w \in Launches
    BY <1>2 DEF LaunchShape, Rows, Launch0, PendingSagas
  <2>3. new.ses \in Launch0 /\ count.at + 1 \in Nat \ {0}
    BY <1>2 DEF LaunchShape, Rows, Launch0, PendingSagas, Counts
  <2>4. new \in TerminalIntents
    BY <2>2, <2>3 DEF TerminalIntents
  <2> QED
    BY <1>2, <2>1, <2>4
<1> QED
  BY <1>1, <1>2

\* A late answer to a message of a stopped workspace arms the intent again.
LEMMA RearmIntends ==
  ASSUME Shape, SendAnswered
  PROVE  \/ intent' = intent /\ term' = term /\ count' = count /\ doomed' = doomed
         \/ \E new \in TerminalIntents :
               /\ intent' = MergedIntent(new) /\ TermJoins(NoLease) /\ lease' = NoLease
               /\ new.action = "stop" /\ new.at = count.at + 1 /\ new.ws = row.ws
               /\ new.sessions = {row.ses, where[<<"send", sender.id>>]}
               /\ count'.at = count.at + 1
               /\ row.status = "stopped" /\ ~row.archivedAt /\ row.ws = sender.ses
               /\ doomed' = doomed \cup {<<"send", sender.id>>} /\ row' = row
<1> DEFINE m == <<"send", sender.id>>
           rearm == row.status = "stopped" /\ ~row.archivedAt /\ row.ws = sender.ses
           new == [action |-> "stop", ws |-> row.ws, ses |-> row.ses,
                   sessions |-> {row.ses, where[m]}, at |-> count.at + 1]
<1>1. CASE LeaseCanSend("send") \/ ~rearm
  BY <1>1 DEF SendAnswered
<1>2. CASE ~LeaseCanSend("send") /\ rearm
  <2>1. /\ intent' = MergedIntent(new) /\ TermJoins(NoLease) /\ lease' = NoLease
        /\ doomed' = doomed \cup {m} /\ row' = row
        /\ count' = [count EXCEPT !.at = @ + 1]
    BY <1>2 DEF SendAnswered
  <2>2. sender \in Sends /\ sender.ses \in Launches /\ m \in Msgs
    BY IdleFacts DEF SendAnswered, Shape, MessageShape, Sends, Msgs
  <2>3. row.ws \in Launches /\ row.ses \in Launch0 /\ where[m] \in Launch0
    BY <1>2, <2>2 DEF Shape, LaunchShape, RemoteShape, Rows
  <2>4. count.at + 1 \in Nat \ {0} /\ count'.at = count.at + 1
    BY <2>1 DEF Shape, LaunchShape, Counts
  <2>5. new \in TerminalIntents
    BY <2>3, <2>4 DEF TerminalIntents
  <2> QED
    BY <1>2, <2>1, <2>4, <2>5
<1> QED
  BY <1>1, <1>2

\* Every step keeps the types of the intent and its attempt.
LEMMA IntentShapeStep ==
  ASSUME Shape, Launched, [Next]_vars
  PROVE  IntentShape'
<1> USE DEF Shape, IntentShape
<1>1. ASSUME FgError PROVE IntentShape'
  <2>1. intent' \in {NoIntent} \cup TerminalIntents
    BY <1>1, CancelsWrites DEF FgError, MarkCanceled, SagaBound, Launched
  <2> QED
    BY <1>1, <2>1 DEF FgError, ghosts
<1>2. ASSUME RecStart PROVE IntentShape'
  <2>1. intent' \in {NoIntent} \cup TerminalIntents
    BY <1>2, CancelsWrites DEF RecStart, MarkCanceled, SagaBound, Launched
  <2> QED
    BY <1>2, <2>1 DEF RecStart, ghosts
<1>3. ASSUME NEW p \in Runners, RollsBack(p) PROVE IntentShape'
  BY <1>3, Restores, NoSagaFacts, IdleFacts DEF RollsBack, MessageShape, LaunchShape, ghosts
<1>4. ASSUME Stop PROVE IntentShape'
  <2>1. Cancels(1) /\ intent' \in {NoIntent} \cup TerminalIntents
    BY <1>4, CancelsWrites DEF Stop, SagaBound, Launched
  <2>2. CASE intent' = NoIntent
    BY <1>4, <2>1, <2>2 DEF Stop
  <2>3. CASE intent' # NoIntent
    <3>1. TermJoins(lease) /\ lease \in {NoLease} \cup Leases
      BY <1>4, <2>3 DEF Stop, MessageShape
    <3> QED
      BY <1>4, <2>1, <2>3, <3>1, Joins DEF Stop
  <2> QED
    BY <2>2, <2>3
<1>5. ASSUME Archive PROVE IntentShape'
  <2>1. UNCHANGED <<targets, stopper, notices>> /\ gaveUp' = FALSE
    BY <1>5 DEF Archive
  <2>2. CASE intent' = intent /\ term' = term
    BY <2>1, <2>2
  <2>3. CASE \E new \in TerminalIntents : intent' = MergedIntent(new) /\ TermJoins(NoLease)
    <3>1. intent' \in TerminalIntents
      BY <2>3, Merged
    <3> QED
      BY <2>1, <2>3, <3>1, Joins
  <2> QED
    BY <1>5, <2>2, <2>3, ArchiveIntends
<1>6. ASSUME TermStart PROVE IntentShape'
  <2>1. term' = TermBegins(intent, lease) /\ intent \in TerminalIntents
    BY <1>6 DEF TermStart
  <2>2. term' \in Attempts
    BY <2>1, BeginsWith DEF MessageShape
  <2> QED
    BY <1>6, <2>2 DEF TermStart, store, ghosts
<1>7. ASSUME NEW s \in Launches, TermCancels(s) PROVE IntentShape'
  <2>1. term \in Attempts /\ term' = [term EXCEPT !.todo = @ \ {s}]
    BY <1>7, IdleFacts DEF TermCancels
  <2>2. term' \in Attempts
    BY <2>1 DEF Attempts
  <2> QED
    BY <1>7, <2>2 DEF TermCancels, store, ghosts
<1>8. ASSUME TermArchives PROVE IntentShape'
  <2>1. term \in Attempts /\ term' = [term EXCEPT !.pc = "confirmed"]
    BY <1>8, IdleFacts DEF TermArchives
  <2>2. term' \in Attempts
    BY <2>1 DEF Attempts
  <2> QED
    BY <1>8, <2>2 DEF TermArchives, store, ghosts
<1>9. ASSUME TermConfirms PROVE IntentShape'
  BY <1>9, Settlement DEF TermConfirms, FinalNotices, ghosts
<1>10. ASSUME TermFails PROVE IntentShape'
  BY <1>10, Settlement DEF TermFails
<1>11. ASSUME NEW s \in Launches, SendPost(s) PROVE IntentShape'
  BY <1>11 DEF SendPost, ghosts
<1>12. ASSUME SendAnswered PROVE IntentShape'
  <2>1. UNCHANGED <<targets, stopper, notices, gaveUp>>
    BY <1>12 DEF SendAnswered
  <2>2. CASE intent' = intent /\ term' = term
    BY <2>1, <2>2
  <2>3. CASE \E new \in TerminalIntents : intent' = MergedIntent(new) /\ TermJoins(NoLease)
    <3>1. intent' \in TerminalIntents
      BY <2>3, Merged
    <3> QED
      BY <2>1, <2>3, <3>1, Joins
  <2> QED
    BY <1>12, <2>2, <2>3, RearmIntends
<1>13. ASSUME FlushGet PROVE IntentShape'
  BY <1>13, FlushGetWrites DEF FlushGet, FlushPosts, FlushLeaves, SagaBound, Launched,
     Answers, Completes, ghosts
<1>14. ASSUME PublishNotices PROVE IntentShape'
  BY <1>14 DEF PublishNotices, procs, ghosts
<1>15. ASSUME Crash PROVE IntentShape'
  BY <1>15 DEF Crash, ghosts
<1>16. CASE (\E k, w \in Launches : FgCreate(k, w)) \/ FgCreateFails \/ FgPersist \/ FgOrphan
  BY <1>16 DEF FgCreate, ghosts, FgCreateFails, FgPersist, FgOrphan
<1>17. CASE FgPromote \/ FgPost \/ FgHandoff \/ RecGet
  BY <1>17 DEF FgPromote, ghosts, FgPost, store, FgHandoff, RecGet
<1>18. CASE RecFails \/ (\E p \in Runners : Answered(p))
            \/ (\E p \in Runners : NamedAndFinal(p)) \/ (\E p \in Runners : Archives(p))
  BY <1>18 DEF RecFails, ghosts, Answered, NamedAndFinal, Archives
<1>19. CASE (\E p \in Runners : ArchiveFails(p)) \/ SendBegin \/ SendFails
            \/ (\E r \in Requests : LateRequest(r))
  BY <1>19 DEF ArchiveFails, ghosts, SendBegin, SendFails, LateRequest
<1>20. CASE FlushStart \/ FlushAnswered \/ FlushFails \/ (\E m \in Msgs : RemoteTake(m))
  BY <1>20 DEF FlushStart, ghosts, FlushAnswered, FlushFails, RemoteTake, store, procs
<1>21. CASE TurnEnds \/ LeaseExpires
  BY <1>21 DEF TurnEnds, procs, ghosts, LeaseExpires
<1>22. CASE UNCHANGED vars
  BY <1>22 DEF vars, store, procs, ghosts
<1> QED
  BY <1>1, <1>2, <1>3, <1>4, <1>5, <1>6, <1>7, <1>8, <1>9, <1>10, <1>11, <1>12, <1>13, <1>14,
     <1>15, <1>16, <1>17, <1>18, <1>19, <1>20, <1>21, <1>22 DEF Next, Runs, Runners

\* Every step keeps the types of the messages, the lease and who sends.
LEMMA MessageShapeStep ==
  ASSUME Shape, Launched, [Next]_vars
  PROVE  MessageShape'
<1> USE DEF Shape, MessageShape
<1>1. ASSUME NEW k \in Launches, NEW w \in Launches, FgCreate(k, w) PROVE MessageShape'
  BY <1>1 DEF FgCreate, Leases, LeaseFree, LaunchShape, Rows, Launch0
<1>2. ASSUME FgCreateFails PROVE MessageShape'
  BY <1>2 DEF FgCreateFails, Unleased
<1>3. ASSUME FgPersist PROVE MessageShape'
  BY <1>3 DEF FgPersist, PersistLaunch
<1>4. ASSUME FgOrphan PROVE MessageShape'
  BY <1>4 DEF FgOrphan, Unleased
<1>5. ASSUME FgError PROVE MessageShape'
  BY <1>5, CancelsWrites DEF FgError, MarkCanceled, SagaBound, Launched, Answers
<1>6. ASSUME RecStart PROVE MessageShape'
  BY <1>6, CancelsWrites DEF RecStart, MarkCanceled, SagaBound, Launched, Answers
<1>7. ASSUME NEW p \in Runners, RollsBack(p) PROVE MessageShape'
  BY <1>7, Restores, NoSagaFacts, IdleFacts DEF RollsBack, Answers, LaunchShape
<1>8. ASSUME Stop PROVE MessageShape'
  BY <1>8, CancelsWrites DEF Stop, SagaBound, Launched, Answers
<1>9. ASSUME Archive PROVE MessageShape'
  BY <1>9, EmptiedAnswers DEF Archive, Answers
<1>10. ASSUME TermConfirms PROVE MessageShape'
  BY <1>10 DEF TermConfirms
<1>11. ASSUME TermFails PROVE MessageShape'
  BY <1>11 DEF TermFails
<1>12. ASSUME SendBegin PROVE MessageShape'
  <2>1. row.ws \in Launches
    BY <1>12 DEF SendBegin, LeaseFree, LaunchShape, Rows, Launch0
  <2>2. lease' \in Leases
    BY <1>12, <2>1 DEF SendBegin, Leases, Launch0
  <2>3. sender' \in Sends
    BY <1>12, <2>1, SagaBounds DEF SendBegin, Sends, LaunchShape, Counts
  <2> QED
    BY <1>12, <2>2, <2>3 DEF SendBegin
<1>13. ASSUME NEW s \in Launches, SendPost(s) PROVE MessageShape'
  <2>1. lease \in Leases /\ lease' = [lease EXCEPT !.ses = s]
    BY <1>13, IdleFacts DEF SendPost, LeaseCanSend
  <2>2. lease' \in Leases
    BY <2>1 DEF Leases, Launch0
  <2>3. sender \in Sends /\ sender' = [sender EXCEPT !.pc = "posted"]
    BY <1>13, IdleFacts DEF SendPost
  <2>4. sender' \in Sends
    BY <2>3 DEF Sends
  <2> QED
    BY <1>13, <2>2, <2>4 DEF SendPost
<1>14. ASSUME SendFails PROVE MessageShape'
  BY <1>14 DEF SendFails, Unleased
<1>15. ASSUME SendAnswered PROVE MessageShape'
  BY <1>15 DEF SendAnswered, Unleased
<1>16. ASSUME NEW r \in Requests, LateRequest(r) PROVE MessageShape'
  <2>1. outbox' \subseteq [req : Requests, ses : Launch0]
    BY <1>16 DEF LateRequest, LaunchShape, Rows
  <2>2. outcome' \in [Requests -> Outcomes]
    BY <1>16 DEF LateRequest, Outcomes
  <2>3. eager' \in BOOLEAN
    BY <1>16 DEF LateRequest
  <2> QED
    BY <1>16, <2>1, <2>2, <2>3 DEF LateRequest
<1>17. ASSUME FlushStart PROVE MessageShape'
  <2>1. UNCHANGED <<lease, sender>> /\ eager' = FALSE
    BY <1>17 DEF FlushStart
  <2>2. CASE \E result \in {"failed", "suppressed"} : ClearOutbox(Queued, result) /\ flush' = flush
    <3>1. Answers
      BY <2>2, ClearAnswers
    <3> QED
      BY <2>1, <2>2, <3>1 DEF Answers
  <2>3. CASE /\ flush' = [pc |-> "get", req |-> 0, ses |-> (CHOOSE x \in outbox : TRUE).ses,
                          todo |-> Queued]
             /\ UNCHANGED <<outbox, outcome>>
    <3>1. PICK x \in outbox : x = CHOOSE y \in outbox : TRUE
      BY <1>17 DEF FlushStart
    <3>2. x.ses \in Launch0 /\ x.req \in Queued /\ Queued \subseteq Requests
      BY <3>1 DEF Queued
    <3>3. flush' \in Flushes
      BY <2>3, <3>1, <3>2 DEF Flushes
    <3> QED
      BY <2>1, <2>3, <3>3
  <2> QED
    BY <1>17, <2>2, <2>3 DEF FlushStart
<1>18. ASSUME FlushGet PROVE MessageShape'
  <2>1. UNCHANGED <<sender, eager>>
    BY <1>18 DEF FlushGet
  <2>2. PICK r \in Requests :
               \/ Req(r) \in seen /\ Completes(r) /\ UNCHANGED <<lease, targets, wire, where>>
               \/ FlushPosts(r)
               \/ FlushLeaves
    BY <1>18, FlushGetWrites DEF Launched
  <2>3. flush \in Flushes
    BY <1>18, FlushGetWrites DEF Launched
  <2> QED
    BY <2>1, <2>2, <2>3, CompletesWrites DEF Answers, FlushPosts, FlushLeaves
<1>19. ASSUME FlushAnswered PROVE MessageShape'
  BY <1>19, CompletesWrites, IdleFacts DEF FlushAnswered, Answers, Unleased
<1>20. ASSUME FlushFails PROVE MessageShape'
  BY <1>20 DEF FlushFails, Unleased
<1>21. ASSUME Crash PROVE MessageShape'
  BY <1>21 DEF Crash, Leases
<1>22. ASSUME LeaseExpires PROVE MessageShape'
  BY <1>22 DEF LeaseExpires, procs
<1>23. CASE FgPromote \/ FgPost \/ FgHandoff \/ RecGet
  BY <1>23 DEF FgPromote, FgPost, store, FgHandoff, RecGet
<1>24. CASE RecFails \/ (\E p \in Runners : Answered(p))
            \/ (\E p \in Runners : NamedAndFinal(p)) \/ (\E p \in Runners : Archives(p))
  BY <1>24 DEF RecFails, Answered, NamedAndFinal, Archives
<1>25. CASE (\E p \in Runners : ArchiveFails(p)) \/ TermStart
            \/ (\E s \in Launches : TermCancels(s)) \/ TermArchives
  BY <1>25 DEF ArchiveFails, TermStart, store, TermCancels, TermArchives
<1>26. CASE (\E m \in Msgs : RemoteTake(m)) \/ TurnEnds \/ PublishNotices
  BY <1>26 DEF RemoteTake, store, procs, TurnEnds, PublishNotices
<1>27. CASE UNCHANGED vars
  BY <1>27 DEF vars, store, procs
<1> QED
  BY <1>1, <1>2, <1>3, <1>4, <1>5, <1>6, <1>7, <1>8, <1>9, <1>10, <1>11, <1>12, <1>13, <1>14,
     <1>15, <1>16, <1>17, <1>18, <1>19, <1>20, <1>21, <1>22, <1>23, <1>24, <1>25, <1>26, <1>27
     DEF Next, Runs, Runners

\* Every step keeps the types of what Conductor has.
LEMMA RemoteShapeStep ==
  ASSUME Shape, Launched, [Next]_vars
  PROVE  RemoteShape'
<1> USE DEF Shape, RemoteShape
<1>1. ASSUME FgOrphan PROVE RemoteShape'
  BY <1>1, IdleFacts DEF FgOrphan, Runners, Launch0, LaunchShape, ghosts
<1>2. ASSUME FgPost PROVE RemoteShape'
  BY <1>2, IdleFacts DEF FgPost, Runners, Launch0, LaunchShape, Msgs, First, ghosts
<1>3. ASSUME FgError PROVE RemoteShape'
  BY <1>3, IdleFacts DEF FgError, ghosts
<1>4. ASSUME RecGet PROVE RemoteShape'
  BY <1>4, IdleFacts DEF RecGet, Runners, Launch0, LaunchShape, Msgs, First, ghosts
<1>5. ASSUME RecFails PROVE RemoteShape'
  BY <1>5 DEF RecFails, ghosts
<1>6. ASSUME NEW p \in Runners, Archives(p) PROVE RemoteShape'
  BY <1>6, IdleFacts DEF Archives, Resource, Runners, Launch0, LaunchShape, ghosts
<1>7. ASSUME Stop PROVE RemoteShape'
  <2>1. UNCHANGED remote
    BY <1>7 DEF Stop
  <2>2. saga # NoSaga => First(saga.id) \in Msgs
    BY NoSagaFacts DEF LaunchShape, First, Msgs
  <2>3. doomed' \subseteq Running \cup {m \in Msgs : m = First(saga.id)}
    BY <1>7, <2>2 DEF Stop
  <2> QED
    BY <2>1, <2>3 DEF remote, Running
<1>8. ASSUME Archive PROVE RemoteShape'
  <2>1. UNCHANGED remote
    BY <1>8 DEF Archive
  <2>2. saga # NoSaga => First(saga.id) \in Msgs
    BY NoSagaFacts DEF LaunchShape, First, Msgs
  <2>3. doomed' \subseteq doomed \cup Running \cup {m \in Msgs : m = First(saga.id)}
    BY <1>8, <2>2 DEF Archive
  <2> QED
    BY <2>1, <2>3 DEF remote, Running
<1>9. ASSUME NEW s \in Launches, TermCancels(s) PROVE RemoteShape'
  BY <1>9 DEF TermCancels, ghosts
<1>10. ASSUME TermArchives PROVE RemoteShape'
  BY <1>10, IdleFacts DEF TermArchives, IntentShape, Launch0, TerminalIntents, ghosts
<1>11. ASSUME NEW s \in Launches, SendPost(s) PROVE RemoteShape'
  BY <1>11, IdleFacts DEF SendPost, MessageShape, Sends, Msgs, Launch0, ghosts
<1>12. ASSUME SendFails PROVE RemoteShape'
  BY <1>12 DEF SendFails, ghosts
<1>13. ASSUME SendAnswered PROVE RemoteShape'
  <2>1. UNCHANGED remote
    BY <1>13 DEF SendAnswered
  <2>2. <<"send", sender.id>> \in seen
    BY <1>13 DEF SendAnswered
  <2>3. doomed' \subseteq doomed \cup {<<"send", sender.id>>}
    BY <1>13 DEF SendAnswered
  <2> QED
    BY <2>1, <2>2, <2>3 DEF remote
<1>14. ASSUME FlushGet PROVE RemoteShape'
  <2>1. UNCHANGED <<seen, live, gone, doomed>>
    BY <1>14 DEF FlushGet, ghosts
  <2>2. PICK r \in Requests :
               \/ UNCHANGED <<wire, where>>
               \/ FlushPosts(r)
    BY <1>14, FlushGetWrites DEF Launched, FlushLeaves
  <2>3. CASE FlushPosts(r)
    BY <2>1, <2>3 DEF FlushPosts, Launch0, Msgs, Req
  <2> QED
    BY <2>1, <2>2, <2>3
<1>15. ASSUME FlushFails PROVE RemoteShape'
  BY <1>15 DEF FlushFails, ghosts
<1>16. ASSUME NEW m \in Msgs, RemoteTake(m) PROVE RemoteShape'
  BY <1>16 DEF RemoteTake, ghosts
<1>17. ASSUME TurnEnds PROVE RemoteShape'
  BY <1>17 DEF TurnEnds, ghosts
<1>18. CASE (\E k, w \in Launches : FgCreate(k, w)) \/ FgCreateFails \/ FgPersist \/ FgPromote
  BY <1>18 DEF FgCreate, ghosts, FgCreateFails, remote, FgPersist, FgPromote
<1>19. CASE FgHandoff \/ RecStart \/ (\E p \in Runners : Answered(p))
            \/ (\E p \in Runners : NamedAndFinal(p))
  BY <1>19 DEF FgHandoff, remote, ghosts, RecStart, Answered, LaunchCanSend, NamedAndFinal
<1>20. CASE (\E p \in Runners : ArchiveFails(p)) \/ (\E p \in Runners : RollsBack(p))
            \/ TermStart \/ TermConfirms
  BY <1>20 DEF ArchiveFails, remote, ghosts, RollsBack, TermStart, TermConfirms
<1>21. CASE TermFails \/ SendBegin \/ (\E r \in Requests : LateRequest(r)) \/ FlushStart
  BY <1>21 DEF TermFails, remote, SendBegin, ghosts, LateRequest, FlushStart
<1>22. CASE FlushAnswered \/ PublishNotices \/ Crash \/ LeaseExpires
  BY <1>22 DEF FlushAnswered, remote, ghosts, PublishNotices, Crash, LeaseExpires
<1>23. CASE UNCHANGED vars
  BY <1>23 DEF vars, remote, ghosts
<1> QED
  BY <1>1, <1>2, <1>3, <1>4, <1>5, <1>6, <1>7, <1>8, <1>9, <1>10, <1>11, <1>12, <1>13, <1>14,
     <1>15, <1>16, <1>17, <1>18, <1>19, <1>20, <1>21, <1>22, <1>23 DEF Next, Runs, Runners

\* The types are kept by every step.
LEMMA ShapeStep ==
  ASSUME Shape, Launched, [Next]_vars
  PROVE  Shape'
BY LaunchShapeStep, IntentShapeStep, MessageShapeStep, RemoteShapeStep DEF Shape

-----------------------------------------------------------------------------
(* Launches                                                                 *)

\* The pending saga, what is final and who works for which launch change in
\* few steps only.
SameLaunch ==
    /\ row'.ws = row.ws /\ row'.ses = row.ses /\ UNCHANGED <<home, finals>>
    /\ count'.launch = count.launch
    /\ \/ saga' = saga
       \/ /\ saga \in PendingSagas /\ saga' \in PendingSagas
          /\ saga'.id = saga.id /\ saga'.prev = saga.prev
    /\ \A p \in Runners :
          \/ runner'[p] \in {runner[p], Idle}
          \/ /\ runner[p] \in LaunchRuns /\ runner'[p] \in LaunchRuns
             /\ runner'[p].id = runner[p].id /\ runner'[p].pc \notin Early

\* SameLaunch holds of every step but five.
LEMMA KeepsLaunch ==
  ASSUME Shape, Launched, [Next]_vars
  PROVE  SameLaunch \/ (\E k, w \in Launches : FgCreate(k, w)) \/ FgPersist \/ RecStart
         \/ (\E p \in Runners : NamedAndFinal(p)) \/ (\E p \in Runners : RollsBack(p))
<1> USE DEF Shape, LaunchShape, SameLaunch
<1>1. ASSUME FgCreateFails PROVE SameLaunch
  BY <1>1, Finishes DEF FgCreateFails, Runners, Rows, Statuses, Launched, Foreground, fg,
     Early, remote, ghosts
<1>2. ASSUME FgOrphan PROVE SameLaunch
  BY <1>2, Steps, Finishes, IdleFacts, NoSagaFacts DEF FgOrphan, Runners, Early, ghosts
<1>3. ASSUME FgPromote PROVE SameLaunch
  <2>1. saga \in PendingSagas /\ runner["fg"] \in LaunchRuns
    BY <1>3, NoSagaFacts, IdleFacts DEF FgPromote, Runners
  <2>2. saga' \in PendingSagas /\ saga'.id = saga.id /\ saga'.prev = saga.prev
    BY <1>3, <2>1, Phased DEF FgPromote, Phases
  <2> QED
    BY <1>3, <2>1, <2>2, Steps DEF FgPromote, Runners, Early, remote, ghosts
<1>4. ASSUME FgPost PROVE SameLaunch
  BY <1>4, Steps, Finishes, IdleFacts, NoSagaFacts DEF FgPost, Runners, Early, store, ghosts
<1>5. ASSUME FgError PROVE SameLaunch
  BY <1>5, Steps, Finishes, IdleFacts, NoSagaFacts, CancelsWrites, CleansUp DEF FgError,
     Runners, MarkCanceled, CanceledRow, Rows, Statuses, SagaBound, Launched, Early, ghosts
<1>6. ASSUME FgHandoff PROVE SameLaunch
  BY <1>6, Steps, Finishes, IdleFacts, NoSagaFacts DEF FgHandoff, Runners, Early, store,
     remote, ghosts
<1>7. ASSUME RecGet PROVE SameLaunch
  BY <1>7, Steps, Finishes, IdleFacts, NoSagaFacts, MarksSent DEF RecGet, Runners, Early, ghosts
<1>8. ASSUME RecFails PROVE SameLaunch
  BY <1>8, Steps, Finishes, IdleFacts, NoSagaFacts, CleansUp, Phased DEF RecFails, Runners,
     CleanupAllowed, Phases, Early, ghosts
<1>9. ASSUME NEW p \in Runners, Answered(p) PROVE SameLaunch
  BY <1>9, Steps, Finishes, IdleFacts, NoSagaFacts, MarksSent DEF Answered, Runners, Early,
     remote, ghosts
<1>10. ASSUME NEW p \in Runners, Archives(p) PROVE SameLaunch
  BY <1>10, Steps, Finishes, IdleFacts, NoSagaFacts, CleansUp DEF Archives, Early, ghosts
<1>11. ASSUME NEW p \in Runners, ArchiveFails(p) PROVE SameLaunch
  BY <1>11, Steps, Finishes, IdleFacts, NoSagaFacts, CleansUp DEF ArchiveFails, remote, ghosts
<1>12. ASSUME Stop PROVE SameLaunch
  BY <1>12, CancelsWrites DEF Stop, CanceledRow, Rows, Statuses, SagaBound, Launched, remote
<1>13. ASSUME Archive PROVE SameLaunch
  BY <1>13, ArchiveWrites, Phased DEF Archive, Phases, remote
<1>14. ASSUME TermConfirms PROVE SameLaunch
  BY <1>14, Settlement DEF TermConfirms, remote, ghosts
<1>15. ASSUME TermFails PROVE SameLaunch
  BY <1>15, Settlement DEF TermFails, remote
<1>16. ASSUME SendBegin PROVE SameLaunch
  BY <1>16 DEF SendBegin, Counts, remote, ghosts
<1>17. ASSUME SendAnswered PROVE SameLaunch
  BY <1>17 DEF SendAnswered, Counts, Rows, Statuses, remote
<1>18. ASSUME FlushGet PROVE SameLaunch
  BY <1>18, FlushGetWrites, CompletesWrites DEF FlushGet, MessageShape, Launched, FlushPosts,
     FlushLeaves, ghosts
<1>19. ASSUME FlushAnswered PROVE SameLaunch
  BY <1>19, CompletesWrites, IdleFacts DEF FlushAnswered, MessageShape, remote, ghosts
<1>20. ASSUME TurnEnds PROVE SameLaunch
  BY <1>20 DEF TurnEnds, Rows, Statuses, procs, ghosts
<1>21. ASSUME Crash PROVE SameLaunch
  BY <1>21 DEF Crash, Counts, Runners, remote, ghosts
<1>22. CASE TermStart \/ (\E s \in Launches : TermCancels(s)) \/ TermArchives
            \/ (\E s \in Launches : SendPost(s))
  BY <1>22 DEF TermStart, store, remote, ghosts, TermCancels, TermArchives, SendPost
<1>23. CASE SendFails \/ (\E r \in Requests : LateRequest(r)) \/ FlushStart \/ FlushFails
  BY <1>23 DEF SendFails, ghosts, LateRequest, remote, FlushStart, FlushFails
<1>24. CASE (\E m \in Msgs : RemoteTake(m)) \/ PublishNotices \/ LeaseExpires
  BY <1>24 DEF RemoteTake, store, procs, ghosts, PublishNotices, remote, LeaseExpires
<1>25. CASE UNCHANGED vars
  BY <1>25 DEF vars, store, remote, procs, ghosts
<1> QED
  BY <1>1, <1>2, <1>3, <1>4, <1>5, <1>6, <1>7, <1>8, <1>9, <1>10, <1>11, <1>12, <1>13, <1>14,
     <1>15, <1>16, <1>17, <1>18, <1>19, <1>20, <1>21, <1>22, <1>23, <1>24, <1>25 DEF Next,
     Runs, Runners

\* What the five others write.  A launch begins with a new id, on a row without
\* a saga, and a thread takes the lease.
LEMMA CreateWrites ==
  ASSUME Shape, Launched, NEW k \in Launches, NEW w \in Launches, FgCreate(k, w)
  PROVE  /\ k = count.launch + 1 /\ count'.launch = k /\ saga = NoSaga
         /\ home' = [home EXCEPT ![k] = w]
         /\ fg = Idle /\ fg' \in LaunchRuns /\ fg'.id = k /\ fg'.pc = "creating" /\ rec' = rec
         /\ UNCHANGED <<row, saga, finals>>
         /\ \/ w = k /\ row.ws = 0 /\ row.status \notin Terminal /\ lease' = lease
            \/ /\ w = row.ws /\ LeaseFree(FALSE) /\ lease' \in Leases
               /\ lease'.by = "thread" /\ lease'.ws = w /\ lease'.ses = 0
<1> USE DEF Shape, LaunchShape
<1>1. /\ k = count.launch + 1 /\ count'.launch = k /\ saga = NoSaga
      /\ home' = [home EXCEPT ![k] = w] /\ UNCHANGED <<row, saga, finals>>
  BY DEF FgCreate, ghosts, LeaseFree, Counts
<1>2. /\ \/ w = k /\ row.ws = 0 /\ row.status \notin Terminal /\ lease' = lease
         \/ /\ w = row.ws /\ LeaseFree(FALSE) /\ lease' \in Leases
            /\ lease'.by = "thread" /\ lease'.ws = w /\ lease'.ses = 0
  <2>1. CASE w = row.ws /\ LeaseFree(FALSE) /\ lease' = [by |-> "thread", ws |-> w, ses |-> 0]
    BY <2>1 DEF Leases, Launch0
  <2> QED
    BY <2>1 DEF FgCreate
<1>3. fg = Idle /\ fg' \in LaunchRuns /\ fg'.id = k /\ fg'.pc = "creating" /\ rec' = rec
  <2>1. /\ runner["fg"] = Idle
        /\ runner' = [runner EXCEPT !["fg"] = [pc |-> "creating", id |-> k, ses |-> row.ses]]
    BY DEF FgCreate
  <2>2. [pc |-> "creating", id |-> k, ses |-> row.ses] \in LaunchRuns
    BY DEF LaunchRuns, Rows
  <2> QED
    BY <2>1, <2>2 DEF fg, rec, Runners
<1> QED
  BY <1>1, <1>2, <1>3

\* A launch that comes back is persisted by what the owner did meanwhile, or is
\* an orphan whose row has gone elsewhere.
LEMMA PersistWrites ==
  ASSUME Shape, Launched, FgPersist
  PROVE  /\ fg.pc = "creating" /\ fg \in LaunchRuns /\ fg' \in LaunchRuns /\ fg'.id = fg.id
         /\ rec' = rec /\ UNCHANGED <<home, finals, count, intent>>
         /\ \/ /\ \E phase \in {"provisioned", "cleanup", "cancel"} :
                     /\ PersistLaunch(fg.id, phase)
                     /\ IF home[fg.id] = fg.id
                        THEN phase = IF row.status \in Terminal THEN "cancel"
                                     ELSE IF row.status \in {"failed", "done"} THEN "cleanup"
                                     ELSE "provisioned"
                        ELSE phase = IF intent # NoIntent THEN "cancel" ELSE "provisioned"
               /\ home[fg.id] = fg.id \/ (row.ws = home[fg.id] /\ row.ses = fg.ses)
               /\ fg'.pc = "validate"
            \/ /\ home[fg.id] # fg.id
               /\ fg'.pc = "orphan" /\ UNCHANGED <<row, saga, receipt, lease, outbox>>
<1> USE DEF Shape, LaunchShape
<1>1. fg.pc = "creating" /\ fg \in LaunchRuns
  BY IdleFacts DEF FgPersist, fg, Runners
<1>2. UNCHANGED <<home, finals, count, intent>>
  BY DEF FgPersist, remote, ghosts
<1>3. \A pc \in {"validate", "orphan"} : Step("fg", pc) =>
          fg' \in LaunchRuns /\ fg'.id = fg.id /\ fg'.pc = pc /\ rec' = rec
  BY <1>1, Steps DEF fg, rec, Runners
<1> DEFINE ok == home[fg.id] = fg.id \/ (row.ws = home[fg.id] /\ row.ses = fg.ses)
           phase == IF home[fg.id] = fg.id
                    THEN IF row.status \in Terminal THEN "cancel"
                         ELSE IF row.status \in {"failed", "done"} THEN "cleanup"
                         ELSE "provisioned"
                    ELSE IF intent # NoIntent THEN "cancel" ELSE "provisioned"
<1>4. \/ ok /\ PersistLaunch(fg.id, phase) /\ Step("fg", "validate")
      \/ /\ home[fg.id] # fg.id
         /\ Step("fg", "orphan") /\ UNCHANGED <<row, saga, receipt, lease, outbox>>
  BY DEF FgPersist, fg
<1>5. phase \in {"provisioned", "cleanup", "cancel"}
  OBVIOUS
<1> QED
  BY <1>1, <1>2, <1>3, <1>4, <1>5

\* The rename that ends a launch makes it final, or finds its saga gone.
LEMMA FinalWrites ==
  ASSUME Shape, Launched, NEW p \in Runners, NamedAndFinal(p)
  PROVE  /\ UNCHANGED <<home, count>>
         /\ runner'[p] = Idle /\ \A q \in Runners \ {p} : runner'[q] = runner[q]
         /\ runner[p] \in LaunchRuns
         /\ \/ saga = NoSaga /\ UNCHANGED <<row, saga, receipt, finals>>
            \/ /\ saga \in PendingSagas /\ saga.id = runner[p].id /\ saga.phase = "sent"
               /\ row.status = "starting"
               /\ row' \in Rows /\ row'.ws = home[saga.id] /\ row'.ses = saga.id
               /\ row'.status = "running" /\ row'.archivedAt = row.archivedAt
               /\ saga' = NoSaga /\ finals' = finals \cup {saga.id}
<1> USE DEF Shape, LaunchShape
<1>1. runner[p] \in LaunchRuns /\ runner[p].id \in Launches
  BY IdleFacts DEF NamedAndFinal
<1>2. UNCHANGED <<home, count>>
  BY DEF NamedAndFinal, remote
<1>3. runner'[p] = Idle /\ \A q \in Runners \ {p} : runner'[q] = runner[q]
  BY Finishes DEF NamedAndFinal
<1>4. CASE saga = NoSaga
  BY <1>1, <1>2, <1>3, <1>4 DEF NamedAndFinal, Finalize
<1>5. CASE saga # NoSaga
  <2>1. Finalize(runner[p].id) /\ FinalizeAllowed(runner[p].id)
    BY DEF NamedAndFinal
  <2>2. saga.id = runner[p].id /\ saga.phase = "sent" /\ row.status = "starting"
    BY <1>5, <2>1 DEF FinalizeAllowed
  <2> QED
    BY <1>1, <1>2, <1>3, <1>5, <2>1, <2>2, Finalizes
<1> QED
  BY <1>4, <1>5

\* The archive that ends a cleanup rolls its saga back, or finds it gone.
LEMMA RollbackWrites ==
  ASSUME Shape, Launched, NEW p \in Runners, RollsBack(p)
  PROVE  /\ UNCHANGED <<home, count, finals, intent>>
         /\ runner'[p] = Idle /\ \A q \in Runners \ {p} : runner'[q] = runner[q]
         /\ runner[p] \in LaunchRuns /\ runner[p].pc = "archived"
         /\ \/ saga.id # runner[p].id /\ UNCHANGED <<row, saga, lease, outbox, outcome, notices>>
            \/ saga \in PendingSagas /\ saga.id = runner[p].id /\ RestoreLaunch
<1> USE DEF Shape, LaunchShape
<1>1. runner[p] \in LaunchRuns /\ runner[p].id \in Launches /\ runner[p].pc = "archived"
  BY IdleFacts DEF RollsBack
<1>2. UNCHANGED <<home, count, finals, intent>>
  BY DEF RollsBack, remote, ghosts
<1>3. runner'[p] = Idle /\ \A q \in Runners \ {p} : runner'[q] = runner[q]
  BY Finishes DEF RollsBack
<1>4. \/ saga.id # runner[p].id /\ UNCHANGED <<row, saga, lease, outbox, outcome, notices>>
      \/ saga \in PendingSagas /\ saga.id = runner[p].id /\ RestoreLaunch
  BY <1>1, NoSagaFacts DEF RollsBack
<1> QED
  BY <1>1, <1>2, <1>3, <1>4

\* A starting process takes up the pending saga by its phase.
LEMMA RecStartWrites ==
  ASSUME Shape, Launched, RecStart
  PROVE  /\ saga \in PendingSagas /\ rec = Idle /\ fg' = fg /\ UNCHANGED <<home, finals>>
         /\ \/ saga.phase = "send" /\ row.status \in Terminal /\ MarkCanceled /\ rec' = rec
            \/ /\ saga' \in PendingSagas /\ saga'.id = saga.id /\ saga'.prev = saga.prev
               /\ IF saga.phase = "provisioned" THEN saga'.phase = "cleanup" ELSE saga' = saga
               /\ rec' \in LaunchRuns /\ rec'.id = saga.id
               /\ rec'.pc = CASE saga.phase = "sent" -> "naming"
                              [] saga.phase = "send" -> "get"
                              [] OTHER -> "archiving"
               /\ ~(saga.phase = "send" /\ row.status \in Terminal)
               /\ UNCHANGED <<row, intent, outbox, outcome, count>>
<1> USE DEF Shape, LaunchShape
<1>1. saga \in PendingSagas /\ rec = Idle /\ saga.id \in Launches
  BY NoSagaFacts DEF RecStart, rec
<1>2. UNCHANGED <<home, finals>>
  BY DEF RecStart, remote, ghosts
<1>3. CASE saga.phase = "send" /\ row.status \in Terminal
  BY <1>1, <1>2, <1>3 DEF RecStart, fg, rec
<1>4. CASE ~(saga.phase = "send" /\ row.status \in Terminal)
  <2> DEFINE a == [pc |-> CASE saga.phase = "sent" -> "naming"
                            [] saga.phase = "send" -> "get"
                            [] OTHER -> "archiving",
                   id |-> saga.id, ses |-> 0]
  <2>1. /\ saga' = IF saga.phase = "provisioned" THEN [saga EXCEPT !.phase = "cleanup"] ELSE saga
        /\ runner' = [runner EXCEPT !["rec"] = a]
        /\ UNCHANGED <<row, intent, outbox, outcome, count>>
    BY <1>4 DEF RecStart
  <2>2. a \in LaunchRuns /\ a.id = saga.id
    BY <1>1 DEF LaunchRuns, Launch0
  <2>3. /\ saga' \in PendingSagas /\ saga'.id = saga.id /\ saga'.prev = saga.prev
        /\ IF saga.phase = "provisioned" THEN saga'.phase = "cleanup" ELSE saga' = saga
    BY <1>1, <2>1, Phased DEF Phases
  <2>4. a.pc = CASE saga.phase = "sent" -> "naming"
                 [] saga.phase = "send" -> "get"
                 [] OTHER -> "archiving"
    OBVIOUS
  <2> HIDE DEF a
  <2>5. rec' = a /\ fg' = fg
    BY <2>1 DEF rec, fg, Runners
  <2> QED
    BY <1>1, <1>2, <1>4, <2>1, <2>2, <2>3, <2>4, <2>5
<1> QED
  BY <1>3, <1>4

\* Every step keeps Launched.
LEMMA LaunchedStep ==
  ASSUME Shape, Launched, [Next]_vars
  PROVE  Launched'
<1> USE DEF Shape, LaunchShape
<1>0. /\ fg \in {Idle} \cup LaunchRuns /\ rec \in {Idle} \cup LaunchRuns
      /\ LaunchShape'
  BY LaunchShapeStep DEF fg, rec, Runners
<1>1. CASE SameLaunch
  <2>1. \/ saga' = saga
        \/ /\ saga # NoSaga /\ saga' # NoSaga
           /\ saga'.id = saga.id /\ saga'.prev = saga.prev
    BY <1>1, NoSagaFacts DEF SameLaunch
  <2>2. SagaBound'
    BY <1>1, <2>1, NoSagaFacts DEF SameLaunch, SagaBound, Launched
  <2>3. Homes'
    BY <1>1 DEF SameLaunch, Homes, Launched
  <2>4. Foreground'
    BY <1>0, <1>1, <2>1, NoSagaFacts, IdleFacts DEF SameLaunch, Foreground, Launched, fg, rec,
       Runners, Early
  <2> QED
    BY <2>2, <2>3, <2>4 DEF Launched
<1>2. ASSUME NEW k \in Launches, NEW w \in Launches, FgCreate(k, w) PROVE Launched'
  <2>0. /\ k = count.launch + 1 /\ count'.launch = k /\ saga = NoSaga
        /\ home' = [home EXCEPT ![k] = w]
        /\ fg = Idle /\ fg' \in LaunchRuns /\ fg'.id = k /\ fg'.pc = "creating" /\ rec' = rec
        /\ UNCHANGED <<row, saga, finals>>
        /\ (w = k /\ row.ws = 0) \/ (w = row.ws /\ row.ws # 0)
    BY <1>2, CreateWrites, NoSagaFacts
  <2>1. SagaBound'
    BY <2>0 DEF SagaBound, Launched
  <2>2. Homes'
    <3>1. count.launch \in Nat /\ k \in Nat /\ k = count.launch + 1 /\ row.ws \in Launch0
      BY <2>0 DEF Counts, Launches, Rows
    <3>2. w = k \/ (w = row.ws /\ w \in finals /\ home[w] = w /\ w <= count.launch)
      BY <2>0, NoSagaFacts DEF SagaBound, Homes, Launched
    <3>3. \A j \in finals : j # k
      BY <3>1 DEF Homes, Launched, Launches
    <3> QED
      BY <2>0, <3>1, <3>2, <3>3, NoSagaFacts DEF Homes, Launched, Launches
  <2>3. Foreground'
    <3>1. count.launch \in Nat /\ k = count.launch + 1
      BY <2>0 DEF Counts
    <3>2. k \notin finals /\ rec.id # k
      BY <1>0, <3>1, IdleFacts DEF Homes, Foreground, Launched, LaunchRuns, Launches
    <3>3. row.ws \in finals \/ row.ws = 0
      BY <2>0 DEF SagaBound, Launched
    <3>4. home'[k] = w
      BY <2>0
    <3>5. rec.pc # "idle" => rec.id <= count'.launch
      <4>1. rec.pc # "idle" => rec.id \in Nat /\ rec.id <= count.launch
        BY <1>0, IdleFacts DEF Foreground, Launched, Launches
      <4> QED
        BY <2>0, <3>1, <4>1
    <3> QED
      BY <2>0, <3>2, <3>3, <3>4, <3>5 DEF Foreground, Launched, Early
  <2> QED
    BY <2>1, <2>2, <2>3 DEF Launched
<1>3. ASSUME FgPersist PROVE Launched'
  <2>1. /\ fg.id \in Launches /\ saga = NoSaga /\ fg.id \notin finals /\ fg.id = count.launch
        /\ rec.id # fg.id
    BY <1>3, PersistWrites, IdleFacts DEF Foreground, Launched, Early
  <2>2. CASE fg'.pc = "orphan"
    BY <1>3, <2>1, <2>2, PersistWrites, IdleFacts DEF Launched, SagaBound, Homes, Foreground,
       Early
  <2>3. CASE fg'.pc = "validate"
    <3>1. PICK phase \in Phases : PersistLaunch(fg.id, phase)
      BY <1>3, <2>3, PersistWrites DEF Phases
    <3>2. home[fg.id] \in Launches /\ home[fg.id] <= fg.id /\ home[home[fg.id]] = home[fg.id]
      BY <2>1 DEF Homes, Launched, Launches
    <3>3. home[fg.id] = fg.id => row.ws = 0 /\ row.ses = 0 /\ finals = {}
      <4>1. ASSUME row.ws = 0 PROVE finals = {}
        BY <4>1, NoSagaFacts DEF Homes, Launched, Counts, Launches
      <4>2. home[fg.id] = fg.id => row.ws = 0
        BY <1>3, PersistWrites DEF Foreground, Launched
      <4> QED
        BY <4>1, <4>2 DEF SagaBound, Launched
    <3>4. home[fg.id] # fg.id => row.ws = home[fg.id] /\ row.ses \in finals /\ row.ws \in finals
      BY <1>3, <2>1, <3>2, NoSagaFacts, PersistWrites DEF Foreground, SagaBound, Launched
    <3>5. /\ saga' \in PendingSagas /\ saga'.id = fg.id
          /\ saga'.prev.ws = row.ws /\ saga'.prev.ses = row.ses
          /\ row'.ws = home[fg.id] /\ row'.ses = fg.id
      BY <2>1, <3>1, Persists
    <3>6. SagaBound'
      <4>1. /\ row'.ws # 0 /\ row'.ses # 0 /\ saga' # NoSaga
            /\ UNCHANGED <<home, finals, count>>
        BY <1>3, <2>1, <3>2, <3>5, NoSagaFacts, PersistWrites
      <4>2. fg.id <= count.launch
        BY <2>1 DEF Counts
      <4> QED
        BY <2>1, <3>3, <3>4, <3>5, <4>1, <4>2 DEF SagaBound
    <3>7. Homes'
      BY <1>3, <3>3, <3>4, <3>5, PersistWrites DEF Homes, Launched
    <3>8. Foreground'
      BY <1>3, <2>1, <2>3, <3>5, PersistWrites DEF Foreground, Launched, Early
    <3> QED
      BY <3>6, <3>7, <3>8 DEF Launched
  <2> QED
    BY <1>3, <2>2, <2>3, PersistWrites
<1>4. ASSUME RecStart PROVE Launched'
  <2>1. /\ saga # NoSaga /\ saga' # NoSaga /\ saga'.id = saga.id /\ saga'.prev = saga.prev
        /\ row'.ws = row.ws /\ row'.ses = row.ses /\ count'.launch = count.launch
    BY <1>4, RecStartWrites, CancelsWrites, NoSagaFacts
       DEF MarkCanceled, CanceledRow, SagaBound, Launched, Rows
  <2>2. SagaBound'
    BY <1>4, <2>1, RecStartWrites DEF SagaBound, Launched
  <2>3. Homes'
    BY <1>4, <2>1, RecStartWrites DEF Homes, Launched
  <2>4. Foreground'
    BY <1>4, <2>1, RecStartWrites, IdleFacts DEF Foreground, SagaBound, Launched, Early
  <2> QED
    BY <2>2, <2>3, <2>4 DEF Launched
<1>5. ASSUME NEW p \in Runners, NamedAndFinal(p) PROVE Launched'
  <2>1. CASE saga = NoSaga /\ UNCHANGED <<row, saga, finals>>
    BY <1>0, <1>5, <2>1, FinalWrites, IdleFacts DEF Launched, SagaBound, Homes, Foreground,
       fg, rec, Runners, Early
  <2>2. CASE /\ saga \in PendingSagas
             /\ row'.ws = home[saga.id] /\ row'.ses = saga.id
             /\ saga' = NoSaga /\ finals' = finals \cup {saga.id}
    <3>1. /\ saga # NoSaga /\ saga.id \in Launches /\ saga.id # 0 /\ row.ws = home[saga.id]
          /\ saga.id <= count.launch
      BY <2>2, NoSagaFacts DEF SagaBound, Launched
    <3>2. home[saga.id] \in Launches /\ home[home[saga.id]] = home[saga.id]
      BY <3>1 DEF Homes, Launched, Launches, LaunchShape, Counts
    <3>3. home[saga.id] \in finals \cup {saga.id}
      BY <3>1 DEF SagaBound, Launched
    <3>4. SagaBound'
      BY <1>5, <2>2, <3>1, <3>2, <3>3, NoSagaFacts, FinalWrites DEF SagaBound
    <3>5. Homes'
      BY <1>5, <2>2, <3>1, FinalWrites DEF Homes, Launched
    <3>6. Foreground'
      BY <1>0, <1>5, <2>2, <3>1, FinalWrites, IdleFacts DEF Foreground, Launched, fg, rec,
         Runners, Early
    <3> QED
      BY <3>4, <3>5, <3>6 DEF Launched
  <2> QED
    BY <1>5, <2>1, <2>2, FinalWrites
<1>6. ASSUME NEW p \in Runners, RollsBack(p) PROVE Launched'
  <2>1. CASE UNCHANGED <<row, saga>>
    BY <1>0, <1>6, <2>1, RollbackWrites, IdleFacts DEF Launched, SagaBound, Homes, Foreground,
       fg, rec, Runners, Early
  <2>2. CASE saga \in PendingSagas /\ RestoreLaunch
    <3>1. saga # NoSaga /\ saga.id \in Launches
      BY <2>2, NoSagaFacts
    <3>2. row'.ws = saga.prev.ws /\ row'.ses = saga.prev.ses /\ saga' = NoSaga
      BY <2>2, Restores
    <3>3. SagaBound'
      BY <1>6, <3>1, <3>2, RollbackWrites, NoSagaFacts DEF SagaBound, Launched
    <3>4. Homes'
      BY <1>6, <3>1, <3>2, RollbackWrites DEF Homes, SagaBound, Launched
    <3>5. Foreground'
      BY <1>0, <1>6, <3>1, <3>2, RollbackWrites, IdleFacts DEF Foreground, Launched, fg, rec,
         Runners, Early
    <3> QED
      BY <3>3, <3>4, <3>5 DEF Launched
  <2> QED
    BY <1>6, <2>1, <2>2, RollbackWrites
<1> QED
  BY <1>1, <1>2, <1>3, <1>4, <1>5, <1>6, KeepsLaunch

-----------------------------------------------------------------------------
(* First prompts                                                            *)

\* A prompt gets on the wire from a launch that is in hand, to its own session.
PromptsGrow ==
    /\ seen \subseteq seen' /\ gone \subseteq gone'
    /\ \A k \in Launches :
          /\ \/ where'[First(k)] = where[First(k)]
             \/ where'[First(k)] = k
          /\ First(k) \in Known' => \/ First(k) \in Known
                                    \/ /\ where'[First(k)] = k
                                       /\ \/ fg.id = k /\ fg.pc = "post"
                                          \/ rec.id = k /\ rec.pc = "get"

\* Every step satisfies it.
LEMMA PromptsGrowBy ==
  ASSUME Shape, Launched, [Next]_vars
  PROVE  PromptsGrow
<1> USE DEF PromptsGrow, Shape, RemoteShape
<1>1. ASSUME FgOrphan PROVE PromptsGrow
  BY <1>1 DEF FgOrphan, Known
<1>2. ASSUME FgPost PROVE PromptsGrow
  <2>1. /\ fg.pc = "post" /\ fg.id \in Launches /\ First(fg.id) \in Msgs
        /\ wire' = wire \cup {First(fg.id)} /\ where' = [where EXCEPT ![First(fg.id)] = fg.id]
        /\ UNCHANGED <<seen, live, gone>>
    BY <1>2, IdleFacts DEF FgPost, fg, Shape, LaunchShape, Runners, First, Msgs
  <2>2. ASSUME NEW k \in Launches, k # fg.id PROVE First(k) # First(fg.id) /\ First(k) \in Msgs
    BY <2>2 DEF First, Msgs
  <2> QED
    BY <2>1, <2>2 DEF Known
<1>3. ASSUME FgError PROVE PromptsGrow
  BY <1>3 DEF FgError, Known
<1>4. ASSUME RecGet PROVE PromptsGrow
  <2>1. /\ rec.pc = "get" /\ rec.id \in Launches /\ First(rec.id) \in Msgs
        /\ \/ UNCHANGED <<wire, where>>
           \/ wire' = wire \cup {First(rec.id)} /\ where' = [where EXCEPT ![First(rec.id)] = rec.id]
        /\ UNCHANGED <<seen, live, gone>>
    BY <1>4, IdleFacts DEF RecGet, rec, Shape, LaunchShape, Runners, First, Msgs
  <2>2. ASSUME NEW k \in Launches, k # rec.id PROVE First(k) # First(rec.id) /\ First(k) \in Msgs
    BY <2>2 DEF First, Msgs
  <2> QED
    BY <2>1, <2>2 DEF Known
<1>5. ASSUME RecFails PROVE PromptsGrow
  BY <1>5 DEF RecFails, Known
<1>6. ASSUME NEW p \in Runners, Archives(p) PROVE PromptsGrow
  BY <1>6 DEF Archives, Resource, Known
<1>7. ASSUME NEW s \in Launches, TermCancels(s) PROVE PromptsGrow
  BY <1>7 DEF TermCancels, Known
<1>8. ASSUME TermArchives PROVE PromptsGrow
  BY <1>8 DEF TermArchives, Known
<1>9. ASSUME NEW s \in Launches, SendPost(s) PROVE PromptsGrow
  <2> DEFINE m == <<"send", sender.id>>
  <2>1. /\ wire' = wire \cup {m} /\ where' = [where EXCEPT ![m] = s]
        /\ UNCHANGED <<seen, live, gone>>
    BY <1>9 DEF SendPost
  <2>2. \A k \in Launches : First(k) # m /\ First(k) \in Msgs
    BY DEF First, Msgs
  <2> HIDE DEF m
  <2> QED
    BY <2>1, <2>2 DEF Known
<1>10. ASSUME SendFails PROVE PromptsGrow
  BY <1>10 DEF SendFails, Known
<1>11. ASSUME FlushGet PROVE PromptsGrow
  <2>1. UNCHANGED <<seen, live, gone>>
    BY <1>11 DEF FlushGet
  <2>2. PICK r \in Requests : UNCHANGED <<wire, where>> \/ FlushPosts(r)
    BY <1>11, FlushGetWrites DEF Launched, FlushLeaves, Shape
  <2>3. \A k \in Launches : First(k) # Req(r) /\ First(k) \in Msgs
    BY DEF First, Req, Msgs
  <2> QED
    BY <2>1, <2>2, <2>3 DEF Known, FlushPosts
<1>12. ASSUME FlushFails PROVE PromptsGrow
  BY <1>12 DEF FlushFails, Known
<1>13. ASSUME NEW m \in Msgs, RemoteTake(m) PROVE PromptsGrow
  BY <1>13 DEF RemoteTake, Known
<1>14. ASSUME TurnEnds PROVE PromptsGrow
  BY <1>14 DEF TurnEnds, Known
<1>15. CASE (\E k, w \in Launches : FgCreate(k, w)) \/ FgCreateFails \/ FgPersist \/ FgPromote
  BY <1>15 DEF FgCreate, FgCreateFails, remote, FgPersist, FgPromote, Known
<1>16. CASE FgHandoff \/ RecStart \/ (\E p \in Runners : Answered(p))
            \/ (\E p \in Runners : NamedAndFinal(p))
  BY <1>16 DEF FgHandoff, remote, RecStart, Answered, LaunchCanSend, NamedAndFinal, Known
<1>17. CASE (\E p \in Runners : ArchiveFails(p)) \/ (\E p \in Runners : RollsBack(p)) \/ Stop
            \/ Archive
  BY <1>17 DEF ArchiveFails, remote, RollsBack, Stop, Archive, Known
<1>18. CASE TermStart \/ TermConfirms \/ TermFails \/ SendBegin
  BY <1>18 DEF TermStart, remote, TermConfirms, TermFails, SendBegin, Known
<1>19. CASE SendAnswered \/ (\E r \in Requests : LateRequest(r)) \/ FlushStart \/ FlushAnswered
  BY <1>19 DEF SendAnswered, remote, LateRequest, FlushStart, FlushAnswered, Known
<1>20. CASE PublishNotices \/ Crash \/ LeaseExpires
  BY <1>20 DEF PublishNotices, remote, Crash, LeaseExpires, Known
<1>21. CASE UNCHANGED vars
  BY <1>21 DEF vars, remote, Known
<1> QED
  BY <1>1, <1>2, <1>3, <1>4, <1>5, <1>6, <1>7, <1>8, <1>9, <1>10, <1>11, <1>12, <1>13, <1>14,
     <1>15, <1>16, <1>17, <1>18, <1>19, <1>20, <1>21 DEF Next, Runs, Runners

\* How a launch goes on: the saga ends as final, or rolled back by a cleanup.
LaunchMoves ==
    /\ \A k \in Launches : k <= count.launch => home'[k] = home[k]
    /\ count.launch <= count'.launch
    /\ finals' = finals \/ /\ saga \in PendingSagas /\ saga.phase = "sent"
                           /\ saga' = NoSaga /\ finals' = finals \cup {saga.id}
    /\ saga' \in PendingSagas /\ saga = NoSaga =>
          /\ fg.pc = "creating" /\ saga'.id = fg.id
          /\ fg'.pc = "validate" /\ rec' = rec
          /\ saga'.phase \in {"provisioned", "cleanup", "cancel"}
    /\ saga' \in PendingSagas /\ saga \in PendingSagas =>
          saga'.id = saga.id /\ saga'.prev = saga.prev
    /\ saga \in PendingSagas /\ saga' = NoSaga =>
          \/ finals' = finals \cup {saga.id}
          \/ \E p \in Runners : runner[p].pc = "archived" /\ runner[p].id = saga.id
\* Every step satisfies it.
LEMMA LaunchMovesBy ==
  ASSUME Shape, Launched, [Next]_vars
  PROVE  LaunchMoves
<1> USE DEF Shape, LaunchShape
<1>0. count.launch \in Nat /\ LaunchShape'
  BY LaunchShapeStep DEF Counts
<1>1. CASE SameLaunch
  BY <1>0, <1>1, NoSagaFacts DEF SameLaunch, LaunchMoves
<1>2. ASSUME NEW k \in Launches, NEW w \in Launches, FgCreate(k, w) PROVE LaunchMoves
  <2>1. /\ k = count.launch + 1 /\ count'.launch = k /\ saga = NoSaga /\ saga' = NoSaga
        /\ home' = [home EXCEPT ![k] = w] /\ finals' = finals
    BY <1>2, CreateWrites
  <2>2. \A j \in Launches : j <= count.launch => j # k
    BY <1>0, <2>1 DEF Launches
  <2> QED
    BY <1>0, <2>1, <2>2, NoSagaFacts DEF LaunchMoves
<1>3. ASSUME FgPersist PROVE LaunchMoves
  <2>1. /\ saga = NoSaga /\ fg.pc = "creating" /\ fg.id \in Launches /\ rec' = rec
        /\ UNCHANGED <<home, finals, count>>
        /\ \/ saga' = saga
           \/ /\ \E phase \in {"provisioned", "cleanup", "cancel"} : PersistLaunch(fg.id, phase)
              /\ fg'.pc = "validate"
    BY <1>3, PersistWrites, IdleFacts DEF Foreground, Launched, Early
  <2>2. saga' = saga \/ /\ saga'.id = fg.id /\ fg'.pc = "validate"
                        /\ saga'.phase \in {"provisioned", "cleanup", "cancel"}
    BY <2>1, Persists DEF Phases
  <2> QED
    BY <1>0, <2>1, <2>2, NoSagaFacts DEF LaunchMoves
<1>4. ASSUME RecStart PROVE LaunchMoves
  <2>1. /\ saga \in PendingSagas /\ saga' \in PendingSagas /\ saga'.id = saga.id
        /\ saga'.prev = saga.prev /\ count'.launch = count.launch
        /\ UNCHANGED <<home, finals>>
    BY <1>4, RecStartWrites, CancelsWrites, NoSagaFacts DEF MarkCanceled, SagaBound, Launched
  <2> QED
    BY <1>0, <2>1, NoSagaFacts DEF LaunchMoves
<1>5. ASSUME NEW p \in Runners, NamedAndFinal(p) PROVE LaunchMoves
  BY <1>0, <1>5, FinalWrites, NoSagaFacts DEF LaunchMoves
<1>6. ASSUME NEW p \in Runners, RollsBack(p) PROVE LaunchMoves
  BY <1>0, <1>6, RollbackWrites, Restores, NoSagaFacts DEF LaunchMoves
<1> QED
  BY <1>1, <1>2, <1>3, <1>4, <1>5, <1>6, KeepsLaunch

\* A saga that is to be undone stays so, and "sent" is only ever written with
\* the proof that Conductor accepted the prompt.
PhaseMoves ==
    saga \in PendingSagas /\ saga' \in PendingSagas =>
        /\ saga.phase \in Undone => saga'.phase \in Undone
        /\ saga.phase = "cancel" => saga'.phase = "cancel"
        /\ saga'.phase = "sent" => saga.phase = "sent" \/ First(saga.id) \in seen
\* Who works for a launch did so before, or has just got its pending saga;
\* who cleans up after one may.
RunnerMoves ==
    \A p \in Runners :
        /\ \/ runner'[p] = Idle
           \/ p = "fg" /\ runner'[p].pc \in Early
           \/ saga' \in PendingSagas /\ runner'[p].id = saga'.id
           \/ /\ runner'[p].id = runner[p].id /\ runner[p] \in LaunchRuns
              /\ runner[p].pc \in Early => runner'[p].pc \in Early
        /\ runner'[p].pc \in {"archiving", "archived"} =>
              \/ runner'[p] = runner[p]
              \/ /\ runner'[p].pc = "archived" /\ runner[p].pc = "archiving"
                 /\ runner'[p].id = runner[p].id /\ Resource(runner[p].id) \in gone'
              \/ /\ runner'[p].pc = "archiving" /\ saga \in PendingSagas /\ saga' \in PendingSagas
                 /\ saga'.id = runner'[p].id /\ saga'.phase \in Undone

\* Every step satisfies it.
LEMMA PhaseMovesBy ==
  ASSUME Shape, Launched, [Next]_vars
  PROVE  PhaseMoves
<1> USE DEF PhaseMoves, Shape, LaunchShape
<1>1. ASSUME FgCreateFails PROVE PhaseMoves
  BY <1>1, NoSagaFacts DEF FgCreateFails, Undone
<1>2. ASSUME FgPersist PROVE PhaseMoves
  BY <1>2, PersistWrites, Persists, NoSagaFacts DEF FgPersist, Launched, Foreground, Early,
     Undone
<1>3. ASSUME FgPromote PROVE PhaseMoves
  BY <1>3, NoSagaFacts, Phased DEF FgPromote, Phases, Undone
<1>4. ASSUME FgError PROVE PhaseMoves
  BY <1>4, CancelsWrites, CleansUp, NoSagaFacts, IdleFacts DEF FgError, MarkCanceled,
     SagaBound, Launched, Undone, Runners
<1>5. ASSUME RecStart PROVE PhaseMoves
  BY <1>5, RecStartWrites, CancelsWrites, NoSagaFacts DEF RecStart, MarkCanceled, Launched,
     SagaBound, Undone
<1>6. ASSUME RecGet PROVE PhaseMoves
  BY <1>6, MarksSent, IdleFacts, NoSagaFacts DEF RecGet, Runners, Undone
<1>7. ASSUME RecFails PROVE PhaseMoves
  BY <1>7, CleansUp, Phased, IdleFacts, NoSagaFacts DEF RecFails, Runners, CleanupAllowed,
     Phases, Undone
<1>8. ASSUME NEW p \in Runners, Answered(p) PROVE PhaseMoves
  BY <1>8, MarksSent, IdleFacts, NoSagaFacts DEF Answered, Runners, Undone
<1>9. ASSUME NEW p \in Runners, NamedAndFinal(p) PROVE PhaseMoves
  BY <1>9, FinalWrites, NoSagaFacts DEF NamedAndFinal, Undone
<1>10. ASSUME NEW p \in Runners, Archives(p) PROVE PhaseMoves
  BY <1>10, CleansUp, IdleFacts, NoSagaFacts DEF Archives, Undone
<1>11. ASSUME NEW p \in Runners, ArchiveFails(p) PROVE PhaseMoves
  BY <1>11, CleansUp, IdleFacts, NoSagaFacts DEF ArchiveFails, Undone
<1>12. ASSUME NEW p \in Runners, RollsBack(p) PROVE PhaseMoves
  BY <1>12, RollbackWrites, Restores, NoSagaFacts DEF RollsBack, Undone
<1>13. ASSUME Stop PROVE PhaseMoves
  BY <1>13, CancelsWrites, NoSagaFacts DEF Stop, SagaBound, Launched, Undone
<1>14. ASSUME Archive PROVE PhaseMoves
  BY <1>14, Phased, NoSagaFacts DEF Archive, Phases, Undone
<1>15. CASE (\E k, w \in Launches : FgCreate(k, w)) \/ FgOrphan \/ FgPost \/ FgHandoff
  BY <1>15 DEF FgCreate, FgOrphan, FgPost, store, FgHandoff, Undone
<1>16. CASE TermStart \/ (\E s \in Launches : TermCancels(s)) \/ TermArchives \/ TermConfirms
  BY <1>16 DEF TermStart, store, TermCancels, TermArchives, TermConfirms, Undone
<1>17. CASE TermFails \/ SendBegin \/ (\E s \in Launches : SendPost(s)) \/ SendFails
  BY <1>17 DEF TermFails, SendBegin, SendPost, SendFails, Undone
<1>18. CASE SendAnswered \/ (\E r \in Requests : LateRequest(r)) \/ FlushStart \/ FlushGet
  BY <1>18 DEF SendAnswered, LateRequest, FlushStart, FlushGet, Undone
<1>19. CASE FlushAnswered \/ FlushFails \/ (\E m \in Msgs : RemoteTake(m)) \/ TurnEnds
  BY <1>19 DEF FlushAnswered, FlushFails, RemoteTake, store, TurnEnds, Undone
<1>20. CASE PublishNotices \/ Crash \/ LeaseExpires
  BY <1>20 DEF PublishNotices, Crash, LeaseExpires, Undone
<1>21. CASE UNCHANGED vars
  BY <1>21 DEF vars, store, Undone
<1> QED
  BY <1>1, <1>2, <1>3, <1>4, <1>5, <1>6, <1>7, <1>8, <1>9, <1>10, <1>11, <1>12, <1>13, <1>14,
     <1>15, <1>16, <1>17, <1>18, <1>19, <1>20, <1>21 DEF Next, Runs, Runners

\* Every step satisfies it.
LEMMA RunnerMovesBy ==
  ASSUME Shape, Launched, [Next]_vars
  PROVE  RunnerMoves
<1> USE DEF RunnerMoves, Shape, LaunchShape
<1>1. ASSUME NEW k \in Launches, NEW w \in Launches, FgCreate(k, w) PROVE RunnerMoves
  BY <1>1, CreateWrites, IdleFacts DEF FgCreate, fg, rec, Early, Runners
<1>2. ASSUME FgCreateFails PROVE RunnerMoves
  BY <1>2, Steps, Finishes, IdleFacts, NoSagaFacts DEF FgCreateFails, remote, Runners, Early
<1>3. ASSUME FgPersist PROVE RunnerMoves
  BY <1>3, PersistWrites, Persists, IdleFacts DEF FgPersist, fg, rec, Early, Phases, remote,
     Runners
<1>4. ASSUME FgOrphan PROVE RunnerMoves
  BY <1>4, Steps, Finishes, IdleFacts, NoSagaFacts DEF FgOrphan, Runners, Early
<1>5. ASSUME FgPromote PROVE RunnerMoves
  <2>1. runner["fg"] \in LaunchRuns /\ runner["fg"].pc = "validate" /\ Step("fg", "post")
    BY <1>5, IdleFacts DEF FgPromote, Runners
  <2> QED
    BY <2>1, Steps, IdleFacts DEF Runners, Early
<1>6. ASSUME FgPost PROVE RunnerMoves
  BY <1>6, Steps, Finishes, IdleFacts, NoSagaFacts DEF FgPost, store, Runners, Early
<1>7. ASSUME FgError PROVE RunnerMoves
  BY <1>7, Steps, Finishes, IdleFacts, NoSagaFacts, CancelsWrites, CleansUp DEF FgError,
     MarkCanceled, Launched, SagaBound, Undone, Runners, Early
<1>8. ASSUME FgHandoff PROVE RunnerMoves
  BY <1>8, Steps, Finishes, IdleFacts, NoSagaFacts DEF FgHandoff, Foreground, Launched, fg,
     Undone, store, remote, Runners, Early
<1>9. ASSUME RecStart PROVE RunnerMoves
  BY <1>9, RecStartWrites, NoSagaFacts, IdleFacts DEF RecStart, fg, rec, Undone, PendingSagas,
     Phases, remote, Runners, Early
<1>10. ASSUME RecGet PROVE RunnerMoves
  BY <1>10, Steps, Finishes, IdleFacts, NoSagaFacts DEF RecGet, Runners, Early
<1>11. ASSUME RecFails PROVE RunnerMoves
  <2>1. rec \in LaunchRuns /\ rec.pc \notin Early
    BY <1>11, IdleFacts DEF RecFails, rec, Runners, Early
  <2>2. CASE Finish("rec")
    BY <2>1, <2>2, Finishes, IdleFacts DEF Runners, Early
  <2>3. CASE /\ CleanupAllowed(rec.id) /\ saga' = [saga EXCEPT !.phase = "cleanup"]
             /\ Step("rec", "archiving")
    <3>1. saga \in PendingSagas /\ saga.id = rec.id
      BY <2>1, <2>3, NoSagaFacts, IdleFacts DEF CleanupAllowed
    <3>2. saga' \in PendingSagas /\ saga'.id = rec.id /\ saga'.phase = "cleanup"
      BY <2>3, <3>1, Phased DEF Phases
    <3>3. /\ rec' \in LaunchRuns /\ rec'.pc = "archiving" /\ rec'.id = rec.id
          /\ runner'["fg"] = runner["fg"]
      BY <2>1, <2>3, Steps DEF rec, Runners
    <3> QED
      BY <2>1, <3>1, <3>2, <3>3, IdleFacts DEF rec, Runners, Early, Undone
  <2> QED
    BY <1>11, <2>2, <2>3 DEF RecFails, rec
<1>12. ASSUME NEW p \in Runners, Answered(p) PROVE RunnerMoves
  BY <1>12, Steps, Finishes, IdleFacts, NoSagaFacts DEF Answered, remote, Runners, Early
<1>13. ASSUME NEW p \in Runners, NamedAndFinal(p) PROVE RunnerMoves
  BY <1>13, Steps, Finishes, IdleFacts, NoSagaFacts DEF NamedAndFinal, remote, Runners, Early
<1>14. ASSUME NEW p \in Runners, Archives(p) PROVE RunnerMoves
  BY <1>14, Steps, Finishes, IdleFacts, NoSagaFacts DEF Archives, Runners, Early
<1>15. ASSUME NEW p \in Runners, ArchiveFails(p) PROVE RunnerMoves
  BY <1>15, Steps, Finishes, IdleFacts, NoSagaFacts DEF ArchiveFails, remote, Runners, Early
<1>16. ASSUME NEW p \in Runners, RollsBack(p) PROVE RunnerMoves
  BY <1>16, Steps, Finishes, IdleFacts, NoSagaFacts DEF RollsBack, remote, Runners, Early
<1>17. ASSUME Stop PROVE RunnerMoves
  BY <1>17 DEF Stop, Cancels, remote, Runners, Early
<1>18. ASSUME Archive PROVE RunnerMoves
  BY <1>18 DEF Archive, remote, Runners, Early
<1>19. ASSUME TermArchives PROVE RunnerMoves
  BY <1>19 DEF TermArchives, store, Runners, Early
<1>20. ASSUME Crash PROVE RunnerMoves
  BY <1>20, IdleFacts DEF Crash, remote, Runners, Early
<1>21. CASE TermStart \/ (\E s \in Launches : TermCancels(s)) \/ TermConfirms \/ TermFails
  BY <1>21 DEF TermStart, store, remote, TermCancels, TermConfirms, TermFails, Runners, Early
<1>22. CASE SendBegin \/ (\E s \in Launches : SendPost(s)) \/ SendFails \/ SendAnswered
  BY <1>22 DEF SendBegin, remote, SendPost, SendFails, SendAnswered, Runners, Early
<1>23. CASE (\E r \in Requests : LateRequest(r)) \/ FlushStart \/ FlushGet \/ FlushAnswered
  BY <1>23 DEF LateRequest, remote, FlushStart, FlushGet, FlushAnswered, Runners, Early
<1>24. CASE FlushFails \/ (\E m \in Msgs : RemoteTake(m)) \/ TurnEnds \/ PublishNotices
  BY <1>24 DEF FlushFails, RemoteTake, store, procs, TurnEnds, PublishNotices, remote,
     Runners, Early
<1>25. CASE LeaseExpires
  BY <1>25 DEF LeaseExpires, remote, procs, Runners, Early
<1>26. CASE UNCHANGED vars
  BY <1>26 DEF vars, store, remote, procs, Runners, Early
<1> QED
  BY <1>1, <1>2, <1>3, <1>4, <1>5, <1>6, <1>7, <1>8, <1>9, <1>10, <1>11, <1>12, <1>13, <1>14,
     <1>15, <1>16, <1>17, <1>18, <1>19, <1>20, <1>21, <1>22, <1>23, <1>24, <1>25, <1>26
     DEF Next, Runs, Runners

\* Every step keeps Prompts: one case per kind of work a launch can have.
LEMMA PromptsStep ==
  ASSUME Shape, Launched, Prompts, [Next]_vars
  PROVE  Prompts'
<1>1. Shape' /\ Launched'
  BY ShapeStep, LaunchedStep
<1>2. LaunchMoves /\ PhaseMoves /\ RunnerMoves /\ PromptsGrow
  BY LaunchMovesBy, PhaseMovesBy, RunnerMovesBy, PromptsGrowBy
<1>3. /\ saga \in {NoSaga} \cup PendingSagas /\ saga' \in {NoSaga} \cup PendingSagas
      /\ \A p \in Runners : /\ runner[p] \in {Idle} \cup LaunchRuns
                            /\ runner'[p] \in {Idle} \cup LaunchRuns
      /\ fg = runner["fg"] /\ rec = runner["rec"] /\ "fg" \in Runners /\ "rec" \in Runners
      /\ fg' = runner'["fg"] /\ rec' = runner'["rec"]
  BY <1>1 DEF Shape, LaunchShape, Runners, fg, rec
<1>4. ASSUME NEW k \in Launches, k <= count.launch, SessionGone(k) PROVE SessionGone(k)'
  BY <1>2, <1>4 DEF LaunchMoves, PromptsGrow, SessionGone
<1>5. ASSUME NEW k \in Launches, saga \in PendingSagas, saga.id = k
      PROVE  saga'.id = k \/ k \in finals' \/ SessionGone(k)'
  <2>1. CASE \E p \in Runners : runner[p].pc = "archived" /\ runner[p].id = k
    <3>1. Resource(k) \in gone
      BY <2>1 DEF Prompts, Cleanups
    <3>2. SessionGone(k)
      BY <3>1 DEF Resource, SessionGone
    <3> QED
      BY <1>4, <1>5, <3>2, NoSagaFacts DEF Launched, SagaBound
  <2> QED
    BY <1>2, <1>3, <1>5, <2>1 DEF LaunchMoves
<1>6. Owned'
  <2> SUFFICES ASSUME NEW k \in Launches, InHand(k)'
               PROVE  /\ k <= count'.launch
                      /\ saga'.id = k \/ k \in finals' \/ SessionGone(k)'
    BY DEF Owned
  <2>1. InHand(k) \/ (saga' \in PendingSagas /\ saga'.id = k)
    <3>1. CASE First(k) \in Known'
      BY <1>2, <3>1 DEF PromptsGrow, InHand, Early
    <3>2. CASE fg'.id = k /\ fg'.pc \notin {"idle"} \cup Early
      BY <1>2, <1>3, <3>2, IdleFacts DEF RunnerMoves, InHand
    <3>3. CASE rec'.id = k
      BY <1>2, <1>3, <3>3, IdleFacts, NoSagaFacts DEF RunnerMoves, InHand
    <3> QED
      BY <3>1, <3>2, <3>3 DEF InHand
  <2>2. CASE saga' \in PendingSagas /\ saga'.id = k
    BY <1>1, <2>2, NoSagaFacts DEF Launched, SagaBound
  <2>3. CASE InHand(k)
    <3>1. k <= count.launch /\ (saga.id = k \/ k \in finals \/ SessionGone(k))
      BY <2>3 DEF Prompts, Owned
    <3>2. k <= count'.launch
      BY <1>1, <1>2, <3>1 DEF LaunchMoves, Shape, LaunchShape, Counts, Launches
    <3>3. saga.id = k => saga \in PendingSagas
      BY <1>3, NoSagaFacts
    <3> QED
      BY <1>2, <1>4, <1>5, <3>1, <3>2, <3>3 DEF LaunchMoves
  <2> QED
    BY <2>1, <2>2, <2>3
<1>7. Cleanups'
  <2> SUFFICES ASSUME NEW p \in Runners, runner'[p].pc \in {"archiving", "archived"},
                      NEW k \in Launches, runner'[p].id = k
               PROVE  /\ k \notin finals' /\ (saga'.id = k => saga'.phase \in Undone)
                      /\ runner'[p].pc = "archived" => Resource(k)' \in gone'
    <3>1. \A p \in Runners : runner'[p].pc \in {"archiving", "archived"} => runner'[p].id \in Launches
      BY <1>3, IdleFacts
    <3>2. \A p \in Runners : \A k : runner'[p].id = k => Resource(runner[p].id)' = Resource(k)'
      BY DEF Resource
    <3> QED
      BY <3>1, <3>2 DEF Cleanups
  <2>0. runner'[p] \in LaunchRuns
    BY <1>3, IdleFacts
  <2>1. CASE /\ runner'[p].pc = "archiving" /\ saga \in PendingSagas
             /\ saga' \in PendingSagas /\ saga'.id = k /\ saga'.phase \in Undone
    <3>1. saga'.id \notin finals'
      BY <1>1, <2>1, NoSagaFacts DEF Launched, SagaBound
    <3> QED
      BY <2>1, <3>1
  <2>2. CASE /\ runner[p].pc \in {"archiving", "archived"} /\ runner[p].id = k
             /\ runner'[p].pc = "archived" => Resource(k) \in gone'
    <3>1. k \notin finals /\ (saga.id = k => saga.phase \in Undone)
      BY <2>2 DEF Prompts, Cleanups
    <3>2. k \notin finals'
      BY <1>2, <3>1 DEF LaunchMoves, Undone
    <3>3. k <= count.launch
      BY <1>3, <2>2 DEF Launched, Foreground, Runners, fg, rec, Launches
    <3>4. Resource(k)' = Resource(k)
      BY <1>2, <3>3 DEF LaunchMoves, Resource
    <3>5. saga'.id = k => saga'.phase \in Undone
      <4>1. ASSUME saga' \in PendingSagas, saga = NoSaga PROVE saga'.id # k
        <5>1. /\ fg.pc = "creating" /\ saga'.id = fg.id /\ fg'.pc = "validate" /\ rec' = rec
          BY <1>2, <4>1 DEF LaunchMoves
        <5>2. p # "fg"
          BY <1>3, <5>1
        <5>3. rec.id # fg.id
          BY <5>1 DEF Launched, Foreground, Early
        <5> QED
          BY <1>3, <5>1, <5>2, <5>3 DEF Runners
      <4> QED
        BY <1>2, <1>3, <2>0, <3>1, <4>1, NoSagaFacts DEF LaunchMoves, PhaseMoves
    <3> QED
      BY <2>2, <3>2, <3>4, <3>5
  <2>3. runner'[p] = runner[p] /\ runner[p].pc = "archived" => Resource(k) \in gone'
    BY <1>2 DEF Prompts, Cleanups, PromptsGrow
  <2> QED
    BY <1>2, <2>1, <2>2, <2>3 DEF RunnerMoves
<1>8. Accepted'
  <2>1. ASSUME NEW k \in Launches, First(k) \in Known' PROVE where'[First(k)] = k
    BY <1>2, <2>1 DEF PromptsGrow, Prompts, Accepted
  <2>2. saga'.phase = "sent" => First(saga'.id) \in seen'
    BY <1>2, <1>3, NoSagaFacts DEF LaunchMoves, PhaseMoves, PromptsGrow, Prompts, Accepted,
       First
  <2>3. ASSUME NEW k \in finals' PROVE First(k) \in seen'
    BY <1>2, <2>3 DEF LaunchMoves, PromptsGrow, Prompts, Accepted
  <2>4. \A k : First(k)' = First(k)
    BY DEF First
  <2> QED
    BY <2>1, <2>2, <2>3, <2>4 DEF Accepted
<1> QED
  BY <1>6, <1>7, <1>8 DEF Prompts

-----------------------------------------------------------------------------
(* Leases                                                                   *)

\* A lease is taken on a settled binding, and every change of it clears it.
LEMMA LeasedStep ==
  ASSUME Shape, Launched, Leased, [Next]_vars
  PROVE  Leased'
<1> USE DEF Shape, LaunchShape, MessageShape, Leased
<1>1. ASSUME NEW k \in Launches, NEW w \in Launches, FgCreate(k, w) PROVE Leased'
  <2>1. /\ k = count.launch + 1 /\ UNCHANGED <<row, saga>> /\ home' = [home EXCEPT ![k] = w]
        /\ \/ lease' = lease
           \/ LeaseFree(FALSE) /\ lease'.ws = row.ws /\ lease'.ses = 0
    BY <1>1, CreateWrites
  <2>2. lease.ses # 0 /\ lease # NoLease => lease.ses \in Launches /\ lease.ses # k
    <3>1. home[k] = 0
      BY <2>1 DEF Launched, Homes, Launches, Counts
    <3> QED
      BY <3>1, IdleFacts DEF Leases, Launch0
  <2> QED
    BY <2>1, <2>2, NoSagaFacts DEF LeaseFree
<1>2. ASSUME FgCreateFails PROVE Leased'
  BY <1>2, NoSagaFacts, IdleFacts DEF FgCreateFails, Unleased, Rows, Statuses, Launched,
     Foreground, fg, Early, Runners, remote
<1>3. ASSUME FgPersist PROVE Leased'
  <2>1. CASE \E phase \in Phases : fg.id \in Launches /\ PersistLaunch(fg.id, phase)
    BY <2>1, Persists
  <2> QED
    BY <1>3, <2>1, PersistWrites, IdleFacts DEF Phases
<1>4. ASSUME FgOrphan PROVE Leased'
  BY <1>4 DEF FgOrphan, Unleased
<1>5. ASSUME FgPromote PROVE Leased'
  BY <1>5, NoSagaFacts, IdleFacts DEF FgPromote, remote
<1>6. ASSUME FgError PROVE Leased'
  BY <1>6, CancelsWrites, CleansUp, NoSagaFacts, IdleFacts DEF FgError, MarkCanceled,
     CanceledRow, Rows, SagaBound, Launched, Runners
<1>7. ASSUME RecStart PROVE Leased'
  BY <1>7, RecStartWrites, CancelsWrites, NoSagaFacts, IdleFacts DEF RecStart, MarkCanceled,
     CanceledRow, Rows, SagaBound, Launched, remote
<1>8. ASSUME RecGet PROVE Leased'
  BY <1>8, MarksSent, NoSagaFacts, IdleFacts DEF RecGet, Runners
<1>9. ASSUME RecFails PROVE Leased'
  BY <1>9, NoSagaFacts, IdleFacts DEF RecFails, CleanupAllowed, Runners
<1>10. ASSUME NEW p \in Runners, Answered(p) PROVE Leased'
  BY <1>10, MarksSent, NoSagaFacts, IdleFacts DEF Answered, Runners, remote
<1>11. ASSUME NEW p \in Runners, NamedAndFinal(p) PROVE Leased'
  BY <1>11, FinalWrites, NoSagaFacts, IdleFacts DEF NamedAndFinal, remote
<1>12. ASSUME NEW p \in Runners, Archives(p) PROVE Leased'
  BY <1>12, CleansUp, NoSagaFacts, IdleFacts DEF Archives
<1>13. ASSUME NEW p \in Runners, ArchiveFails(p) PROVE Leased'
  BY <1>13, CleansUp, NoSagaFacts, IdleFacts DEF ArchiveFails, remote
<1>14. ASSUME NEW p \in Runners, RollsBack(p) PROVE Leased'
  BY <1>14, RollbackWrites, Restores, NoSagaFacts, IdleFacts DEF RollsBack, IntentShape, remote
<1>15. ASSUME Stop PROVE Leased'
  BY <1>15, CancelsWrites DEF Stop, CanceledRow, Rows, SagaBound, Launched, remote
<1>16. ASSUME Archive PROVE Leased'
  BY <1>16 DEF Archive, remote
<1>17. ASSUME TermConfirms PROVE Leased'
  BY <1>17, Settlement DEF TermConfirms, remote
<1>18. ASSUME TermFails PROVE Leased'
  BY <1>18, Settlement DEF TermFails, remote
<1>19. ASSUME SendBegin PROVE Leased'
  BY <1>19 DEF SendBegin, LeaseFree, remote
<1>20. ASSUME NEW s \in Launches, SendPost(s) PROVE Leased'
  BY <1>20, IdleFacts DEF SendPost, Leases, LeaseCanSend
<1>21. ASSUME SendFails PROVE Leased'
  BY <1>21 DEF SendFails, Unleased
<1>22. ASSUME SendAnswered PROVE Leased'
  BY <1>22 DEF SendAnswered, Unleased, Rows, Statuses, remote
<1>23. ASSUME FlushGet PROVE Leased'
  BY <1>23, FlushGetWrites, CompletesWrites DEF FlushGet, LeaseFree, FlushPosts, FlushLeaves,
     Launched
<1>24. ASSUME FlushAnswered PROVE Leased'
  BY <1>24, CompletesWrites, IdleFacts DEF FlushAnswered, Unleased, remote
<1>25. ASSUME FlushFails PROVE Leased'
  BY <1>25 DEF FlushFails, Unleased
<1>26. ASSUME TurnEnds PROVE Leased'
  BY <1>26 DEF TurnEnds, Rows, Statuses
<1>27. ASSUME Crash PROVE Leased'
  BY <1>27 DEF Crash, remote
<1>28. ASSUME LeaseExpires PROVE Leased'
  BY <1>28 DEF LeaseExpires, remote
<1>29. CASE FgPost \/ FgHandoff \/ TermStart \/ (\E s \in Launches : TermCancels(s))
  BY <1>29 DEF FgPost, store, FgHandoff, remote, TermStart, TermCancels
<1>30. CASE TermArchives \/ (\E r \in Requests : LateRequest(r)) \/ FlushStart
            \/ (\E m \in Msgs : RemoteTake(m))
  BY <1>30 DEF TermArchives, store, LateRequest, remote, FlushStart, RemoteTake
<1>31. CASE PublishNotices
  BY <1>31 DEF PublishNotices, remote
<1>32. CASE UNCHANGED vars
  BY <1>32 DEF vars, store, remote
<1> QED
  BY <1>1, <1>2, <1>3, <1>4, <1>5, <1>6, <1>7, <1>8, <1>9, <1>10, <1>11, <1>12, <1>13, <1>14,
     <1>15, <1>16, <1>17, <1>18, <1>19, <1>20, <1>21, <1>22, <1>23, <1>24, <1>25, <1>26,
     <1>27, <1>28, <1>29, <1>30, <1>31, <1>32 DEF Next, Runs, Runners

-----------------------------------------------------------------------------
(* What is called off                                                       *)

\* A new intent is about the bound workspace, names sessions that live there,
\* and goes with a terminal status; a saved one ends with its attempt.
NewIntent(new) ==
    /\ intent' = MergedIntent(new) /\ intent' \in TerminalIntents
    /\ new.at = count.at + 1 /\ count'.at = count.at + 1
    /\ new.ws = row.ws /\ row.ws # 0 /\ row'.ws = row.ws /\ row'.status \in Terminal
    /\ new.action = "archive" => row'.archivedAt
    /\ row.status = "archived" => new.action = "archive"
    /\ \A s \in new.sessions : s # 0 /\ home[s] = row.ws
    /\ term' = term \/ TermJoins(lease')
    /\ home' = home /\ wire' \subseteq wire
IntentMoves ==
    \/ intent' = intent
    \/ intent' = NoIntent /\ term' = TermIdle /\ lease' = NoLease /\ wire' = wire
    \/ \E new \in TerminalIntents : NewIntent(new)
\* Those of MarkCanceled and Stop.
LEMMA CancelsIntends ==
  ASSUME IInv, NEW presses \in Nat, Cancels(presses),
         row' \in Rows, row'.ws = row.ws, row'.archivedAt = row.archivedAt,
         row'.status \in Terminal, home' = home, wire' \subseteq wire,
         row.ws # 0 => term' = term \/ TermJoins(lease')
  PROVE  intent' = intent \/ \E new \in TerminalIntents : NewIntent(new)
<1> USE DEF IInv
<1>1. CASE row.ws = 0
  BY <1>1, CancelsWrites DEF Launched, SagaBound
<1>2. CASE row.ws # 0
  <2>1. row.ws = 0 <=> row.ses = 0
    BY DEF Launched, SagaBound
  <2>2. PICK new \in TerminalIntents :
            /\ intent' = MergedIntent(new) /\ intent' \in TerminalIntents
            /\ new.action = IF row.status = "archived" THEN "archive" ELSE "stop"
            /\ new.ws = row.ws /\ new.at = count.at + 1
            /\ \A s \in new.sessions :
                  \/ s = row.ses
                  \/ s \in targets /\ home[s] = row.ws
                  \/ lease.ws = row.ws /\ s = lease.ses /\ s # 0
    BY <1>2, <2>1, CancelsWrites
  <2>3. count'.at = count.at + 1
    BY <2>1, CancelsWrites
  <2>4. row.ses # 0 /\ home[row.ses] = row.ws
    BY <1>2, <2>1 DEF Launched, SagaBound, Homes
  <2>5. \A s \in targets : s # 0
    BY NoSagaFacts DEF Shape, IntentShape
  <2>6. lease.ws = row.ws /\ lease.ses # 0 => home[lease.ses] = row.ws
    BY <1>2, IdleFacts DEF Leased
  <2>7. \A s \in new.sessions : s # 0 /\ home[s] = row.ws
    BY <2>2, <2>4, <2>5, <2>6
  <2>8. /\ new.action = "archive" => row'.archivedAt
        /\ row.status = "archived" => new.action = "archive"
    BY <2>2 DEF Cleaned
  <2> QED
    BY <1>2, <2>2, <2>3, <2>7, <2>8 DEF NewIntent
<1> QED
  BY <1>1, <1>2
\* The row of a canceled launch is terminal, and archived only if it was.
LEMMA CanceledRowFacts ==
  ASSUME LaunchShape
  PROVE  /\ CanceledRow \in Rows /\ CanceledRow.ws = row.ws /\ CanceledRow.ses = row.ses
         /\ CanceledRow.archivedAt = row.archivedAt /\ CanceledRow.status \in Terminal
         /\ CanceledRow.status = "archived" <=> row.status = "archived"
BY DEF LaunchShape, CanceledRow, Rows, Statuses, Terminal

\* Every step satisfies it.
LEMMA IntentMovesBy ==
  ASSUME IInv, [Next]_vars
  PROVE  IntentMoves
<1> USE DEF IntentMoves, IInv, Shape
<1>1. ASSUME FgError PROVE IntentMoves
  <2>1. CASE MarkCanceled
    <3>1. Cancels(0) /\ row' = CanceledRow
      BY <2>1 DEF MarkCanceled
    <3>2. home' = home /\ wire' \subseteq wire /\ term' = term
      BY <1>1 DEF FgError
    <3> QED
      BY <3>1, <3>2, CanceledRowFacts, CancelsIntends
  <2> QED
    BY <1>1, <2>1 DEF FgError
<1>2. ASSUME RecStart PROVE IntentMoves
  <2>1. CASE MarkCanceled
    <3>1. Cancels(0) /\ row' = CanceledRow
      BY <2>1 DEF MarkCanceled
    <3>2. home' = home /\ wire' = wire /\ term' = term
      BY <1>2 DEF RecStart, remote
    <3> QED
      BY <3>1, <3>2, CanceledRowFacts, CancelsIntends
  <2> QED
    BY <1>2, <2>1 DEF RecStart
<1>3. ASSUME Stop PROVE IntentMoves
  <2>1. Cancels(1) /\ home' = home /\ wire' = wire /\ lease' = lease
    BY <1>3 DEF Stop, remote
  <2>2. row' \in Rows /\ row'.ws = row.ws /\ row'.archivedAt = row.archivedAt
        /\ row'.status \in Terminal
    BY <1>3, CanceledRowFacts DEF Stop, LaunchShape, Rows, Statuses, Terminal
  <2>3. row.ws # 0 => term' = term \/ TermJoins(lease')
    BY <1>3, <2>1 DEF Stop
  <2> QED
    BY <2>1, <2>2, <2>3, CancelsIntends
<1>4. ASSUME Archive PROVE IntentMoves
  <2>1. /\ row'.ws = row.ws /\ row'.status \in Terminal /\ row'.archivedAt
        /\ count'.at = count.at + 1
    BY <1>4, ArchiveWrites DEF Terminal
  <2>2. home' = home /\ wire' = wire /\ lease' = NoLease
    BY <1>4 DEF Archive, remote
  <2>3. saga # NoSaga => home[saga.id] = row.ws /\ row.ws # 0
    <3>1. saga # NoSaga => home[saga.id] \in Launches
      BY NoSagaFacts DEF LaunchShape, Launched, SagaBound, Homes, Launches, Counts
    <3> QED
      BY <3>1, NoSagaFacts DEF Launched, SagaBound
  <2>4. CASE intent' = intent
    BY <2>4
  <2>5. CASE \E new \in TerminalIntents :
               /\ intent' = MergedIntent(new) /\ TermJoins(NoLease)
               /\ new.action = "archive" /\ new.at = count.at + 1 /\ new.sessions = {}
               /\ IF row.ws # 0 THEN new.ws = row.ws ELSE saga # NoSaga /\ new.ws = home[saga.id]
    <3>1. PICK new \in TerminalIntents :
               /\ intent' = MergedIntent(new) /\ TermJoins(lease')
               /\ new.action = "archive" /\ new.at = count.at + 1 /\ new.sessions = {}
               /\ new.ws = row.ws /\ row.ws # 0
      BY <2>2, <2>3, <2>5
    <3>2. intent' \in TerminalIntents
      BY <3>1, Merged DEF IntentShape
    <3>3. NewIntent(new)
      BY <2>1, <2>2, <3>1, <3>2 DEF NewIntent
    <3> QED
      BY <3>3
  <2> QED
    BY <1>4, <2>4, <2>5, ArchiveIntends
<1>5. ASSUME TermConfirms PROVE IntentMoves
  BY <1>5 DEF TermConfirms, Settle, remote
<1>6. ASSUME TermFails PROVE IntentMoves
  BY <1>6 DEF TermFails, Settle, remote
<1>7. ASSUME SendAnswered PROVE IntentMoves
  <2> DEFINE m == <<"send", sender.id>>
  <2>1. /\ sender \in Sends /\ m \in seen /\ m \in Msgs /\ m \in Plain /\ m \in Known
        /\ UNCHANGED <<home, wire>>
    BY <1>7, IdleFacts DEF SendAnswered, MessageShape, Sends, Msgs, Plain, Known, remote
  <2>2. CASE \E new \in TerminalIntents :
               /\ intent' = MergedIntent(new) /\ TermJoins(NoLease) /\ lease' = NoLease
               /\ new.action = "stop" /\ new.at = count.at + 1 /\ new.ws = row.ws
               /\ new.sessions = {row.ses, where[<<"send", sender.id>>]}
               /\ count'.at = count.at + 1
               /\ row.status = "stopped" /\ ~row.archivedAt /\ row.ws = sender.ses
               /\ doomed' = doomed \cup {<<"send", sender.id>>} /\ row' = row
    <3>1. PICK new \in TerminalIntents :
               /\ intent' = MergedIntent(new) /\ TermJoins(lease')
               /\ new.action = "stop" /\ new.at = count.at + 1 /\ new.ws = row.ws
               /\ new.sessions = {row.ses, where[m]} /\ row.status = "stopped"
               /\ row.ws = sender.ses /\ row' = row
      BY <2>2
    <3>2. row.ws # 0 /\ row.ses # 0 /\ home[row.ses] = row.ws
      BY <2>1, <3>1, NoSagaFacts DEF Sends, Launched, SagaBound, Homes
    <3>3. where[m] # 0 /\ home[where[m]] = row.ws
      BY <2>1 DEF Carried, Posted
    <3>4. count'.at = count.at + 1
      BY <2>2
    <3>5. intent' \in TerminalIntents
      BY <3>1, Merged DEF IntentShape
    <3> HIDE DEF m
    <3>6. NewIntent(new)
      BY <2>1, <3>1, <3>2, <3>3, <3>4, <3>5 DEF NewIntent, Terminal
    <3> QED
      BY <3>6
  <2> QED
    BY <1>7, <2>2, RearmIntends
<1>8. CASE (\E k, w \in Launches : FgCreate(k, w)) \/ FgCreateFails \/ FgPersist \/ FgOrphan
  BY <1>8 DEF FgCreate, FgCreateFails, FgPersist, FgOrphan
<1>9. CASE FgPromote \/ FgPost \/ FgHandoff \/ RecGet
  BY <1>9 DEF FgPromote, FgPost, store, FgHandoff, RecGet
<1>10. CASE RecFails \/ (\E p \in Runners : Answered(p))
            \/ (\E p \in Runners : NamedAndFinal(p)) \/ (\E p \in Runners : Archives(p))
  BY <1>10 DEF RecFails, Answered, NamedAndFinal, Archives
<1>11. CASE (\E p \in Runners : ArchiveFails(p)) \/ (\E p \in Runners : RollsBack(p))
            \/ TermStart \/ (\E s \in Launches : TermCancels(s))
  BY <1>11 DEF ArchiveFails, RollsBack, TermStart, store, TermCancels
<1>12. CASE TermArchives \/ SendBegin \/ (\E s \in Launches : SendPost(s)) \/ SendFails
  BY <1>12 DEF TermArchives, store, SendBegin, SendPost, SendFails
<1>13. CASE (\E r \in Requests : LateRequest(r)) \/ FlushStart \/ FlushGet \/ FlushAnswered
  BY <1>13 DEF LateRequest, FlushStart, FlushGet, FlushAnswered
<1>14. CASE FlushFails \/ (\E m \in Msgs : RemoteTake(m)) \/ TurnEnds \/ PublishNotices
  BY <1>14 DEF FlushFails, RemoteTake, store, TurnEnds, PublishNotices
<1>15. CASE Crash \/ LeaseExpires
  BY <1>15 DEF Crash, LeaseExpires
<1>16. CASE UNCHANGED vars
  BY <1>16 DEF vars, store
<1> QED
  BY <1>1, <1>2, <1>3, <1>4, <1>5, <1>6, <1>7, <1>8, <1>9, <1>10, <1>11, <1>12, <1>13, <1>14,
     <1>15, <1>16 DEF Next, Runs, Runners

\* The owner's Archive of the row is for good, and its binding only changes
\* when a launch is persisted or rolled back.
RowMoves ==
    /\ row.archivedAt => row'.archivedAt
    /\ count.at <= count'.at /\ count.send <= count'.send
    /\ \/ row'.ws = row.ws
       \/ row.ws = 0 /\ fg.pc = "creating" /\ home[fg.id] = fg.id /\ intent' = intent
       \/ row'.ws = 0 /\ <<"ws", row.ws>> \in gone /\ finals = {} /\ intent' = intent
    /\ row'.status = "archived" =>
          row.status = "archived" \/ saga.prev.status = "archived" \/ row'.archivedAt
    /\ saga' = NoSaga \/ saga'.prev.status \in {saga.prev.status, row.status}

\* Every step satisfies it.
LEMMA RowMovesBy ==
  ASSUME IInv, [Next]_vars
  PROVE  RowMoves
<1> USE DEF RowMoves, IInv, Shape, LaunchShape
<1>C. count.at \in Nat /\ count.send \in Nat
  BY DEF Counts
<1> USE <1>C
<1>1. ASSUME NEW k \in Launches, NEW w \in Launches, FgCreate(k, w) PROVE RowMoves
  BY <1>1 DEF FgCreate
<1>2. ASSUME FgCreateFails PROVE RowMoves
  BY <1>2, NoSagaFacts, IdleFacts DEF FgCreateFails, Rows, Statuses
<1>3. ASSUME FgPersist PROVE RowMoves
  <2>1. fg.id \in Launches /\ fg.pc = "creating" /\ intent' = intent /\ count' = count
    BY <1>3, PersistWrites, IdleFacts
  <2>2. CASE UNCHANGED <<row, saga>>
    BY <2>1, <2>2
  <2>3. CASE /\ \E phase \in {"provisioned", "cleanup", "cancel"} : PersistLaunch(fg.id, phase)
             /\ home[fg.id] = fg.id \/ row.ws = home[fg.id]
    <3>1. /\ row'.ws = home[fg.id] /\ row'.archivedAt = row.archivedAt
          /\ row'.status \in {"starting", row.status} /\ saga'.prev.status = row.status
      BY <2>1, <2>3, Persists DEF Phases
    <3>2. home[fg.id] = fg.id => row.ws = 0
      BY <2>1 DEF Launched, Foreground
    <3> QED
      BY <2>1, <2>3, <3>1, <3>2
  <2> QED
    BY <1>3, <2>2, <2>3, PersistWrites
<1>4. ASSUME FgPromote PROVE RowMoves
  BY <1>4, NoSagaFacts, IdleFacts, Phased DEF FgPromote, Phases
<1>5. ASSUME FgError PROVE RowMoves
  BY <1>5, CancelsWrites, CanceledRowFacts, CleansUp, NoSagaFacts, IdleFacts DEF FgError,
     MarkCanceled, SagaBound, Launched, Runners
<1>6. ASSUME RecStart PROVE RowMoves
  BY <1>6, RecStartWrites, CancelsWrites, CanceledRowFacts, NoSagaFacts, IdleFacts
     DEF RecStart, MarkCanceled, SagaBound, Launched
<1>7. ASSUME RecGet PROVE RowMoves
  BY <1>7, MarksSent, NoSagaFacts, IdleFacts DEF RecGet, Runners
<1>8. ASSUME RecFails PROVE RowMoves
  <2>1. UNCHANGED <<row, count>> /\ (saga' = saga \/ (CleanupAllowed(rec.id) /\ rec.pc # "idle"))
    BY <1>8 DEF RecFails, rec
  <2>2. saga' = saga \/ saga \in PendingSagas
    BY <1>8, <2>1, NoSagaFacts, IdleFacts DEF CleanupAllowed, rec, Runners
  <2>3. saga' = saga \/ saga' = NoSaga \/ saga'.prev = saga.prev
    BY <1>8, <2>2, LaunchMovesBy, LaunchShapeStep DEF LaunchMoves
  <2> QED
    BY <2>1, <2>3
<1>9. ASSUME NEW p \in Runners, Answered(p) PROVE RowMoves
  BY <1>9, MarksSent, NoSagaFacts, IdleFacts DEF Answered, Runners
<1>10. ASSUME NEW p \in Runners, NamedAndFinal(p) PROVE RowMoves
  BY <1>10, FinalWrites, NoSagaFacts, IdleFacts DEF NamedAndFinal, Launched, SagaBound
<1>11. ASSUME NEW p \in Runners, Archives(p) PROVE RowMoves
  BY <1>11, CleansUp, NoSagaFacts, IdleFacts DEF Archives
<1>12. ASSUME NEW p \in Runners, ArchiveFails(p) PROVE RowMoves
  BY <1>12, CleansUp, NoSagaFacts, IdleFacts DEF ArchiveFails
<1>13. ASSUME NEW p \in Runners, RollsBack(p) PROVE RowMoves
  <2>1. CASE UNCHANGED <<row, saga, count>>
    BY <2>1
  <2>2. CASE saga \in PendingSagas /\ RestoreLaunch /\ saga.id = runner[p].id
    <3>1. /\ row'.ws = saga.prev.ws /\ row'.archivedAt = row.archivedAt /\ saga' = NoSaga
          /\ row'.status = "archived" => row.status = "archived" \/ saga.prev.status = "archived"
      BY <2>2, Restores
    <3>2. intent' = intent /\ count' = count /\ runner[p].pc = "archived"
      BY <1>13, RollbackWrites
    <3>3. Resource(saga.id) \in gone
      BY <2>2, <3>2 DEF Prompts, Cleanups
    <3>4. /\ row.ws = home[saga.id]
          /\ IF home[saga.id] = saga.id THEN saga.prev.ws = 0 /\ finals = {}
             ELSE saga.prev.ws = row.ws
      BY <2>2, NoSagaFacts DEF Launched, SagaBound
    <3> QED
      BY <3>1, <3>2, <3>3, <3>4 DEF Resource
  <2> QED
    BY <1>13, <2>1, <2>2, RollbackWrites
<1>14. ASSUME Stop PROVE RowMoves
  BY <1>14, CancelsWrites, CanceledRowFacts, NoSagaFacts, IdleFacts DEF Stop, SagaBound,
     Launched, Rows, Statuses
<1>15. ASSUME Archive PROVE RowMoves
  BY <1>15, ArchiveWrites, Phased, NoSagaFacts, IdleFacts DEF Archive, Phases
<1>16. ASSUME NEW s \in Launches, TermCancels(s) PROVE RowMoves
  <2>1. UNCHANGED <<row, count, saga>>
    BY <1>16 DEF TermCancels, store
  <2> QED
    BY <2>1
<1>17. ASSUME TermConfirms PROVE RowMoves
  <2>1. PICK result \in {"completed", "none", "pending", "failed"} : Settle(result)
    BY <1>17 DEF TermConfirms
  <2>2. UNCHANGED <<count, saga>>
    BY <1>17 DEF TermConfirms
  <2>3. /\ row'.ws = row.ws /\ row'.archivedAt = row.archivedAt
        /\ row' = row \/ row'.status = "stopped"
    BY <2>1, Settlement
  <2> QED
    BY <2>2, <2>3
<1>18. ASSUME TermFails PROVE RowMoves
  <2>1. PICK result \in {"completed", "none", "pending", "failed"} : Settle(result)
    BY <1>18 DEF TermFails
  <2>2. UNCHANGED <<count, saga>>
    BY <1>18 DEF TermFails
  <2>3. /\ row'.ws = row.ws /\ row'.archivedAt = row.archivedAt
        /\ row' = row \/ row'.status = "stopped"
    BY <2>1, Settlement
  <2> QED
    BY <2>2, <2>3
<1>19. ASSUME SendBegin PROVE RowMoves
  BY <1>19 DEF SendBegin, Counts
<1>20. ASSUME SendAnswered PROVE RowMoves
  <2>1. /\ row'.archivedAt = row.archivedAt /\ row'.ws = row.ws /\ saga' = saga
        /\ row' = row \/ row'.status = "running"
    BY <1>20 DEF SendAnswered, Rows, Statuses
  <2>2. count.at <= count'.at /\ count.send <= count'.send
    BY <1>20 DEF SendAnswered, Counts
  <2> QED
    BY <2>1, <2>2
<1>21. ASSUME FlushGet PROVE RowMoves
  <2>1. row' = row \/ \E r \in Requests : Completes(r)
    BY <1>21, FlushGetWrites DEF FlushPosts, FlushLeaves, Launched
  <2>2. UNCHANGED <<count, saga>> /\ flush \in Flushes
    BY <1>21, FlushGetWrites DEF FlushGet, Launched
  <2>3. row'.ws = row.ws /\ row'.archivedAt = row.archivedAt
        /\ (row' = row \/ row'.status = "running")
    BY <2>1, <2>2, CompletesWrites
  <2> QED
    BY <2>2, <2>3
<1>22. ASSUME FlushAnswered PROVE RowMoves
  BY <1>22, CompletesWrites, IdleFacts DEF FlushAnswered, MessageShape
<1>23. ASSUME TurnEnds PROVE RowMoves
  BY <1>23 DEF TurnEnds, Rows, Statuses
<1>24. ASSUME Crash PROVE RowMoves
  BY <1>24 DEF Crash
<1>25. CASE FgOrphan \/ FgPost
  BY <1>25 DEF FgOrphan, FgPost, store
<1>26. CASE FgHandoff \/ TermStart
  BY <1>26 DEF FgHandoff, store, TermStart
<1>27. CASE TermArchives \/ (\E s \in Launches : SendPost(s))
  BY <1>27 DEF TermArchives, store, SendPost
<1>28. CASE SendFails \/ (\E r \in Requests : LateRequest(r))
  BY <1>28 DEF SendFails, LateRequest
<1>29. CASE FlushStart \/ FlushFails
  BY <1>29 DEF FlushStart, FlushFails
<1>30. CASE (\E m \in Msgs : RemoteTake(m)) \/ PublishNotices
  BY <1>30 DEF RemoteTake, store, PublishNotices
<1>31. CASE LeaseExpires
  BY <1>31 DEF LeaseExpires
<1>32. CASE UNCHANGED vars
  BY <1>32 DEF vars, store
<1> QED
  BY <1>1, <1>2, <1>3, <1>4, <1>5, <1>6, <1>7, <1>8, <1>9, <1>10, <1>11, <1>12, <1>13, <1>14,
     <1>15, <1>16, <1>17, <1>18, <1>19, <1>20, <1>21, <1>22, <1>23, <1>24, <1>25, <1>26,
     <1>27, <1>28, <1>29, <1>30, <1>31, <1>32 DEF Next, Runs, Runners

\* The home of a session that has been created does not change.
LEMMA HomeStays ==
  ASSUME IInv, [Next]_vars, NEW k \in Launches, home[k] # 0
  PROVE  home'[k] = home[k]
BY LaunchMovesBy DEF LaunchMoves, IInv, Launched, Homes, Shape, LaunchShape, Counts, Launches

\* Every step keeps what the intent is about.
LEMMA IntendedStep ==
  ASSUME IInv, [Next]_vars
  PROVE  Intended'
<1>1. /\ IntentMoves /\ RowMoves /\ gone \subseteq gone'
  BY IntentMovesBy, RowMovesBy, PromptsGrowBy DEF PromptsGrow, IInv
<1>2. /\ intent \in {NoIntent} \cup TerminalIntents /\ intent' \in {NoIntent} \cup TerminalIntents
      /\ count.at \in Nat /\ count'.at \in Nat /\ row.ws \in Launch0
  BY ShapeStep DEF IInv, Shape, IntentShape, LaunchShape, Counts, Rows
<1>3. /\ intent # NoIntent =>
           /\ row.ws = intent.ws \/ (row.ws = 0 /\ <<"ws", intent.ws>> \in gone)
           /\ intent.action = "archive" => row.archivedAt
      /\ \A s \in intent.sessions : s # 0 /\ home[s] = intent.ws
      /\ intent.at <= count.at
  BY DEF IInv, CalledOff, Intended
<1>4. \A s \in Launches : home[s] # 0 => home'[s] = home[s]
  BY HomeStays
<1>5. ASSUME NEW i \in TerminalIntents, NEW s \in i.sessions, s # 0 PROVE s \in Launches
  BY <1>5 DEF TerminalIntents, Launch0
<1>6. CASE intent' = intent
  <2>1. \A s \in intent.sessions : home'[s] = intent.ws
    BY <1>2, <1>3, <1>4, <1>5, IdleFacts
  <2>2. intent # NoIntent => row'.ws = intent.ws \/ (row'.ws = 0 /\ <<"ws", intent.ws>> \in gone')
    BY <1>1, <1>3 DEF RowMoves, IInv, CalledOff, Marked
  <2>3. intent.action = "archive" => row'.archivedAt
    BY <1>1, <1>3, IdleFacts DEF RowMoves
  <2>4. intent.at <= count'.at
    BY <1>1, <1>2, <1>3, IdleFacts DEF RowMoves, TerminalIntents
  <2> QED
    BY <1>3, <1>6, <2>1, <2>2, <2>3, <2>4 DEF Intended
<1>7. CASE intent' = NoIntent
  BY <1>2, <1>7, IdleFacts DEF Intended
<1>8. ASSUME NEW new \in TerminalIntents, NewIntent(new) PROVE Intended'
  <2>1. /\ intent' = MergedIntent(new) /\ intent' \in TerminalIntents
        /\ new.at = count.at + 1 /\ count'.at = count.at + 1
        /\ new.ws = row.ws /\ row.ws # 0 /\ row'.ws = row.ws
        /\ new.action = "archive" => row'.archivedAt
        /\ \A s \in new.sessions : s # 0 /\ home[s] = row.ws
        /\ home' = home
    BY <1>8 DEF NewIntent
  <2>2. CASE intent' = intent /\ intent.action = "archive"
    <3>1. intent # NoIntent
      BY <2>2, IdleFacts
    <3>2. intent.at <= count'.at
      BY <1>2, <1>3, <2>1, <3>1 DEF TerminalIntents
    <3> QED
      BY <1>1, <1>3, <2>1, <2>2, <3>1, <3>2 DEF Intended, RowMoves
  <2>3. CASE /\ intent'.action = new.action /\ intent'.ws = new.ws /\ intent'.at = new.at
             /\ intent'.sessions \subseteq new.sessions \cup intent.sessions
             /\ intent'.sessions = new.sessions \/ intent.ws = new.ws
    <3>1. \A s \in intent'.sessions : s # 0 /\ home[s] = row.ws
      BY <1>3, <2>1, <2>3
    <3>2. intent'.at <= count'.at
      BY <1>2, <2>1, <2>3
    <3> QED
      BY <2>1, <2>3, <3>1, <3>2 DEF Intended
  <2> QED
    BY <1>2, <2>1, <2>2, <2>3, Merged
<1> QED
  BY <1>1, <1>6, <1>7, <1>8 DEF IntentMoves

\* An attempt begins with the intent it reads, and no attempt outlives the
\* intent of its workspace.
TermBeginsNow(l) ==
    /\ term = TermIdle /\ term' \in Attempts /\ term'.want = intent' /\ term'.pc = "calling"
    /\ term'.todo = intent'.sessions /\ intent' \in TerminalIntents
    /\ term'.unresolved <=> (intent'.action = "stop" /\ l.ws = intent'.ws)
TermMoves ==
    /\ \/ term' = term
       \/ term' = TermIdle /\ ~stopper'
       \/ TermBeginsNow(lease') /\ lease' \in {lease, NoLease}
       \/ /\ term \in Attempts /\ term' \in Attempts /\ term'.want = term.want
          /\ term'.unresolved = term.unresolved /\ intent' = intent /\ lease' = lease
          /\ \A m \in live' : where[m] \in term.todo => where[m] \in term'.todo
          /\ term'.pc = term.pc \/ /\ term.want.action = "archive"
                                   /\ <<"ws", term.want.ws>> \in gone'
    /\ stopper' => stopper \/ term' # TermIdle
    /\ term' # TermIdle => lease' \in {lease, NoLease} \/ intent = NoIntent

\* Every step satisfies it.
LEMMA TermMovesBy ==
  ASSUME IInv, [Next]_vars
  PROVE  TermMoves
<1> USE DEF TermMoves, IInv, Shape
<1>1. ASSUME NEW k \in Launches, NEW w \in Launches, FgCreate(k, w) PROVE TermMoves
  BY <1>1 DEF FgCreate, LeaseFree
<1>2. ASSUME FgCreateFails PROVE TermMoves
  BY <1>2 DEF FgCreateFails, Unleased
<1>3. ASSUME FgPersist PROVE TermMoves
  BY <1>3 DEF FgPersist, PersistLaunch
<1>4. ASSUME FgOrphan PROVE TermMoves
  BY <1>4 DEF FgOrphan, Unleased
<1>5. ASSUME NEW p \in Runners, RollsBack(p) PROVE TermMoves
  <2>1. UNCHANGED <<term, stopper>> /\ lease' \in {lease, NoLease}
    BY <1>5 DEF RollsBack, RestoreLaunch
  <2> QED
    BY <2>1
<1>6. ASSUME Stop PROVE TermMoves
  <2>1. lease' = lease /\ lease \in {NoLease} \cup Leases
    BY <1>6 DEF Stop, MessageShape
  <2>2. CASE intent' = NoIntent
    BY <1>6, <2>1, <2>2 DEF Stop
  <2>3. CASE intent' # NoIntent
    <3>1. intent' \in TerminalIntents /\ TermJoins(lease) /\ stopper' = TRUE
      BY <1>6, <2>3, IntentShapeStep DEF Stop, IntentShape
    <3>2. term' # TermIdle
      BY <2>1, <3>1, Joins, IdleFacts
    <3> QED
      BY <2>1, <3>1, <3>2, Joins DEF TermBeginsNow
  <2> QED
    BY <2>2, <2>3
<1>7. ASSUME Archive PROVE TermMoves
  <2>1. lease' = NoLease /\ stopper' = stopper
    BY <1>7 DEF Archive
  <2>2. CASE term' = term
    BY <2>1, <2>2
  <2>3. CASE \E new \in TerminalIntents : intent' = MergedIntent(new) /\ TermJoins(NoLease)
    <3>1. intent' \in TerminalIntents
      BY <2>3, Merged DEF IntentShape
    <3> QED
      BY <2>1, <2>3, <3>1, Joins DEF TermBeginsNow
  <2> QED
    BY <1>7, <2>2, <2>3, ArchiveIntends
<1>8. ASSUME TermStart PROVE TermMoves
  <2>1. /\ term = TermIdle /\ term' = TermBegins(intent, lease) /\ intent \in TerminalIntents
        /\ lease \in {NoLease} \cup Leases /\ UNCHANGED <<intent, lease, stopper>>
    BY <1>8 DEF TermStart, IntentShape, MessageShape, store
  <2> QED
    BY <2>1, BeginsWith DEF TermBeginsNow
<1>9. ASSUME NEW s \in Launches, TermCancels(s) PROVE TermMoves
  <2>1. /\ term \in Attempts /\ term' = [term EXCEPT !.todo = @ \ {s}]
        /\ UNCHANGED <<intent, lease, stopper>> /\ live' = live \ InSessions({s})
    BY <1>9, IdleFacts DEF TermCancels, IntentShape, store
  <2>2. \A m \in live' : where[m] # s
    BY <2>1 DEF InSessions, RemoteShape
  <2> QED
    BY <2>1, <2>2 DEF Attempts
<1>10. ASSUME TermArchives PROVE TermMoves
  <2>1. /\ term \in Attempts /\ term' = [term EXCEPT !.pc = "confirmed"]
        /\ term.want.action = "archive" /\ <<"ws", term.want.ws>> \in gone'
        /\ UNCHANGED <<intent, lease, stopper>>
    BY <1>10, IdleFacts DEF TermArchives, IntentShape, store
  <2> QED
    BY <2>1 DEF Attempts
<1>11. ASSUME TermConfirms PROVE TermMoves
  BY <1>11 DEF TermConfirms, Settle
<1>12. ASSUME TermFails PROVE TermMoves
  BY <1>12 DEF TermFails, Settle
<1>13. ASSUME SendBegin PROVE TermMoves
  BY <1>13 DEF SendBegin, LeaseFree
<1>14. ASSUME NEW s \in Launches, SendPost(s) PROVE TermMoves
  <2>1. UNCHANGED <<term, stopper>> /\ intent = NoIntent
    BY <1>14 DEF SendPost, LeaseCanSend
  <2> QED
    BY <2>1
<1>15. ASSUME SendFails PROVE TermMoves
  BY <1>15 DEF SendFails, Unleased
<1>16. ASSUME SendAnswered PROVE TermMoves
  <2>1. stopper' = stopper /\ lease' \in {lease, NoLease}
    BY <1>16 DEF SendAnswered, Unleased
  <2>2. CASE term' = term
    BY <2>1, <2>2
  <2>3. CASE lease' = NoLease
             /\ \E new \in TerminalIntents : intent' = MergedIntent(new) /\ TermJoins(NoLease)
    <3>1. intent' \in TerminalIntents
      BY <2>3, Merged DEF IntentShape
    <3> QED
      BY <2>1, <2>3, <3>1, Joins DEF TermBeginsNow
  <2> QED
    BY <1>16, <2>2, <2>3, RearmIntends
<1>17. ASSUME FlushGet PROVE TermMoves
  <2>1. UNCHANGED <<term, stopper>>
    BY <1>17 DEF FlushGet
  <2>2. lease' = lease \/ intent = NoIntent
    BY <1>17, FlushGetWrites DEF FlushPosts, FlushLeaves, LeaseFree, Launched
  <2> QED
    BY <2>1, <2>2
<1>18. ASSUME FlushAnswered PROVE TermMoves
  BY <1>18 DEF FlushAnswered, Unleased
<1>19. ASSUME FlushFails PROVE TermMoves
  BY <1>19 DEF FlushFails, Unleased
<1>20. ASSUME Crash PROVE TermMoves
  BY <1>20 DEF Crash
<1>21. ASSUME LeaseExpires PROVE TermMoves
  BY <1>21 DEF LeaseExpires, procs
<1>22. CASE FgPromote \/ FgPost \/ FgError
  BY <1>22 DEF FgPromote, FgPost, store, FgError, MergedIntent
<1>23. CASE FgHandoff \/ RecStart \/ RecGet
  BY <1>23 DEF FgHandoff, store, RecStart, MergedIntent, RecGet
<1>24. CASE RecFails \/ (\E p \in Runners : Answered(p))
            \/ (\E p \in Runners : NamedAndFinal(p))
  BY <1>24 DEF RecFails, Answered, NamedAndFinal
<1>25. CASE (\E p \in Runners : Archives(p)) \/ (\E p \in Runners : ArchiveFails(p))
            \/ (\E r \in Requests : LateRequest(r))
  BY <1>25 DEF Archives, ArchiveFails, LateRequest
<1>26. CASE FlushStart \/ (\E m \in Msgs : RemoteTake(m)) \/ TurnEnds
  BY <1>26 DEF FlushStart, RemoteTake, store, procs, TurnEnds
<1>27. CASE PublishNotices
  BY <1>27 DEF PublishNotices, procs
<1>28. CASE UNCHANGED vars
  BY <1>28 DEF vars, store, procs
<1> QED
  BY <1>1, <1>2, <1>3, <1>4, <1>5, <1>6, <1>7, <1>8, <1>9, <1>10, <1>11, <1>12, <1>13, <1>14,
     <1>15, <1>16, <1>17, <1>18, <1>19, <1>20, <1>21, <1>22, <1>23, <1>24, <1>25, <1>26,
     <1>27, <1>28 DEF Next, Runs, Runners

\* Every step keeps what an attempt works on.
LEMMA AttemptedStep ==
  ASSUME IInv, [Next]_vars
  PROVE  Attempted'
<1>1. /\ IntentMoves /\ RowMoves /\ TermMoves /\ gone \subseteq gone'
  BY IntentMovesBy, RowMovesBy, TermMovesBy, PromptsGrowBy DEF PromptsGrow, IInv
<1>2. Intended' /\ Leased' /\ Shape'
  BY IntendedStep, LeasedStep, ShapeStep DEF IInv
<1>3. /\ intent \in {NoIntent} \cup TerminalIntents /\ intent' \in {NoIntent} \cup TerminalIntents
      /\ count.at \in Nat /\ term \in {TermIdle} \cup Attempts
      /\ term # TermIdle => term.want.at \in Nat
  BY <1>2, IdleFacts DEF IInv, Shape, IntentShape, LaunchShape, Counts, TerminalIntents
<1>4. stopper' => term' # TermIdle
  BY <1>1 DEF TermMoves, TermBeginsNow, IInv, CalledOff, Attempted, Attempts, TermIdle
<1>5. ASSUME term # TermIdle, term'.want = term.want, intent' = intent,
             term'.unresolved = term.unresolved, lease' \in {lease, NoLease},
             term' # TermIdle,
             term'.pc = term.pc \/ (term.want.action = "archive" /\ <<"ws", term.want.ws>> \in gone')
      PROVE  Attempted'
  BY <1>1, <1>4, <1>5 DEF Attempted, IInv, CalledOff, RowMoves
<1>6. CASE term' = TermIdle
  BY <1>4, <1>6 DEF Attempted
<1>7. CASE term' = term /\ term # TermIdle
  <2>1. intent # NoIntent /\ lease' \in {lease, NoLease}
    BY <1>1, <1>7 DEF TermMoves, IInv, CalledOff, Attempted
  <2>2. CASE intent' = intent
    BY <1>5, <1>7, <2>1, <2>2
  <2>3. CASE \E new \in TerminalIntents : NewIntent(new)
    <3>1. PICK new \in TerminalIntents : NewIntent(new)
      BY <2>3
    <3>2. new.ws = intent.ws /\ new.at = count.at + 1
      BY <1>3, <2>1, <3>1 DEF NewIntent, IInv, CalledOff, Intended
    <3>3. \/ intent' = intent
          \/ intent'.ws = new.ws /\ intent'.at = new.at /\ intent' \in TerminalIntents
      BY <1>3, <3>1, Merged DEF NewIntent
    <3>4. CASE intent'.ws = new.ws /\ intent'.at = new.at /\ intent' \in TerminalIntents
      <4>1. /\ term.want.ws = intent.ws /\ term.want.at <= intent.at
            /\ term.want.action = "archive" => row.archivedAt
            /\ term.pc = "confirmed" =>
                term.want.action = "archive" /\ <<"ws", term.want.ws>> \in gone
            /\ term.want.action = "stop" /\ ~term.unresolved => lease = NoLease
        BY <1>7 DEF IInv, CalledOff, Attempted
      <4>2. term.want.at < intent'.at
        BY <1>3, <1>7, <2>1, <3>2, <3>4, <4>1 DEF IInv, CalledOff, Intended, TerminalIntents
      <4>3. intent' # NoIntent
        BY <3>4, IdleFacts
      <4>4. term.want.at <= intent'.at /\ term.want.at # intent'.at
        BY <1>3, <1>7, <3>4, <4>2 DEF TerminalIntents
      <4> QED
        BY <1>1, <1>4, <1>7, <2>1, <3>2, <3>4, <4>1, <4>3, <4>4 DEF Attempted, RowMoves
    <3> QED
      BY <2>2, <3>3, <3>4
  <2> QED
    BY <1>1, <1>7, <2>1, <2>2, <2>3 DEF IntentMoves
<1>8. CASE TermBeginsNow(lease')
  <2>1. /\ term'.want = intent' /\ term'.pc = "calling" /\ intent' \in TerminalIntents
        /\ term'.unresolved <=> (intent'.action = "stop" /\ lease'.ws = intent'.ws)
    BY <1>8 DEF TermBeginsNow
  <2>2. intent' # NoIntent /\ intent'.at <= intent'.at
    BY <2>1, IdleFacts DEF TerminalIntents
  <2>3. lease' # NoLease => lease'.ws = intent'.ws
    BY <1>2, <2>2 DEF Leased, Intended
  <2> QED
    BY <1>2, <1>4, <2>1, <2>2, <2>3 DEF Attempted, Intended
<1>9. CASE /\ term \in Attempts /\ term' \in Attempts /\ term'.want = term.want
           /\ term'.unresolved = term.unresolved /\ intent' = intent /\ lease' = lease
           /\ term'.pc = term.pc \/ /\ term.want.action = "archive"
                                    /\ <<"ws", term.want.ws>> \in gone'
  <2>1. term # TermIdle /\ term' # TermIdle
    BY <1>9, IdleFacts
  <2> QED
    BY <1>5, <1>9, <2>1
<1> QED
  BY <1>1, <1>6, <1>7, <1>8, <1>9 DEF TermMoves

\* Requests leave the outbox with their outcome.
LEMMA AnswersAccount ==
  ASSUME OutboxAccounted, Answers
  PROVE  OutboxAccounted'
<1>1. \A r \in Requests : r \in Queued' => r \in Queued
  BY DEF Answers, Queued
<1> QED
  BY <1>1 DEF OutboxAccounted, Answers

\* Every step keeps the account of the requests that were queued.
LEMMA AccountedStep ==
  ASSUME IInv, [Next]_vars
  PROVE  OutboxAccounted'
<1>A. OutboxAccounted
  BY DEF IInv, CalledOff
<1> USE <1>A DEF OutboxAccounted, IInv, CalledOff, Shape
<1>1. ASSUME FgPersist PROVE OutboxAccounted'
  <2>1. outcome' = outcome
    BY <1>1 DEF FgPersist
  <2>2. fg.id \in Launches /\ fg.pc = "creating"
    BY <1>1, PersistWrites, IdleFacts
  <2>3. outbox' = outbox
    <3>1. ASSUME PersistLaunch(fg.id, "cancel"),
                 row.status \in Terminal \/ intent # NoIntent
          PROVE  outbox' = outbox
      BY <3>1 DEF PersistLaunch, CalledOff, Marked
    <3>2. ASSUME NEW phase \in {"provisioned", "cleanup"}, PersistLaunch(fg.id, phase)
          PROVE  outbox' = outbox
      BY <3>2 DEF PersistLaunch
    <3> QED
      BY <1>1, <3>1, <3>2, PersistWrites
  <2> QED
    BY <2>1, <2>3 DEF Queued
<1>2. ASSUME FgError PROVE OutboxAccounted'
  <2>1. Cancels(0) \/ UNCHANGED <<outbox, outcome>>
    BY <1>2 DEF FgError, MarkCanceled
  <2>2. Answers \/ UNCHANGED <<outbox, outcome>>
    BY <2>1, CancelsWrites DEF Launched, SagaBound
  <2> QED
    BY <2>2, AnswersAccount DEF Queued
<1>3. ASSUME RecStart PROVE OutboxAccounted'
  <2>1. Cancels(0) \/ UNCHANGED <<outbox, outcome>>
    BY <1>3 DEF RecStart, MarkCanceled
  <2>2. Answers \/ UNCHANGED <<outbox, outcome>>
    BY <2>1, CancelsWrites DEF Launched, SagaBound
  <2> QED
    BY <2>2, AnswersAccount DEF Queued
<1>4. ASSUME NEW p \in Runners, RollsBack(p) PROVE OutboxAccounted'
  <2>1. Answers \/ UNCHANGED <<outbox, outcome>>
    BY <1>4, RollbackWrites, Restores
  <2> QED
    BY <2>1, AnswersAccount DEF Queued
<1>5. ASSUME Stop PROVE OutboxAccounted'
  <2>1. Cancels(1) \/ UNCHANGED <<outbox, outcome>>
    BY <1>5 DEF Stop
  <2>2. Answers \/ UNCHANGED <<outbox, outcome>>
    BY <2>1, CancelsWrites DEF Launched, SagaBound
  <2> QED
    BY <2>2, AnswersAccount DEF Queued
<1>6. ASSUME Archive PROVE OutboxAccounted'
  <2>1. Answers
    BY <1>6, EmptiedAnswers DEF Archive
  <2> QED
    BY <2>1, AnswersAccount
<1>7. ASSUME NEW r \in Requests, LateRequest(r) PROVE OutboxAccounted'
  <2>1. /\ outbox' = outbox \cup {[req |-> r, ses |-> row.ses]}
        /\ outcome' = [outcome EXCEPT ![r] = "queued"]
    BY <1>7 DEF LateRequest
  <2> DEFINE e == [req |-> r, ses |-> row.ses]
  <2>2. e.req = r /\ outbox' = outbox \cup {e}
    BY <2>1
  <2> HIDE DEF e
  <2>3. \A x \in Requests : x \in Queued' <=> x \in Queued \/ x = r
    BY <2>2 DEF Queued
  <2> QED
    BY <2>1, <2>3 DEF MessageShape
<1>8. ASSUME FlushStart PROVE OutboxAccounted'
  <2>1. Answers \/ UNCHANGED <<outbox, outcome>>
    BY <1>8, ClearAnswers DEF FlushStart
  <2> QED
    BY <2>1, AnswersAccount DEF Queued
<1>9. ASSUME FlushGet PROVE OutboxAccounted'
  <2>1. Answers \/ UNCHANGED <<outbox, outcome>>
    BY <1>9, FlushGetWrites, CompletesWrites DEF FlushPosts, FlushLeaves, Launched
  <2> QED
    BY <2>1, AnswersAccount DEF Queued
<1>10. ASSUME FlushAnswered PROVE OutboxAccounted'
  <2>1. Answers
    BY <1>10, CompletesWrites, IdleFacts DEF FlushAnswered, MessageShape
  <2> QED
    BY <2>1, AnswersAccount
<1>11. CASE (\E k, w \in Launches : FgCreate(k, w)) \/ FgCreateFails \/ FgOrphan
  BY <1>11 DEF FgCreate, FgCreateFails, FgOrphan, Queued
<1>12. CASE FgPromote \/ FgPost \/ FgHandoff
  BY <1>12 DEF FgPromote, FgPost, store, FgHandoff, Queued
<1>13. CASE RecGet \/ RecFails \/ (\E p \in Runners : Answered(p))
  BY <1>13 DEF RecGet, RecFails, Answered, Queued
<1>14. CASE (\E p \in Runners : NamedAndFinal(p)) \/ (\E p \in Runners : Archives(p))
            \/ (\E p \in Runners : ArchiveFails(p))
  BY <1>14 DEF NamedAndFinal, Archives, ArchiveFails, Queued
<1>15. CASE TermStart \/ (\E s \in Launches : TermCancels(s)) \/ TermArchives
  BY <1>15 DEF TermStart, store, TermCancels, TermArchives, Queued
<1>16. CASE TermConfirms \/ TermFails \/ SendBegin
  BY <1>16 DEF TermConfirms, TermFails, SendBegin, Queued
<1>17. CASE (\E s \in Launches : SendPost(s)) \/ SendFails \/ SendAnswered
  BY <1>17 DEF SendPost, SendFails, SendAnswered, Queued
<1>18. CASE FlushFails \/ (\E m \in Msgs : RemoteTake(m)) \/ TurnEnds
  BY <1>18 DEF FlushFails, RemoteTake, store, TurnEnds, Queued
<1>19. CASE PublishNotices \/ Crash \/ LeaseExpires
  BY <1>19 DEF PublishNotices, Crash, LeaseExpires, Queued
<1>20. CASE UNCHANGED vars
  BY <1>20 DEF vars, store, Queued
<1> QED
  BY <1>1, <1>2, <1>3, <1>4, <1>5, <1>6, <1>7, <1>8, <1>9, <1>10, <1>11, <1>12, <1>13, <1>14,
     <1>15, <1>16, <1>17, <1>18, <1>19, <1>20 DEF Next, Runs, Runners

\* A status becomes terminal with everything pending called off; it stops
\* being one, and the outbox grows, only without an intent.
StatusMoves ==
    /\ \/ row'.status = row.status
       \/ row'.status \in Terminal /\ (saga' = NoSaga \/ saga'.phase = "cancel") /\ outbox' = {}
       \/ row'.status \notin Terminal /\ intent' = NoIntent
    /\ \/ outbox' \subseteq outbox
       \/ row' = row /\ row.status \notin Terminal /\ row.ws # 0
    /\ row'.ws = 0 => row.ws = 0 \/ outbox' = {}

\* Every step satisfies it.
LEMMA StatusMovesBy ==
  ASSUME IInv, [Next]_vars
  PROVE  StatusMoves
<1> USE DEF StatusMoves, IInv, Shape, LaunchShape
<1>1. ASSUME FgCreateFails PROVE StatusMoves
  <2>1. UNCHANGED <<intent, outbox>> /\ fg.pc = "creating"
    BY <1>1 DEF FgCreateFails, fg
  <2>2. CASE home[fg.id] = fg.id /\ row' = [row EXCEPT !.status = "failed"]
    <3>1. intent = NoIntent
      BY <2>1, <2>2 DEF CalledOff, Marked
    <3>2. row'.status = "failed" /\ row'.ws = row.ws
      BY <2>2 DEF Rows
    <3> QED
      BY <2>1, <3>1, <3>2 DEF Terminal
  <2>3. CASE row' = row
    BY <2>1, <2>3
  <2> QED
    BY <1>1, <2>2, <2>3 DEF FgCreateFails, fg
<1>2. ASSUME FgPersist PROVE StatusMoves
  <2>1. intent' = intent /\ fg.id \in Launches /\ fg.id # 0 /\ fg.id <= count.launch
    BY <1>2, PersistWrites, IdleFacts DEF Launched, Foreground, Counts
  <2>2. CASE UNCHANGED <<row, saga, outbox>>
    BY <2>2
  <2>3. ASSUME NEW phase \in {"provisioned", "cleanup", "cancel"}, PersistLaunch(fg.id, phase),
               phase = "provisioned" => intent = NoIntent
        PROVE  StatusMoves
    <3>1. /\ row'.ws = home[fg.id] /\ outbox' = IF phase = "cancel" THEN {} ELSE outbox
          /\ row'.status = IF phase = "provisioned" THEN "starting" ELSE row.status
      BY <2>1, <2>3, Persists DEF Phases
    <3>2. home[fg.id] # 0
      BY <2>1, NoSagaFacts DEF Launched, Homes, Launches, Counts
    <3> QED
      BY <2>1, <2>3, <3>1, <3>2 DEF Terminal
  <2>4. row.status \notin Terminal => intent = NoIntent
    BY DEF CalledOff, Marked
  <2> QED
    BY <1>2, <2>2, <2>3, <2>4, PersistWrites
<1>3. ASSUME FgError PROVE StatusMoves
  <2>1. CASE MarkCanceled
    <3>1. Cancels(0) /\ row' = CanceledRow
      BY <2>1 DEF MarkCanceled
    <3>2. outbox' = {} /\ (saga' = NoSaga \/ saga'.phase = "cancel")
      BY <3>1, CancelsWrites DEF Launched, SagaBound
    <3> QED
      BY <3>1, <3>2, CanceledRowFacts
  <2>2. CASE UNCHANGED <<row, intent, outbox>>
    BY <2>2
  <2> QED
    BY <1>3, <2>1, <2>2 DEF FgError
<1>4. ASSUME RecStart PROVE StatusMoves
  <2>1. CASE MarkCanceled
    <3>1. Cancels(0) /\ row' = CanceledRow
      BY <2>1 DEF MarkCanceled
    <3>2. outbox' = {} /\ (saga' = NoSaga \/ saga'.phase = "cancel")
      BY <3>1, CancelsWrites DEF Launched, SagaBound
    <3> QED
      BY <3>1, <3>2, CanceledRowFacts
  <2>2. CASE UNCHANGED <<row, intent, outbox>>
    BY <2>2
  <2> QED
    BY <1>4, <2>1, <2>2 DEF RecStart
<1>5. ASSUME NEW p \in Runners, NamedAndFinal(p) PROVE StatusMoves
  <2>1. UNCHANGED <<intent, outbox>>
    BY <1>5 DEF NamedAndFinal
  <2>2. CASE row' = row
    BY <2>1, <2>2
  <2>3. CASE /\ saga \in PendingSagas /\ row.status = "starting"
             /\ row'.ws = home[saga.id] /\ row'.status = "running"
    <3>1. intent = NoIntent
      BY <2>3 DEF CalledOff, Marked, Terminal
    <3>2. row.ws = home[saga.id]
      BY <2>3, NoSagaFacts DEF Launched, SagaBound
    <3> QED
      BY <2>1, <2>3, <3>1, <3>2 DEF Terminal
  <2> QED
    BY <1>5, <2>2, <2>3, FinalWrites
<1>6. ASSUME NEW p \in Runners, RollsBack(p) PROVE StatusMoves
  <2>1. CASE UNCHANGED <<row, outbox>>
    BY <2>1
  <2>2. CASE saga \in PendingSagas /\ RestoreLaunch
    <3>1. /\ saga' = NoSaga /\ outbox' = {} /\ intent' = intent
          /\ saga.phase = "cancel" => row'.status \in Terminal
      BY <1>6, <2>2, Restores, RollbackWrites
    <3>2. saga.phase # "cancel" => intent = NoIntent
      BY <2>2, NoSagaFacts DEF CalledOff, Marked
    <3> QED
      BY <3>1, <3>2
  <2> QED
    BY <1>6, <2>1, <2>2, RollbackWrites
<1>7. ASSUME Stop PROVE StatusMoves
  <2>1. Cancels(1) /\ (row' = CanceledRow \/ row' = [row EXCEPT !.status = "stopped"])
    BY <1>7 DEF Stop
  <2>2. row'.ws = row.ws /\ row'.status \in Terminal
    BY <2>1, CanceledRowFacts DEF Rows, Statuses, Terminal
  <2>3. outbox' = {} /\ (saga' = NoSaga \/ saga'.phase = "cancel")
    BY <2>1, CancelsWrites DEF Launched, SagaBound
  <2> QED
    BY <2>2, <2>3
<1>8. ASSUME Archive PROVE StatusMoves
  <2>1. row'.status \in Terminal /\ outbox' = {}
    BY <1>8, ArchiveWrites DEF Archive, Terminal
  <2>2. saga' = NoSaga \/ saga'.phase = "cancel"
    BY <1>8, Phased DEF Archive, Phases
  <2> QED
    BY <2>1, <2>2
<1>9. ASSUME TermConfirms PROVE StatusMoves
  <2>1. PICK result \in {"completed", "none", "pending", "failed"} : Settle(result)
    BY <1>9 DEF TermConfirms
  <2>2. UNCHANGED <<saga, outbox>>
    BY <1>9 DEF TermConfirms
  <2>3. row'.ws = row.ws /\ (row' = row \/ (row'.status = "stopped" /\ stopper))
    BY <2>1, Settlement
  <2>4. stopper => row.status \in Terminal
    BY DEF CalledOff, Attempted, Marked
  <2>5. row.status \in Terminal => outbox = {} /\ (saga = NoSaga \/ saga.phase = "cancel")
    BY DEF CalledOff, Marked
  <2> QED
    BY <2>2, <2>3, <2>4, <2>5 DEF Terminal
<1>10. ASSUME TermFails PROVE StatusMoves
  <2>1. PICK result \in {"completed", "none", "pending", "failed"} : Settle(result)
    BY <1>10 DEF TermFails
  <2>2. UNCHANGED <<saga, outbox>>
    BY <1>10 DEF TermFails
  <2>3. row'.ws = row.ws /\ (row' = row \/ (row'.status = "stopped" /\ stopper))
    BY <2>1, Settlement
  <2>4. stopper => row.status \in Terminal
    BY DEF CalledOff, Attempted, Marked
  <2>5. row.status \in Terminal => outbox = {} /\ (saga = NoSaga \/ saga.phase = "cancel")
    BY DEF CalledOff, Marked
  <2> QED
    BY <2>2, <2>3, <2>4, <2>5 DEF Terminal
<1>11. ASSUME SendAnswered PROVE StatusMoves
  <2>1. outbox' = outbox
    BY <1>11 DEF SendAnswered
  <2>2. CASE row' = row
    BY <2>1, <2>2
  <2>3. CASE LeaseCanSend("send") /\ row' = [row EXCEPT !.status = "running"] /\ intent' = intent
    BY <2>1, <2>3 DEF LeaseCanSend, Rows, Terminal
  <2> QED
    BY <1>11, <2>2, <2>3 DEF SendAnswered
<1>12. ASSUME NEW r \in Requests, LateRequest(r) PROVE StatusMoves
  BY <1>12 DEF LateRequest, Terminal
<1>13. ASSUME FlushStart PROVE StatusMoves
  BY <1>13 DEF FlushStart, ClearOutbox
<1>14. ASSUME FlushGet PROVE StatusMoves
  <2>1. intent' = intent /\ outbox' \subseteq outbox /\ row'.ws = row.ws
        /\ (row' = row \/ (row'.status = "running" /\ row.status \notin Terminal))
    BY <1>14, FlushGetWrites, CompletesWrites DEF FlushGet, FlushPosts, FlushLeaves, Answers,
       Launched
  <2>2. row.status \notin Terminal => intent = NoIntent
    BY DEF CalledOff, Marked
  <2> QED
    BY <2>1, <2>2 DEF Terminal
<1>15. ASSUME FlushAnswered PROVE StatusMoves
  <2>1. intent' = intent /\ outbox' \subseteq outbox /\ row'.ws = row.ws
        /\ (row' = row \/ (row'.status = "running" /\ row.status \notin Terminal))
    BY <1>15, CompletesWrites, IdleFacts DEF FlushAnswered, Answers, MessageShape
  <2>2. row.status \notin Terminal => intent = NoIntent
    BY DEF CalledOff, Marked
  <2> QED
    BY <2>1, <2>2 DEF Terminal
<1>16. ASSUME TurnEnds PROVE StatusMoves
  <2>1. intent' = NoIntent /\ outbox' = outbox
    BY <1>16 DEF TurnEnds
  <2>2. row'.ws = row.ws /\ row'.status \in {"done", "failed"}
    BY <1>16 DEF TurnEnds, Rows
  <2> QED
    BY <2>1, <2>2 DEF Terminal
<1>17. CASE (\E k, w \in Launches : FgCreate(k, w)) \/ FgOrphan \/ FgPromote
  BY <1>17 DEF FgCreate, FgOrphan, FgPromote
<1>18. CASE FgPost \/ FgHandoff \/ RecGet
  BY <1>18 DEF FgPost, store, FgHandoff, RecGet
<1>19. CASE RecFails \/ (\E p \in Runners : Answered(p)) \/ (\E p \in Runners : Archives(p))
  BY <1>19 DEF RecFails, Answered, Archives
<1>20. CASE (\E p \in Runners : ArchiveFails(p)) \/ TermStart
            \/ (\E s \in Launches : TermCancels(s))
  BY <1>20 DEF ArchiveFails, TermStart, store, TermCancels
<1>21. CASE TermArchives \/ SendBegin \/ (\E s \in Launches : SendPost(s))
  BY <1>21 DEF TermArchives, store, SendBegin, SendPost
<1>22. CASE SendFails \/ FlushFails \/ (\E m \in Msgs : RemoteTake(m))
  BY <1>22 DEF SendFails, FlushFails, RemoteTake, store
<1>23. CASE PublishNotices \/ Crash \/ LeaseExpires
  BY <1>23 DEF PublishNotices, Crash, LeaseExpires
<1>24. CASE UNCHANGED vars
  BY <1>24 DEF vars, store
<1> QED
  BY <1>1, <1>2, <1>3, <1>4, <1>5, <1>6, <1>7, <1>8, <1>9, <1>10, <1>11, <1>12, <1>13, <1>14,
     <1>15, <1>16, <1>17, <1>18, <1>19, <1>20, <1>21, <1>22, <1>23, <1>24 DEF Next, Runs,
     Runners

\* A launch whose call is out was begun by this step, or its call was out
\* before.
LEMMA CreatingStays ==
  ASSUME Shape, Launched, [Next]_vars, fg'.pc \in Early
  PROVE  \/ fg' = fg
         \/ fg'.pc = "orphan" /\ fg.pc = "creating" /\ fg'.id = fg.id
         \/ \E k, w \in Launches : FgCreate(k, w)
<1>1. fg'.pc # "idle"
  BY DEF Early
<1>2. CASE SameLaunch
  BY <1>1, <1>2, IdleFacts DEF SameLaunch, Runners, fg
<1>3. CASE FgPersist
  BY <1>3, PersistWrites DEF Early
<1>4. CASE RecStart
  BY <1>4, RecStartWrites
<1>5. CASE \E p \in Runners : NamedAndFinal(p)
  BY <1>1, <1>5, FinalWrites, IdleFacts DEF Runners, fg
<1>6. CASE \E p \in Runners : RollsBack(p)
  BY <1>1, <1>6, RollbackWrites, IdleFacts DEF Runners, fg
<1> QED
  BY <1>2, <1>3, <1>4, <1>5, <1>6, KeepsLaunch

\* The mark of a Stop or an Archive stays on the row, the saga and the outbox.
LEMMA MarkedStep ==
  ASSUME IInv, [Next]_vars
  PROVE  Marked'
<1>1. IntentMoves /\ RowMoves /\ StatusMoves /\ LaunchMoves /\ PhaseMoves
  BY IntentMovesBy, RowMovesBy, StatusMovesBy, LaunchMovesBy, PhaseMovesBy DEF IInv
<1>2. Shape /\ Launched /\ Marked /\ Shape' /\ Launched'
  BY ShapeStep, LaunchedStep DEF IInv, CalledOff
<1>3. /\ saga \in {NoSaga} \cup PendingSagas /\ saga' \in {NoSaga} \cup PendingSagas
      /\ intent' \in {NoIntent} \cup TerminalIntents /\ count.launch \in Nat
  BY <1>2 DEF Shape, LaunchShape, IntentShape, Counts
<1>4. intent' # NoIntent => row'.status \in Terminal
  BY <1>1, <1>2 DEF IntentMoves, NewIntent, StatusMoves, Marked
<1>5. ASSUME saga' # NoSaga, row'.status \in Terminal PROVE saga'.phase = "cancel"
  <2>1. CASE saga \in PendingSagas
    <3>1. saga # NoSaga
      BY <2>1, NoSagaFacts
    <3>2. saga.phase = "cancel" => saga'.phase = "cancel"
      BY <1>1, <1>3, <1>5, <2>1 DEF PhaseMoves
    <3>3. row.status \in Terminal => saga.phase = "cancel"
      BY <1>2, <3>1 DEF Marked
    <3> QED
      BY <1>1, <1>5, <3>2, <3>3 DEF StatusMoves
  <2>2. CASE saga = NoSaga
    <3>1. FgPersist
      <4>1. ~SameLaunch /\ ~RecStart
        BY <1>2, <1>5, <2>2, NoSagaFacts DEF SameLaunch, RecStart
      <4>2. ~(\E k, w \in Launches : FgCreate(k, w))
        BY <1>5, <2>2 DEF FgCreate
      <4>3. ~(\E p \in Runners : NamedAndFinal(p))
        BY <1>5, <2>2 DEF NamedAndFinal, Finalize
      <4>4. ~(\E p \in Runners : RollsBack(p))
        BY <1>2, <1>5, <2>2, RollbackWrites, NoSagaFacts
      <4> QED
        BY <1>2, <4>1, <4>2, <4>3, <4>4, KeepsLaunch
    <3>2. PICK phase \in {"provisioned", "cleanup", "cancel"} :
              /\ PersistLaunch(fg.id, phase)
              /\ IF home[fg.id] = fg.id
                 THEN phase = IF row.status \in Terminal THEN "cancel"
                              ELSE IF row.status \in {"failed", "done"} THEN "cleanup"
                              ELSE "provisioned"
                 ELSE phase = IF intent # NoIntent THEN "cancel" ELSE "provisioned"
      BY <1>2, <1>5, <2>2, <3>1, PersistWrites
    <3>3. fg.id \in Launches
      BY <1>2, <3>1, PersistWrites, IdleFacts
    <3>4. /\ saga'.phase = phase
          /\ row'.status = IF phase = "provisioned" THEN "starting" ELSE row.status
      BY <1>2, <3>2, <3>3, Persists DEF Shape, Phases
    <3> QED
      BY <1>5, <3>2, <3>4 DEF Terminal
  <2> QED
    BY <1>3, <2>1, <2>2
<1>6. ASSUME outbox' # {} PROVE row'.status \notin Terminal /\ row'.ws # 0
  BY <1>1, <1>2, <1>6 DEF StatusMoves, Marked
<1>7. ASSUME fg'.pc = "creating", home'[fg'.id] = fg'.id PROVE intent' = NoIntent
  <2>1. CASE \E k, w \in Launches : FgCreate(k, w)
    <3>1. PICK k \in Launches, w \in Launches : FgCreate(k, w)
      BY <2>1
    <3>2. intent' = intent /\ fg'.id = k /\ home' = [home EXCEPT ![k] = w] /\ k = count.launch + 1
      BY <1>2, <3>1, CreateWrites DEF FgCreate
    <3>3. w = k
      BY <1>2, <1>7, <3>2 DEF Shape, LaunchShape
    <3>4. CASE row.status \notin Terminal
      BY <1>2, <3>2, <3>4 DEF Marked
    <3>5. CASE LeaseFree(FALSE)
      BY <3>2, <3>5 DEF LeaseFree
    <3> QED
      BY <1>2, <3>1, <3>4, <3>5, CreateWrites
  <2>2. CASE fg' = fg
    <3>1. fg.id \in Launches /\ fg.id = count.launch
      BY <1>2, <1>7, <2>2, IdleFacts DEF Shape, LaunchShape, Runners, fg, Launched, Foreground
    <3>2. home'[fg.id] = home[fg.id]
      BY <1>1, <1>3, <3>1 DEF LaunchMoves
    <3>3. intent = NoIntent /\ row.ws = 0
      BY <1>2, <1>7, <2>2, <3>2 DEF Marked, Launched, Foreground
    <3> QED
      BY <1>1, <3>3 DEF IntentMoves, NewIntent
  <2>3. fg' = fg \/ (\E k, w \in Launches : FgCreate(k, w))
    BY <1>2, <1>7, CreatingStays DEF Early
  <2> QED
    BY <2>1, <2>2, <2>3
<1> QED
  BY <1>4, <1>5, <1>6, <1>7 DEF Marked

\* Every step keeps CalledOff: its marks, its intent and its attempt.
LEMMA CalledOffStep ==
  ASSUME IInv, [Next]_vars
  PROVE  CalledOff'
BY MarkedStep, IntendedStep, AttemptedStep, AccountedStep DEF CalledOff

-----------------------------------------------------------------------------
(* Cleanup                                                                  *)

\* What may be archived in a step.
GoneMoves ==
    \/ gone' = gone
    \/ /\ UNCHANGED <<row, finals, home, count, intent>>
       /\ saga' = saga \/ saga'.phase \in Undone
       /\ \/ fg.pc = "orphan" /\ fg' = Idle /\ gone' = gone \cup {<<"ses", fg.id>>}
          \/ \E p \in Runners : /\ runner[p].pc = "archiving"
                                /\ gone' = gone \cup {Resource(runner[p].id)}
          \/ /\ term.want.action = "archive" /\ term # TermIdle
             /\ gone' = gone \cup {<<"ws", term.want.ws>>}

\* Every step satisfies it.
LEMMA GoneMovesBy ==
  ASSUME Shape, Launched, [Next]_vars
  PROVE  GoneMoves
<1> USE DEF GoneMoves, Shape, LaunchShape
<1>1. ASSUME FgOrphan PROVE GoneMoves
  BY <1>1, Finishes, IdleFacts DEF FgOrphan, fg, Runners, ghosts
<1>2. ASSUME NEW p \in Runners, Archives(p) PROVE GoneMoves
  BY <1>2, CleansUp, IdleFacts DEF Archives, Undone, ghosts
<1>3. ASSUME TermArchives PROVE GoneMoves
  BY <1>3, IdleFacts DEF TermArchives, store, ghosts
<1>4. CASE (\E k, w \in Launches : FgCreate(k, w)) \/ FgCreateFails \/ FgPersist
  BY <1>4 DEF FgCreate, FgCreateFails, remote, FgPersist
<1>5. CASE FgPromote \/ FgPost \/ FgError
  BY <1>5 DEF FgPromote, remote, FgPost, FgError
<1>6. CASE FgHandoff \/ RecStart \/ RecGet
  BY <1>6 DEF FgHandoff, remote, RecStart, RecGet
<1>7. CASE RecFails \/ (\E p \in Runners : Answered(p)) \/ (\E p \in Runners : NamedAndFinal(p))
  BY <1>7 DEF RecFails, Answered, remote, NamedAndFinal
<1>8. CASE (\E p \in Runners : ArchiveFails(p)) \/ (\E p \in Runners : RollsBack(p)) \/ Stop
  BY <1>8 DEF ArchiveFails, remote, RollsBack, Stop
<1>9. CASE Archive \/ TermStart \/ (\E s \in Launches : TermCancels(s))
  BY <1>9 DEF Archive, remote, TermStart, TermCancels
<1>10. CASE TermConfirms \/ TermFails \/ SendBegin
  BY <1>10 DEF TermConfirms, remote, TermFails, SendBegin
<1>11. CASE (\E s \in Launches : SendPost(s)) \/ SendFails \/ SendAnswered
  BY <1>11 DEF SendPost, SendFails, SendAnswered, remote
<1>12. CASE (\E r \in Requests : LateRequest(r)) \/ FlushStart \/ FlushGet
  BY <1>12 DEF LateRequest, remote, FlushStart, FlushGet
<1>13. CASE FlushAnswered \/ FlushFails \/ (\E m \in Msgs : RemoteTake(m))
  BY <1>13 DEF FlushAnswered, remote, FlushFails, RemoteTake
<1>14. CASE TurnEnds \/ PublishNotices \/ Crash
  BY <1>14 DEF TurnEnds, PublishNotices, remote, Crash
<1>15. CASE LeaseExpires
  BY <1>15 DEF LeaseExpires, remote
<1>16. CASE UNCHANGED vars
  BY <1>16 DEF vars, remote
<1> QED
  BY <1>1, <1>2, <1>3, <1>4, <1>5, <1>6, <1>7, <1>8, <1>9, <1>10, <1>11, <1>12, <1>13, <1>14,
     <1>15, <1>16 DEF Next, Runs, Runners

\* A terminal intent is about a workspace that has been created.
LEMMA IntentHome ==
  ASSUME IInv, intent # NoIntent
  PROVE  intent.ws \in Launches /\ intent.ws <= count.launch /\ home[intent.ws] = intent.ws
<1>1. intent.ws \in Launches
  BY DEF IInv, Shape, IntentShape, TerminalIntents
<1>2. CASE row.ws = intent.ws
  <2>1. row.ws # 0
    BY <1>1, <1>2, NoSagaFacts
  <2>2. CASE saga = NoSaga
    <3>1. row.ws \in finals
      BY <2>1, <2>2 DEF IInv, Launched, SagaBound
    <3> QED
      BY <1>1, <1>2, <3>1 DEF IInv, Launched, Homes
  <2>3. CASE saga # NoSaga
    <3>1. saga.id \in Launches /\ saga.id <= count.launch /\ row.ws = home[saga.id]
      BY <2>3, NoSagaFacts DEF IInv, Launched, SagaBound, Shape, LaunchShape
    <3>2. home[saga.id] <= saga.id /\ home[home[saga.id]] = home[saga.id]
      BY <3>1 DEF IInv, Shape, LaunchShape, Counts, Launched, Homes, Launches
    <3> QED
      BY <1>1, <1>2, <3>1, <3>2 DEF IInv, Shape, LaunchShape, Counts, Launches
  <2> QED
    BY <2>2, <2>3
<1>3. CASE <<"ws", intent.ws>> \in gone
  BY <1>1, <1>3 DEF IInv, Cleaned
<1> QED
  BY <1>2, <1>3 DEF IInv, CalledOff, Intended

\* Every step keeps Cleaned.
LEMMA CleanedStep ==
  ASSUME IInv, [Next]_vars
  PROVE  Cleaned'
<1>1. GoneMoves /\ RowMoves /\ LaunchMoves /\ PhaseMoves
  BY GoneMovesBy, RowMovesBy, LaunchMovesBy, PhaseMovesBy DEF IInv
<1>2. Shape /\ Launched /\ Cleaned /\ Shape' /\ Launched'
  BY ShapeStep, LaunchedStep DEF IInv
<1>3. /\ saga \in {NoSaga} \cup PendingSagas /\ saga' \in {NoSaga} \cup PendingSagas
      /\ count.launch \in Nat /\ count'.launch \in Nat
      /\ home \in [Launches -> Launch0] /\ finals \subseteq Launches
      /\ \A p \in Runners : runner[p] \in {Idle} \cup LaunchRuns
  BY <1>2 DEF Shape, LaunchShape, Counts
\* What the attempt archives is the workspace of its intent.
<1>4. ASSUME term.want.action = "archive", term # TermIdle
      PROVE  /\ intent # NoIntent /\ row.archivedAt /\ term.want.ws = intent.ws
             /\ term.want.ws \in Launches /\ term.want.ws <= count.launch
             /\ home[term.want.ws] = term.want.ws
  BY <1>4, IntentHome DEF IInv, CalledOff, Attempted
<1>5. ASSUME NEW p \in Runners, runner[p].pc = "archiving"
      PROVE  /\ runner[p].id \in Launches /\ runner[p].id <= count.launch
             /\ runner[p].id \notin finals
             /\ saga.id = runner[p].id => saga.phase \in Undone
  BY <1>2, <1>3, <1>5, IdleFacts DEF IInv, Prompts, Cleanups, Launched, Foreground, Runners,
     fg, rec, Launches
<1>6. ASSUME NEW g \in gone'
      PROVE  g[2] \in Launches /\ g[2] <= count'.launch /\ (g[1] = "ws" => home'[g[2]] = g[2])
  <2>1. g[2] \in Launches /\ g[2] <= count.launch /\ (g[1] = "ws" => home[g[2]] = g[2])
    <3>1. CASE g \in gone
      BY <1>2, <3>1 DEF Cleaned
    <3>2. CASE fg.pc = "orphan" /\ g = <<"ses", fg.id>>
      BY <1>3, <3>2, IdleFacts, <1>2 DEF Launched, Foreground, Runners, fg, Launches
    <3>3. CASE \E p \in Runners : runner[p].pc = "archiving" /\ g = Resource(runner[p].id)
      BY <1>5, <3>3 DEF Resource
    <3>4. CASE term.want.action = "archive" /\ term # TermIdle /\ g = <<"ws", term.want.ws>>
      BY <1>4, <3>4
    <3> QED
      BY <1>1, <3>1, <3>2, <3>3, <3>4 DEF GoneMoves
  <2> QED
    BY <1>1, <1>3, <2>1 DEF LaunchMoves, Launches
<1>7. ASSUME NEW k \in finals'
      PROVE  <<"ses", k>> \notin gone' /\ (<<"ws", k>> \notin gone' \/ row'.archivedAt)
  <2>1. CASE gone' = gone
    <3>1. CASE k \in finals
      BY <1>1, <1>2, <2>1, <3>1 DEF Cleaned, RowMoves
    <3>2. CASE saga \in PendingSagas /\ saga.phase = "sent" /\ k = saga.id
      <4>1. <<"ses", k>> \notin gone /\ (<<"ws", row.ws>> \notin gone \/ row.archivedAt)
        BY <1>2, <3>2, NoSagaFacts DEF Cleaned, Undone
      <4>2. <<"ws", k>> \in gone => home[k] = k
        BY <1>2 DEF Cleaned
      <4>3. row.ws = home[k]
        BY <1>2, <3>2, NoSagaFacts DEF Launched, SagaBound
      <4> QED
        BY <1>1, <2>1, <4>1, <4>2, <4>3 DEF RowMoves
    <3> QED
      BY <1>1, <3>1, <3>2 DEF LaunchMoves
  <2>2. CASE gone' # gone
    <3>1. k \in finals /\ row' = row
      BY <1>1, <2>2 DEF GoneMoves
    <3>2. <<"ses", k>> \notin gone /\ (<<"ws", k>> \notin gone \/ row.archivedAt)
      BY <1>2, <3>1 DEF Cleaned
    <3>3. CASE fg.pc = "orphan" /\ gone' = gone \cup {<<"ses", fg.id>>}
      BY <1>2, <3>1, <3>2, <3>3 DEF Launched, Foreground, Early
    <3>4. CASE \E p \in Runners : runner[p].pc = "archiving" /\ gone' = gone \cup {Resource(runner[p].id)}
      BY <1>5, <3>1, <3>2, <3>4 DEF Resource
    <3>5. CASE /\ term.want.action = "archive" /\ term # TermIdle
               /\ gone' = gone \cup {<<"ws", term.want.ws>>}
      BY <1>4, <3>1, <3>2, <3>5
    <3> QED
      BY <1>1, <2>2, <3>3, <3>4, <3>5 DEF GoneMoves
  <2> QED
    BY <2>1, <2>2
<1>8. ASSUME saga' # NoSaga, saga'.phase \notin Undone
      PROVE  <<"ses", saga'.id>> \notin gone' /\ (<<"ws", row'.ws>> \notin gone' \/ row'.archivedAt)
  <2>1. CASE saga \in PendingSagas
    <3>1. saga'.id = saga.id /\ saga.id \in Launches /\ saga.phase \notin Undone /\ saga # NoSaga
      BY <1>1, <1>3, <1>8, <2>1, NoSagaFacts DEF LaunchMoves, PhaseMoves
    <3>2. row'.ws = row.ws
      <4>1. row.ws = home[saga.id] /\ row'.ws = home'[saga.id] /\ saga.id <= count.launch
        BY <1>2, <1>8, <3>1 DEF Launched, SagaBound
      <4> QED
        BY <1>1, <3>1, <4>1 DEF LaunchMoves
    <3>3. <<"ses", saga.id>> \notin gone /\ (<<"ws", row.ws>> \notin gone \/ row.archivedAt)
      BY <1>2, <3>1 DEF Cleaned
    <3>4. CASE gone' = gone
      BY <1>1, <3>1, <3>2, <3>3, <3>4 DEF RowMoves
    <3>5. fg.pc # "orphan"
      BY <1>2, <3>1 DEF Launched, Foreground, Early
    <3>6. ASSUME NEW p \in Runners, runner[p].pc = "archiving",
                 gone' = gone \cup {Resource(runner[p].id)}, row' = row
          PROVE  <<"ses", saga.id>> \notin gone' /\ (<<"ws", row.ws>> \notin gone' \/ row.archivedAt)
      <4>1. runner[p].id # saga.id /\ runner[p].id \notin finals
        BY <1>5, <3>1, <3>6
      <4>2. row.ws = saga.id \/ row.ws \in finals
        BY <1>2, <3>1 DEF Launched, SagaBound
      <4> QED
        BY <3>3, <3>6, <4>1, <4>2 DEF Resource
    <3>7. ASSUME term.want.action = "archive", term # TermIdle,
                 gone' = gone \cup {<<"ws", term.want.ws>>}
          PROVE  <<"ses", saga.id>> \notin gone' /\ row.archivedAt
      BY <1>4, <3>3, <3>7
    <3> QED
      BY <1>1, <3>1, <3>2, <3>3, <3>4, <3>5, <3>6, <3>7 DEF GoneMoves
  <2>2. CASE saga = NoSaga
    <3>1. saga'.id = fg.id /\ fg.pc = "creating" /\ fg.id \in Launches /\ fg'.pc = "validate"
      BY <1>1, <1>3, <1>8, <2>2, IdleFacts DEF LaunchMoves, Runners, fg
    <3>2. <<"ses", fg.id>> \notin gone /\ <<"ws", fg.id>> \notin gone
      BY <1>2, <3>1 DEF Cleaned
    <3>3. gone' = gone
      BY <1>1, <1>8, <2>2 DEF GoneMoves, NoSaga
    <3>4. row'.ws = home'[fg.id] /\ home'[fg.id] = home[fg.id]
      BY <1>1, <1>2, <1>3, <1>8, <3>1 DEF Launched, SagaBound, Foreground, LaunchMoves
    <3>5. home[fg.id] = fg.id \/ home[fg.id] \in finals
      <4>1. home[fg.id] # fg.id => row.ws = home[fg.id] /\ row.ws # 0
        BY <1>2, <1>3, <3>1, NoSagaFacts DEF Launched, Foreground, Homes
      <4> QED
        BY <1>2, <2>2, <4>1 DEF Launched, SagaBound
    <3>6. home[fg.id] \in finals => <<"ws", home[fg.id]>> \notin gone \/ row.archivedAt
      BY <1>2 DEF Cleaned
    <3> QED
      BY <1>1, <3>1, <3>2, <3>3, <3>4, <3>5, <3>6 DEF RowMoves
  <2> QED
    BY <1>3, <2>1, <2>2
<1>9. ASSUME fg'.pc = "creating"
      PROVE  <<"ses", fg'.id>> \notin gone' /\ <<"ws", fg'.id>> \notin gone'
  <2>1. CASE \E k, w \in Launches : FgCreate(k, w)
    <3>1. PICK k \in Launches, w \in Launches : FgCreate(k, w)
      BY <2>1
    <3>2. fg'.id = k /\ k = count.launch + 1 /\ gone' = gone
      BY <1>2, <3>1, CreateWrites DEF FgCreate
    <3>3. \A g \in gone : g[2] # k
      BY <1>2, <1>3, <3>2 DEF Cleaned, Launches
    <3> QED
      BY <3>2, <3>3
  <2>2. CASE fg' = fg
    <3>1. fg.pc = "creating" /\ fg.id \in Launches
      BY <1>3, <1>9, <2>2, IdleFacts DEF Runners, fg
    <3>2. <<"ses", fg.id>> \notin gone /\ <<"ws", fg.id>> \notin gone
      BY <1>2, <3>1 DEF Cleaned
    <3>3. ASSUME NEW p \in Runners, runner[p].pc = "archiving" PROVE runner[p].id # fg.id
      BY <1>2, <3>1, <3>3 DEF Launched, Foreground, Early, Runners, fg, rec
    <3>4. term.want.action = "archive" /\ term # TermIdle => term.want.ws # fg.id
      BY <1>4, <3>1 DEF IInv, CalledOff, Marked
    <3>5. fg.pc # "orphan"
      BY <3>1
    <3> QED
      BY <1>1, <2>2, <3>2, <3>3, <3>4, <3>5 DEF GoneMoves, Resource
  <2> QED
    BY <1>2, <1>9, <2>1, <2>2, CreatingStays DEF Early
<1>10. row'.status = "archived" \/ saga'.prev.status = "archived" => row'.archivedAt
  <2>1. saga.prev.status = "archived" \/ row.status = "archived" => row'.archivedAt
    BY <1>1, <1>2 DEF Cleaned, RowMoves
  <2> QED
    BY <1>1, <2>1, NoSagaFacts DEF RowMoves
<1> QED
  BY <1>6, <1>7, <1>8, <1>9, <1>10 DEF Cleaned

-----------------------------------------------------------------------------
(* Messages under a lease                                                   *)

\* A lease is taken on a free row, and given back by its holder, by time, or
\* by an Archive.
LeaseMoves ==
    \/ lease' = lease
    \/ /\ lease' = NoLease
       /\ \/ row'.archivedAt
          \/ lease.by = "thread" /\ fg'.pc \notin Early
          \/ lease.by = "send" /\ sender' = Idle
          \/ lease.by = "flush" /\ flush'.pc # "posted"
          \/ lease.by = "dead" /\ \A m \in wire : where[m] # lease.ses
    \/ /\ lease = NoLease /\ LeaseFree(TRUE) /\ lease' \in Leases
       /\ \/ lease'.by = "thread" /\ fg'.pc = "creating"
          \/ lease'.by = "send" /\ sender'.pc # "idle"
          \/ lease'.by = "flush" /\ flush'.pc = "posted"
    \/ /\ lease.by = "send" /\ lease'.by = "send" /\ sender.pc = "target" /\ sender'.pc = "posted"
    \/ /\ lease'.by = "dead" /\ lease'.ses = lease.ses
       /\ fg' = Idle /\ sender' = Idle /\ flush' = FlushIdle

\* Every step satisfies it.
LEMMA LeaseMovesBy ==
  ASSUME IInv, [Next]_vars
  PROVE  LeaseMoves
<1> USE DEF LeaseMoves, IInv, Shape, LaunchShape
<1>1. ASSUME NEW k \in Launches, NEW w \in Launches, FgCreate(k, w) PROVE LeaseMoves
  BY <1>1, CreateWrites DEF LeaseFree
<1>2. ASSUME FgCreateFails PROVE LeaseMoves
  <2>1. lease' \in {lease, NoLease} /\ (lease' # lease => lease.by = "thread")
    BY <1>2 DEF FgCreateFails, Unleased
  <2>2. fg' = Idle
    BY <1>2, Finishes DEF FgCreateFails, Runners, fg
  <2> QED
    BY <2>1, <2>2, IdleFacts DEF Early
<1>3. ASSUME FgPersist PROVE LeaseMoves
  <2>1. /\ fg.pc = "creating" /\ fg.id \in Launches
        /\ lease' = lease \/ (lease' = NoLease /\ fg'.pc = "validate")
    BY <1>3, PersistWrites, IdleFacts DEF PersistLaunch
  <2>2. lease = NoLease \/ lease.by = "thread"
    BY <2>1 DEF Leased, Launched, Foreground, Carried, Holders
  <2> QED
    BY <2>1, <2>2 DEF Early
<1>4. ASSUME FgOrphan PROVE LeaseMoves
  <2>1. lease' \in {lease, NoLease} /\ (lease' # lease => lease.by = "thread")
    BY <1>4 DEF FgOrphan, Unleased
  <2>2. fg' = Idle
    BY <1>4, Finishes DEF FgOrphan, Runners, fg
  <2> QED
    BY <2>1, <2>2, IdleFacts DEF Early
<1>5. ASSUME NEW p \in Runners, RollsBack(p) PROVE LeaseMoves
  <2>1. lease' = lease \/ (saga \in PendingSagas /\ lease' = NoLease)
    BY <1>5, RollbackWrites, Restores
  <2>2. saga \in PendingSagas => lease = NoLease
    BY NoSagaFacts DEF Leased
  <2> QED
    BY <2>1, <2>2
<1>6. ASSUME Archive PROVE LeaseMoves
  BY <1>6, ArchiveWrites DEF Archive
<1>7. ASSUME TermConfirms PROVE LeaseMoves
  <2>1. /\ lease' = lease \/ (lease' = NoLease /\ ~term.unresolved)
        /\ term.pc # "idle"
    BY <1>7 DEF TermConfirms
  <2>2. term \in Attempts /\ term # TermIdle /\ term.want.action \in {"stop", "archive"}
    BY <2>1, IdleFacts DEF IntentShape, TerminalIntents
  <2>3. /\ term.want.action = "archive" => row.archivedAt
        /\ term.want.action = "stop" /\ ~term.unresolved => lease = NoLease
    BY <2>2 DEF CalledOff, Attempted
  <2>4. row.archivedAt => row'.archivedAt
    BY <1>7, RowMovesBy DEF RowMoves
  <2> QED
    BY <2>1, <2>2, <2>3, <2>4
<1>8. ASSUME TermFails PROVE LeaseMoves
  <2>1. /\ lease' = lease \/ (lease' = NoLease /\ ~term.unresolved)
        /\ term.pc # "idle"
    BY <1>8 DEF TermFails
  <2>2. term \in Attempts /\ term # TermIdle /\ term.want.action \in {"stop", "archive"}
    BY <2>1, IdleFacts DEF IntentShape, TerminalIntents
  <2>3. /\ term.want.action = "archive" => row.archivedAt
        /\ term.want.action = "stop" /\ ~term.unresolved => lease = NoLease
    BY <2>2 DEF CalledOff, Attempted
  <2>4. row.archivedAt => row'.archivedAt
    BY <1>8, RowMovesBy DEF RowMoves
  <2> QED
    BY <2>1, <2>2, <2>3, <2>4
<1>9. ASSUME SendBegin PROVE LeaseMoves
  <2>1. /\ LeaseFree(FALSE) /\ lease' = [by |-> "send", ws |-> row.ws, ses |-> 0]
        /\ sender'.pc = "target"
    BY <1>9 DEF SendBegin
  <2>2. row.ws \in Launches
    BY <2>1 DEF LeaseFree, Rows, Launch0
  <2>3. lease' \in Leases /\ lease'.by = "send"
    BY <2>1, <2>2 DEF Leases, Launch0
  <2> QED
    BY <2>1, <2>3 DEF LeaseFree
<1>10. ASSUME NEW s \in Launches, SendPost(s) PROVE LeaseMoves
  <2>1. /\ lease.by = "send" /\ lease' = [lease EXCEPT !.ses = s] /\ sender.pc = "target"
        /\ sender' = [sender EXCEPT !.pc = "posted"]
    BY <1>10 DEF SendPost, LeaseCanSend
  <2>2. lease \in Leases /\ sender \in Sends
    BY <2>1, IdleFacts DEF MessageShape
  <2> QED
    BY <2>1, <2>2 DEF Leases, Sends
<1>11. ASSUME SendFails PROVE LeaseMoves
  BY <1>11 DEF SendFails, Unleased
<1>12. ASSUME SendAnswered PROVE LeaseMoves
  <2>1. /\ sender.pc = "posted" /\ sender' = Idle
        /\ lease' = lease \/ (lease' = NoLease /\ lease.by = "send")
           \/ (lease' = NoLease /\ row.status = "stopped" /\ ~row.archivedAt)
    BY <1>12 DEF SendAnswered, Unleased, LeaseCanSend
  <2>2. lease.by = "send" \/ row.archivedAt
    BY <2>1 DEF Carried, Holders
  <2> QED
    BY <2>1, <2>2
<1>13. ASSUME FlushGet PROVE LeaseMoves
  BY <1>13, FlushGetWrites DEF FlushPosts, FlushLeaves, LeaseFree, MessageShape, Launched
<1>14. ASSUME FlushAnswered PROVE LeaseMoves
  <2>1. lease' = lease \/ (lease' = NoLease /\ lease.by = "flush")
    BY <1>14 DEF FlushAnswered, Unleased
  <2>2. flush'.pc # "posted"
    BY <1>14, CompletesWrites, IdleFacts DEF FlushAnswered, MessageShape
  <2> QED
    BY <2>1, <2>2
<1>15. ASSUME FlushFails PROVE LeaseMoves
  BY <1>15, IdleFacts DEF FlushFails, Unleased
<1>16. ASSUME Crash PROVE LeaseMoves
  <2>1. /\ lease' = IF lease = NoLease THEN lease ELSE [lease EXCEPT !.by = "dead"]
        /\ fg' = Idle /\ sender' = Idle /\ flush' = FlushIdle
    BY <1>16 DEF Crash, fg, Runners
  <2>2. lease # NoLease => lease \in Leases
    BY DEF MessageShape
  <2> QED
    BY <2>1, <2>2 DEF Leases
<1>17. ASSUME LeaseExpires PROVE LeaseMoves
  <2>1. lease.by = "dead" /\ lease' = NoLease /\ {m \in wire : where[m] = lease.ses} = {}
    BY <1>17 DEF LeaseExpires
  <2> QED
    BY <2>1
<1>18. CASE FgPromote \/ FgPost \/ FgError \/ FgHandoff
  BY <1>18 DEF FgPromote, FgPost, store, FgError, FgHandoff
<1>19. CASE RecStart \/ RecGet \/ RecFails \/ (\E p \in Runners : Answered(p))
  BY <1>19 DEF RecStart, RecGet, RecFails, Answered
<1>20. CASE (\E p \in Runners : NamedAndFinal(p)) \/ (\E p \in Runners : Archives(p))
            \/ (\E p \in Runners : ArchiveFails(p)) \/ Stop
  BY <1>20 DEF NamedAndFinal, Archives, ArchiveFails, Stop
<1>21. CASE TermStart \/ (\E s \in Launches : TermCancels(s)) \/ TermArchives
            \/ (\E r \in Requests : LateRequest(r))
  BY <1>21 DEF TermStart, store, TermCancels, TermArchives, LateRequest
<1>22. CASE FlushStart \/ (\E m \in Msgs : RemoteTake(m)) \/ TurnEnds \/ PublishNotices
  BY <1>22 DEF FlushStart, RemoteTake, store, TurnEnds, PublishNotices
<1>23. CASE UNCHANGED vars
  BY <1>23 DEF vars, store
<1> QED
  BY <1>1, <1>2, <1>3, <1>4, <1>5, <1>6, <1>7, <1>8, <1>9, <1>10, <1>11, <1>12, <1>13, <1>14,
     <1>15, <1>16, <1>17, <1>18, <1>19, <1>20, <1>21, <1>22, <1>23 DEF Next, Runs, Runners

\* The send and the flush in hand go on, end without their lease, or begin with
\* one; their message is off the wire when they end.
SenderMoves ==
    /\ \/ sender' = sender
       \/ sender' = Idle /\ lease'.by # "send"
       \/ /\ sender' \in Sends /\ lease'.by = "send" /\ sender.pc # "posted"
          /\ sender'.pc = "target" => sender'.id = count.send + 1 /\ count'.send = count.send + 1
          /\ sender'.pc = "posted" => sender'.id = sender.id /\ sender.pc = "target"
    /\ sender.pc = "posted" =>
          sender' = sender \/ lease'.by = "dead" \/ <<"send", sender.id>> \notin PlainWire' \/ lease = NoLease
FlushMoves ==
    /\ \/ flush' = flush
       \/ flush'.pc # "posted" /\ lease'.by # "flush"
       \/ flush'.pc = "posted" /\ lease'.by = "flush" /\ flush.pc = "get"
    /\ flush.pc = "posted" =>
          flush' = flush \/ lease'.by = "dead" \/ Req(flush.req) \notin PlainWire' \/ lease = NoLease

\* Every step satisfies it.
LEMMA SenderMovesBy ==
  ASSUME IInv, [Next]_vars
  PROVE  SenderMoves
<1> USE DEF SenderMoves, IInv, Shape, LaunchShape
<1>1. ASSUME SendBegin PROVE SenderMoves
  <2>1. /\ sender = Idle /\ sender' = [pc |-> "target", id |-> count.send + 1, ses |-> row.ws]
        /\ lease'.by = "send" /\ count' = [count EXCEPT !.send = @ + 1]
    BY <1>1 DEF SendBegin
  <2>2. sender' \in Sends
    BY <2>1, ShapeStep DEF MessageShape, Idle
  <2> QED
    BY <2>1, <2>2, IdleFacts DEF Counts
<1>2. ASSUME NEW s \in Launches, SendPost(s) PROVE SenderMoves
  <2>1. /\ lease.by = "send" /\ lease' = [lease EXCEPT !.ses = s] /\ sender.pc = "target"
        /\ sender' = [sender EXCEPT !.pc = "posted"]
    BY <1>2 DEF SendPost, LeaseCanSend
  <2>2. lease \in Leases /\ sender \in Sends
    BY <2>1, IdleFacts DEF MessageShape
  <2> QED
    BY <2>1, <2>2 DEF Leases, Sends
<1>3. ASSUME SendFails PROVE SenderMoves
  <2>1. sender' = Idle /\ lease'.by # "send" /\ <<"send", sender.id>> \notin wire'
    BY <1>3, IdleFacts DEF SendFails, Unleased
  <2> QED
    BY <2>1 DEF PlainWire
<1>4. ASSUME SendAnswered PROVE SenderMoves
  <2>1. sender' = Idle /\ lease'.by # "send" /\ <<"send", sender.id>> \in seen /\ wire' = wire
    BY <1>4, IdleFacts DEF SendAnswered, Unleased, LeaseCanSend, remote
  <2>2. <<"send", sender.id>> \notin PlainWire
    BY <2>1 DEF Carried, Posted
  <2> QED
    BY <2>1, <2>2 DEF PlainWire
<1>5. ASSUME Crash PROVE SenderMoves
  <2>1. /\ lease' = IF lease = NoLease THEN lease ELSE [lease EXCEPT !.by = "dead"]
        /\ sender' = Idle
    BY <1>5 DEF Crash
  <2>2. lease # NoLease => lease \in Leases
    BY DEF MessageShape
  <2> QED
    BY <2>1, <2>2, IdleFacts DEF Leases
<1>6. CASE (\E k, w \in Launches : FgCreate(k, w)) \/ FgCreateFails \/ FgPersist \/ FgOrphan
  BY <1>6 DEF FgCreate, FgCreateFails, FgPersist, FgOrphan
<1>7. CASE FgPromote \/ FgPost \/ FgError \/ FgHandoff
  BY <1>7 DEF FgPromote, FgPost, FgError, FgHandoff
<1>8. CASE RecStart \/ RecGet \/ RecFails \/ (\E p \in Runners : Answered(p))
  BY <1>8 DEF RecStart, RecGet, RecFails, Answered
<1>9. CASE (\E p \in Runners : NamedAndFinal(p)) \/ (\E p \in Runners : Archives(p))
           \/ (\E p \in Runners : ArchiveFails(p)) \/ (\E p \in Runners : RollsBack(p))
  BY <1>9 DEF NamedAndFinal, Archives, ArchiveFails, RollsBack
<1>10. CASE Stop \/ Archive \/ TermStart \/ (\E s \in Launches : TermCancels(s))
  BY <1>10 DEF Stop, Archive, TermStart, TermCancels
<1>11. CASE TermArchives \/ TermConfirms \/ TermFails \/ (\E r \in Requests : LateRequest(r))
  BY <1>11 DEF TermArchives, TermConfirms, TermFails, LateRequest
<1>12. CASE FlushStart \/ FlushGet \/ FlushAnswered \/ FlushFails
  BY <1>12 DEF FlushStart, FlushGet, FlushAnswered, FlushFails
<1>13. CASE (\E m \in Msgs : RemoteTake(m)) \/ TurnEnds \/ PublishNotices \/ LeaseExpires
  BY <1>13 DEF RemoteTake, procs, TurnEnds, PublishNotices, LeaseExpires
<1>14. CASE UNCHANGED vars
  BY <1>14 DEF vars, procs
<1> QED
  BY <1>1, <1>2, <1>3, <1>4, <1>5, <1>6, <1>7, <1>8, <1>9, <1>10, <1>11, <1>12, <1>13, <1>14
     DEF Next, Runs, Runners

\* Every step satisfies it.
LEMMA FlushMovesBy ==
  ASSUME IInv, [Next]_vars
  PROVE  FlushMoves
<1> USE DEF FlushMoves, IInv, Shape, LaunchShape
<1>1. ASSUME FlushStart PROVE FlushMoves
  <2>1. flush.pc = "idle" /\ lease' = lease /\ (flush' = flush \/ flush'.pc = "get")
    BY <1>1, IdleFacts DEF FlushStart
  <2>2. lease.by # "flush"
    BY <2>1 DEF Carried, Holders
  <2> QED
    BY <2>1, <2>2
<1>2. ASSUME FlushGet PROVE FlushMoves
  <2>1. /\ flush.pc = "get"
        /\ \/ flush'.pc = "posted" /\ lease'.by = "flush"
           \/ flush'.pc # "posted" /\ lease' = lease
    BY <1>2, FlushGetWrites, CompletesWrites, IdleFacts DEF FlushPosts, FlushLeaves,
       MessageShape, Launched
  <2>2. lease.by # "flush"
    BY <2>1 DEF Carried, Holders
  <2> QED
    BY <2>1, <2>2
<1>3. ASSUME FlushAnswered PROVE FlushMoves
  <2>1. lease'.by # "flush" /\ Req(flush.req) \in seen /\ wire' = wire
    BY <1>3, IdleFacts DEF FlushAnswered, Unleased, remote
  <2>2. flush'.pc # "posted"
    BY <1>3, CompletesWrites, IdleFacts DEF FlushAnswered, MessageShape
  <2>3. Req(flush.req) \notin PlainWire
    BY <2>1 DEF Carried, Posted
  <2>4. Req(flush.req) \notin PlainWire'
    BY <2>1, <2>3 DEF PlainWire
  <2> QED
    BY <2>1, <2>2, <2>4
<1>4. ASSUME FlushFails PROVE FlushMoves
  <2>1. flush' = FlushIdle /\ lease'.by # "flush" /\ Req(flush.req) \notin wire'
    BY <1>4, IdleFacts DEF FlushFails, Unleased
  <2> QED
    BY <2>1, IdleFacts DEF PlainWire
<1>5. ASSUME Crash PROVE FlushMoves
  <2>1. /\ lease' = IF lease = NoLease THEN lease ELSE [lease EXCEPT !.by = "dead"]
        /\ flush' = FlushIdle
    BY <1>5 DEF Crash
  <2>2. lease # NoLease => lease \in Leases
    BY DEF MessageShape
  <2> QED
    BY <2>1, <2>2, IdleFacts DEF Leases
<1>6. CASE (\E k, w \in Launches : FgCreate(k, w)) \/ FgCreateFails \/ FgPersist \/ FgOrphan
  BY <1>6 DEF FgCreate, FgCreateFails, FgPersist, FgOrphan
<1>7. CASE FgPromote \/ FgPost \/ FgError \/ FgHandoff
  BY <1>7 DEF FgPromote, FgPost, FgError, FgHandoff
<1>8. CASE RecStart \/ RecGet \/ RecFails \/ (\E p \in Runners : Answered(p))
  BY <1>8 DEF RecStart, RecGet, RecFails, Answered
<1>9. CASE (\E p \in Runners : NamedAndFinal(p)) \/ (\E p \in Runners : Archives(p))
           \/ (\E p \in Runners : ArchiveFails(p)) \/ (\E p \in Runners : RollsBack(p))
  BY <1>9 DEF NamedAndFinal, Archives, ArchiveFails, RollsBack
<1>10. CASE Stop \/ Archive \/ TermStart \/ (\E s \in Launches : TermCancels(s))
  BY <1>10 DEF Stop, Archive, TermStart, TermCancels
<1>11. CASE TermArchives \/ TermConfirms \/ TermFails \/ SendBegin
  BY <1>11 DEF TermArchives, TermConfirms, TermFails, SendBegin
<1>12. CASE (\E s \in Launches : SendPost(s)) \/ SendFails \/ SendAnswered
            \/ (\E r \in Requests : LateRequest(r))
  BY <1>12 DEF SendPost, SendFails, SendAnswered, LateRequest
<1>13. CASE (\E m \in Msgs : RemoteTake(m)) \/ TurnEnds \/ PublishNotices \/ LeaseExpires
  BY <1>13 DEF RemoteTake, procs, TurnEnds, PublishNotices, LeaseExpires
<1>14. CASE UNCHANGED vars
  BY <1>14 DEF vars, procs
<1> QED
  BY <1>1, <1>2, <1>3, <1>4, <1>5, <1>6, <1>7, <1>8, <1>9, <1>10, <1>11, <1>12, <1>13, <1>14
     DEF Next, Runs, Runners

\* The lease of a thread is given back before its launch is no longer early.
EarlyMoves == fg.pc \in Early /\ lease'.by = "thread" => fg'.pc \in Early

\* Every step satisfies it.
LEMMA EarlyMovesBy ==
  ASSUME IInv, [Next]_vars
  PROVE  EarlyMoves
<1> USE DEF EarlyMoves, IInv, Shape, LaunchShape
<1>1. ASSUME NEW k \in Launches, NEW w \in Launches, FgCreate(k, w) PROVE EarlyMoves
  BY <1>1, CreateWrites DEF Early
<1>2. ASSUME FgCreateFails PROVE EarlyMoves
  <2>1. lease' \in {lease, NoLease} /\ (lease' = lease => lease.by # "thread" \/ home[fg.id] = fg.id)
    BY <1>2, IdleFacts DEF FgCreateFails, Unleased, fg
  <2>2. fg.pc = "creating" /\ home[fg.id] = fg.id => lease = NoLease
    BY DEF Launched, Foreground, Leased
  <2> QED
    BY <1>2, <2>1, <2>2, IdleFacts DEF FgCreateFails, fg
<1>3. ASSUME FgPersist PROVE EarlyMoves
  <2>1. fg'.pc = "orphan" \/ lease' = NoLease
    BY <1>3, PersistWrites DEF PersistLaunch
  <2> QED
    BY <2>1, IdleFacts DEF Early
<1>4. ASSUME FgOrphan PROVE EarlyMoves
  <2>1. lease'.by # "thread"
    BY <1>4, IdleFacts DEF FgOrphan, Unleased
  <2> QED
    BY <2>1
<1>5. ASSUME FgPromote PROVE EarlyMoves
  BY <1>5 DEF FgPromote, fg, Early
<1>6. ASSUME FgPost PROVE EarlyMoves
  BY <1>6 DEF FgPost, fg, Early
<1>7. ASSUME FgError PROVE EarlyMoves
  BY <1>7 DEF FgError, fg, Early
<1>8. ASSUME FgHandoff PROVE EarlyMoves
  BY <1>8 DEF FgHandoff, fg, Early
<1>9. ASSUME RecStart PROVE EarlyMoves
  BY <1>9, RecStartWrites
<1>10. ASSUME RecGet PROVE EarlyMoves
  <2>1. rec \in LaunchRuns /\ fg' = fg
    BY <1>10, Steps, Finishes, IdleFacts DEF RecGet, fg, rec, Runners
  <2> QED
    BY <2>1
<1>11. ASSUME RecFails PROVE EarlyMoves
  <2>1. rec \in LaunchRuns /\ fg' = fg
    BY <1>11, Steps, Finishes, IdleFacts DEF RecFails, fg, rec, Runners
  <2> QED
    BY <2>1
<1>12. ASSUME NEW p \in Runners, Answered(p) PROVE EarlyMoves
  <2>1. p = "fg" => fg.pc \notin Early
    BY <1>12 DEF Answered, fg, Early
  <2>2. p = "rec" => fg' = fg
    BY <1>12, Steps, Finishes, IdleFacts DEF Answered, fg, Runners
  <2> QED
    BY <2>1, <2>2 DEF Runners
<1>13. ASSUME NEW p \in Runners, NamedAndFinal(p) PROVE EarlyMoves
  <2>1. p = "fg" => fg.pc \notin Early
    BY <1>13 DEF NamedAndFinal, fg, Early
  <2>2. p = "rec" => fg' = fg
    BY <1>13, Steps, Finishes, IdleFacts DEF NamedAndFinal, fg, Runners
  <2> QED
    BY <2>1, <2>2 DEF Runners
<1>14. ASSUME NEW p \in Runners, Archives(p) PROVE EarlyMoves
  <2>1. p = "fg" => fg.pc \notin Early
    BY <1>14 DEF Archives, fg, Early
  <2>2. p = "rec" => fg' = fg
    BY <1>14, Steps, Finishes, IdleFacts DEF Archives, fg, Runners
  <2> QED
    BY <2>1, <2>2 DEF Runners
<1>15. ASSUME NEW p \in Runners, ArchiveFails(p) PROVE EarlyMoves
  <2>1. p = "fg" => fg.pc \notin Early
    BY <1>15 DEF ArchiveFails, fg, Early
  <2>2. p = "rec" => fg' = fg
    BY <1>15, Steps, Finishes, IdleFacts DEF ArchiveFails, fg, Runners
  <2> QED
    BY <2>1, <2>2 DEF Runners
<1>16. ASSUME NEW p \in Runners, RollsBack(p) PROVE EarlyMoves
  <2>1. p = "fg" => fg.pc \notin Early
    BY <1>16 DEF RollsBack, fg, Early
  <2>2. p = "rec" => fg' = fg
    BY <1>16, Steps, Finishes, IdleFacts DEF RollsBack, fg, Runners
  <2> QED
    BY <2>1, <2>2 DEF Runners
<1>17. ASSUME Crash PROVE EarlyMoves
  <2>1. /\ lease' = IF lease = NoLease THEN lease ELSE [lease EXCEPT !.by = "dead"]
    BY <1>17 DEF Crash
  <2>2. lease # NoLease => lease \in Leases
    BY DEF MessageShape
  <2> QED
    BY <2>1, <2>2, IdleFacts DEF Leases
<1>18. CASE Stop \/ Archive \/ TermStart \/ (\E s \in Launches : TermCancels(s))
  BY <1>18 DEF Stop, Archive, TermStart, TermCancels, fg
<1>19. CASE TermArchives \/ TermConfirms \/ TermFails \/ SendBegin
  BY <1>19 DEF TermArchives, TermConfirms, TermFails, SendBegin, fg
<1>20. CASE (\E s \in Launches : SendPost(s)) \/ SendFails \/ SendAnswered
            \/ (\E r \in Requests : LateRequest(r))
  BY <1>20 DEF SendPost, SendFails, SendAnswered, LateRequest, fg
<1>21. CASE FlushStart \/ FlushGet \/ FlushAnswered \/ FlushFails
  BY <1>21 DEF FlushStart, FlushGet, FlushAnswered, FlushFails, fg
<1>22. CASE (\E m \in Msgs : RemoteTake(m)) \/ TurnEnds \/ PublishNotices \/ LeaseExpires
  BY <1>22 DEF RemoteTake, procs, TurnEnds, PublishNotices, LeaseExpires, fg
<1>23. CASE UNCHANGED vars
  BY <1>23 DEF vars, procs, fg
<1> QED
  BY <1>1, <1>2, <1>3, <1>4, <1>5, <1>6, <1>7, <1>8, <1>9, <1>10, <1>11, <1>12, <1>13, <1>14,
     <1>15, <1>16, <1>17, <1>18, <1>19, <1>20, <1>21, <1>22, <1>23 DEF Next, Runs, Runners

\* Whoever holds the lease is still there.
LEMMA HoldersStep ==
  ASSUME IInv, [Next]_vars
  PROVE  Holders'
<1>1. LeaseMoves /\ SenderMoves /\ FlushMoves /\ EarlyMoves /\ LaunchMoves /\ RowMoves
  BY LeaseMovesBy, SenderMovesBy, FlushMovesBy, EarlyMovesBy, LaunchMovesBy, RowMovesBy DEF IInv
<1>2. Shape /\ Launched /\ Holders /\ Shape'
  BY ShapeStep DEF IInv, Carried
<1>3. sender' \in {Idle} \cup Sends /\ lease \in {NoLease} \cup Leases /\ count.launch \in Nat
  BY <1>2 DEF Shape, MessageShape, LaunchShape, Counts
<1>4. ASSUME fg'.pc = "creating", home'[fg'.id] # fg'.id
      PROVE  lease'.by = "thread" \/ row'.archivedAt
  <2>1. CASE fg' = fg
    <3>1. fg.id \in Launches /\ fg.id <= count.launch
      BY <1>2, <1>4, <2>1, IdleFacts DEF Shape, LaunchShape, Counts, Runners, fg, Launched,
         Foreground
    <3>2. lease.by = "thread" \/ row.archivedAt
      BY <1>1, <1>2, <1>4, <2>1, <3>1 DEF LaunchMoves, Holders
    <3>3. fg'.pc \in Early /\ fg' # Idle
      BY <1>4, IdleFacts DEF Early
    <3> QED
      BY <1>1, <3>2, <3>3, IdleFacts DEF LeaseMoves, RowMoves
  <2>2. CASE \E k, w \in Launches : FgCreate(k, w)
    <3>1. PICK k \in Launches, w \in Launches : FgCreate(k, w)
      BY <2>2
    <3>2. home' = [home EXCEPT ![k] = w] /\ fg'.id = k
      BY <1>2, <3>1, CreateWrites
    <3>3. w # k
      BY <1>2, <1>4, <3>2 DEF Shape, LaunchShape
    <3> QED
      BY <1>2, <3>1, <3>3, CreateWrites
  <2> QED
    BY <1>2, <1>4, <2>1, <2>2, CreatingStays DEF Early
<1>5. lease'.by = "thread" => fg'.pc \in Early
  BY <1>1, <1>2, IdleFacts DEF LeaseMoves, EarlyMoves, Holders, Early
<1>6. sender'.pc # "idle" => lease'.by = "send" \/ row'.archivedAt
  BY <1>1, <1>2, IdleFacts DEF LeaseMoves, SenderMoves, RowMoves, Holders
<1>7. lease'.by = "send" => sender'.pc # "idle"
  BY <1>1, <1>2, IdleFacts DEF LeaseMoves, SenderMoves, Holders
<1>8. flush'.pc = "posted" => lease'.by = "flush" \/ row'.archivedAt
  BY <1>1, <1>2, IdleFacts DEF LeaseMoves, FlushMoves, RowMoves, Holders
<1>9. lease'.by = "flush" => flush'.pc = "posted"
  BY <1>1, <1>2, IdleFacts DEF LeaseMoves, FlushMoves, Holders
<1> QED
  BY <1>4, <1>5, <1>6, <1>7, <1>8, <1>9 DEF Holders

\* A request that has been queued is not new again, one with an outcome is not
\* queued again.
OutcomeMoves == \A r \in Requests :
    /\ outcome[r] # "new" => outcome'[r] # "new"
    /\ outcome'[r] = "queued" => outcome[r] \in {"new", "queued"}

\* Every step satisfies it.
LEMMA OutcomeMovesBy ==
  ASSUME IInv, [Next]_vars
  PROVE  OutcomeMoves
<1> USE DEF OutcomeMoves, IInv, CalledOff, Shape
<1>1. ASSUME FgError PROVE OutcomeMoves
  <2>1. Cancels(0) \/ outcome' = outcome
    BY <1>1 DEF FgError, MarkCanceled
  <2>2. Answers \/ outcome' = outcome
    BY <2>1, CancelsWrites DEF Launched, SagaBound
  <2> QED
    BY <2>2 DEF Answers
<1>2. ASSUME RecStart PROVE OutcomeMoves
  <2>1. Cancels(0) \/ outcome' = outcome
    BY <1>2 DEF RecStart, MarkCanceled
  <2>2. Answers \/ outcome' = outcome
    BY <2>1, CancelsWrites DEF Launched, SagaBound
  <2> QED
    BY <2>2 DEF Answers
<1>3. ASSUME NEW p \in Runners, RollsBack(p) PROVE OutcomeMoves
  <2>1. Answers \/ outcome' = outcome
    BY <1>3, RollbackWrites, Restores DEF RollsBack
  <2> QED
    BY <2>1 DEF Answers
<1>4. ASSUME Stop PROVE OutcomeMoves
  <2>1. Cancels(1) \/ outcome' = outcome
    BY <1>4 DEF Stop
  <2>2. Answers \/ outcome' = outcome
    BY <2>1, CancelsWrites DEF Launched, SagaBound
  <2> QED
    BY <2>2 DEF Answers
<1>5. ASSUME Archive PROVE OutcomeMoves
  <2>1. Answers \/ outcome' = outcome
    BY <1>5, EmptiedAnswers DEF Archive
  <2> QED
    BY <2>1 DEF Answers
<1>6. ASSUME NEW r \in Requests, LateRequest(r) PROVE OutcomeMoves
  BY <1>6 DEF LateRequest, MessageShape
<1>7. ASSUME FlushStart PROVE OutcomeMoves
  <2>1. Answers \/ outcome' = outcome
    BY <1>7, ClearAnswers DEF FlushStart
  <2> QED
    BY <2>1 DEF Answers
<1>8. ASSUME FlushGet PROVE OutcomeMoves
  <2>1. Answers \/ outcome' = outcome
    BY <1>8, FlushGetWrites, CompletesWrites DEF FlushPosts, FlushLeaves, Launched
  <2> QED
    BY <2>1 DEF Answers
<1>9. ASSUME FlushAnswered PROVE OutcomeMoves
  <2>1. Answers \/ outcome' = outcome
    BY <1>9, CompletesWrites, IdleFacts DEF FlushAnswered, MessageShape
  <2> QED
    BY <2>1 DEF Answers
<1>10. CASE (\E k, w \in Launches : FgCreate(k, w)) \/ FgCreateFails \/ FgPersist
  BY <1>10 DEF FgCreate, FgCreateFails, FgPersist
<1>11. CASE FgOrphan \/ FgPromote \/ FgPost
  BY <1>11 DEF FgOrphan, FgPromote, FgPost, store
<1>12. CASE FgHandoff \/ RecGet \/ RecFails
  BY <1>12 DEF FgHandoff, store, RecGet, RecFails
<1>13. CASE (\E p \in Runners : Answered(p)) \/ (\E p \in Runners : NamedAndFinal(p))
            \/ (\E p \in Runners : Archives(p))
  BY <1>13 DEF Answered, NamedAndFinal, Archives
<1>14. CASE (\E p \in Runners : ArchiveFails(p)) \/ TermStart
            \/ (\E s \in Launches : TermCancels(s))
  BY <1>14 DEF ArchiveFails, TermStart, store, TermCancels
<1>15. CASE TermArchives \/ TermConfirms \/ TermFails
  BY <1>15 DEF TermArchives, store, TermConfirms, TermFails
<1>16. CASE SendBegin \/ (\E s \in Launches : SendPost(s)) \/ SendFails
  BY <1>16 DEF SendBegin, SendPost, SendFails
<1>17. CASE SendAnswered \/ FlushFails \/ (\E m \in Msgs : RemoteTake(m))
  BY <1>17 DEF SendAnswered, FlushFails, RemoteTake, store
<1>18. CASE TurnEnds \/ PublishNotices \/ Crash
  BY <1>18 DEF TurnEnds, PublishNotices, Crash
<1>19. CASE LeaseExpires
  BY <1>19 DEF LeaseExpires
<1>20. CASE UNCHANGED vars
  BY <1>20 DEF vars, store
<1> QED
  BY <1>1, <1>2, <1>3, <1>4, <1>5, <1>6, <1>7, <1>8, <1>9, <1>10, <1>11, <1>12, <1>13, <1>14,
     <1>15, <1>16, <1>17, <1>18, <1>19, <1>20 DEF Next, Runs, Runners

\* An Archive sets the status with its intent, and only a callback of a Stop
\* overwrites it while the workspace is there.
StatusKeeps ==
    /\ row.status = "archived" /\ row'.status # "archived" =>
          \/ row.ws = 0 \/ saga # NoSaga \/ fg.pc = "creating" \/ intent.action = "stop"
          \/ <<"ws", row.ws>> \in gone
    /\ ~row.archivedAt /\ row'.archivedAt =>
          row'.status = "archived" /\ (row.ws = 0 \/ intent'.action = "archive")

\* Every step satisfies it.
LEMMA StatusKeepsBy ==
  ASSUME IInv, [Next]_vars
  PROVE  StatusKeeps
<1> USE DEF StatusKeeps, IInv, Shape, LaunchShape
<1>1. ASSUME FgCreateFails PROVE StatusKeeps
  BY <1>1 DEF FgCreateFails, Rows, fg
<1>2. ASSUME FgPersist PROVE StatusKeeps
  <2>1. fg.pc = "creating" /\ fg.id \in Launches
    BY <1>2, PersistWrites, IdleFacts
  <2>2. row' = row \/ \E phase \in {"provisioned", "cleanup", "cancel"} : PersistLaunch(fg.id, phase)
    BY <1>2, PersistWrites
  <2>3. row'.archivedAt = row.archivedAt
    BY <2>1, <2>2, Persists DEF Phases
  <2> QED
    BY <2>1, <2>3
<1>3. ASSUME FgError PROVE StatusKeeps
  <2>1. row' \in {row, CanceledRow}
    BY <1>3 DEF FgError, MarkCanceled
  <2> QED
    BY <2>1, CanceledRowFacts
<1>4. ASSUME RecStart PROVE StatusKeeps
  <2>1. row' \in {row, CanceledRow}
    BY <1>4 DEF RecStart, MarkCanceled
  <2> QED
    BY <2>1, CanceledRowFacts
<1>5. ASSUME NEW p \in Runners, NamedAndFinal(p) PROVE StatusKeeps
  BY <1>5, FinalWrites, NoSagaFacts
<1>6. ASSUME NEW p \in Runners, RollsBack(p) PROVE StatusKeeps
  BY <1>6, RollbackWrites, Restores, NoSagaFacts
<1>7. ASSUME Stop PROVE StatusKeeps
  <2>1. Cancels(1) /\ (row' = CanceledRow \/ (row' = [row EXCEPT !.status = "stopped"] /\ intent' = NoIntent))
    BY <1>7 DEF Stop
  <2>2. row.ws # 0 => intent' # NoIntent
    BY <2>1, CancelsWrites, IdleFacts DEF Launched, SagaBound
  <2> QED
    BY <2>1, <2>2, CanceledRowFacts DEF Rows
<1>8. ASSUME Archive PROVE StatusKeeps
  <2>1. row'.status = "archived"
    BY <1>8, ArchiveWrites
  <2>2. row.ws = 0 \/ intent'.action = "archive"
    BY <1>8, ArchiveIntends, Merged DEF IntentShape
  <2> QED
    BY <2>1, <2>2
<1>9. ASSUME TermConfirms PROVE StatusKeeps
  <2>1. /\ term # TermIdle /\ intent # NoIntent
        /\ term.pc = "confirmed" => <<"ws", term.want.ws>> \in gone
        /\ row.ws = intent.ws \/ row.ws = 0
    BY <1>9, IdleFacts DEF TermConfirms, CalledOff, Attempted, Intended
  <2>2. \/ /\ Settle("completed") /\ intent.ws = term.want.ws
           /\ intent.action = "stop" \/ term.pc = "confirmed"
        \/ Settle("pending")
    BY <1>9, <2>1 DEF TermConfirms
  <2> QED
    BY <2>1, <2>2, Settlement
<1>10. ASSUME TermFails PROVE StatusKeeps
  <2>1. term # TermIdle /\ intent # NoIntent
    BY <1>10, IdleFacts DEF TermFails, CalledOff, Attempted
  <2>2. Settle("pending") \/ Settle("failed")
    BY <1>10, <2>1 DEF TermFails
  <2> QED
    BY <2>2, Settlement
<1>11. ASSUME SendAnswered PROVE StatusKeeps
  BY <1>11 DEF SendAnswered, LeaseCanSend, Rows, Statuses
<1>12. ASSUME FlushGet PROVE StatusKeeps
  BY <1>12, FlushGetWrites, CompletesWrites DEF FlushPosts, FlushLeaves, Launched, Terminal
<1>13. ASSUME FlushAnswered PROVE StatusKeeps
  BY <1>13, CompletesWrites, IdleFacts DEF FlushAnswered, MessageShape, Terminal
<1>14. ASSUME TurnEnds PROVE StatusKeeps
  BY <1>14 DEF TurnEnds, Rows, Statuses
<1>15. CASE (\E k, w \in Launches : FgCreate(k, w)) \/ FgOrphan \/ FgPromote \/ FgPost
  BY <1>15 DEF FgCreate, FgOrphan, FgPromote, FgPost, store
<1>16. CASE FgHandoff \/ RecGet \/ RecFails \/ (\E p \in Runners : Answered(p))
  BY <1>16 DEF FgHandoff, store, RecGet, RecFails, Answered
<1>17. CASE (\E p \in Runners : Archives(p)) \/ (\E p \in Runners : ArchiveFails(p))
            \/ TermStart \/ (\E s \in Launches : TermCancels(s))
  BY <1>17 DEF Archives, ArchiveFails, TermStart, store, TermCancels
<1>18. CASE TermArchives \/ SendBegin \/ (\E s \in Launches : SendPost(s)) \/ SendFails
  BY <1>18 DEF TermArchives, store, SendBegin, SendPost, SendFails
<1>19. CASE (\E r \in Requests : LateRequest(r)) \/ FlushStart \/ FlushFails
            \/ (\E m \in Msgs : RemoteTake(m))
  BY <1>19 DEF LateRequest, FlushStart, FlushFails, RemoteTake, store
<1>20. CASE PublishNotices \/ Crash \/ LeaseExpires
  BY <1>20 DEF PublishNotices, Crash, LeaseExpires
<1>21. CASE UNCHANGED vars
  BY <1>21 DEF vars, store
<1> QED
  BY <1>1, <1>2, <1>3, <1>4, <1>5, <1>6, <1>7, <1>8, <1>9, <1>10, <1>11, <1>12, <1>13, <1>14,
     <1>15, <1>16, <1>17, <1>18, <1>19, <1>20, <1>21 DEF Next, Runs, Runners

\* A message to a bound session is posted once, under the lease, to a session
\* of the bound workspace; it leaves the wire when it is accepted or given up on.
PlainKeeps ==
    \A m \in Plain : /\ where'[m] = where[m]
                     /\ m \in wire' => m \in wire
                     /\ m \in Known' => m \in Known
                     /\ m \in seen' => m \in seen \/ (m \in wire /\ m \notin wire')
PlainPosts(m) ==
    /\ where' = [where EXCEPT ![m] = lease'.ses] /\ wire' = wire \cup {m} /\ m \notin seen
    /\ lease'.ses \in Launches /\ home[lease'.ses] = row.ws /\ row.ws # 0
    /\ saga = NoSaga /\ intent = NoIntent /\ ~row.archivedAt
    /\ UNCHANGED <<row, saga, home, seen, live, gone, finals, intent, doomed, gaveUp>> /\ fg' = fg
    /\ \/ /\ m = <<"send", sender.id>> /\ sender.pc = "target" /\ lease.by = "send"
          /\ sender' = [sender EXCEPT !.pc = "posted"] /\ lease'.by = "send"
       \/ /\ \E r \in Requests : m = Req(r) /\ r \in Queued /\ flush'.req = r
          /\ lease = NoLease /\ flush'.pc = "posted" /\ lease'.by = "flush"
PlainMoves == PlainKeeps \/ \E m \in Plain : PlainPosts(m)

\* A plain message is a send or a request, never a first prompt.
LEMMA MessageKinds ==
  ASSUME NEW m \in Plain
  PROVE  /\ m \in Msgs
         /\ \A k \in Launches : m # First(k)
         /\ (\E n \in 1..MaxSends : m = <<"send", n>>) \/ (\E r \in Requests : m = Req(r))
BY DEF Plain, Msgs, First, Req

\* Every step satisfies it.
LEMMA PlainMovesBy ==
  ASSUME IInv, [Next]_vars
  PROVE  PlainMoves
<1> USE DEF PlainMoves, IInv, Shape, LaunchShape
<1>1. ASSUME FgPost PROVE PlainMoves
  <2>1. /\ UNCHANGED <<seen, live>>
        /\ \E k : wire' \subseteq wire \cup {First(k)}
                /\ where' \in {where, [where EXCEPT ![First(k)] = k]}
    BY <1>1 DEF FgPost, Runners, fg
  <2>2. \A m \in Plain : \A k : m # First(k)
    BY DEF Plain, First
  <2> QED
    BY <2>1, <2>2, MessageKinds DEF PlainKeeps, Known, RemoteShape
<1>2. ASSUME FgError PROVE PlainMoves
  <2>1. /\ UNCHANGED <<seen, live>>
        /\ \E k : wire' \subseteq wire \cup {First(k)}
                /\ where' \in {where, [where EXCEPT ![First(k)] = k]}
    BY <1>2 DEF FgError
  <2>2. \A m \in Plain : \A k : m # First(k)
    BY DEF Plain, First
  <2> QED
    BY <2>1, <2>2, MessageKinds DEF PlainKeeps, Known, RemoteShape
<1>3. ASSUME RecGet PROVE PlainMoves
  <2>1. /\ UNCHANGED <<seen, live>>
        /\ \E k : wire' \subseteq wire \cup {First(k)}
                /\ where' \in {where, [where EXCEPT ![First(k)] = k]}
    BY <1>3 DEF RecGet, Runners
  <2>2. \A m \in Plain : \A k : m # First(k)
    BY DEF Plain, First
  <2> QED
    BY <2>1, <2>2, MessageKinds DEF PlainKeeps, Known, RemoteShape
<1>4. ASSUME RecFails PROVE PlainMoves
  <2>1. /\ UNCHANGED <<seen, live>>
        /\ \E k : wire' \subseteq wire \cup {First(k)}
                /\ where' \in {where, [where EXCEPT ![First(k)] = k]}
    BY <1>4 DEF RecFails
  <2>2. \A m \in Plain : \A k : m # First(k)
    BY DEF Plain, First
  <2> QED
    BY <2>1, <2>2, MessageKinds DEF PlainKeeps, Known, RemoteShape
<1>5. ASSUME NEW s \in Launches, TermCancels(s) PROVE PlainMoves
  <2>1. live' \subseteq live /\ UNCHANGED <<where, seen, wire>>
    BY <1>5 DEF TermCancels
  <2> QED
    BY <2>1 DEF PlainKeeps, Known
<1>6. ASSUME NEW s \in Launches, SendPost(s) PROVE PlainMoves
  <2> DEFINE m == <<"send", sender.id>>
  <2>1. /\ sender.pc = "target" /\ home[s] = lease.ws /\ LeaseCanSend("send")
        /\ lease' = [lease EXCEPT !.ses = s]
        /\ wire' = wire \cup {m} /\ where' = [where EXCEPT ![m] = s]
        /\ sender' = [sender EXCEPT !.pc = "posted"]
        /\ UNCHANGED <<row, saga, home, seen, live, gone, finals, runner, intent, doomed, gaveUp>>
    BY <1>6 DEF SendPost, ghosts
  <2>2. lease \in Leases /\ lease.by = "send" /\ sender \in Sends /\ lease # NoLease
    BY <2>1, IdleFacts DEF LeaseCanSend, MessageShape
  <2>3. lease'.ses = s /\ lease'.by = "send"
    BY <2>1, <2>2 DEF Leases
  <2>4. /\ saga = NoSaga /\ row.ws # 0 /\ lease.ws = row.ws /\ ~row.archivedAt
        /\ intent = NoIntent
    BY <2>1, <2>2 DEF Leased, LeaseCanSend
  <2>5. m \in Plain /\ sender.id \in 1..MaxSends
    BY <2>2 DEF Sends, Plain, Msgs
  <2>6. m \notin seen
    BY <2>1, <2>5 DEF Carried, Posted, Known
  <2>7. fg' = fg
    BY <2>1 DEF fg
  <2> HIDE DEF m
  <2>8. m = <<"send", sender.id>>
    BY DEF m
  <2>9. PlainPosts(m)
    BY <2>1, <2>2, <2>3, <2>4, <2>6, <2>7, <2>8 DEF PlainPosts
  <2> QED
    BY <2>5, <2>9
<1>7. ASSUME SendFails PROVE PlainMoves
  <2>1. wire' \subseteq wire /\ UNCHANGED <<where, seen, live>>
    BY <1>7 DEF SendFails
  <2> QED
    BY <2>1 DEF PlainKeeps, Known
<1>8. ASSUME FlushGet PROVE PlainMoves
  <2>1. UNCHANGED <<saga, home, seen, live, gone, runner, sender, finals, intent, doomed, gaveUp>>
    BY <1>8 DEF FlushGet, ghosts
  <2>2. PICK r \in Requests : UNCHANGED <<where, wire>> \/ FlushPosts(r)
    BY <1>8, FlushGetWrites DEF Launched, FlushLeaves
  <2>3. CASE UNCHANGED <<where, wire>>
    BY <2>1, <2>3 DEF PlainKeeps, Known
  <2>4. CASE FlushPosts(r)
    <3>1. /\ Req(r) \notin seen /\ [req |-> r, ses |-> flush.ses] \in outbox
          /\ row.ws # 0 /\ row.ws = home[flush.ses] /\ flush.ses \in Launches /\ LeaseFree(TRUE)
          /\ lease'.by = "flush" /\ lease'.ses = flush.ses /\ row' = row
          /\ wire' = wire \cup {Req(r)} /\ where' = [where EXCEPT ![Req(r)] = flush.ses]
          /\ flush'.pc = "posted" /\ flush'.req = r
      BY <2>4 DEF FlushPosts
    <3>2. r \in Queued
      BY <3>1 DEF Queued
    <3>3. /\ saga = NoSaga /\ ~row.archivedAt /\ lease = NoLease /\ intent = NoIntent
      BY <3>1 DEF LeaseFree
    <3>4. Req(r) \in Plain
      BY DEF Req, Plain, Msgs
    <3>7. fg' = fg
      BY <2>1 DEF fg
    <3> HIDE DEF Req
    <3>8. PlainPosts(Req(r))
      BY <2>1, <3>1, <3>2, <3>3, <3>7 DEF PlainPosts
    <3> QED
      BY <3>4, <3>8
  <2> QED
    BY <2>2, <2>3, <2>4
<1>9. ASSUME FlushFails PROVE PlainMoves
  <2>1. wire' \subseteq wire /\ UNCHANGED <<where, seen, live>>
    BY <1>9 DEF FlushFails
  <2> QED
    BY <2>1 DEF PlainKeeps, Known
<1>10. ASSUME NEW m \in Msgs, RemoteTake(m) PROVE PlainMoves
  <2>1. /\ m \in wire /\ wire' = wire \ {m} /\ where' = where
        /\ seen' \subseteq seen \cup {m} /\ live' \subseteq live \cup {m}
    BY <1>10 DEF RemoteTake
  <2> QED
    BY <2>1 DEF PlainKeeps, Known
<1>11. ASSUME TurnEnds PROVE PlainMoves
  <2>1. live' \subseteq live /\ UNCHANGED <<where, seen, wire>>
    BY <1>11 DEF TurnEnds
  <2> QED
    BY <2>1 DEF PlainKeeps, Known
<1>12. CASE (\E k, w \in Launches : FgCreate(k, w)) \/ FgCreateFails \/ FgPersist \/ FgOrphan
  BY <1>12 DEF FgCreate, FgCreateFails, remote, FgPersist, FgOrphan, PlainKeeps, Known
<1>13. CASE FgPromote \/ FgHandoff \/ RecStart \/ (\E p \in Runners : Answered(p))
  BY <1>13 DEF FgPromote, remote, FgHandoff, RecStart, Answered, LaunchCanSend, PlainKeeps,
     Known
<1>14. CASE (\E p \in Runners : NamedAndFinal(p)) \/ (\E p \in Runners : Archives(p))
            \/ (\E p \in Runners : ArchiveFails(p)) \/ (\E p \in Runners : RollsBack(p))
  BY <1>14 DEF NamedAndFinal, remote, Archives, ArchiveFails, RollsBack, PlainKeeps, Known
<1>15. CASE Stop \/ Archive \/ TermStart \/ TermArchives
  BY <1>15 DEF Stop, remote, Archive, TermStart, TermArchives, PlainKeeps, Known
<1>16. CASE TermConfirms \/ TermFails \/ SendBegin \/ SendAnswered
  BY <1>16 DEF TermConfirms, remote, TermFails, SendBegin, SendAnswered, PlainKeeps, Known
<1>17. CASE (\E r \in Requests : LateRequest(r)) \/ FlushStart \/ FlushAnswered
            \/ PublishNotices
  BY <1>17 DEF LateRequest, remote, FlushStart, FlushAnswered, PublishNotices, PlainKeeps, Known
<1>18. CASE Crash \/ LeaseExpires
  BY <1>18 DEF Crash, remote, LeaseExpires, PlainKeeps, Known
<1>19. CASE UNCHANGED vars
  BY <1>19 DEF vars, remote, PlainKeeps, Known
<1> QED
  BY <1>1, <1>2, <1>3, <1>4, <1>5, <1>6, <1>7, <1>8, <1>9, <1>10, <1>11, <1>12, <1>13, <1>14,
     <1>15, <1>16, <1>17, <1>18, <1>19 DEF Next, Runs, Runners

\* What a message that was posted tells about the row: it is bound.
LEMMA PostedFacts ==
  ASSUME Shape, Launched, Posted, NEW m \in Plain, where[m] # 0
  PROVE  /\ where[m] \in Launches /\ home[where[m]] = row.ws /\ row.ws # 0 /\ finals # {}
<1>1. where[m] \in Launches /\ home[where[m]] = row.ws /\ finals # {}
  BY DEF Shape, RemoteShape, Launch0, Plain, Posted
<1>2. PICK k \in finals : k \in Launches /\ k <= count.launch /\ home[k] = row.ws
  BY <1>1 DEF Shape, LaunchShape, Launched, Homes
<1>3. home[k] # 0
  BY <1>2, NoSagaFacts DEF Launched, Homes, Shape, LaunchShape, Counts, Launches
<1> QED
  BY <1>1, <1>2, <1>3

\* A message is posted once, to a session of the workspace that stays bound.
LEMMA PostedStep ==
  ASSUME IInv, [Next]_vars
  PROVE  Posted'
<1>1. PlainMoves /\ SenderMoves /\ LaunchMoves /\ RowMoves /\ OutcomeMoves
  BY PlainMovesBy, SenderMovesBy, LaunchMovesBy, RowMovesBy, OutcomeMovesBy DEF IInv
<1>2. Shape /\ Launched /\ Posted /\ Shape' /\ OutboxAccounted
  BY ShapeStep DEF IInv, Carried, CalledOff
<1>3. /\ sender \in {Idle} \cup Sends /\ sender' \in {Idle} \cup Sends
      /\ count.send \in Nat /\ count'.send \in Nat /\ count.send <= count'.send
      /\ where \in [Msgs -> Launch0] /\ Plain \subseteq Msgs
  BY <1>1, <1>2 DEF Shape, MessageShape, LaunchShape, RemoteShape, Counts, RowMoves, Plain
<1>4. ASSUME NEW m \in Plain, where[m] # 0
      PROVE  /\ finals' # {} /\ home'[where[m]] = row'.ws
  <2>1. /\ where[m] \in Launches /\ home[where[m]] = row.ws /\ row.ws # 0 /\ finals # {}
    BY <1>2, <1>4, PostedFacts
  <2>2. row'.ws = row.ws
    BY <1>1, <2>1 DEF RowMoves
  <2>3. home'[where[m]] = home[where[m]]
    BY <2>1, HomeStays
  <2> QED
    BY <1>1, <2>1, <2>2, <2>3 DEF LaunchMoves
<1>5. sender'.pc # "idle" => sender'.id <= count'.send
  BY <1>1, <1>2, <1>3, IdleFacts DEF SenderMoves, Posted, Sends
<1>6. ASSUME NEW n \in 1..MaxSends, n <= count.send, sender.pc = "target" => n # sender.id
      PROVE  n <= count'.send /\ (sender'.pc = "target" => n # sender'.id)
  BY <1>1, <1>3, <1>6, IdleFacts DEF SenderMoves, Sends
<1>7. \A n \in 1..MaxSends : <<"send", n>> \in Plain
  BY DEF Plain, Msgs
<1>8. \A r \in Requests : Req(r) \in Plain
  BY DEF Plain, Msgs, Req
<1>9. CASE PlainKeeps
  <2>1. /\ \A m \in Plain : where'[m] # 0 => finals' # {} /\ home'[where'[m]] = row'.ws
    BY <1>4, <1>9 DEF PlainKeeps
  <2>2. \A m \in Plain : m \in Known' => where'[m] # 0
    BY <1>2, <1>9 DEF PlainKeeps, Posted
  <2>3. PlainWire' \cap seen' = {}
    BY <1>2, <1>9 DEF PlainKeeps, Posted, PlainWire
  <2>4. \A n \in 1..MaxSends : where'[<<"send", n>>] # 0 =>
           n <= count'.send /\ (sender'.pc = "target" => n # sender'.id)
    BY <1>2, <1>6, <1>7, <1>9 DEF PlainKeeps, Posted
  <2>5. \A r \in Requests : where'[Req(r)] # 0 => outcome'[r] # "new"
    BY <1>1, <1>2, <1>8, <1>9 DEF PlainKeeps, Posted, OutcomeMoves
  <2> QED
    BY <1>5, <2>1, <2>2, <2>3, <2>4, <2>5 DEF Posted
<1>10. ASSUME NEW m \in Plain, PlainPosts(m) PROVE Posted'
  <2>1. /\ where' = [where EXCEPT ![m] = lease'.ses] /\ wire' = wire \cup {m} /\ m \notin seen
        /\ lease'.ses \in Launches /\ home[lease'.ses] = row.ws /\ row.ws # 0
        /\ saga = NoSaga /\ UNCHANGED <<row, home, seen, live, finals>>
    BY <1>10 DEF PlainPosts
  <2>2. /\ where'[m] = lease'.ses /\ lease'.ses # 0
        /\ \A x \in Plain : x # m => where'[x] = where[x]
    BY <1>3, <2>1, NoSagaFacts
  <2>3. finals' # {}
    BY <1>2, <2>1 DEF Launched, SagaBound
  <2>4. \A x \in Plain : where'[x] # 0 => finals' # {} /\ home'[where'[x]] = row'.ws
    BY <1>4, <2>1, <2>2, <2>3
  <2>5. \A x \in Plain : x \in Known' => where'[x] # 0
    BY <1>2, <2>1, <2>2 DEF Posted, Known
  <2>6. PlainWire' \cap seen' = {}
    BY <1>2, <2>1 DEF Posted, PlainWire
  <2>7. ASSUME NEW n \in 1..MaxSends, m = <<"send", n>>
        PROVE  n <= count'.send /\ sender'.pc # "target"
    <3>1. n = sender.id /\ sender.pc = "target" /\ sender' = [sender EXCEPT !.pc = "posted"]
      BY <1>10, <2>7 DEF PlainPosts, Req
    <3>2. sender'.pc = "posted"
      BY <1>3, <3>1, IdleFacts DEF Sends
    <3> QED
      BY <1>2, <1>3, <2>7, <3>1, <3>2 DEF Posted
  <2>8. \A n \in 1..MaxSends : where'[<<"send", n>>] # 0 =>
           n <= count'.send /\ (sender'.pc = "target" => n # sender'.id)
    BY <1>2, <1>6, <1>7, <2>2, <2>7 DEF Posted
  <2>9. ASSUME NEW r \in Requests, m = Req(r) PROVE outcome[r] # "new"
    <3>1. r \in Queued
      BY <1>10, <2>9 DEF PlainPosts, Req
    <3> QED
      BY <1>2, <3>1 DEF OutboxAccounted
  <2>10. \A r \in Requests : where'[Req(r)] # 0 => outcome'[r] # "new"
    BY <1>1, <1>2, <1>8, <2>2, <2>9 DEF Posted, OutcomeMoves
  <2> QED
    BY <1>5, <2>4, <2>5, <2>6, <2>8, <2>10 DEF Posted
<1> QED
  BY <1>1, <1>9, <1>10 DEF PlainMoves

\* No message is on the wire when another is posted.
LEMMA WireFree ==
  ASSUME Carried, lease = NoLease \/ (lease.by = "send" /\ sender.pc = "target"), ~row.archivedAt
  PROVE  PlainWire = {}
BY IdleFacts DEF Carried, Tokens

\* The message on the wire stays the one of the holder of the lease.
LEMMA TokensStep ==
  ASSUME IInv, [Next]_vars
  PROVE  Tokens'
<1>1. PlainMoves /\ SenderMoves /\ FlushMoves /\ LaunchMoves /\ RowMoves /\ LeaseMoves /\ StatusKeeps
  BY PlainMovesBy, SenderMovesBy, FlushMovesBy, LaunchMovesBy, RowMovesBy, LeaseMovesBy,
     StatusKeepsBy DEF IInv
<1>2. Shape /\ Launched /\ Posted /\ Holders /\ Tokens /\ Carried /\ Shape'
  BY ShapeStep DEF IInv, Carried
<1>3. /\ saga \in {NoSaga} \cup PendingSagas /\ saga' \in {NoSaga} \cup PendingSagas
      /\ sender \in {Idle} \cup Sends /\ intent \in {NoIntent} \cup TerminalIntents
      /\ where \in [Msgs -> Launch0] /\ PlainWire \subseteq Plain /\ Plain \subseteq Msgs
  BY <1>2 DEF Shape, MessageShape, LaunchShape, RemoteShape, IntentShape, Plain, PlainWire
<1>4. ASSUME NEW m \in PlainWire
      PROVE  /\ where[m] \in Launches /\ home[where[m]] = row.ws /\ row.ws # 0
             /\ saga = NoSaga /\ fg.pc # "creating"
  <2>1. m \in Plain /\ where[m] # 0
    BY <1>2 DEF Posted, PlainWire, Known
  <2> QED
    BY <1>2, <2>1, PostedFacts DEF Tokens
\* The message was on the wire before.
<1>5. ASSUME PlainKeeps PROVE Tokens'
  <2>1. PlainWire' \subseteq PlainWire /\ \A m \in PlainWire' : where'[m] = where[m]
    BY <1>5 DEF PlainKeeps, PlainWire
  <2>2. ASSUME NEW m \in PlainWire', ~row'.archivedAt
        PROVE  /\ lease'.ses = where'[m]
               /\ \/ lease'.by = "send" /\ sender'.pc = "posted" /\ m = <<"send", sender'.id>>
                  \/ lease'.by = "flush" /\ flush'.pc = "posted" /\ m = Req(flush'.req)
                  \/ lease'.by = "dead"
    <3>1. m \in PlainWire /\ where'[m] = where[m] /\ ~row.archivedAt
      BY <1>1, <2>1, <2>2 DEF RowMoves
    <3>2. /\ lease.ses = where[m]
          /\ \/ lease.by = "send" /\ sender.pc = "posted" /\ m = <<"send", sender.id>>
             \/ lease.by = "flush" /\ flush.pc = "posted" /\ m = Req(flush.req)
             \/ lease.by = "dead"
      BY <1>2, <3>1 DEF Tokens
    <3>3. CASE lease' = lease
      BY <1>1, <2>2, <3>1, <3>2, <3>3, IdleFacts DEF SenderMoves, FlushMoves
    <3>4. CASE lease'.by = "dead" /\ lease'.ses = lease.ses
      BY <3>1, <3>2, <3>4
    <3>5. ASSUME lease' = NoLease PROVE FALSE
      <4>1. lease.by = "send" => sender' # Idle
        BY <1>1, <2>2, <3>2, <3>5, IdleFacts DEF SenderMoves
      <4>2. lease.by = "flush" => flush'.pc = "posted"
        BY <1>1, <2>2, <3>2, <3>5, IdleFacts DEF FlushMoves
      <4>3. lease.by = "dead" => \E x \in wire : where[x] = lease.ses
        BY <3>1, <3>2 DEF PlainWire
      <4> QED
        BY <1>1, <2>2, <3>2, <3>5, <4>1, <4>2, <4>3, IdleFacts DEF LeaseMoves
    <3> QED
      BY <1>1, <3>2, <3>3, <3>4, <3>5, IdleFacts DEF LeaseMoves
  <2>3. \A m, n \in PlainWire' : m = n
    BY <1>2, <2>1 DEF Tokens
  <2>4. ASSUME saga' # NoSaga \/ fg'.pc = "creating", PlainWire # {} PROVE FALSE
    <3>1. saga = NoSaga /\ fg.pc # "creating" /\ row.ws # 0
      BY <1>4, <2>4
    <3>2. saga' = NoSaga
      BY <1>1, <1>3, <3>1 DEF LaunchMoves
    <3>3. fg'.pc = "creating" /\ fg' # fg
      BY <2>4, <3>1, <3>2
    <3>4. PICK k \in Launches, w \in Launches : FgCreate(k, w)
      BY <1>2, <3>3, CreatingStays DEF Early
    <3>5. LeaseFree(FALSE)
      BY <1>2, <3>1, <3>4, CreateWrites
    <3> QED
      BY <1>2, <2>4, <3>5, WireFree DEF LeaseFree
  <2>5. ASSUME NEW m \in PlainWire', ~SessionGone(where[m])', row'.archivedAt
        PROVE  row'.status = "archived" /\ intent'.action # "stop"
    <3>1. m \in PlainWire /\ where'[m] = where[m]
      BY <2>1
    <3>2. home'[where[m]] = row.ws /\ <<"ws", row.ws>> \notin gone' /\ <<"ses", where[m]>> \notin gone'
      <4>1. home[where[m]] # 0 /\ where[m] \in Launches /\ home[where[m]] = row.ws
        BY <1>4, <3>1
      <4>2. home'[where[m]] = home[where[m]]
        BY <4>1, HomeStays
      <4> QED
        BY <2>5, <3>1, <4>1, <4>2 DEF SessionGone
    <3>3. gone \subseteq gone'
      BY PromptsGrowBy DEF PromptsGrow, IInv
    <3>4. ~SessionGone(where[m])
      BY <1>4, <3>1, <3>2, <3>3 DEF SessionGone
    <3>5. CASE row.archivedAt
      <4>1. row.status = "archived" /\ intent.action # "stop"
        BY <1>2, <3>1, <3>4, <3>5 DEF Tokens
      <4>2. row'.status = "archived"
        BY <1>1, <1>4, <3>1, <3>2, <3>3, <4>1 DEF StatusKeeps
      <4>3. intent'.action # "stop"
        <5>1. ASSUME NEW new \in TerminalIntents, NewIntent(new) PROVE intent'.action # "stop"
          <6>1. new.action = "archive" /\ intent' = MergedIntent(new)
            BY <4>1, <5>1 DEF NewIntent
          <6> QED
            BY <1>3, <4>1, <6>1, Merged
        <5> QED
          BY <4>1, <5>1, IntentMovesBy, IdleFacts DEF IntentMoves
      <4> QED
        BY <4>2, <4>3
    <3>6. CASE ~row.archivedAt
      <4>1. row'.status = "archived" /\ intent'.action = "archive"
        BY <1>1, <1>4, <2>5, <3>1, <3>6 DEF StatusKeeps
      <4> QED
        BY <4>1
    <3> QED
      BY <3>5, <3>6
  <2> HIDE DEF SessionGone
  <2> QED
    BY <2>1, <2>2, <2>3, <2>4, <2>5 DEF Tokens
\* The message is posted in this step.
<1>6. ASSUME NEW m \in Plain, PlainPosts(m) PROVE Tokens'
  <2>1. /\ where' = [where EXCEPT ![m] = lease'.ses] /\ wire' = wire \cup {m}
        /\ saga = NoSaga /\ ~row.archivedAt /\ UNCHANGED <<row, saga, home>> /\ fg' = fg
        /\ row.ws # 0
        /\ lease = NoLease \/ (lease.by = "send" /\ sender.pc = "target")
    BY <1>6 DEF PlainPosts
  <2>2. PlainWire = {}
    BY <1>2, <2>1, WireFree
  <2>3. PlainWire' = {m} /\ where'[m] = lease'.ses
    BY <1>3, <2>1, <2>2 DEF PlainWire
  <2>4. \/ lease'.by = "send" /\ sender'.pc = "posted" /\ m = <<"send", sender'.id>>
        \/ lease'.by = "flush" /\ flush'.pc = "posted" /\ m = Req(flush'.req)
    BY <1>3, <1>6, IdleFacts DEF PlainPosts, Sends
  <2>5. fg'.pc # "creating"
    <3>1. fg.pc = "creating" => home[fg.id] # fg.id
      BY <1>2, <2>1 DEF Launched, Foreground
    <3>2. fg.pc = "creating" /\ home[fg.id] # fg.id => lease.by = "thread"
      BY <1>2, <2>1 DEF Holders
    <3> QED
      BY <2>1, <3>1, <3>2, IdleFacts
  <2> QED
    BY <2>1, <2>3, <2>4, <2>5 DEF Tokens
<1> QED
  BY <1>1, <1>5, <1>6 DEF PlainMoves

\* Every step keeps Carried.
LEMMA CarriedStep ==
  ASSUME IInv, [Next]_vars
  PROVE  Carried'
BY HoldersStep, PostedStep, TokensStep DEF Carried

-----------------------------------------------------------------------------
(* What a Stop or an Archive fences                                         *)

\* An intent that has just been written fences the sessions it names: no
\* attempt has been made on it, or one begins with all of them.
LEMMA NewlyFenced ==
  ASSUME IInv, NEW new \in TerminalIntents, NewIntent(new),
         NEW m, where'[m] \in intent'.sessions \/ intent'.action = "archive"
  PROVE  Fences(m)'
<1>1. /\ intent \in {NoIntent} \cup TerminalIntents /\ term \in {TermIdle} \cup Attempts
      /\ intent' \in TerminalIntents /\ intent' = MergedIntent(new) /\ new.at = count.at + 1
      /\ count.at \in Nat /\ IntentShape
  BY DEF NewIntent, IInv, Shape, IntentShape, LaunchShape, Counts
<1>2. CASE intent'.action = "archive"
  BY <1>2 DEF Fences
<1>3. CASE intent'.action # "archive"
  <2>1. intent'.action = "stop" /\ where'[m] \in intent'.sessions /\ intent'.at = count.at + 1
    BY <1>1, <1>3, Merged DEF TerminalIntents
  <2>2. CASE term # TermIdle
    <3>1. term.want.at <= intent.at /\ intent.at <= count.at
      BY <2>2 DEF IInv, CalledOff, Attempted, Intended
    <3>2. term.want.at \in Nat /\ intent.at \in Nat
      BY <1>1, <2>2, IdleFacts DEF TerminalIntents
    <3>3. term.want.at # intent'.at
      BY <1>1, <2>1, <3>1, <3>2
    <3>4. term' = term
      BY <2>2 DEF NewIntent, TermJoins
    <3> QED
      BY <2>1, <3>3, <3>4 DEF Fences
  <2>3. CASE term' = term /\ term = TermIdle
    BY <2>1, <2>3 DEF Fences
  <2>4. CASE term = TermIdle /\ TermJoins(lease')
    <3>1. term'.todo = intent'.sessions
      BY <2>4 DEF TermJoins, TermBegins
    <3> QED
      BY <2>1, <3>1 DEF Fences
  <2> QED
    BY <2>2, <2>3, <2>4 DEF NewIntent
<1> QED
  BY <1>2, <1>3

\* Work is only called off by a Stop, an Archive and the answer to a message
\* whose lease was revoked.
CallsOff ==
    /\ outbox' = {} /\ UNCHANGED remote
    /\ saga # NoSaga => saga' \in PendingSagas /\ saga'.id = saga.id /\ saga'.phase = "cancel"
    /\ \A m \in doomed' : m \in doomed \/ m \in Running \/ (saga # NoSaga /\ m = First(saga.id))
DoomedMoves ==
    /\ gaveUp' \/ gaveUp' = gaveUp
    /\ \A m \in doomed' : \/ m \in doomed
                          \/ m \in seen /\ m \in {"send"} \X (1..MaxSends) /\ Fences(m)'

\* Stop names running work in the sessions of its intent, or the pending prompt.
LEMMA StopCallsOff ==
  ASSUME IInv, Stop
  PROVE  /\ CallsOff /\ gaveUp' = FALSE
         /\ \A m \in doomed' : \/ m \in Running /\ where[m] \in intent'.sessions
                               \/ saga # NoSaga /\ m = First(saga.id)
<1>1. Cancels(1) /\ UNCHANGED remote /\ gaveUp' = FALSE
  BY DEF Stop
<1>2. /\ outbox' = {}
      /\ saga # NoSaga => saga' \in PendingSagas /\ saga'.id = saga.id /\ saga'.phase = "cancel"
  BY <1>1, CancelsWrites DEF IInv, Launched, SagaBound
<1>3. \A m \in doomed' : \/ m \in Running /\ where[m] \in intent'.sessions
                         \/ saga # NoSaga /\ m = First(saga.id)
  BY DEF Stop
<1> QED
  BY <1>1, <1>2, <1>3 DEF CallsOff

\* Archive intends the whole workspace, if there is one.
LEMMA ArchiveCallsOff ==
  ASSUME IInv, Archive
  PROVE  /\ CallsOff /\ gaveUp' = FALSE
         /\ intent'.action = "archive" \/ (saga = NoSaga /\ row.ws = 0)
<1>1. UNCHANGED remote /\ gaveUp' = FALSE /\ outbox' = {}
  BY DEF Archive
<1>2. ASSUME saga # NoSaga
      PROVE  saga' \in PendingSagas /\ saga'.id = saga.id /\ saga'.phase = "cancel"
  <2>1. saga \in PendingSagas /\ saga' = [saga EXCEPT !.phase = "cancel"]
    BY <1>2 DEF Archive, IInv, Shape, LaunchShape
  <2> QED
    BY <2>1, Phased DEF Phases
<1>3. \A m \in doomed' : m \in doomed \/ m \in Running \/ (saga # NoSaga /\ m = First(saga.id))
  BY DEF Archive
<1>4. intent'.action = "archive" \/ (saga = NoSaga /\ row.ws = 0)
  <2>1. saga # NoSaga => home[saga.id] # 0
    BY NoSagaFacts DEF IInv, Shape, LaunchShape, Counts, Launched, SagaBound, Homes, Launches
  <2> QED
    BY <2>1, ArchiveIntends, Merged DEF IInv, Shape, IntentShape
<1> QED
  BY <1>1, <1>2, <1>3, <1>4 DEF CallsOff

\* Every step that is not a Stop or an Archive satisfies it.
LEMMA DoomedMovesBy ==
  ASSUME IInv, [Next]_vars
  PROVE  DoomedMoves \/ Stop \/ Archive
<1> USE DEF DoomedMoves
<1>1. ASSUME TermFails PROVE DoomedMoves
  BY <1>1 DEF TermFails
<1>2. ASSUME SendAnswered PROVE DoomedMoves
  <2>0. PICK m : m = <<"send", sender.id>>
    OBVIOUS
  <2>1. /\ gaveUp' = gaveUp /\ UNCHANGED remote /\ m \in seen
        /\ sender.pc = "posted"
    BY <1>2, <2>0 DEF SendAnswered
  <2>2. sender \in Sends /\ m \in {"send"} \X (1..MaxSends)
    BY <2>0, <2>1, IdleFacts DEF IInv, Shape, MessageShape, Sends
  <2>3. CASE doomed' = doomed
    BY <2>1, <2>3
  <2>4. CASE doomed' # doomed
    <3>1. PICK new \in TerminalIntents :
             /\ intent' = MergedIntent(new) /\ new.at = count.at + 1
             /\ new.sessions = {row.ses, where[m]} /\ doomed' = doomed \cup {m}
      BY <1>2, <2>0, <2>4, RearmIntends DEF IInv
    <3>2. /\ intent \in {NoIntent} \cup TerminalIntents /\ intent.at <= count.at
          /\ count.at \in Nat
      BY DEF IInv, Shape, IntentShape, LaunchShape, Counts, CalledOff, Intended
    <3>3. /\ intent' \in TerminalIntents /\ intent' # NoIntent
          /\ \/ intent' = intent /\ intent.action = "archive"
             \/ intent'.at = new.at /\ new.sessions \subseteq intent'.sessions
      BY <3>1, <3>2, Merged, IdleFacts
    <3>4. CASE intent' = intent /\ intent.action = "archive"
      BY <2>1, <2>2, <3>1, <3>4 DEF Fences
    <3>5. CASE intent'.at = new.at /\ new.sessions \subseteq intent'.sessions
      <4>1. intent' # intent
        <5>1. intent.at \in Nat
          BY <3>2, IdleFacts DEF TerminalIntents
        <5> QED
          BY <3>1, <3>2, <3>5, <5>1
      <4>2. PICK i \in TerminalIntents : NewIntent(i)
        BY <3>3, <4>1, IntentMovesBy DEF IntentMoves
      <4>3. where'[m] \in intent'.sessions
        BY <2>1, <3>1, <3>5 DEF remote
      <4>4. Fences(m)'
        BY <4>2, <4>3, NewlyFenced
      <4> QED
        BY <2>1, <2>2, <3>1, <4>4
    <3> QED
      BY <3>3, <3>4, <3>5
  <2> QED
    BY <2>3, <2>4
<1>3. CASE (\E k, w \in Launches : FgCreate(k, w)) \/ FgCreateFails \/ FgPersist \/ FgOrphan
  BY <1>3 DEF FgCreate, ghosts, FgCreateFails, FgPersist, FgOrphan
<1>4. CASE FgPromote \/ FgPost \/ FgError \/ FgHandoff
  BY <1>4 DEF FgPromote, ghosts, FgPost, FgError, FgHandoff
<1>5. CASE RecStart \/ RecGet \/ RecFails \/ (\E p \in Runners : Answered(p))
  BY <1>5 DEF RecStart, ghosts, RecGet, RecFails, Answered
<1>6. CASE (\E p \in Runners : NamedAndFinal(p)) \/ (\E p \in Runners : Archives(p))
           \/ (\E p \in Runners : ArchiveFails(p)) \/ (\E p \in Runners : RollsBack(p))
  BY <1>6 DEF NamedAndFinal, Archives, ghosts, ArchiveFails, RollsBack
<1>7. CASE TermStart \/ (\E s \in Launches : TermCancels(s)) \/ TermArchives \/ TermConfirms
  BY <1>7 DEF TermStart, ghosts, TermCancels, TermArchives, TermConfirms
<1>8. CASE SendBegin \/ (\E s \in Launches : SendPost(s)) \/ SendFails
           \/ (\E r \in Requests : LateRequest(r))
  BY <1>8 DEF SendBegin, ghosts, SendPost, SendFails, LateRequest
<1>9. CASE FlushStart \/ FlushGet \/ FlushAnswered \/ FlushFails
  BY <1>9 DEF FlushStart, ghosts, FlushGet, FlushAnswered, FlushFails
<1>10. CASE (\E m \in Msgs : RemoteTake(m)) \/ TurnEnds \/ PublishNotices \/ Crash
  BY <1>10 DEF RemoteTake, ghosts, TurnEnds, PublishNotices, Crash
<1>11. CASE LeaseExpires
  BY <1>11 DEF LeaseExpires, ghosts
<1>12. CASE UNCHANGED vars
  BY <1>12 DEF vars, ghosts
<1> QED
  BY <1>1, <1>2, <1>3, <1>4, <1>5, <1>6, <1>7, <1>8, <1>9, <1>10, <1>11, <1>12 DEF Next, Runs,
     Runners

\* Accepted work that is not settled yet was on the wire or is live.
LiveMoves == \A m : m \in live' => m \in live \/ m \in wire \ seen

\* Every step satisfies it.
LEMMA LiveMovesBy ==
  ASSUME IInv, [Next]_vars
  PROVE  LiveMoves
<1> USE DEF LiveMoves
<1>1. ASSUME NEW s \in Launches, TermCancels(s) PROVE LiveMoves
  BY <1>1 DEF TermCancels
<1>2. ASSUME NEW m \in Msgs, RemoteTake(m) PROVE LiveMoves
  BY <1>2 DEF RemoteTake
<1>3. ASSUME TurnEnds PROVE LiveMoves
  BY <1>3 DEF TurnEnds
<1>4. CASE (\E k, w \in Launches : FgCreate(k, w)) \/ FgCreateFails \/ FgPersist \/ FgOrphan
  BY <1>4 DEF FgCreate, FgCreateFails, remote, FgPersist, FgOrphan
<1>5. CASE FgPromote \/ FgPost \/ FgError \/ FgHandoff
  BY <1>5 DEF FgPromote, remote, FgPost, FgError, FgHandoff
<1>6. CASE RecStart \/ RecGet \/ RecFails \/ (\E p \in Runners : Answered(p))
  BY <1>6 DEF RecStart, remote, RecGet, RecFails, Answered
<1>7. CASE (\E p \in Runners : NamedAndFinal(p)) \/ (\E p \in Runners : Archives(p))
           \/ (\E p \in Runners : ArchiveFails(p)) \/ (\E p \in Runners : RollsBack(p))
  BY <1>7 DEF NamedAndFinal, remote, Archives, ArchiveFails, RollsBack
<1>8. CASE Stop \/ Archive \/ TermStart \/ TermArchives
  BY <1>8 DEF Stop, remote, Archive, TermStart, TermArchives
<1>9. CASE TermConfirms \/ TermFails \/ SendBegin \/ (\E s \in Launches : SendPost(s))
  BY <1>9 DEF TermConfirms, remote, TermFails, SendBegin, SendPost
<1>10. CASE SendFails \/ SendAnswered \/ (\E r \in Requests : LateRequest(r)) \/ FlushStart
  BY <1>10 DEF SendFails, SendAnswered, remote, LateRequest, FlushStart
<1>11. CASE FlushGet \/ FlushAnswered \/ FlushFails \/ PublishNotices
  BY <1>11 DEF FlushGet, FlushAnswered, remote, FlushFails, PublishNotices
<1>12. CASE Crash \/ LeaseExpires
  BY <1>12 DEF Crash, remote, LeaseExpires
<1>13. CASE UNCHANGED vars
  BY <1>13 DEF vars, remote
<1> QED
  BY <1>1, <1>2, <1>3, <1>4, <1>5, <1>6, <1>7, <1>8, <1>9, <1>10, <1>11, <1>12, <1>13
     DEF Next, Runs, Runners

\* An intent ends when everything it names has been fenced, or is given up on.
IntentEnds == intent # NoIntent /\ intent' = NoIntent =>
    \/ gaveUp'
    \/ /\ term # TermIdle /\ term.want.at = intent.at /\ ~term.unresolved
       /\ intent.action = "archive" => <<"ws", intent.ws>> \in gone
       /\ intent.action = "stop" => term.todo = {}

\* Every step satisfies it.
LEMMA IntentEndsBy ==
  ASSUME IInv, [Next]_vars
  PROVE  IntentEnds
<1> USE DEF IntentEnds, IInv, Shape, IntentShape
<1>1. ASSUME FgError PROVE IntentEnds
  <2>1. MarkCanceled \/ intent' = intent
    BY <1>1 DEF FgError
  <2>2. Cancels(0) => intent' = intent \/ intent' \in TerminalIntents
    BY CancelsWrites DEF Launched, SagaBound
  <2> QED
    BY <2>1, <2>2, IdleFacts DEF MarkCanceled
<1>2. ASSUME RecStart PROVE IntentEnds
  <2>1. MarkCanceled \/ intent' = intent
    BY <1>2 DEF RecStart
  <2>2. Cancels(0) => intent' = intent \/ intent' \in TerminalIntents
    BY CancelsWrites DEF Launched, SagaBound
  <2> QED
    BY <2>1, <2>2, IdleFacts DEF MarkCanceled
<1>3. ASSUME Stop PROVE IntentEnds
  <2>1. Cancels(1)
    BY <1>3 DEF Stop
  <2>2. intent' = intent \/ intent' \in TerminalIntents
    BY <2>1, CancelsWrites DEF Launched, SagaBound
  <2> QED
    BY <2>2, IdleFacts
<1>4. ASSUME Archive PROVE IntentEnds
  BY <1>4, ArchiveIntends, Merged, IdleFacts
<1>5. ASSUME TermConfirms PROVE IntentEnds
  <2>1. /\ term # TermIdle
        /\ term.pc = "confirmed" => <<"ws", term.want.ws>> \in gone /\ term.want.action = "archive"
    BY <1>5, IdleFacts DEF TermConfirms, CalledOff, Attempted
  <2>2. ASSUME intent # NoIntent, intent' = NoIntent
        PROVE  /\ ~term.unresolved /\ intent.at = term.want.at /\ intent.ws = term.want.ws
               /\ intent.action = term.want.action
    BY <1>5, <2>2 DEF TermConfirms
  <2>3. term.pc = "confirmed" \/ (term.want.action = "stop" /\ term.todo = {})
    BY <1>5 DEF TermConfirms
  <2> QED
    BY <2>1, <2>2, <2>3
<1>6. ASSUME TermFails PROVE IntentEnds
  BY <1>6 DEF TermFails
<1>7. ASSUME SendAnswered PROVE IntentEnds
  BY <1>7, RearmIntends, Merged, IdleFacts
<1>8. CASE (\E k, w \in Launches : FgCreate(k, w)) \/ FgCreateFails \/ FgPersist \/ FgOrphan
  BY <1>8 DEF FgCreate, ghosts, FgCreateFails, FgPersist, FgOrphan
<1>9. CASE FgPromote \/ FgPost \/ FgHandoff \/ RecGet
  BY <1>9 DEF FgPromote, ghosts, FgPost, store, FgHandoff, RecGet
<1>10. CASE RecFails \/ (\E p \in Runners : Answered(p))
            \/ (\E p \in Runners : NamedAndFinal(p)) \/ (\E p \in Runners : Archives(p))
  BY <1>10 DEF RecFails, ghosts, Answered, NamedAndFinal, Archives
<1>11. CASE (\E p \in Runners : ArchiveFails(p)) \/ (\E p \in Runners : RollsBack(p))
            \/ TermStart \/ (\E s \in Launches : TermCancels(s))
  BY <1>11 DEF ArchiveFails, ghosts, RollsBack, TermStart, store, TermCancels
<1>12. CASE TermArchives \/ SendBegin \/ (\E s \in Launches : SendPost(s)) \/ SendFails
  BY <1>12 DEF TermArchives, store, ghosts, SendBegin, SendPost, SendFails
<1>13. CASE (\E r \in Requests : LateRequest(r)) \/ FlushStart \/ FlushGet \/ FlushAnswered
  BY <1>13 DEF LateRequest, ghosts, FlushStart, FlushGet, FlushAnswered
<1>14. CASE FlushFails \/ (\E m \in Msgs : RemoteTake(m)) \/ TurnEnds \/ PublishNotices
  BY <1>14 DEF FlushFails, ghosts, RemoteTake, store, TurnEnds, PublishNotices
<1>15. CASE Crash \/ LeaseExpires
  BY <1>15 DEF Crash, ghosts, LeaseExpires
<1>16. CASE UNCHANGED vars
  BY <1>16 DEF vars, store, ghosts
<1> QED
  BY <1>1, <1>2, <1>3, <1>4, <1>5, <1>6, <1>7, <1>8, <1>9, <1>10, <1>11, <1>12, <1>13, <1>14,
     <1>15, <1>16 DEF Next, Runs, Runners

\* A session that is archived stays so.
LEMMA GoneStays ==
  ASSUME IInv, [Next]_vars, NEW k \in Launches, SessionGone(k)
  PROVE  SessionGone(k)'
<1>1. gone \subseteq gone'
  BY PromptsGrowBy DEF PromptsGrow, IInv
<1>2. home[k] # 0
  BY NoSagaFacts DEF SessionGone, IInv, Cleaned, Launched, Homes, Shape, LaunchShape,
     Counts, Launches
<1>3. home'[k] = home[k]
  BY <1>2, HomeStays
<1> QED
  BY <1>1, <1>3 DEF SessionGone

\* What a Stop named is not queued again, and its launch is rolled back.
LEMMA NotAgainStep ==
  ASSUME IInv, [Next]_vars
  PROVE  NotAgain'
<1>1. /\ DoomedMoves \/ CallsOff
      /\ OutcomeMoves /\ PlainMoves /\ LaunchMoves /\ PhaseMoves
      /\ gone \subseteq gone'
  BY DoomedMovesBy, StopCallsOff, ArchiveCallsOff, OutcomeMovesBy, PlainMovesBy, LaunchMovesBy,
     PhaseMovesBy, PromptsGrowBy DEF PromptsGrow, IInv
<1>2. Shape /\ Launched /\ NotAgain /\ Posted /\ Prompts /\ OutboxAccounted /\ OutboxAccounted'
  BY AccountedStep DEF IInv, Fenced, Carried, CalledOff
<1>3. /\ saga \in {NoSaga} \cup PendingSagas /\ saga' \in {NoSaga} \cup PendingSagas
      /\ count.launch \in Nat /\ where \in [Msgs -> Launch0] /\ Running \subseteq Known
      /\ doomed \subseteq Msgs
  BY <1>2, ShapeStep DEF Shape, LaunchShape, RemoteShape, Counts, Running, Known
<1>4. ASSUME NEW r \in Requests, Req(r) \in doomed'
      PROVE  r \notin Queued' /\ outcome'[r] # "new"
  <2>1. Req(r) \in Plain /\ Req(r) \notin {"send"} \X (1..MaxSends) /\ \A k : Req(r) # First(k)
    BY DEF Req, Plain, Msgs, First
  <2>2. CASE Req(r) \in doomed
    <3>1. r \notin Queued /\ outcome[r] # "new"
      BY <1>2, <2>2 DEF NotAgain
    <3>2. outcome[r] # "queued"
      BY <1>2, <3>1 DEF OutboxAccounted
    <3> QED
      BY <1>1, <1>2, <3>1, <3>2 DEF OutboxAccounted, OutcomeMoves
  <2>3. CASE CallsOff /\ Req(r) \in Running
    <3>1. outcome[r] # "new"
      BY <1>2, <1>3, <2>1, <2>3 DEF Posted
    <3>2. Queued' = {}
      BY <2>3 DEF CallsOff, Queued
    <3> QED
      BY <1>1, <3>1, <3>2 DEF OutcomeMoves
  <2> QED
    BY <1>1, <1>4, <2>1, <2>2, <2>3 DEF DoomedMoves, CallsOff
<1>5. ASSUME NEW m \in doomed', m \in Plain
      PROVE  where'[m] # 0
  <2>1. where[m] # 0
    <3>1. CASE m \in doomed
      BY <1>2, <1>5, <3>1 DEF NotAgain
    <3>2. CASE m \in Known
      BY <1>2, <1>5, <3>2 DEF Posted
    <3>3. \A k : m # First(k)
      BY <1>5 DEF Plain, First
    <3>4. m \in seen => m \in Known
      BY DEF Known
    <3> QED
      BY <1>1, <1>3, <1>5, <3>1, <3>2, <3>3, <3>4 DEF DoomedMoves, CallsOff
  <2>2. CASE PlainKeeps
    BY <1>5, <2>1, <2>2 DEF PlainKeeps
  <2>3. ASSUME NEW x \in Plain, PlainPosts(x) PROVE where'[m] # 0
    <3>1. where' = [where EXCEPT ![x] = lease'.ses] /\ lease'.ses # 0 /\ m \in Msgs
      BY <1>5, <2>3, NoSagaFacts DEF PlainPosts, Plain
    <3> QED
      BY <1>3, <2>1, <3>1
  <2> QED
    BY <1>1, <2>2, <2>3 DEF PlainMoves
<1>6. ASSUME NEW k \in Launches, First(k) \in doomed'
      PROVE  (saga'.id = k /\ saga'.phase = "cancel") \/ k \in finals' \/ SessionGone(k)'
  <2>1. k \in finals => k \in finals'
    BY <1>1 DEF LaunchMoves
  <2>2. SessionGone(k) => SessionGone(k)'
    BY GoneStays
  <2>3. CASE saga.id = k /\ saga.phase = "cancel"
    <3>1. saga \in PendingSagas /\ saga # NoSaga
      BY <1>3, <2>3, NoSagaFacts
    <3>2. CASE saga' \in PendingSagas
      BY <1>1, <2>3, <3>1, <3>2 DEF LaunchMoves, PhaseMoves
    <3>3. CASE saga' = NoSaga
      <4>1. k \in finals' \/ \E p \in Runners : runner[p].pc = "archived" /\ runner[p].id = k
        BY <1>1, <2>3, <3>1, <3>3 DEF LaunchMoves
      <4>2. ASSUME NEW p \in Runners, runner[p].pc = "archived", runner[p].id = k
            PROVE  SessionGone(k)
        BY <1>2, <4>2 DEF Prompts, Cleanups, Resource, SessionGone
      <4> QED
        BY <2>2, <4>1, <4>2
    <3> QED
      BY <1>3, <3>2, <3>3
  <2>4. CASE First(k) \in Running
    <3>1. First(k) \in Known /\ where[First(k)] = k
      BY <1>2, <1>3, <2>4 DEF Prompts, Accepted
    <3>2. ~SessionGone(k)
      BY <2>4, <3>1 DEF Running
    <3>3. saga.id = k \/ k \in finals
      BY <1>2, <3>1, <3>2 DEF Prompts, Owned, InHand
    <3>4. First(k) \in Msgs /\ First(k) \notin {"send"} \X (1..MaxSends)
      BY DEF First, Msgs
    <3>5. k # 0 /\ NoSaga.id = 0
      BY NoSagaFacts
    <3>6. CallsOff \/ First(k) \in doomed
      BY <1>1, <1>6, <3>4 DEF DoomedMoves
    <3>7. CASE First(k) \in doomed
      BY <1>2, <2>1, <2>2, <2>3, <3>7 DEF NotAgain
    <3> QED
      BY <2>1, <3>3, <3>5, <3>6, <3>7 DEF CallsOff
  <2>5. CASE First(k) \in doomed
    BY <1>2, <2>1, <2>2, <2>3, <2>5 DEF NotAgain
  <2>6. CASE CallsOff /\ saga # NoSaga /\ First(k) = First(saga.id)
    BY <2>6 DEF CallsOff, First
  <2>7. First(k) \notin {"send"} \X (1..MaxSends)
    BY DEF First
  <2> QED
    BY <1>1, <1>6, <2>4, <2>5, <2>6, <2>7 DEF DoomedMoves, CallsOff
<1> QED
  BY <1>4, <1>5, <1>6 DEF NotAgain

\* A message that still runs and was posted under a binding that holds: what
\* fenced it still does.
LEMMA KeepsFenced ==
  ASSUME IInv, [Next]_vars,
         NEW m \in Msgs, m \in Running, m \in Running', where'[m] = where[m],
         m \in Plain \/ m \in seen, where[m] \in Launches, home[where[m]] = row.ws, row.ws # 0,
         Fences(m), m # First(saga.id)
  PROVE  gaveUp' \/ Fences(m)'
<1>1. IntentMoves /\ TermMoves /\ IntentEnds /\ LiveMoves
  BY IntentMovesBy, TermMovesBy, IntentEndsBy, LiveMovesBy
<1>2. /\ ~SessionGone(where[m])
      /\ intent \in {NoIntent} \cup TerminalIntents
      /\ Intended /\ Attempted /\ Tokens
  BY DEF Running, IInv, Shape, IntentShape, CalledOff, Carried
<1>3. /\ intent # NoIntent
      /\ \/ intent.action = "archive"
         \/ /\ intent.action = "stop" /\ where[m] \in intent.sessions
            /\ term # TermIdle /\ term.want.at = intent.at /\ ~term.unresolved =>
                  where[m] \in term.todo
  BY IdleFacts DEF Fences
<1>4. intent.ws = row.ws /\ <<"ws", intent.ws>> \notin gone
  <2>1. <<"ws", row.ws>> \notin gone
    BY <1>2 DEF SessionGone
  <2> QED
    BY <1>2, <1>3, <2>1 DEF Intended
<1>5. CASE intent' = NoIntent
  BY <1>1, <1>3, <1>4, <1>5 DEF IntentEnds
<1>6. ASSUME NEW new \in TerminalIntents, NewIntent(new) PROVE Fences(m)'
  <2>1. where[m] \in intent'.sessions \/ intent'.action = "archive"
    <3>1. intent' = MergedIntent(new) /\ new.ws = row.ws
      BY <1>6 DEF NewIntent
    <3>2. new.action \in {"stop", "archive"}
      BY DEF TerminalIntents
    <3> QED
      BY <1>2, <1>3, <1>4, <3>1, <3>2, Merged
  <2> QED
    BY <1>6, <2>1, NewlyFenced
<1>7. CASE intent' = intent
  <2>1. CASE intent.action = "archive"
    BY <1>7, <2>1 DEF Fences
  <2>2. CASE intent.action = "stop" /\ where[m] \in intent.sessions
    <3>1. CASE term' = term
      BY <1>3, <1>7, <2>2, <3>1 DEF Fences
    <3>2. CASE term' = TermIdle
      BY <1>7, <2>2, <3>2 DEF Fences
    <3>3. CASE TermBeginsNow(lease')
      BY <1>7, <2>2, <3>3 DEF Fences, TermBeginsNow
    <3>4. CASE /\ term \in Attempts /\ term' \in Attempts /\ term'.want = term.want
               /\ term'.unresolved = term.unresolved
               /\ \A x \in live' : where[x] \in term.todo => where[x] \in term'.todo
      <4>1. term # TermIdle
        BY <3>4, IdleFacts
      <4>2. CASE term.want.at # intent.at \/ term.unresolved
        BY <1>7, <2>2, <3>4, <4>2 DEF Fences
      <4>3. CASE term.want.at = intent.at /\ ~term.unresolved
        <5>1. where[m] \in term.todo
          BY <1>3, <2>2, <4>1, <4>3
        <5>2. term.want = intent /\ lease = NoLease
          BY <1>2, <2>2, <4>1, <4>3 DEF Attempted
        <5>3. CASE m \in live'
          BY <1>7, <2>2, <3>4, <5>1, <5>3 DEF Fences
        <5>4. CASE m \in wire' \ seen'
          <6>1. PlainMoves
            BY PlainMovesBy
          <6>2. m \in Plain /\ m \notin seen
            BY <5>4, PromptsGrowBy DEF PromptsGrow, IInv
          <6>3. m \in wire
            <7>1. CASE PlainKeeps
              BY <5>4, <6>2, <7>1 DEF PlainKeeps
            <7>2. ASSUME NEW x \in Plain, PlainPosts(x) PROVE m \in wire
              BY <1>3, <7>2 DEF PlainPosts
            <7> QED
              BY <6>1, <7>1, <7>2 DEF PlainMoves
          <6>4. row.archivedAt
            BY <1>2, <5>2, <6>2, <6>3, IdleFacts DEF Tokens, PlainWire
          <6> QED
            BY <1>2, <2>2, <6>2, <6>3, <6>4 DEF Tokens, PlainWire
        <5> QED
          BY <5>3, <5>4 DEF Running
      <4> QED
        BY <4>2, <4>3
    <3> QED
      BY <1>1, <3>1, <3>2, <3>3, <3>4 DEF TermMoves
  <2> QED
    BY <1>3, <2>1, <2>2
<1> QED
  BY <1>1, <1>5, <1>6, <1>7 DEF IntentMoves

\* Whatever called work off fences what still runs of it.
LEMMA FencesStep ==
  ASSUME IInv, [Next]_vars, ~gaveUp', NEW m \in doomed', m \in Running'
  PROVE  Fences(m)'
<1>1. /\ IntentMoves /\ LaunchMoves /\ LiveMoves /\ PlainMoves
      /\ gone \subseteq gone' /\ seen \subseteq seen'
  BY IntentMovesBy, LaunchMovesBy, LiveMovesBy, PlainMovesBy, PromptsGrowBy DEF PromptsGrow,
     IInv
<1>2. /\ Shape /\ Launched /\ Prompts /\ Prompts' /\ NotAgain /\ NotAgain' /\ Posted
      /\ Intended /\ Shape'
  BY PromptsStep, NotAgainStep, ShapeStep DEF IInv, Fenced, Carried, CalledOff
<1>3. /\ intent \in {NoIntent} \cup TerminalIntents /\ count.at \in Nat /\ count.launch \in Nat
      /\ sender \in {Idle} \cup Sends /\ where \in [Msgs -> Launch0] /\ m \in Msgs
      /\ saga \in {NoSaga} \cup PendingSagas /\ saga' \in {NoSaga} \cup PendingSagas
      /\ finals \subseteq Launches
  BY <1>2 DEF Shape, IntentShape, LaunchShape, MessageShape, RemoteShape, Counts
<1>4. m \in Known' /\ ~SessionGone(where[m])'
  BY DEF Running, Known
<1>5. CASE Stop
  <2>1. /\ CallsOff
        /\ \/ m \in Running /\ where[m] \in intent'.sessions
           \/ saga # NoSaga /\ m = First(saga.id)
    BY <1>5, StopCallsOff
  <2>2. CASE saga # NoSaga /\ m = First(saga.id)
    BY <2>1, <2>2 DEF CallsOff, Fences
  <2>3. CASE m \in Running /\ where[m] \in intent'.sessions
    <3>1. where' = where
      BY <2>1 DEF CallsOff, remote
    <3>2. intent' # NoIntent
      BY <2>3, IdleFacts
    <3>3. CASE \E new \in TerminalIntents : NewIntent(new)
      BY <2>3, <3>1, <3>3, NewlyFenced
    <3>4. CASE intent' = intent
      <4>1. intent.action = "archive" \/ row.ws = 0
        <5>1. ASSUME row.ws # 0 PROVE intent.action = "archive"
          <6>1. Cancels(1)
            BY <1>5 DEF Stop
          <6>2. PICK new \in TerminalIntents : intent' = MergedIntent(new) /\ new.at = count.at + 1
            BY <1>2, <5>1, <6>1, CancelsWrites DEF Launched, SagaBound
          <6>3. intent.at # count.at + 1
            BY <1>2, <1>3, <3>2, <3>4 DEF Intended, TerminalIntents
          <6> QED
            BY <1>3, <3>4, <6>2, <6>3, Merged
        <5> QED
          BY <5>1
      <4>2. CASE row.ws = 0
        <5>1. <<"ws", intent.ws>> \in gone /\ home[where[m]] = intent.ws
          BY <1>2, <1>3, <2>3, <3>2, <3>4, <4>2, IdleFacts DEF Intended
        <5> QED
          BY <2>3, <5>1 DEF Running, SessionGone
      <4> QED
        BY <3>4, <4>1, <4>2 DEF Fences
    <3> QED
      BY <1>1, <3>2, <3>3, <3>4 DEF IntentMoves
  <2> QED
    BY <2>1, <2>2, <2>3
<1>6. CASE Archive
  <2>1. CallsOff /\ (intent'.action = "archive" \/ (saga = NoSaga /\ row.ws = 0))
    BY <1>6, ArchiveCallsOff
  <2>2. ASSUME saga = NoSaga, row.ws = 0 PROVE FALSE
    <3>1. m \in Running
      BY <2>1 DEF CallsOff, remote, Running, SessionGone
    <3>2. m \in Known
      BY <3>1 DEF Running, Known
    <3>3. CASE m \in Plain
      BY <1>2, <2>2, <3>2, <3>3, PostedFacts DEF Posted
    <3>4. ASSUME NEW k \in Launches, m = First(k) PROVE FALSE
      <4>1. where[m] = k /\ ~SessionGone(k)
        BY <1>2, <3>1, <3>2, <3>4 DEF Prompts, Accepted, Running
      <4>2. k \in finals
        BY <1>2, <2>2, <3>2, <3>4, <4>1, NoSagaFacts DEF Prompts, Owned, InHand
      <4>3. k <= count.launch /\ home[k] = 0
        BY <1>2, <2>2, <4>2 DEF Launched, Homes
      <4> QED
        BY <1>2, <1>3, <4>3, NoSagaFacts DEF Launched, Homes, Launches
    <3> QED
      BY <1>3, <3>3, <3>4 DEF Plain, Msgs, First
  <2> QED
    BY <2>1, <2>2 DEF Fences
<1>7. ASSUME m \in doomed, gaveUp' = gaveUp PROVE Fences(m)'
  <2>1. m \in Running => Fences(m)
    BY <1>7 DEF IInv, Fenced
  <2>2. ASSUME NEW k \in Launches, m = First(k) PROVE Fences(m)'
    <3>1. where'[m] = k /\ ~SessionGone(k)'
      BY <1>2, <1>4, <2>2 DEF Prompts, Accepted
    <3>2. ~SessionGone(k)
      BY <3>1, GoneStays
    <3>3. CASE saga.id = k /\ saga.phase = "cancel"
      <4>1. k \notin finals'
        BY <1>1, <1>2, <1>3, <3>3, NoSagaFacts DEF LaunchMoves, Launched, SagaBound
      <4>2. saga'.id = k /\ saga'.phase = "cancel"
        BY <1>2, <2>2, <3>1, <4>1 DEF NotAgain
      <4> QED
        BY <2>2, <4>2 DEF Fences
    <3>4. CASE k \in finals
      <4>1. m \in seen /\ where[m] = k /\ m \in live'
        BY <1>1, <1>2, <2>2, <3>4 DEF Prompts, Accepted, Known, Running
      <4>2. m \in Running
        BY <1>1, <3>2, <4>1 DEF LiveMoves, Running
      <4>3. home[k] = row.ws /\ k <= count.launch
        BY <1>2, <3>4 DEF Launched, Homes
      <4>4. row.ws # 0
        BY <1>2, <1>3, <4>3, NoSagaFacts DEF Launched, Homes, Launches
      <4>5. m # First(saga.id)
        BY <1>2, <1>3, <2>2, <3>4, NoSagaFacts DEF Launched, SagaBound, First
      <4> QED
        BY <1>3, <2>1, <3>1, <4>1, <4>2, <4>3, <4>4, <4>5, KeepsFenced
    <3> QED
      BY <1>2, <1>7, <2>2, <3>2, <3>3, <3>4 DEF NotAgain
  <2>3. ASSUME m \in Plain PROVE Fences(m)'
    <3>1. where[m] # 0
      BY <1>2, <1>7, <2>3 DEF NotAgain
    <3>2. where[m] \in Launches /\ home[where[m]] = row.ws /\ row.ws # 0
      BY <1>2, <2>3, <3>1, PostedFacts
    <3>3. where'[m] = where[m] /\ (m \in wire' \ seen' => m \in wire \ seen)
      <4>1. CASE PlainKeeps
        BY <1>1, <2>3, <4>1 DEF PlainKeeps
      <4>2. ASSUME NEW x \in Plain, PlainPosts(x)
            PROVE  where'[m] = where[m] /\ (m \in wire' \ seen' => m \in wire \ seen)
        <5>1. x # m
          <6>1. ASSUME m = <<"send", sender.id>>, sender.pc = "target" PROVE FALSE
            <7>1. sender.id \in 1..MaxSends
              BY <1>3, <6>1, IdleFacts DEF Sends
            <7> QED
              BY <1>2, <3>1, <6>1, <7>1 DEF Posted
          <6>2. ASSUME NEW r \in Requests, m = Req(r), r \in Queued PROVE FALSE
            BY <1>2, <1>7, <6>2 DEF NotAgain
          <6> QED
            BY <4>2, <6>1, <6>2 DEF PlainPosts
        <5>2. where' = [where EXCEPT ![x] = lease'.ses] /\ wire' = wire \cup {x} /\ seen' = seen
          BY <4>2 DEF PlainPosts
        <5> QED
          BY <1>3, <5>1, <5>2
      <4> QED
        BY <1>1, <4>1, <4>2 DEF PlainMoves
    <3>4. m \in live \cup (wire \ seen)
      BY <1>1, <3>3 DEF LiveMoves, Running
    <3>5. ~SessionGone(where[m])
      <4>1. ASSUME NEW k \in Launches, k = where[m], SessionGone(k) PROVE FALSE
        <5>1. SessionGone(k)'
          BY <4>1, GoneStays
        <5>2. where'[m] = k
          BY <3>3, <4>1
        <5> QED
          BY <1>4, <5>1, <5>2 DEF SessionGone
      <4> QED
        BY <3>2, <4>1
    <3>6. m \in Running
      BY <1>3, <3>4, <3>5 DEF Running
    <3>7. m # First(saga.id)
      BY <2>3 DEF Plain, First
    <3> QED
      BY <1>3, <2>1, <2>3, <3>2, <3>3, <3>6, <3>7, KeepsFenced
  <2> QED
    BY <1>3, <2>2, <2>3 DEF Plain, Msgs, First
<1> QED
  BY <1>5, <1>6, <1>7, DoomedMovesBy DEF DoomedMoves

\* Every step keeps Fenced: what is named stays off the outbox, and is fenced
\* or over.
LEMMA FencedStep ==
  ASSUME IInv, [Next]_vars
  PROVE  Fenced'
BY NotAgainStep, FencesStep DEF Fenced

-----------------------------------------------------------------------------
(* The theorems                                                             *)

LEMMA InitIInv == Init => IInv
<1> SUFFICES ASSUME Init PROVE IInv
  OBVIOUS
<1> USE DEF Init
<1>1. LaunchShape
  BY DEF LaunchShape, Rows, Statuses, Launch0, Runners, Counts
<1>2. IntentShape /\ MessageShape /\ RemoteShape
  BY DEF IntentShape, MessageShape, RemoteShape, Launch0, Outcomes, Msgs
<1>3. fg = Idle /\ rec = Idle
  BY DEF fg, rec
<1>4. Launched
  BY <1>3, IdleFacts, NoSagaFacts DEF Launched, SagaBound, Homes, Foreground, Early, Launches
<1>5. Prompts
  <2>1. \A k \in Launches : ~InHand(k)
    BY <1>3, IdleFacts, NoSagaFacts DEF InHand, Known
  <2>2. \A p \in Runners : runner[p] = Idle
    BY DEF Runners
  <2> QED
    BY <2>1, <2>2, IdleFacts, NoSagaFacts DEF Prompts, Owned, Cleanups, Accepted, Known
<1>6. Leased
  BY DEF Leased
<1>7. OutboxAccounted
  BY DEF OutboxAccounted, Queued
<1>8. CalledOff
  BY <1>3, <1>7, IdleFacts, NoSagaFacts DEF CalledOff, Marked, Intended, Attempted, NoIntent,
     TermIdle
<1>9. Cleaned
  BY <1>3, IdleFacts, NoSagaFacts DEF Cleaned
<1>10. Carried
  BY <1>3, IdleFacts, NoSagaFacts DEF Carried, Holders, Posted, Tokens, PlainWire, Plain,
     Known, Early, Msgs, Req
<1>11. Fenced
  BY DEF Fenced, NotAgain
<1> QED
  BY <1>1, <1>2, <1>4, <1>5, <1>6, <1>8, <1>9, <1>10, <1>11 DEF IInv, Shape

\* Every step keeps the inductive invariant.
LEMMA IInvStep ==
  ASSUME IInv, [Next]_vars
  PROVE  IInv'
<1>1. Shape /\ Launched /\ Prompts /\ Leased
  BY DEF IInv
<1> QED
  BY <1>1, ShapeStep, LaunchedStep, PromptsStep, LeasedStep, CalledOffStep, CleanedStep,
     CarriedStep, FencedStep DEF IInv

\* The inductive invariant holds in every state.
LEMMA IInvHolds == Spec => []IInv
<1>1. Init => IInv
  BY InitIInv
<1>2. IInv /\ [Next]_vars => IInv'
  BY IInvStep
<1> QED
  BY <1>1, <1>2, PTL DEF Spec

\* The types the run checks are among those of the invariant.
LEMMA TypesFollow == IInv => TypeOK
<1> SUFFICES ASSUME IInv PROVE TypeOK
  OBVIOUS
<1>1. LaunchShape /\ IntentShape /\ MessageShape /\ RemoteShape
  BY DEF IInv, Shape
<1>2. /\ row.status \in Statuses /\ {row.ws, row.ses, receipt} \subseteq Launch0
      /\ saga.id \in Launch0 /\ saga.phase \in {"none"} \cup Phases
  BY <1>1, NoSagaFacts DEF LaunchShape, Rows, PendingSagas, Launch0
<1>3. /\ intent.action \in {"none", "stop", "archive"}
      /\ intent.sessions \subseteq Launch0 /\ 0 \notin intent.sessions
  BY <1>1, IdleFacts DEF IntentShape, TerminalIntents, IInv, CalledOff, Intended
<1>4. /\ lease.by \in {"none", "send", "flush", "thread", "dead"}
      /\ Queued \subseteq Requests
  BY <1>1, IdleFacts DEF MessageShape, Leases, Queued
<1>5. targets \subseteq Launches /\ notices \subseteq FinalNotices /\ wire \cup live \cup seen \subseteq Msgs
  BY <1>1 DEF IntentShape, RemoteShape
<1> QED
  BY <1>2, <1>3, <1>4, <1>5 DEF TypeOK, Statuses, Phases, Launch0

\* One message on the wire: each is of the holder of the lease, which is one.
LEMMA OneSenderFollows == IInv => OneSender
<1> SUFFICES ASSUME IInv PROVE OneSender
  OBVIOUS
<1> DEFINE plain == {m \in wire : m[1] # "first" /\ ~SessionGone(where[m])}
<1>1. plain \subseteq PlainWire
  BY DEF IInv, Shape, RemoteShape, PlainWire, Plain
<1>2. /\ \A m, n \in plain : m = n
      /\ saga # NoSaga => plain = {}
  BY <1>1 DEF IInv, Carried, Tokens
<1>3. Cardinality(plain) <= 1
  <2>1. CASE plain = {}
    BY <2>1, FS_EmptySet
  <2>2. ASSUME NEW m \in plain PROVE Cardinality(plain) <= 1
    <3>1. plain = {m}
      BY <1>2, <2>2
    <3>2. Cardinality({m}) = 1
      BY FS_Singleton
    <3> HIDE DEF plain
    <3> QED
      BY <3>1, <3>2
  <2> QED
    BY <2>1, <2>2
<1> QED
  BY <1>2, <1>3 DEF OneSender

\* What the row points at is not among what cleanup may have archived.
LEMMA BoundAliveFollows == IInv => BoundAlive
<1> SUFFICES ASSUME IInv, row.ws # 0, saga = NoSaga, ~row.archivedAt
             PROVE  ~SessionGone(row.ses)
  BY DEF BoundAlive
<1>1. row.ses \in finals /\ row.ws \in finals
  BY DEF IInv, Launched, SagaBound
<1>2. home[row.ses] = row.ws
  BY <1>1 DEF IInv, Launched, Homes
<1>3. <<"ses", row.ses>> \notin gone /\ <<"ws", row.ws>> \notin gone
  BY <1>1 DEF IInv, Cleaned
<1> QED
  BY <1>2, <1>3 DEF SessionGone

\* With the intent gone and nothing given up on, what was fenced is over.
LEMMA RestFollows == IInv => CalledOffWorkRests
<1> SUFFICES ASSUME IInv PROVE StopFences /\ NoStrayPrompt
  BY DEF CalledOffWorkRests
<1>1. StopFences
  <2> SUFFICES ASSUME intent = NoIntent, saga = NoSaga, ~gaveUp, NEW m \in doomed \cap Running
               PROVE  FALSE
    BY DEF StopFences
  <2>1. Fences(m)
    BY DEF IInv, Fenced
  <2> QED
    BY <2>1, IdleFacts, NoSagaFacts DEF Fences
<1>2. NoStrayPrompt
  <2> SUFFICES ASSUME NEW k \in Launches, First(k) \in Running
               PROVE  saga.id = k \/ k \in finals
    BY DEF NoStrayPrompt
  <2>1. First(k) \in Known /\ ~SessionGone(where[First(k)])
    BY DEF Running, Known
  <2>2. where[First(k)] = k
    BY <2>1 DEF IInv, Prompts, Accepted
  <2> QED
    BY <2>1, <2>2 DEF IInv, Prompts, Owned, InHand
<1> QED
  BY <1>1, <1>2

\* The stored rows and the processes of the Cloud saga keep their types in every
\* state the bot reaches, whatever interleaves and wherever it dies.
THEOREM SagaTypesHold == Spec => []TypeOK
BY IInvHolds, TypesFollow, PTL

\* Every request that was queued for recovery is in the outbox until the
\* transaction that takes it out has written its outcome: none is lost without
\* an answer and none is answered twice (src/store/queries.ts).
THEOREM QueuedRequestsAreAccounted == Spec => []OutboxAccounted
<1>1. IInv => OutboxAccounted
  BY DEF IInv, CalledOff
<1> QED
  BY <1>1, IInvHolds, PTL

\* The lease keeps sends, flushes and threads apart, across crashes and expiry:
\* at most one message is on its way to a session that is not archived, and none
\* while a launch is pending (beginCloudWorkLease, refreshCloudWorkLease).
THEOREM OneSendAtATime == Spec => []OneSender
BY IInvHolds, OneSenderFollows, PTL

\* Cleanup of failed and canceled launches never archives what a settled row
\* points at (restorePendingCloudLaunchBinding, cleanupPendingCloudLaunch).
THEOREM BindingStaysAlive == Spec => []BoundAlive
BY IInvHolds, BoundAliveFollows, PTL

\* Once a Stop or an Archive has been confirmed, nothing that ran under it runs
\* on or starts again, and no prompt runs for a launch that was reported as
\* failed or canceled.
THEOREM ConfirmedStopsRest == Spec => []CalledOffWorkRests
BY IInvHolds, RestFollows, PTL

=====
