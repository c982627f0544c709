----------------------------- MODULE RouterTurn -----------------------------
(***************************************************************************)
(* The natural-language router of src/cloud/router.ts: one row at a time    *)
(* asks a dedicated Conductor session which target a message is meant for.  *)
(* The module has the router's own workspace and session, which somebody    *)
(* may remove, the row's submission, and the turn that answers it.          *)
(* Row n's prompt and every text of its turn carry the number n.            *)
(***************************************************************************)
EXTENDS Naturals, Sequences, FiniteSets

CONSTANTS
  MaxRows,     \* messages to route
  MaxRouters,  \* router workspaces Conductor may come to hold
  MaxSessions, \* sessions it may come to hold in all of them
  MaxFails,    \* failures of a row after which it is blocked (5 in the code)
  MaxGone,     \* routers and sessions removed by somebody
  MaxTrouble   \* calls without an answer, refusals, restarts of the gateway

\* What an instance assumes of its constants.
RouterAssumption ==
  /\ {MaxRows, MaxRouters, MaxSessions, MaxFails} \subseteq Nat \ {0}
  /\ {MaxGone, MaxTrouble} \subseteq Nat

Rows == 1..MaxRows
Routers == 1..MaxRouters
Sessions == 1..MaxSessions

VARIABLES
  \* The gateway's durable state.
  row,       \* [state, prompted, attempted, sent, fails] of each row
  proposal,  \* what a row was decided on: [row, final] of the text, or NoText
  binding,   \* router-binding: [router, session], 0 for none
  made,      \* router-create-attempted
  opened,    \* router-session-attempted
  retired,   \* router-retired:<router>
  healed,    \* router-healed-at is less than ten minutes old
  late,      \* rows whose prompt was sent more than 120 s ago
  \* The handler: where it waits, what it called and, for a session, into which router.
  pc,
  \* Conductor.
  home,      \* the router each session lives in, 0 when it does not exist
  alive,     \* the routers that are there
  loose,     \* a creation the gateway gave up on that may still happen
  transcript,\* of each session: prompts and texts in order
  working,   \* the row each session works on, 0 when it rests
  used       \* removals and trouble so far

durable == <<row, proposal, binding, made, opened, retired, healed, late>>
conductor == <<home, alive, loose, transcript, working>>
vars == <<row, proposal, binding, made, opened, retired, healed, late, pc,
          home, alive, loose, transcript, working, used>>

NoText == [row |-> 0, final |-> FALSE]
NoBinding == [router |-> 0, session |-> 0]
Rest == [at |-> "rest", taken |-> 0, into |-> 0]

Init ==
  /\ row = [n \in Rows |-> [state |-> "queued", prompted |-> FALSE, attempted |-> FALSE,
                            sent |-> FALSE, fails |-> 0]]
  /\ proposal = [n \in Rows |-> NoText]
  /\ binding = NoBinding /\ made = FALSE /\ opened = FALSE
  /\ retired = {} /\ healed = FALSE /\ late = {}
  /\ pc = Rest
  /\ home = [s \in Sessions |-> 0] /\ alive = {} /\ loose = Rest
  /\ transcript = [s \in Sessions |-> << >>]
  /\ working = [s \in Sessions |-> 0]
  /\ used = [gone |-> 0, trouble |-> 0]

Trouble == used.trouble < MaxTrouble /\ used' = [used EXCEPT !.trouble = @ + 1]

\* The row at the head of the one lane "native-router".
Open == {n \in Rows : row[n].state = "queued"}
Current == CHOOSE n \in Open : \A m \in Open : n <= m
Here == binding.session

\* A failure that is not an API outage counts against the row.
Failed(n) ==
  LET state == IF row[n].fails + 1 >= MaxFails THEN "blocked" ELSE "queued"
  IN  [row EXCEPT ![n] = [@ EXCEPT !.state = state, !.fails = row[n].fails + 1]]
Blocked(n) == [row EXCEPT ![n].state = "blocked"]

At(p) == pc.at = p /\ Open # {}
Goto(p) == pc' = [Rest EXCEPT !.at = p]
Return == pc' = Rest

SessionsOf(r) == {s \in Sessions : home[s] = r}
Exists(s) == s # 0 /\ home[s] # 0 /\ home[s] \in alive

-----------------------------------------------------------------------------
(* The router's workspace and session. *)

\* A bound router that is gone is retired, at most once in ten minutes.
Begins ==
  /\ At("rest")
  /\ \/ /\ binding.router \in alive /\ Goto("session")
        /\ UNCHANGED <<row, binding, made, opened, retired, healed>>
     \/ /\ binding = NoBinding /\ Goto("bind")
        /\ UNCHANGED <<row, binding, made, opened, retired, healed>>
     \/ /\ binding # NoBinding /\ binding.router \notin alive /\ healed
        /\ row' = Blocked(Current) /\ Return
        /\ UNCHANGED <<binding, made, opened, retired, healed>>
     \/ /\ binding # NoBinding /\ binding.router \notin alive /\ ~healed
        /\ retired' = retired \cup {binding.router}
        /\ binding' = NoBinding /\ made' = FALSE /\ opened' = FALSE /\ healed' = TRUE
        /\ Goto("bind")
        /\ UNCHANGED row
  /\ UNCHANGED <<proposal, late, conductor, used>>

Candidates == alive \ retired

\* Mutant: a lost create answer is followed by a second creation.
MayMakeAgain == TRUE

MayMake == ~made

MayOpen == ~opened

\* createRouterSession and createWorkspace are fenced by a durable flag, set
\* before the call.
OpenSession(r) ==
  \/ /\ MayOpen
     /\ opened' = TRUE /\ pc' = [at |-> "opening", taken |-> 0, into |-> r] /\ UNCHANGED row
  \/ /\ ~MayOpen
     /\ row' = Failed(Current) /\ Return /\ UNCHANGED opened

\* bindRouter: an existing router of this bot is taken over, none is created.
Binds ==
  /\ At("bind")
  /\ \/ /\ Candidates = {} /\ MayMake
        /\ made' = TRUE /\ Goto("making")
        /\ UNCHANGED <<row, binding, opened>>
     \/ /\ Candidates = {} /\ ~MayMake
        /\ row' = Failed(Current) /\ Return
        /\ UNCHANGED <<binding, made, opened>>
     \/ /\ Cardinality(Candidates) > 1
        /\ row' = Blocked(Current) /\ Return
        /\ UNCHANGED <<binding, made, opened>>
     \/ \E r \in Candidates :
          /\ Candidates = {r}
          /\ \/ \E s \in SessionsOf(r) :
                  /\ SessionsOf(r) = {s}
                  /\ binding' = [router |-> r, session |-> s] /\ opened' = FALSE
                  /\ Goto("session") /\ UNCHANGED row
             \/ SessionsOf(r) = {} /\ OpenSession(r) /\ UNCHANGED binding
             \/ /\ Cardinality(SessionsOf(r)) > 1
                /\ row' = Blocked(Current) /\ Return /\ UNCHANGED <<binding, opened>>
          /\ UNCHANGED made
  /\ UNCHANGED <<proposal, retired, healed, late, conductor, used>>

\* Conductor makes the router with its first session, or one more session.
Made(call, s) ==
  /\ home[s] = 0 /\ transcript[s] = << >>
  /\ \A u \in 1..(s - 1) : home[u] # 0 \/ transcript[u] # << >>
  /\ \/ /\ call.at = "making"
        /\ \E r \in Routers :
             /\ r \notin alive \cup retired /\ \A q \in 1..(r - 1) : q \in alive \cup retired
             /\ alive' = alive \cup {r}
             /\ home' = [home EXCEPT ![s] = r]
     \/ /\ call.at = "opening" /\ call.into \in alive
        /\ home' = [home EXCEPT ![s] = call.into]
        /\ UNCHANGED alive

Making == {"making", "opening"}

MakeTaken ==
  /\ pc.at \in Making /\ pc.taken = 0
  /\ \E s \in Sessions : Made(pc, s) /\ pc' = [pc EXCEPT !.taken = s]
  /\ UNCHANGED <<durable, loose, transcript, working, used>>

\* The gateway timed out on a creation that was under way.
MakeTakenLate ==
  /\ loose # Rest
  /\ loose' = Rest
  /\ \E s \in Sessions : Made(loose, s)
  /\ UNCHANGED <<durable, pc, transcript, working, used>>

MakeAnswered ==
  /\ pc.at \in Making /\ pc.taken # 0
  /\ binding' = [router |-> home[pc.taken], session |-> pc.taken]
  /\ opened' = FALSE
  /\ Goto("session")
  /\ UNCHANGED <<row, proposal, made, retired, healed, late, conductor, used>>

\* A refusal clears the flag; a 429 is retried, any other one blocks the row.
MakeRefused ==
  /\ pc.at \in Making /\ pc.taken = 0
  /\ Trouble
  /\ made' = IF pc.at = "making" THEN FALSE ELSE made
  /\ opened' = IF pc.at = "opening" THEN FALSE ELSE opened
  /\ row' \in {row, Blocked(Current)}
  /\ Return
  /\ UNCHANGED <<proposal, binding, retired, healed, late, conductor>>

\* liveRouterSession: a session that is gone is replaced within its router.
LiveSession ==
  /\ At("session")
  /\ \/ /\ Exists(Here)
        /\ Goto(IF row[Current].sent THEN "status" ELSE "prompt")
        /\ UNCHANGED <<row, binding, opened>>
     \/ /\ ~Exists(Here) /\ binding.router \notin alive
        /\ Return
        /\ UNCHANGED <<row, binding, opened>>
     \/ /\ ~Exists(Here) /\ binding.router \in alive
        /\ \/ \E s \in SessionsOf(binding.router) :
                /\ SessionsOf(binding.router) = {s}
                /\ binding' = [binding EXCEPT !.session = s] /\ opened' = FALSE
                /\ Goto(IF row[Current].sent THEN "status" ELSE "prompt")
                /\ UNCHANGED row
           \/ SessionsOf(binding.router) = {} /\ OpenSession(binding.router) /\ UNCHANGED binding
           \/ /\ Cardinality(SessionsOf(binding.router)) > 1
              /\ row' = Blocked(Current) /\ Return /\ UNCHANGED <<binding, opened>>
  /\ UNCHANGED <<proposal, made, retired, healed, late, conductor, used>>

-----------------------------------------------------------------------------
(* The submission. *)

\* A prompt is written once, and never while an earlier turn runs.
Prompts ==
  /\ At("prompt")
  /\ LET n == Current IN
     \/ /\ ~row[n].prompted /\ Exists(Here) /\ working[Here] # 0
        /\ Return /\ UNCHANGED row
     \/ /\ row[n].prompted \/ (Exists(Here) /\ working[Here] = 0)
        /\ row' = [row EXCEPT ![n].prompted = TRUE]
        /\ Goto("find")
     \/ /\ ~row[n].prompted /\ ~Exists(Here)
        /\ Return /\ UNCHANGED row
  /\ UNCHANGED <<proposal, binding, made, opened, retired, healed, late, conductor, used>>

PromptAt(s, n) == {i \in DOMAIN transcript[s] : transcript[s][i].kind = "prompt" /\ transcript[s][i].row = n}

\* Mutant: a prompt whose receipt is uncertain is submitted again.
MaySubmitAgain(n) == TRUE

MaySubmit(n) == ~row[n].attempted

\* An uncertain submission is looked up, never replayed.
Finds ==
  /\ At("find")
  /\ LET n == Current IN
     \/ /\ PromptAt(Here, n) # {}
        /\ row' = [row EXCEPT ![n].sent = TRUE] /\ Return
     \/ /\ PromptAt(Here, n) = {} /\ ~MaySubmit(n)
        /\ row' = Failed(n) /\ Return
     \/ /\ PromptAt(Here, n) = {} /\ MaySubmit(n)
        /\ row' = [row EXCEPT ![n].attempted = TRUE] /\ Goto("posting")
  /\ UNCHANGED <<proposal, binding, made, opened, retired, healed, late, conductor, used>>

PostTaken ==
  /\ At("posting") /\ pc.taken = 0 /\ Exists(Here)
  /\ transcript' = [transcript EXCEPT ![Here] = Append(@, [kind |-> "prompt", row |-> Current, final |-> FALSE])]
  /\ working' = [working EXCEPT ![Here] = Current]
  /\ pc' = [pc EXCEPT !.taken = 1]
  /\ UNCHANGED <<durable, home, alive, loose, used>>

PostAnswered ==
  /\ At("posting") /\ pc.taken = 1
  /\ row' = [row EXCEPT ![Current].sent = TRUE]
  /\ Return
  /\ UNCHANGED <<proposal, binding, made, opened, retired, healed, late, conductor, used>>

PostRefused ==
  /\ At("posting") /\ pc.taken = 0
  /\ Trouble
  /\ LET n == Current IN
     \E state \in {"queued", "blocked"} :
       row' = [row EXCEPT ![n] = [@ EXCEPT !.state = state, !.attempted = FALSE]]
  /\ Return
  /\ UNCHANGED <<proposal, binding, made, opened, retired, healed, late, conductor>>

\* The session, or the router a session was to be opened in, is gone: 404.
CallGone ==
  /\ pc.taken = 0
  /\ LET n == Current IN
     \/ /\ At("posting") /\ ~Exists(Here)
        /\ row' = [row EXCEPT ![n] = [@ EXCEPT !.state = "blocked", !.attempted = FALSE]]
        /\ UNCHANGED opened
     \/ /\ At("opening") /\ pc.into \notin alive
        /\ row' = Blocked(n)
        /\ opened' = FALSE
  /\ Return
  /\ UNCHANGED <<proposal, binding, made, retired, healed, late, conductor, used>>

-----------------------------------------------------------------------------
(* The answer. *)

\* Mutant: a row waits for its answer as long as it takes.
GivesUpNever(n) == Return /\ UNCHANGED <<row, working>>

\* waitForReply: past the limit the turn is cancelled, and the row is blocked
\* once the session rests.
GivesUp(n) ==
  \/ /\ n \notin late
     /\ Return /\ UNCHANGED <<row, working>>
  \/ /\ n \in late
     /\ working' = IF Exists(Here) THEN [working EXCEPT ![Here] = 0] ELSE working
     /\ row' = Blocked(n)
     /\ Return

ReadsStatus ==
  /\ At("status")
  /\ \/ /\ Exists(Here) /\ working[Here] # 0 /\ GivesUp(Current)
     \/ /\ Exists(Here) /\ working[Here] = 0 /\ Goto("read")
        /\ UNCHANGED <<row, working>>
     \/ ~Exists(Here) /\ Return /\ UNCHANGED <<row, working>>
  /\ UNCHANGED <<proposal, binding, made, opened, retired, healed, late, home, alive, loose, transcript, used>>

Texts(s) == {i \in DOMAIN transcript[s] : transcript[s][i].kind = "text"}

\* Mutant: the last text of the session answers, whatever it followed.
AnswersAnyTurn(s, n) == IF PromptAt(s, n) = {} THEN {} ELSE Texts(s)

\* The texts after the row's own prompt.
Answers(s, n) == {i \in Texts(s) : \E p \in PromptAt(s, n) : p < i}

\* The last text after the anchor decides, whatever it says.
ReadsAnswer ==
  /\ At("read")
  /\ LET n == Current
         texts == IF Exists(Here) THEN Answers(Here, n) ELSE {}
     IN \/ /\ texts = {} /\ GivesUp(n)
           /\ UNCHANGED proposal
        \/ /\ texts # {}
           /\ LET last == transcript[Here][CHOOSE i \in texts : \A j \in texts : j <= i] IN
              /\ proposal' = [proposal EXCEPT ![n] = [row |-> last.row, final |-> last.final]]
              /\ row' = [row EXCEPT ![n].state = IF last.final THEN "done" ELSE "blocked"]
           /\ Return /\ UNCHANGED working
  /\ UNCHANGED <<binding, made, opened, retired, healed, late, home, alive, loose, transcript, used>>

-----------------------------------------------------------------------------
(* Trouble, time, and Conductor. *)

\* A call fails without an answer, or the gateway restarts: the handler starts
\* over.  A message was taken before or never will be; a creation, which takes
\* Conductor long, may still happen.
Breaks ==
  /\ pc.at # "rest"
  /\ Trouble
  /\ Return
  /\ loose' \in IF pc.at \in Making /\ pc.taken = 0 THEN {loose, pc} ELSE {loose}
  /\ UNCHANGED <<durable, home, alive, transcript, working>>

LimitPasses(n) ==
  /\ row[n].sent /\ row[n].state = "queued" /\ n \notin late
  /\ late' = late \cup {n}
  /\ UNCHANGED <<row, proposal, binding, made, opened, retired, healed, pc, conductor, used>>

HealingAges ==
  /\ healed
  /\ healed' = FALSE
  /\ UNCHANGED <<row, proposal, binding, made, opened, retired, late, pc, conductor, used>>

\* The agent says something on the way, or its answer, and rests.
Speaks(s) ==
  /\ Exists(s) /\ working[s] # 0
  /\ ~\E i \in Texts(s) : transcript[s][i].row = working[s] /\ ~transcript[s][i].final
  /\ transcript' = [transcript EXCEPT ![s] = Append(@, [kind |-> "text", row |-> working[s], final |-> FALSE])]
  /\ UNCHANGED <<durable, pc, home, alive, loose, working, used>>

Finishes(s) ==
  /\ Exists(s) /\ working[s] # 0
  /\ transcript' \in {transcript,
       [transcript EXCEPT ![s] = Append(@, [kind |-> "text", row |-> working[s], final |-> TRUE])]}
  /\ working' = [working EXCEPT ![s] = 0]
  /\ UNCHANGED <<durable, pc, home, alive, loose, used>>

Removed ==
  /\ used.gone < MaxGone
  /\ used' = [used EXCEPT !.gone = @ + 1]
  /\ \/ /\ \E r \in alive : alive' = alive \ {r}
        /\ UNCHANGED home
     \/ /\ \E s \in Sessions : home[s] # 0 /\ transcript[s] # << >> /\ home' = [home EXCEPT ![s] = 0]
        /\ UNCHANGED alive
  /\ UNCHANGED <<durable, pc, loose, transcript, working>>

Handler ==
  \/ Begins \/ Binds \/ MakeTaken \/ MakeAnswered \/ LiveSession \/ Prompts \/ Finds
  \/ PostTaken \/ PostAnswered \/ CallGone \/ ReadsStatus \/ ReadsAnswer

Next ==
  \/ Handler \/ MakeTakenLate \/ MakeRefused \/ PostRefused \/ Breaks \/ Removed \/ HealingAges
  \/ \E n \in Rows : LimitPasses(n)
  \/ \E s \in Sessions : Speaks(s) \/ Finishes(s)

\* The dispatcher runs every second and Conductor answers; the agent of a turn
\* promises nothing, but time passes.
Fairness ==
  /\ WF_vars(Handler)
  /\ \A n \in Rows : WF_vars(LimitPasses(n))

Spec == Init /\ [][Next]_vars
FairSpec == Spec /\ Fairness

-----------------------------------------------------------------------------
(* Properties. *)

TypeOK ==
  /\ row \in [Rows -> [state : {"queued", "done", "blocked"}, prompted : BOOLEAN,
                       attempted : BOOLEAN, sent : BOOLEAN, fails : 0..MaxFails]]
  /\ proposal \in [Rows -> [row : Rows \cup {0}, final : BOOLEAN]]
  /\ binding \in [router : Routers \cup {0}, session : Sessions \cup {0}]
  /\ {made, opened, healed} \subseteq BOOLEAN
  /\ retired \subseteq Routers /\ alive \subseteq Routers /\ late \subseteq Rows
  /\ loose.at \in {"rest"} \cup Making
  /\ home \in [Sessions -> Routers \cup {0}]
  /\ working \in [Sessions -> Rows \cup {0}]
  /\ pc.at \in {"rest", "bind", "making", "opening", "session", "prompt", "find", "posting", "status", "read"}

\* A target is proposed on the finished answer to the row's own message, however
\* turns are cut off, routers replaced and submissions lost before it.
OwnAnswer == \A n \in Rows : row[n].state = "done" => proposal[n] = [row |-> n, final |-> TRUE]

\* A message is put to the router at most once, in whichever session.
SubmittedOnce ==
  \A n \in Rows :
    Cardinality({m \in Sessions \X (1..(4 * MaxRows)) :
                   m[2] \in DOMAIN transcript[m[1]] /\ m[2] \in PromptAt(m[1], n)}) <= 1

\* There is never a second router workspace beside a live one, nor a second
\* session in it, even when a creation the gateway gave up on happens after all.
OneRouter ==
  /\ Cardinality(alive) <= 1
  /\ \A r \in alive : Cardinality(SessionsOf(r)) <= 1

\* Every message is routed or reported as blocked, even if no agent ever answers.
Routed == \A n \in Rows : row[n].state # "queued"
RoutesEnd == <>[]Routed
=============================================================================
