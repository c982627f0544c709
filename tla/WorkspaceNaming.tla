--------------------------- MODULE WorkspaceNaming ---------------------------
(***************************************************************************)
(* The name of one gateway workspace, which four writers share: the owner's *)
(* rename rows and the poller's adoptTitle (src/cloud/engine.ts), the scan  *)
(* that mirrors Conductor's name (src/cloud/sync.ts), and whoever renames   *)
(* the workspace in Conductor.  The first two call Conductor and write the  *)
(* record after the answer, so their steps interleave at every await.       *)
(* Owner's names are numbered; Key is the creation key, Title the name      *)
(* Conductor gave the first thread.                                         *)
(***************************************************************************)
EXTENDS Naturals, Sequences

CONSTANTS
  MaxRenames,   \* renames the owner asks for in Telegram
  MaxOutside,   \* renames somebody makes in Conductor
  MaxTrouble,   \* calls that fail without an answer, refusals, lost edits
  TitleAttempts \* TITLE_ATTEMPTS: failures after which naming is let go

\* What an instance assumes of its constants.
NamingAssumption ==
  /\ {MaxRenames, MaxOutside, MaxTrouble} \subseteq Nat
  /\ TitleAttempts \in Nat \ {0}

Named(who) == <<who, 0>>
Owner(n) == <<"owner", n>>
Key == Named("key")
Title == Named("title")
Outside == Named("outside")
Task == Named("task")      \* what the record is called before any name is known
None == Named("none")
Names == {Key, Title, Outside, Task, None} \cup {Owner(n) : n \in 1..MaxRenames}

VARIABLES
  remote,    \* the workspace's name in Conductor
  name,      \* its name in the record
  fence,     \* workspace-titled:<id>: [by |-> "nobody" | "title" | "owner", ...]
  tries,     \* workspace-title-retry:<id>, the failures so far
  row,       \* the owner's rename being handled
  title,     \* adoptTitle: where it waits, and what it then writes
  scan,      \* the name a running scan read
  edits,     \* the topic's queued editForumTopic rows, the first may be in flight
  inFlight,  \* the first of them is being delivered
  topicName, \* what the topic is called
  asked,     \* the renames the owner asked for so far
  last,      \* the owner's last name that Conductor did not refuse
  used       \* outside renames and trouble so far

vars == <<remote, name, fence, tries, row, title, scan, edits, inFlight,
          topicName, asked, last, used>>

Nobody == [by |-> "nobody", name |-> None, repair |-> FALSE]
Titled == [by |-> "title", name |-> None, repair |-> FALSE]
Owned(n, repair) == [by |-> "owner", name |-> n, repair |-> repair]

\* A rename call: where its handler stands, the name it carries, whether
\* Conductor took it, and the fence the owner's row found.
Rest == [at |-> "rest", name |-> None, taken |-> FALSE, before |-> Nobody]

Init ==
  /\ remote = Key /\ name = Task /\ fence = Nobody /\ tries = 0
  /\ row = Rest /\ title = Rest /\ scan = None
  /\ edits = << >> /\ inFlight = FALSE /\ topicName = Task
  /\ asked = 0 /\ last = None
  /\ used = [outside |-> 0, trouble |-> 0]

Trouble == used.trouble < MaxTrouble /\ used' = [used EXCEPT !.trouble = @ + 1]

\* Mutant: an edit is dropped while another one waits or is being delivered.
QueueEditOnce(n) == IF edits = << >> THEN <<n>> ELSE edits

\* An edit of the topic replaces every edit still waiting.
QueueEdit(n) == IF inFlight THEN <<Head(edits), n>> ELSE <<n>>

\* retitle: one name for the record, Conductor's last known name and the topic.
Retitle(n) ==
  /\ name' = n
  /\ edits' = QueueEdit(n)

-----------------------------------------------------------------------------
(* The owner's rename row. *)

OwnerRenames ==
  /\ row.at = "rest" /\ asked < MaxRenames
  /\ asked' = asked + 1
  /\ row' = [Rest EXCEPT !.at = "queued", !.name = Owner(asked + 1)]
  /\ UNCHANGED <<remote, name, fence, tries, title, scan, edits, inFlight, topicName, last, used>>

\* Mutant: the owner's name is fenced only once Conductor has it.
FenceLater(n) == fence

FenceFirst(n) == Owned(n, FALSE)

\* Fenced before the call, with the name.
RenameCalls ==
  /\ row.at = "queued"
  /\ row' = [row EXCEPT !.at = "calling", !.before = fence]
  /\ fence' = FenceFirst(row.name)
  /\ UNCHANGED <<remote, name, tries, title, scan, edits, inFlight, topicName, asked, last, used>>

RenameTaken ==
  /\ row.at = "calling" /\ ~row.taken
  /\ remote' = row.name
  /\ row' = [row EXCEPT !.taken = TRUE]
  /\ UNCHANGED <<name, fence, tries, title, scan, edits, inFlight, topicName, asked, last, used>>

RenameAnswered ==
  /\ row.at = "calling" /\ row.taken
  /\ Retitle(row.name)
  /\ row' = Rest
  /\ last' = row.name
  /\ UNCHANGED <<remote, fence, tries, title, scan, inFlight, topicName, asked, used>>

\* Conductor refuses the name: whatever held it before holds it again.
RenameRefused ==
  /\ row.at = "calling" /\ ~row.taken
  /\ Trouble
  /\ fence' = row.before
  /\ row' = Rest
  /\ UNCHANGED <<remote, name, tries, title, scan, edits, inFlight, topicName, asked, last>>

\* No answer: the row is retried from the start, fence included.
RenameLost ==
  /\ row.at = "calling"
  /\ Trouble
  /\ row' = [row EXCEPT !.at = "queued", !.taken = FALSE]
  /\ UNCHANGED <<remote, name, fence, tries, title, scan, edits, inFlight, topicName, asked, last>>

-----------------------------------------------------------------------------
(* adoptTitle: the first thread's title becomes the workspace's name, once. *)

Repairing == fence.by = "owner" /\ fence.repair

TitleLooks ==
  /\ title.at = "rest" /\ fence = Nobody
  /\ title' = [Rest EXCEPT !.at = "looking"]
  /\ UNCHANGED <<remote, name, fence, tries, row, scan, edits, inFlight, topicName, asked, last, used>>

TitleRepairs ==
  /\ title.at = "rest" /\ Repairing
  /\ title' = [Rest EXCEPT !.at = "repairing", !.name = fence.name]
  /\ UNCHANGED <<remote, name, fence, tries, row, scan, edits, inFlight, topicName, asked, last, used>>

\* Named since creation: that name stands.  The creation key is replaced.
TitleSees ==
  /\ title.at = "looking"
  /\ \/ /\ fence # Nobody
        /\ title' = Rest
        /\ UNCHANGED <<name, fence, tries, edits>>
     \/ /\ fence = Nobody /\ remote # Key
        /\ fence' = Titled /\ tries' = 0 /\ title' = Rest
        /\ IF name = Task THEN Retitle(remote) ELSE UNCHANGED <<name, edits>>
     \/ /\ fence = Nobody /\ remote = Key
        /\ title' = [title EXCEPT !.at = "renaming", !.name = Title]
        /\ UNCHANGED <<name, fence, tries, edits>>
  /\ UNCHANGED <<remote, row, scan, inFlight, topicName, asked, last, used>>

TitleTaken ==
  /\ title.at \in {"renaming", "repairing"} /\ ~title.taken
  /\ remote' = title.name
  /\ title' = [title EXCEPT !.taken = TRUE]
  /\ UNCHANGED <<name, fence, tries, row, scan, edits, inFlight, topicName, asked, last, used>>

\* Mutant: the title is written over whatever the owner did meanwhile.
AdoptedBlindly ==
  /\ fence' = Titled /\ title' = Rest /\ tries' = 0
  /\ Retitle(Title)

\* The owner may have renamed while this rename was in flight: then his name is
\* put back.
Adopted ==
  \/ /\ fence.by = "owner"
     /\ fence' = Owned(fence.name, TRUE)
     /\ title' = [Rest EXCEPT !.at = "repairing", !.name = fence.name]
     /\ UNCHANGED <<name, edits, tries>>
  \/ /\ fence.by = "title"
     /\ title' = Rest /\ tries' = 0
     /\ UNCHANGED <<name, edits, fence>>
  \/ /\ fence.by = "nobody"
     /\ fence' = Titled /\ title' = Rest /\ tries' = 0
     /\ Retitle(Title)

TitleAnswered ==
  /\ title.at = "renaming" /\ title.taken
  /\ Adopted
  /\ UNCHANGED <<remote, row, scan, inFlight, topicName, asked, last, used>>

RepairAnswered ==
  /\ title.at = "repairing" /\ title.taken
  /\ fence' = Owned(title.name, FALSE)
  /\ title' = Rest /\ tries' = 0
  /\ UNCHANGED <<remote, name, row, scan, edits, inFlight, topicName, asked, last, used>>

\* Any of the calls fails: tried again later, then let go.
TitleFails ==
  /\ title.at # "rest"
  /\ Trouble
  /\ title' = Rest
  /\ IF tries + 1 < TitleAttempts
     THEN tries' = tries + 1 /\ UNCHANGED fence
     ELSE /\ tries' = 0
          /\ fence' = IF fence.by = "owner" THEN Owned(fence.name, FALSE) ELSE Titled
  /\ UNCHANGED <<remote, name, row, scan, edits, inFlight, topicName, asked, last>>

-----------------------------------------------------------------------------
(* Discovery's scan, somebody in Conductor, and the topic's edits. *)

ScanReads ==
  /\ scan = None
  /\ scan' = remote
  /\ UNCHANGED <<remote, name, fence, tries, row, title, edits, inFlight, topicName, asked, last, used>>

\* A rename made in Conductor is mirrored; the creation key never is.
ScanMirrors ==
  /\ scan # None
  /\ scan' = None
  /\ IF scan # Key /\ name # scan THEN Retitle(scan) ELSE UNCHANGED <<name, edits>>
  /\ UNCHANGED <<remote, fence, tries, row, title, inFlight, topicName, asked, last, used>>

RenamedOutside ==
  /\ used.outside < MaxOutside
  /\ used' = [used EXCEPT !.outside = @ + 1]
  /\ remote' = Outside
  /\ UNCHANGED <<name, fence, tries, row, title, scan, edits, inFlight, topicName, asked, last>>

EditStarts ==
  /\ edits # << >> /\ ~inFlight
  /\ inFlight' = TRUE
  /\ UNCHANGED <<remote, name, fence, tries, row, title, scan, edits, topicName, asked, last, used>>

EditLands ==
  /\ inFlight
  /\ topicName' = Head(edits) /\ edits' = Tail(edits) /\ inFlight' = FALSE
  /\ UNCHANGED <<remote, name, fence, tries, row, title, scan, asked, last, used>>

EditLost ==
  /\ inFlight
  /\ Trouble
  /\ inFlight' = FALSE
  /\ topicName' \in {topicName, Head(edits)}
  /\ UNCHANGED <<remote, name, fence, tries, row, title, scan, edits, asked, last>>

Next ==
  \/ OwnerRenames \/ RenameCalls \/ RenameTaken \/ RenameAnswered \/ RenameRefused \/ RenameLost
  \/ TitleLooks \/ TitleRepairs \/ TitleSees \/ TitleTaken \/ TitleAnswered \/ RepairAnswered \/ TitleFails
  \/ ScanReads \/ ScanMirrors \/ RenamedOutside
  \/ EditStarts \/ EditLands \/ EditLost

\* Rows, polls, scans and deliveries recur, and Conductor answers.
Fairness ==
  /\ WF_vars(RenameCalls \/ RenameTaken \/ RenameAnswered)
  /\ WF_vars(TitleLooks \/ TitleRepairs \/ TitleSees \/ TitleTaken \/ TitleAnswered \/ RepairAnswered)
  /\ WF_vars(ScanReads \/ ScanMirrors)
  /\ WF_vars(EditStarts \/ EditLands)

Spec == Init /\ [][Next]_vars
FairSpec == Spec /\ Fairness

-----------------------------------------------------------------------------
(* Properties. *)

CallType ==
  [at : {"rest", "queued", "calling", "looking", "renaming", "repairing"}, name : Names,
   taken : BOOLEAN, before : [by : {"nobody", "title", "owner"}, name : Names, repair : BOOLEAN]]

TypeOK ==
  /\ {remote, name, scan, topicName, last} \subseteq Names
  /\ fence \in [by : {"nobody", "title", "owner"}, name : Names, repair : BOOLEAN]
  /\ tries \in 0..(TitleAttempts - 1)
  /\ {row, title} \subseteq CallType
  /\ edits \in Seq(Names) /\ Len(edits) <= 2
  /\ inFlight => edits # << >>
  /\ asked \in 0..MaxRenames

\* Once nothing more is asked, the record, the topic and Conductor agree on one
\* name, whichever of the writers came last (engine.ts retitle, "A workspace has
\* one name").
Agreed == remote = name /\ topicName = name
OneName == <>[]Agreed

\* The last name the owner gave, and Conductor did not refuse, is the one that
\* stays in Conductor and in the record (engine.ts adoptTitle, "the owner's name
\* stands").
OwnersNameStands == <>[](last # None => remote = last /\ name = last)

\* What holds of it: one rename whose calls are all answered stands, however it
\* interleaves with the title's, the scan and the repair.
FirstStands ==
  asked = 1 /\ used.trouble = 0 /\ used.outside = 0 /\ last # None =>
    remote = last /\ name = last
FirstNameStands == <>[]FirstStands
=============================================================================
