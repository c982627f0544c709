---------------------------- MODULE MCCloudTurn -----------------------------
(* Small instances of CloudTurn for TLC. *)
EXTENDS CloudTurn, TLC

\* A launch, and behind it one row that opens a thread; or one that sends to the first thread.
MCThreads == {1}
NoThreads == {}
=============================================================================
