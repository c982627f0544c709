--------------------------- MODULE MCGatewayQueue ---------------------------
(* Small instances of GatewayQueue for TLC. *)
EXTENDS GatewayQueue, TLC

CONSTANTS p1, p2, reply

\* Both processes start alike.  Used by the runs of safety properties only.
AnyProcess == Permutations(Procs)

\* Two updates of one conversation; the handler of the first queues work for Conductor.
MCJobs   == {reply}
MCParent == reply :> 0
MCLanes  == {"chat", "work"}
MCLane   == [r \in (0 .. NumUpdates - 1) \cup MCJobs |-> IF r = reply THEN "work" ELSE "chat"]
MCKinds       == {"update", "cloud"}
MCKindOf      == [l \in MCLanes |-> IF l = "chat" THEN "update" ELSE "cloud"]
MCPriority    == [l \in MCLanes |-> 10]
MCConcurrency == [k \in MCKinds |-> 2]
=============================================================================
