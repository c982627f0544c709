------------------------------ MODULE MCLaneDispatch ------------------------------
(* LaneDispatch alone, with two lanes that either provider may take. *)
EXTENDS LaneDispatch, TLC

TwoLanes == <<"L1", "L2">>
TwoProviders == <<"claude", "codex">>
AnyProvider == [l \in {"L1", "L2"} |-> "any"]
NoneBefore == [l \in {"L1", "L2"} |-> {}]
=============================================================================
