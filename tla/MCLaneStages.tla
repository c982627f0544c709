------------------------------ MODULE MCLaneStages ------------------------------
(* LaneStages alone, with two providers. *)
EXTENDS LaneStages, TLC

StageProviders == <<"claude", "codex">>
=============================================================================
