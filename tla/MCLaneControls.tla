--------------------------- MODULE MCLaneControls ---------------------------
(* Small instances of LaneControls for TLC: a lane that runs once, and one that recurs behind it. *)
EXTENDS LaneControls

MCLanes   == {"once", "again"}
MCOneShot == {"once"}
MCNeeds   == [l \in MCLanes |-> IF l = "again" THEN {"once"} ELSE {}]
=============================================================================
