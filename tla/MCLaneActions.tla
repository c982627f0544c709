--------------------------- MODULE MCLaneActions ----------------------------
(* Small instances of LaneActions for TLC. *)
EXTENDS LaneActions, TLC

\* The runs of a lane are interchangeable; the sites are not, for one of them takes the first lease.
RunSymmetry == Permutations(Runs)
=============================================================================
