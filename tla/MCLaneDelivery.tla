------------------------------ MODULE MCLaneDelivery ------------------------------
(* LaneDelivery alone, with three providers, the author's first. *)
EXTENDS LaneDelivery, TLC

DeliveryProviders == <<"claude", "codex", "cursor">>
=============================================================================
