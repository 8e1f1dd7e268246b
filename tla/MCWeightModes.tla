--------------------------- MODULE MCWeightModes ---------------------------
(***************************************************************************)
(* An instance of WeightModes for TLC: three engines that are refreshed by *)
(* broadcast, and one that loads shard files and may fall behind by three  *)
(* blocks.  The run bounds every counter by its steps.                     *)
(***************************************************************************)
EXTENDS WeightModes, MCWeightSync

(* What the theorems about shard files suppose holds of the instance. *)
ASSUME Premises == OneEngine /\ EnoughSets

=============================================================================
