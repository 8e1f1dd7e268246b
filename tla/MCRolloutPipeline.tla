------------------------- MODULE MCRolloutPipeline -------------------------
(***************************************************************************)
(* Instances of RolloutPipeline for TLC.  The clock and the step counter   *)
(* are bounded by the run itself: TotalSteps batches, Cap plus the         *)
(* overshoot.  No bound is added but for the names Stream may give.        *)
(***************************************************************************)
EXTENDS PipelineStream

CONSTANTS r1, r2, r3, t0, t1

OneRank    == {r1}
TwoRanks   == {r1, r2}
ThreeRanks == {r1, r2, r3}
OneTrainer  == {t0}
TwoTrainers == {t0, t1}

ThirtyIds == 1 .. 30   (* more than any run names *)

=============================================================================
