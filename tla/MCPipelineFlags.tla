-------------------------- MODULE MCPipelineFlags --------------------------
(***************************************************************************)
(* An instance of PipelineFlags for TLC.  The clock and the step counter   *)
(* are bounded by the run itself; a bound is added only for the names the  *)
(* abstract stream may give.                                               *)
(***************************************************************************)
EXTENDS PipelineFlags

CONSTANTS r1, r2, t0

OneRank    == {r1}
TwoRanks   == {r1, r2}
OneTrainer == {t0}

ThirtyIds == 1 .. 30   (* more than either run names *)

(* What the theorems about the lag suppose holds of the instance. *)
ASSUME Premises == OneRollout /\ EnoughKept

=============================================================================
