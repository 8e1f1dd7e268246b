---------------------------- MODULE MCTrainerStep ----------------------------
(* Instances of TrainerBoot and TrainerStep: a few ranks, and every batch of *)
(* small groups as the pick.                                                 *)
EXTENDS TrainerStep

AllAggs  == {"token", "seq", "prompt"}
OneAgg   == {"prompt"}
LoRA     == {FALSE}
FullOnly == {TRUE}

=============================================================================
