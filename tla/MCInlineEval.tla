---------------------------- MODULE MCInlineEval ----------------------------
(* Instances of InlineEval.  TotalSteps bounds every counter.               *)
EXTENDS InlineEval

CONSTANTS t0, t1

OneTrainer  == {t0}
TwoTrainers == {t0, t1}

=============================================================================
