---------------------------- MODULE MCWeightSync ----------------------------
(* Instances of WeightSync.  The run bounds every counter: TotalSteps.      *)
EXTENDS WeightSync

CONSTANTS r1, r2, r3, t0, t1

OneRank     == {r1}
TwoRanks    == {r1, r2}
ThreeRanks  == {r1, r2, r3}
TwoTrainers == {t0, t1}

=============================================================================
