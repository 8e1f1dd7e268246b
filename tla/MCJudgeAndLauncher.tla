------------------------- MODULE MCJudgeAndLauncher -------------------------
(* An instance of JudgeStages and of Launcher: two evaluations of one       *)
(* feature, and two rollout and two trainer ranks for two steps.            *)
EXTENDS JudgeAndLauncher

CONSTANTS f1, r1, r2, t0, t1

OneFeature  == {f1}
TwoRanks    == {r1, r2}
TwoTrainers == {t0, t1}

=============================================================================
