---------------------------- MODULE MCJudgePass ----------------------------
(* Instances of JudgePass: the first and the last request are the same     *)
(* question asked for two cases.                                           *)
EXTENDS JudgePass

CONSTANTS a, b

TwoKeys       == {a, b}
ThreeRequests == <<a, b, a>>

=============================================================================
