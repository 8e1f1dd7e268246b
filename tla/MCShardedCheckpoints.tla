------------------------ MODULE MCShardedCheckpoints ------------------------
(* Instances of ShardedCheckpoints.                                        *)
EXTENDS ShardedCheckpoints

CONSTANTS r0, r1

TwoRanks == {r0, r1}

=============================================================================
