--------------------------- MODULE PipelineFlags ---------------------------
(***************************************************************************)
(* Two configurations of the pipeline side by side.  The constants give    *)
(* the first, one rollout rank and a queue as deep as --max-lag allows;    *)
(* Stale is the second, --drop-stale with the rollout ranks StaleRanks, a  *)
(* publication every second step, and an --step-offset.  config is chosen  *)
(* at the start, and the behaviours of the two never meet.                 *)
(***************************************************************************)
EXTENDS PipelineStream

CONSTANT StaleRanks

VARIABLE config

(* What the first configuration promises more than the module asks for:    *)
(* one rollout rank, and no cap above the default; as many adapters kept   *)
(* as the lag spans.                                                       *)
OneRollout ==
  /\ \A q, r \in Ranks : q = r
  /\ PublishEvery > 0 /\ MaxQueueBlocks <= MaxLag * BlocksPerStep

EnoughKept == KeepLoras = 0 \/ KeepLoras >= MaxLag + PublishEvery

Stale == INSTANCE RolloutPipeline WITH
  Ranks          <- StaleRanks,
  BlocksPerStep  <- 1,
  MaxLag         <- 1,
  MaxQueueBlocks <- 0,
  DropStale      <- TRUE,
  StepOffset     <- 1,
  TotalSteps     <- 4,
  PublishEvery   <- 2,
  KeepLoras      <- 0

In(c) == config = c /\ config' = c

FlagsInit ==
  \/ config = "one rank" /\ Init
  \/ config = "drop stale" /\ Stale!Init

FlagsNext ==
  \/ In("one rank") /\ Next
  \/ In("drop stale") /\ Stale!Next

FlagsVars == <<vars, config>>

FlagsSpec ==
  /\ FlagsInit /\ [][FlagsNext]_FlagsVars
  /\ \A r \in Ranks : WF_FlagsVars(In("one rank") /\ Rollout(r))
  /\ WF_FlagsVars(In("one rank") /\ Trainer)
  /\ \A r \in StaleRanks : WF_FlagsVars(In("drop stale") /\ Stale!Rollout(r))
  /\ WF_FlagsVars(In("drop stale") /\ Stale!Trainer)

(* The files of either configuration as the abstract stream.               *)
Either == INSTANCE BlockStream WITH
  Ranks  <- Ranks \union StaleRanks,
  flags  <- IF config = "one rank" THEN Flags
            ELSE [BlocksPerStep |-> 1, DropStale |-> TRUE,
                  StepOffset |-> 1, TotalSteps |-> 4],
  pool   <- queue \ Picked,
  batch  <- take,
  known  <- 1 .. clock \
              {name[r].t : r \in {s \in DOMAIN pc : pc[s] = "write"}},
  policy <- latest,
  ended  <- stop

(* The pipeline implements the stream: the interleaved globs, marks, reads *)
(* and deletes of the files give every update one batch of distinct,       *)
(* oldest (with --drop-stale newest) blocks, and every batch and block     *)
(* owed comes.                                                             *)
ImplementsStream == Either!Spec

(* One rollout rank: a trained block is at most MaxLag steps old, plus the *)
(* steps between two publications (rl_disagg.py, --max-lag).               *)
LagBounded == config = "one rank" => LagBound

(* Keeping one adapter more than the lag, no rank finds its own pruned.    *)
NoneCrashes == config = "one rank" => NoRankCrashes

(* Either run comes to its end: the last step is trained, STOP is written  *)
(* and every rollout rank sees it and leaves.                              *)
RunsEnd ==
  <>(IF config = "one rank" THEN Ended /\ step = TotalSteps
                            ELSE Stale!Ended /\ step = 4)

=============================================================================
