----------------------------- MODULE WeightModes -----------------------------
(***************************************************************************)
(* Both publish modes side by side.  The constants of WeightSync give the  *)
(* first, engines that load shard files (--publish-mode fs); Nccl is the   *)
(* second, the engines NcclRanks refreshed by broadcast.  config is chosen *)
(* at the start, and the behaviours of the two never meet.                 *)
(***************************************************************************)
EXTENDS WeightSync

CONSTANTS
  NcclRanks, NcclBlocksPerStep, NcclCap, NcclStepOffset, NcclTotalSteps,
  NcclPublishEvery, NcclKeepLoras

VARIABLE config

Nccl == INSTANCE WeightSync WITH
  Ranks         <- NcclRanks,
  PublishMode   <- "nccl",
  BlocksPerStep <- NcclBlocksPerStep,
  Cap           <- NcclCap,
  StepOffset    <- NcclStepOffset,
  TotalSteps    <- NcclTotalSteps,
  PublishEvery  <- NcclPublishEvery,
  KeepLoras     <- NcclKeepLoras,
  FsKeepSteps   <- 0

ASSUME NcclAssumption == Nccl!SyncRanksAssumption /\ Nccl!SyncFlagsAssumption

(* What the first mode promises more than WeightSync asks for: one engine, *)
(* which nobody overtakes; and shard sets and step directories kept for as *)
(* long as the blocks of a full queue and of a publication last.           *)
OneEngine == PublishMode = "fs" /\ \A q, r \in Ranks : q = r

Enough(n) == n = 0 \/ n * BlocksPerStep >= Cap + PublishEvery * BlocksPerStep

EnoughSets == PublishEvery > 0 /\ Enough(FsKeepSteps) /\ Enough(KeepLoras)

In(c) == config = c /\ config' = c

ModesInit ==
  \/ config = "fs" /\ Init
  \/ config = "nccl" /\ Nccl!Init

ModesNext ==
  \/ In("fs") /\ Next
  \/ In("nccl") /\ Nccl!Next

ModesVars == <<vars, config>>

ModesSpec ==
  /\ ModesInit /\ [][ModesNext]_ModesVars
  /\ \A r \in Ranks : WF_ModesVars(In("fs") /\ Rollout(r))
  /\ WF_ModesVars(In("fs") /\ Trainer)
  /\ \A r \in NcclRanks : WF_ModesVars(In("nccl") /\ Nccl!Rollout(r))
  /\ WF_ModesVars(In("nccl") /\ Nccl!Trainer)

(* A block is labelled with the model it is sampled from, in both modes.   *)
LabelsServed ==
  IF config = "fs" THEN LabelIsServed ELSE Nccl!LabelIsServed

(* "No mixed versions": broadcast engines never sample from different      *)
(* models, nor from any but the announced one between publications.        *)
NoneMixed == config = "nccl" => Nccl!NoMixedVersions

(* No rank dies of a missing meta.json, a missing shard or a checksum:     *)
(* keeping one shard set more than the cap has steps is enough.            *)
NoneCrashes == IF config = "fs" THEN NoRankCrashes ELSE Nccl!NoRankCrashes

(* The block boundaries meet: no publication waits forever for an engine,  *)
(* no engine for a publication, and the run ends.                          *)
RunsEnd ==
  <>(IF config = "fs" THEN Ended /\ step = TotalSteps
                      ELSE Nccl!Ended /\ step = NcclTotalSteps)

=============================================================================
