-------------------------- MODULE ShardedCheckpoints --------------------------
(***************************************************************************)
(* The checkpoints of the feature-parallel SAE training of sae2m/:         *)
(* sae27b_train_sharded.py under modal_sae2m.train_online.  Every rank     *)
(* holds a slice of the features and writes its own shard file; a set is   *)
(* complete when all ranks have the shard of one step.  A launch resumes   *)
(* from the newest complete set.  TRAIN_DONE lets the merge of the shards  *)
(* begin.                                                                  *)
(*                                                                         *)
(* Between the saves the ranks move in step (every train_step is full of   *)
(* collectives); in a save each works on its own up to the barrier, and    *)
(* can be killed there.  A container that is lost takes with it what the   *)
(* volume has not committed, as if it had been killed at the commit.       *)
(*                                                                         *)
(* Abstracted: the parameters and the batches (a shard is its step and the *)
(* launch that wrote it), the position in the document stream (a gen_state *)
(* file is there, torn or missing), latest.json is written at once.        *)
(***************************************************************************)
EXTENDS Integers, FiniteSets

CONSTANTS
  Ranks, Main,   (* the ranks, and rank 0                                  *)
  TotalSteps,    (* steps                                                  *)
  SaveEvery,     (* --save-every                                           *)
  KeepCkpts,     (* --keep-ckpts, 0 = all                                  *)
  MaxLaunches,   (* bound: how often train_online is called                *)
  MaxStops,      (* bound: how often a rank is asked to stop               *)
  MaxKills       (* bound: how often the process group is killed           *)

ASSUME RanksAssumption == IsFiniteSet(Ranks) /\ Main \in Ranks
ASSUME StepsAssumption ==
  /\ TotalSteps \in Nat \ {0} /\ SaveEvery \in Nat \ {0} /\ KeepCkpts \in Nat
  /\ MaxLaunches \in Nat /\ MaxStops \in Nat /\ MaxKills \in Nat

Steps == 1 .. TotalSteps

VARIABLES
  (* the volume *)
  shards,   (* per rank, the steps of its ae_shard_step<n>.pt              *)
  writer,   (* per rank and step, the launch that wrote the file           *)
  gens,     (* per rank, the steps of its whole gen_state_step<n>.json     *)
  torn,     (* per rank, the steps of those written in half                *)
  latest,   (* the step of latest.json, 0 = there is none                  *)
  done,     (* TRAIN_DONE exists                                           *)
  (* the processes *)
  pc,       (* where main() of a rank is                                   *)
  step,     (* the loop's step, the same on all ranks                      *)
  asked,    (* the ranks whose STOP flag is set                            *)
  leaving,  (* do_stop                                                     *)
  (* bookkeeping *)
  launches, stops, kills

volume == <<shards, writer, gens, torn, latest, done>>
flags  == <<step, asked, leaving>>
bounds == <<launches, stops, kills>>
vars   == <<shards, writer, gens, torn, latest, done, pc, step, asked,
            leaving, launches, stops, kills>>

Init ==
  /\ shards = [r \in Ranks |-> {}] /\ writer = [r \in Ranks |-> [s \in Steps |-> 0]]
  /\ gens = [r \in Ranks |-> {}] /\ torn = [r \in Ranks |-> {}]
  /\ latest = 0 /\ done = FALSE
  /\ pc = [r \in Ranks |-> "off"] /\ step = 0 /\ asked = {} /\ leaving = FALSE
  /\ launches = 0 /\ stops = 0 /\ kills = 0

Off == \A r \in Ranks : pc[r] = "off"

All(l) == pc' = [r \in Ranks |-> l]
Goto(r, l) == pc' = [pc EXCEPT ![r] = l]

-----------------------------------------------------------------------------
(* The start of a launch *)

(* The steps of which every rank has its shard.                            *)
Common == {s \in Steps : \A r \in Ranks : s \in shards[r]}

(* find_common_latest_step, 0 for its None: the training starts afresh.    *)
ResumeStep ==
  IF Common = {} THEN 0 ELSE CHOOSE s \in Common : \A t \in Common : t <= s

(* train_online with resume=True refuses a finished run.  A rank whose     *)
(* gen_state of the resume step is torn raises and takes the others down;  *)
(* one that has none starts its stream at the first document again.        *)
Launch ==
  /\ Off /\ ~done /\ launches < MaxLaunches
  /\ launches' = launches + 1
  /\ step' = ResumeStep /\ asked' = {} /\ leaving' = FALSE
  /\ IF \E r \in Ranks : ResumeStep \in torn[r] THEN All("off")
     ELSE All(IF ResumeStep < TotalSteps THEN "train" ELSE "leave")
  /\ UNCHANGED <<volume, stops, kills>>

-----------------------------------------------------------------------------
(* The loop *)

(* SIGTERM, SIGUSR1 or the time budget, on one rank or on several.         *)
AskToStop(r) ==
  /\ pc[r] # "off" /\ r \notin asked /\ stops < MaxStops
  /\ asked' = asked \union {r} /\ stops' = stops + 1
  /\ UNCHANGED <<volume, pc, step, leaving, launches, kills>>

(* Mutant: no all_reduce; each rank goes by its own flag. *)
TrainMutant ==
  /\ \A r \in Ranks : pc[r] = "train"
  /\ step' = step + 1 /\ leaving' = (asked # {})
  /\ pc' = [r \in Ranks |->
              IF (step + 1) % SaveEvery = 0 \/ step + 1 >= TotalSteps
                 \/ r \in asked
              THEN "save" ELSE "train"]
  /\ UNCHANGED <<volume, asked, bounds>>

(* train_step, and the all_reduce of the flags: if one rank is to stop,    *)
(* all of them save this step.                                             *)
Train ==
  /\ \A r \in Ranks : pc[r] = "train"
  /\ step' = step + 1 /\ leaving' = (asked # {})
  /\ All(IF (step + 1) % SaveEvery = 0 \/ step + 1 >= TotalSteps \/ asked # {}
         THEN "save" ELSE "train")
  /\ UNCHANGED <<volume, asked, bounds>>

(* ShardedTrainer.save: the shard under a .tmp no glob matches, replaced.  *)
SaveShard(r) ==
  /\ pc[r] = "save"
  /\ shards' = [shards EXCEPT ![r] = @ \union {step}]
  /\ writer' = [writer EXCEPT ![r][step] = launches]
  /\ Goto(r, "prune")
  /\ UNCHANGED <<gens, torn, latest, done, flags, bounds>>

(* Mutant: one file too few. *)
NewestMutant(S) ==
  {s \in S : Cardinality({t \in S : t > s}) < KeepCkpts - 1}

(* olds[:-keep] go; a keep of 0 prunes nothing.                            *)
Newest(S) ==
  IF KeepCkpts = 0 THEN S
  ELSE {s \in S : Cardinality({t \in S : t > s}) < KeepCkpts}

PruneShards(r) ==
  /\ pc[r] = "prune"
  /\ shards' = [shards EXCEPT ![r] = Newest(@)]
  /\ Goto(r, "openGen")
  /\ UNCHANGED <<writer, gens, torn, latest, done, flags, bounds>>

(* gen_state_step<n>.json is opened for writing in place ...               *)
OpenGen(r) ==
  /\ pc[r] = "openGen"
  /\ gens' = [gens EXCEPT ![r] = @ \ {step}]
  /\ torn' = [torn EXCEPT ![r] = @ \union {step}]
  /\ Goto(r, "writeGen")
  /\ UNCHANGED <<shards, writer, latest, done, flags, bounds>>

(* Mutant: the file of the step itself goes with the old ones. *)
WriteGenMutant(r) ==
  /\ pc[r] = "writeGen"
  /\ gens' = [gens EXCEPT ![r] = @ \intersect (shards[r] \ {step})]
  /\ torn' = [torn EXCEPT ![r] = (@ \ {step}) \intersect shards[r]]
  /\ Goto(r, "barrier")
  /\ UNCHANGED <<shards, writer, latest, done, flags, bounds>>

(* ... and written, and those without a shard go.                          *)
WriteGen(r) ==
  /\ pc[r] = "writeGen"
  /\ gens' = [gens EXCEPT ![r] = (@ \union {step}) \intersect shards[r]]
  /\ torn' = [torn EXCEPT ![r] = (@ \ {step}) \intersect shards[r]]
  /\ Goto(r, "barrier")
  /\ UNCHANGED <<shards, writer, latest, done, flags, bounds>>

(* Where a rank goes on after a save. *)
AfterSave == IF leaving \/ step >= TotalSteps THEN "leave" ELSE "train"

(* Mutant: rank 0 goes on without the others. *)
BarrierMutant ==
  /\ pc[Main] = "barrier"
  /\ pc' = [r \in Ranks |-> IF r = Main THEN "latest"
                            ELSE IF pc[r] = "barrier" THEN AfterSave ELSE pc[r]]
  /\ UNCHANGED <<volume, flags, bounds>>

Barrier ==
  /\ \A r \in Ranks : pc[r] = "barrier"
  /\ pc' = [r \in Ranks |-> IF r = Main THEN "latest" ELSE AfterSave]
  /\ UNCHANGED <<volume, flags, bounds>>

WriteLatest ==
  /\ pc[Main] = "latest"
  /\ latest' = step
  /\ Goto(Main, IF step >= TotalSteps THEN "done" ELSE AfterSave)
  /\ UNCHANGED <<shards, writer, gens, torn, done, flags, bounds>>

(* saved_final: only a launch that made the last save itself says so.      *)
WriteDone ==
  /\ pc[Main] = "done"
  /\ done' = TRUE
  /\ Goto(Main, "leave")
  /\ UNCHANGED <<shards, writer, gens, torn, latest, flags, bounds>>

(* The barrier at the end of main(), and the exit.                         *)
Leave ==
  /\ \A r \in Ranks : pc[r] = "leave"
  /\ All("off")
  /\ UNCHANGED <<volume, flags, bounds>>

Save(r) == SaveShard(r) \/ PruneShards(r) \/ OpenGen(r) \/ WriteGen(r)

Together == Train \/ Barrier \/ WriteLatest \/ WriteDone \/ Leave

(* SIGKILL after the grace, a lost node, an error on any rank.             *)
Kill ==
  /\ ~Off /\ kills < MaxKills
  /\ kills' = kills + 1
  /\ All("off")
  /\ UNCHANGED <<volume, flags, launches, stops>>

Done == Off /\ (done \/ launches = MaxLaunches) /\ UNCHANGED vars

Next ==
  \/ Launch \/ Together \/ Kill \/ Done
  \/ \E r \in Ranks : Save(r) \/ AskToStop(r)

(* The processes run, and a collective all ranks have come to ends.        *)
Fairness == WF_vars(Together) /\ \A r \in Ranks : WF_vars(Save(r))

Spec == Init /\ [][Next]_vars /\ Fairness

-----------------------------------------------------------------------------
(* Properties *)

Location == {"off", "train", "save", "prune", "openGen", "writeGen",
             "barrier", "latest", "done", "leave"}

(* The values of the files and locals; the loop is left at TotalSteps.     *)
TypeOK ==
  /\ shards \in [Ranks -> SUBSET Steps] /\ writer \in [Ranks -> [Steps -> Nat]]
  /\ gens \in [Ranks -> SUBSET Steps] /\ torn \in [Ranks -> SUBSET Steps]
  /\ latest \in 0 .. TotalSteps /\ done \in BOOLEAN
  /\ pc \in [Ranks -> Location] /\ step \in 0 .. TotalSteps
  /\ asked \in SUBSET Ranks /\ leaving \in BOOLEAN
  /\ launches \in Nat /\ stops \in Nat /\ kills \in Nat

(* "Continues from the latest COMPLETE shard set": after fewer kills than  *)
(* shards kept, wherever in a save they fell, the next launch finds a set  *)
(* and it is not older than latest.json said.  (Every kill may leave a     *)
(* shard newer than the set, and the prune counts it as the newest.)       *)
Resumable ==
  Off /\ latest > 0 /\ (KeepCkpts = 0 \/ kills < KeepCkpts)
    => ResumeStep >= latest

(* What a resume loads fits together: after one kill at most, the shards   *)
(* of all ranks come from one launch, and without a kill every rank finds  *)
(* how far it had read.  (A second kill in the save of the same step may   *)
(* leave a set of which one rank's shard is of an earlier launch.)         *)
ResumeWhole ==
  Off /\ ResumeStep > 0 =>
    /\ kills < 2 => \A q, r \in Ranks :
                      writer[q][ResumeStep] = writer[r][ResumeStep]
    /\ kills = 0 => \A r \in Ranks : ResumeStep \in gens[r]

(* TRAIN_DONE: what merge finds is the last step, of every rank and of one *)
(* launch, after any number of kills and stops.                            *)
DoneIsFinal ==
  done => /\ ResumeStep = TotalSteps
          /\ \A q, r \in Ranks : writer[q][TotalSteps] = writer[r][TotalSteps]

(* A stop asked of any rank at any time, or the last step, ends a launch:  *)
(* no rank is left waiting in a collective.                                *)
LaunchEnds == ~Off ~> Off

=============================================================================
