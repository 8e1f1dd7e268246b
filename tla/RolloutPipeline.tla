--------------------------- MODULE RolloutPipeline ---------------------------
(***************************************************************************)
(* The block pipeline of rl/rl_disagg.py, LoRA policy: rollout ranks fill  *)
(* the file queue <work>/queue, trainer ranks drain it, and the trainer    *)
(* publishes its adapter under <work>/lora for the rollout ranks to serve. *)
(* The processes share nothing but files.  Every glob, open, os.replace    *)
(* and os.remove another process can observe is a step of its own.         *)
(*                                                                         *)
(* Abstracted: the contents of a block and of an adapter, the reward and   *)
(* the gradient, the inline-eval side job, the full-parameter policy and   *)
(* the launcher.  A glob and an rmtree are atomic here.                    *)
(***************************************************************************)
EXTENDS Integers, FiniteSets

CONSTANTS
  Ranks,           (* the rollout ranks                                    *)
  Trainers,        (* the trainer ranks                                    *)
  Main,            (* trainer rank 0, the only one that writes files       *)
  BlocksPerStep,   (* groups_per_step // rollout_block_groups              *)
  MaxLag,          (* --max-lag                                            *)
  MaxQueueBlocks,  (* --max-queue-blocks, 0 = not given                    *)
  DropStale,       (* --drop-stale                                         *)
  StepOffset,      (* --step-offset                                        *)
  TotalSteps,      (* --total-steps                                        *)
  PublishEvery,    (* --publish-every, 0 = never after the first           *)
  KeepLoras        (* --keep-loras, 0 = all                                *)

ASSUME RanksAssumption    == IsFiniteSet(Ranks) /\ Ranks # {}
ASSUME TrainersAssumption == IsFiniteSet(Trainers) /\ Main \in Trainers
ASSUME FlagsAssumption ==
  /\ BlocksPerStep \in Nat \ {0}
  /\ MaxLag \in Nat \ {0}
  /\ MaxQueueBlocks \in Nat
  /\ DropStale \in BOOLEAN
  /\ DropStale => MaxLag = 1
  /\ StepOffset \in Nat
  /\ TotalSteps \in Nat
  /\ PublishEvery \in Nat
  /\ KeepLoras \in Nat

(* "lora/latest does not exist", and the cur_step of a rank that has not   *)
(* read it yet.                                                            *)
None == -1

(* Mutant: the queue holds the lag and the step being trained. *)
CapMutant == (MaxLag + 1) * BlocksPerStep

(* max_queue_blocks as parse_args leaves it. *)
Cap == IF MaxQueueBlocks = 0 THEN MaxLag * BlocksPerStep ELSE MaxQueueBlocks

(* queue/blk_<adapter_step>_<t_ns>_<rank>.pt *)
Block == [step : Nat, t : Nat, rank : Ranks]

VARIABLES
  (* files *)
  adapters,  (* the k of every lora/step_<k> with its meta.json            *)
  latest,    (* lora/latest                                                *)
  queue,     (* the complete block files                                   *)
  inflight,  (* the ranks r whose queue/.inflight_<r> exists               *)
  stop,      (* STOP exists                                                *)
  (* rollout ranks *)
  pc,        (* where run_rollout of a rank is                             *)
  seen,      (* the number of block files depth() counted                  *)
  want,      (* the k refresh() read from latest                           *)
  cur,       (* cur_step: the adapter the rank's requests name             *)
  engine,    (* the adapter the rank's vLLM engine has loaded              *)
  name,      (* the file name of the block being written                   *)
  clock,     (* time_ns(): only its order matters                          *)
  (* trainer ranks *)
  tp,        (* where run_trainer of a rank is                             *)
  step,      (* optimizer updates made = the loop's step until the next    *)
  take,      (* the blocks rank 0 picked for the step                      *)
  stale,     (* the blocks it discards with them                           *)
  dropped    (* how many were discarded so far (rollout/blocks_dropped)    *)

files    == <<adapters, latest, queue, inflight, stop>>
rollouts == <<pc, seen, want, cur, engine, name, clock>>
trainer  == <<tp, step, take, stale, dropped>>
vars     == <<adapters, latest, queue, inflight, stop, pc, seen, want, cur,
              engine, name, clock, tp, step, take, stale, dropped>>

NoBlock == [step |-> None, t |-> 0, rank |-> None]

RolloutLocation ==
  {"wait", "bootMeta", "top", "depth", "recheck", "recheckDepth", "mark",
   "refresh", "meta", "gen", "write", "unmark", "exit", "crashed"}

TrainerLocation ==
  {"save", "flip", "prune", "pick", "load", "barrier", "delete", "train",
   "final", "idle", "done"}

Init ==
  /\ adapters = {} /\ latest = None
  /\ queue = {} /\ inflight = {} /\ stop = FALSE
  /\ pc   = [r \in Ranks |-> "wait"]
  /\ seen = [r \in Ranks |-> 0]
  /\ want = [r \in Ranks |-> None]
  /\ cur  = [r \in Ranks |-> None]
  /\ engine = [r \in Ranks |-> None]
  /\ name = [r \in Ranks |-> NoBlock]
  /\ clock = 0
  /\ tp = [i \in Trainers |-> IF i = Main THEN "save" ELSE "idle"]
  /\ step = StepOffset
  /\ take = {} /\ stale = {} /\ dropped = 0

-----------------------------------------------------------------------------
(* Rollout rank r: run_rollout *)

Goto(r, l) == pc' = [pc EXCEPT ![r] = l]

(* The wait for the first adapter, and the first line of the refresh()     *)
(* behind it.  Its poll of STOP is dead: STOP comes after the first        *)
(* publication.                                                            *)
AwaitFirst(r) ==
  /\ pc[r] = "wait" /\ latest # None
  /\ want' = [want EXCEPT ![r] = latest]
  /\ Goto(r, "bootMeta")
  /\ UNCHANGED <<files, trainer, seen, cur, engine, name, clock>>

(* refresh(), second half: meta.json of the adapter read from latest.  A   *)
(* directory pruned in between raises, and the process ends.               *)
OpenMeta(r, from, to) ==
  /\ pc[r] = from
  /\ IF want[r] \in adapters
     THEN cur' = [cur EXCEPT ![r] = want[r]] /\ Goto(r, to)
     ELSE cur' = cur /\ Goto(r, "crashed")
  /\ UNCHANGED <<files, trainer, seen, want, engine, name, clock>>

BootMeta(r)    == OpenMeta(r, "bootMeta", "top")
RefreshMeta(r) == OpenMeta(r, "meta", "gen")

(* depth() is two globs: the block files first ... *)
CountBlocks(r) == seen' = [seen EXCEPT ![r] = Cardinality(queue)]

(* Mutant: the blocks already written are not counted. *)
DepthMutant(r) == Cardinality(inflight \ {r})

(* ... then the marks of the other ranks. *)
Depth(r) == seen[r] + Cardinality(inflight \ {r})

(* The head of the main loop and every turn of the backpressure loop: poll *)
(* STOP, then start the first depth().                                     *)
Top(r) ==
  /\ pc[r] = "top"
  /\ IF stop THEN seen' = seen /\ Goto(r, "exit")
             ELSE CountBlocks(r) /\ Goto(r, "depth")
  /\ UNCHANGED <<files, trainer, want, cur, engine, name, clock>>

Backpressure(r) ==
  /\ pc[r] = "depth"
  /\ Goto(r, IF Depth(r) >= Cap THEN "top" ELSE "recheck")
  /\ UNCHANGED <<files, trainer, seen, want, cur, engine, name, clock>>

(* The second depth(), right before the mark. *)
Recheck(r) ==
  /\ pc[r] = "recheck"
  /\ CountBlocks(r) /\ Goto(r, "recheckDepth")
  /\ UNCHANGED <<files, trainer, want, cur, engine, name, clock>>

RecheckDepth(r) ==
  /\ pc[r] = "recheckDepth"
  /\ Goto(r, IF Depth(r) >= Cap THEN "top" ELSE "mark")
  /\ UNCHANGED <<files, trainer, seen, want, cur, engine, name, clock>>

(* open(inflight, "w").close() *)
Mark(r) ==
  /\ pc[r] = "mark"
  /\ inflight' = inflight \union {r}
  /\ Goto(r, "refresh")
  /\ UNCHANGED <<adapters, latest, queue, stop, trainer, seen, want, cur,
                 engine, name, clock>>

(* refresh(), first half: an unchanged latest leaves the adapter alone. *)
Refresh(r) ==
  /\ pc[r] = "refresh"
  /\ IF latest = cur[r]
     THEN want' = want /\ Goto(r, "gen")
     ELSE want' = [want EXCEPT ![r] = latest] /\ Goto(r, "meta")
  /\ UNCHANGED <<files, trainer, seen, cur, engine, name, clock>>

(* _generate_block: the requests name the adapter.  vLLM reads it from     *)
(* disk at the first that does; without its directory the call raises.     *)
CanServe(r) == cur[r] \in adapters \union {engine[r]}

(* Mutant: the block is labelled with the step that will train it. *)
GenerateMutant(r) ==
  /\ pc[r] = "gen"
  /\ clock' = clock + 1
  /\ name' = [name EXCEPT ![r] =
                [step |-> cur[r] + 1, t |-> clock + 1, rank |-> r]]
  /\ Goto(r, "write")
  /\ UNCHANGED <<files, trainer, seen, want, cur, engine>>

(* The block, and the name it will have. *)
Generate(r) ==
  /\ pc[r] = "gen"
  /\ IF CanServe(r)
     THEN /\ engine' = [engine EXCEPT ![r] = cur[r]]
          /\ clock' = clock + 1
          /\ name' = [name EXCEPT ![r] =
                        [step |-> cur[r], t |-> clock + 1, rank |-> r]]
          /\ Goto(r, "write")
     ELSE Goto(r, "crashed") /\ UNCHANGED <<engine, clock, name>>
  /\ UNCHANGED <<files, trainer, seen, want, cur>>

(* torch.save to a .tmp no glob matches, then os.replace. *)
Write(r) ==
  /\ pc[r] = "write"
  /\ queue' = queue \union {name[r]}
  /\ Goto(r, "unmark")
  /\ UNCHANGED <<adapters, latest, inflight, stop, trainer, seen, want, cur,
                 engine, name, clock>>

(* Mutant: the mark is left behind. *)
UnmarkMutant(r) ==
  /\ pc[r] = "unmark"
  /\ Goto(r, "top")
  /\ UNCHANGED <<files, trainer, seen, want, cur, engine, name, clock>>

Unmark(r) ==
  /\ pc[r] = "unmark"
  /\ inflight' = inflight \ {r}
  /\ Goto(r, "top")
  /\ UNCHANGED <<adapters, latest, queue, stop, trainer, seen, want, cur,
                 engine, name, clock>>

Rollout(r) ==
  \/ AwaitFirst(r)   \/ BootMeta(r)
  \/ Top(r)          \/ Backpressure(r)
  \/ Recheck(r)      \/ RecheckDepth(r)
  \/ Mark(r)         \/ Refresh(r)       \/ RefreshMeta(r)
  \/ Generate(r)     \/ Write(r)         \/ Unmark(r)

-----------------------------------------------------------------------------
(* Trainer ranks: run_trainer *)

(* What rank 0 does next, the other ranks waiting in the next collective. *)
MainGoto(l) == tp' = [tp EXCEPT ![Main] = l]

NextStep == IF step < TotalSteps THEN "pick" ELSE "final"

(* _publish_adapter in the order of its three effects: the directory ... *)
SaveAdapter ==
  /\ tp[Main] = "save"
  /\ adapters' = adapters \union {step}
  /\ MainGoto("flip")
  /\ UNCHANGED <<latest, queue, inflight, stop, rollouts, step, take, stale,
                 dropped>>

(* ... then latest ... *)
FlipLatest ==
  /\ tp[Main] = "flip"
  /\ latest' = step
  /\ MainGoto("prune")
  /\ UNCHANGED <<adapters, queue, inflight, stop, rollouts, step, take, stale,
                 dropped>>

(* Mutants: the slice taken from the wrong end; one directory too few kept. *)
NewestMutantEnd(S) == {k \in S : Cardinality({j \in S : j < k}) < KeepLoras}
NewestMutantLess(S) ==
  {k \in S : Cardinality({j \in S : j > k}) < KeepLoras - 1}

(* The KeepLoras newest of S; a slice [:-0] is empty, so 0 prunes nothing. *)
Newest(S) ==
  IF KeepLoras = 0 THEN S
  ELSE {k \in S : Cardinality({j \in S : j > k}) < KeepLoras}

(* ... then the old directories. *)
PruneAdapters ==
  /\ tp[Main] = "prune"
  /\ adapters' = Newest(adapters)
  /\ MainGoto(NextStep)
  /\ UNCHANGED <<latest, queue, inflight, stop, rollouts, step, take, stale,
                 dropped>>

(* The order of the sorted file names: zero-padded adapter step, then time. *)
Before(b, c) == \/ b.step < c.step
                \/ b.step = c.step /\ b.t < c.t

(* Mutants: the two ends of the sorted list exchanged. *)
IsOldestMutant(T, S) == \A b \in T, c \in S \ T : Before(c, b)
IsNewestMutant(T, S) == \A b \in T, c \in S \ T : Before(b, c)

(* T is the first (last) BlocksPerStep files of S. *)
IsOldest(T, S) == \A b \in T, c \in S \ T : Before(b, c)
IsNewest(T, S) == \A b \in T, c \in S \ T : Before(c, b)

(* Mutant: no check that BlocksPerStep files are there. *)
PickMutant ==
  /\ tp[Main] = "pick"
  /\ \E T \in SUBSET queue :
       /\ Cardinality(T) <= BlocksPerStep
       /\ IsOldest(T, queue) /\ stale' = {}
       /\ take' = T
  /\ tp' = [i \in Trainers |-> "load"]
  /\ UNCHANGED <<files, rollouts, step, dropped>>

(* _pick_blocks on rank 0, and the broadcast that hands the pick to the    *)
(* ranks waiting for it.                                                   *)
Pick ==
  /\ tp[Main] = "pick"
  /\ \E T \in SUBSET queue :
       /\ Cardinality(T) = BlocksPerStep
       /\ IF DropStale THEN IsNewest(T, queue) /\ stale' = queue \ T
                       ELSE IsOldest(T, queue) /\ stale' = {}
       /\ take' = T
  /\ tp' = [i \in Trainers |-> "load"]
  /\ UNCHANGED <<files, rollouts, step, dropped>>

(* Trainer rank i reads the picked files. *)
Load(i) ==
  /\ tp[i] = "load"
  /\ tp' = [tp EXCEPT ![i] = "barrier"]
  /\ UNCHANGED <<files, rollouts, step, take, stale, dropped>>

(* Mutant: rank 0 does not wait. *)
BarrierMutant ==
  /\ tp[Main] = "barrier"
  /\ tp' = [i \in Trainers |-> IF i = Main THEN "delete" ELSE tp[i]]
  /\ UNCHANGED <<files, rollouts, step, take, stale, dropped>>

(* dist.barrier(): no file goes before every rank has it in memory. *)
Barrier ==
  /\ \A i \in Trainers : tp[i] = "barrier"
  /\ tp' = [i \in Trainers |-> IF i = Main THEN "delete" ELSE "train"]
  /\ UNCHANGED <<files, rollouts, step, take, stale, dropped>>

DeleteBlocks ==
  /\ tp[Main] = "delete"
  /\ queue' = queue \ (take \union stale)
  /\ dropped' = dropped + Cardinality(stale)
  /\ MainGoto("train")
  /\ UNCHANGED <<adapters, latest, inflight, stop, rollouts, step, take, stale>>

Publishes(k) == PublishEvery > 0 /\ k % PublishEvery = 0

(* Reward, backward, gradient all-reduce and optimizer step of all ranks.  *)
Update ==
  /\ \A i \in Trainers : tp[i] = "train"
  /\ step' = step + 1
  /\ take' = {} /\ stale' = {}
  /\ tp' = [i \in Trainers |->
              IF i # Main THEN "idle"
              ELSE IF Publishes(step + 1) THEN "save"
              ELSE IF step + 1 < TotalSteps THEN "pick" ELSE "final"]
  /\ UNCHANGED <<files, rollouts, dropped>>

(* STOP, and the last barrier. *)
Finish ==
  /\ tp[Main] = "final"
  /\ stop' = TRUE
  /\ tp' = [i \in Trainers |-> "done"]
  /\ UNCHANGED <<adapters, latest, queue, inflight, rollouts, step, take,
                 stale, dropped>>

Trainer ==
  \/ SaveAdapter \/ FlipLatest \/ PruneAdapters
  \/ Pick \/ (\E i \in Trainers : Load(i)) \/ Barrier \/ DeleteBlocks
  \/ Update \/ Finish

-----------------------------------------------------------------------------
(* Everyone is gone: what the launcher waits for. *)
Ended ==
  /\ tp[Main] = "done"
  /\ \A r \in Ranks : pc[r] \in {"exit", "crashed"}

Done == Ended /\ UNCHANGED vars

Next == (\E r \in Ranks : Rollout(r)) \/ Trainer \/ Done

(* Every process runs on a GPU of its own and never waits for a lock: each *)
(* takes its next step eventually.                                         *)
Fairness == (\A r \in Ranks : WF_vars(Rollout(r))) /\ WF_vars(Trainer)

Spec == Init /\ [][Next]_vars /\ Fairness

-----------------------------------------------------------------------------
(* Properties *)

(* Every variable has the values the files and locals of the program can   *)
(* have: only ranks past refresh() name a block, only published steps are  *)
(* read.                                                                   *)
TypeOK ==
  /\ adapters \in SUBSET Nat /\ IsFiniteSet(adapters)
  /\ latest \in Nat \union {None}
  /\ queue \in SUBSET Block /\ IsFiniteSet(queue)
  /\ inflight \in SUBSET Ranks /\ stop \in BOOLEAN
  /\ pc \in [Ranks -> RolloutLocation] /\ seen \in [Ranks -> Nat]
  /\ want \in [Ranks -> Nat \union {None}]
  /\ cur \in [Ranks -> Nat \union {None}]
  /\ engine \in [Ranks -> Nat \union {None}]
  /\ name \in [Ranks -> Block \union {NoBlock}] /\ clock \in Nat
  /\ tp \in [Trainers -> TrainerLocation] /\ step \in Nat
  /\ take \in SUBSET Block /\ stale \in SUBSET Block /\ IsFiniteSet(stale)
  /\ dropped \in Nat

(* The ranks with a block begun and not yet in the queue. *)
Generating == {r \in Ranks : pc[r] \in {"refresh", "meta", "gen", "write"}}

(* What the backpressure really bounds: depth() and the mark are separate  *)
(* steps, so every rank but the one that filled the last slot may pass the *)
(* check on a stale count, but none passes it twice: the blocks on disk    *)
(* and under way never exceed the cap by as much as the number of ranks.   *)
(* ("so N producers cannot all overshoot": all but one can.)               *)
DepthBound ==
  Cardinality(queue) + Cardinality(Generating) <= Cap + Cardinality(Ranks) - 1

(* The batches rank 0 has removed from the queue. *)
Batches == step - StepOffset + (IF tp[Main] = "train" THEN 1 ELSE 0)

(* No block is lost and none is trained twice: what was ever named is      *)
(* being written, is in the queue, was trained in a batch of exactly       *)
(* BlocksPerStep, or was counted as dropped.                               *)
BlocksAccounted ==
  clock = Cardinality({r \in Ranks : pc[r] = "write"}) + Cardinality(queue)
          + BlocksPerStep * Batches + dropped

(* A trainer rank never opens a block rank 0 has already deleted, however  *)
(* late it loads.                                                          *)
LoadIntact == \A i \in Trainers : tp[i] = "load" => take \subseteq queue

(* The adapter latest names is on disk, whole, whenever a rank may read    *)
(* latest: it is saved before the flip and never pruned while it is named. *)
LatestLoadable == latest # None => latest \in adapters

(* A block is never labelled with a policy newer than the trainer's, nor   *)
(* with one that was not published, so the lag the trainer logs and the    *)
(* loss corrects for is never negative.                                    *)
LabelsPublished ==
  \A b \in queue \union take :
    /\ StepOffset <= b.step /\ b.step <= latest /\ latest <= step
    /\ b.step = StepOffset \/ Publishes(b.step)

(* With one rollout rank the cap bounds the off-policyness: a trained block *)
(* is at most MaxLag steps old, plus the steps between two publications.   *)
(* (With more there is no bound: a rank holds its slot while it generates, *)
(* and the others feed the trainer from the rest of the queue.)            *)
LagBound ==
  tp[Main] \in {"load", "barrier", "delete", "train"} =>
    \A b \in take : step - b.step < MaxLag + PublishEvery

(* No rank finds the adapter it is about to serve pruned under it. *)
NoRankCrashes == \A r \in Ranks : pc[r] # "crashed"

(* The run comes to its end: the last step is trained, STOP is written and *)
(* every rollout rank sees it and leaves.                                  *)
RunEnds == <>(Ended /\ step = TotalSteps)

=============================================================================
