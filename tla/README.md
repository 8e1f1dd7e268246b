# maemm: TLA+ models of the RL trainer, its judges and the SAE shard sets

maemm trains a language model to *verbalize* a direction in another model's
activation space. Most of the repository is numeric, sequential code:
supervised training, evaluation scripts, figures. Four parts are concurrent or
have to survive being killed, and this project models those:

* **the disaggregated RL trainer**, `rl/rl_disagg.py` (3,200 lines) with
  `rl/rl_fullparam.py` and the vLLM plug-in `rl/fast_lens_ext.py`. A set of
  *rollout ranks* generates text with vLLM and a set of *trainer ranks* turns it
  into optimizer steps. They are separate processes on separate GPUs that share
  no memory: what passes between them passes through files in a work directory or
  through NCCL;
* **the judge behind its training loop**, `eval/inline_extra_evals.py`: threads of
  trainer rank 0 that ask a language model about each evaluated checkpoint while
  training goes on;
* **the judge passes of the evaluation packages**, `eval/common/judge_client.py`
  and its users: paid requests through a thread pool under a cap, resumable from
  an append-only log;
* **the shard sets of the 2M-feature SAE training**,
  `sae2m/sae27b_train_sharded.py` under `sae2m/modal_sae2m.py`: checkpoints
  written rank by rank, from which killed launches resume.

Paths below are relative to `src/`; line numbers refer to `rl/rl_disagg.py`
unless another file is named.

## 1. Inventory

### 1.1 The components

| Component | State | Operations | Module |
|---|---|---|---|
| Block pipeline | `queue/blk_<step>_<t>_<rank>.pt`, `queue/.inflight_<rank>`, `lora/step_<k>/`, `lora/latest`, `STOP`; `cur_step` and the engine's adapter per rollout rank; `step`, pick and discards on trainer rank 0 | `run_rollout` (wait, backpressure, recheck, mark, refresh, generate, write), `run_trainer` (pick, broadcast, load, barrier, delete, update, publish, prune, stop) | `RolloutPipeline`, `BlockStream`, `PipelineStream`, `PipelineFlags` |
| Full-parameter weight sync | `lora/pending`, `lora/ready_<r>_<k>`, `lora/latest`, `meta.json`, `shard_<t>`; model and label of each engine | `_FullParamSync`, `_publish_fullparam`, `publish_nccl`, `write_shard_file`, `prune_fs_steps`, the `wu_*` RPCs | `WeightSync`, `WeightModes` |
| Inline evaluation | `eval_req/req_<k>.pt`, `eval_gen/<k>_<r>.pt`; `ev_job` and `ev_done` per rollout rank, `ev_ready` on the trainer; the engine's two LoRA slots | `eval_job`, `_EvalJob` (plan, step, write), `_eval_shards_ready`, `_score_eval_block`, `_write_eval_request` | `InlineEval` |
| Trainer boot | micro-batch, measured peaks, `EV` and `EX` per trainer rank | `find_micro_batch`, `find_micro_batch_fullparam`, `plan_probe_step`, `load_eval_assets`, the agreements by all-reduce | `TrainerBoot` |
| Trainer step | share of the batch, effective counts, `sync_w`, gradients | `score` and its dummies, `compute_advantages_disagg`, `loss_weights`, `update_disagg`, `_sync_grads` | `TrainerStep` |
| Launcher | the child processes and their return codes, `STOP` | `run_launch` | `Launcher` |
| Judge threads | permits (`_STAGE_SEM`), `naive_lock` and the naive descriptions, the shared executor, `_RESULTS_Q`, `pending_adv`, a deadline per thread | `prepare_extra_eval_assets`, `_broadcast_pending`, `_score_eval_block`, `launch_judge_stage`, `_judge_stage`, `_ensure_naive`, `_run_futures`, `poll_judge_results`, `wait_for_judge_stages`, the interpreter's shutdown | `JudgeStages`, `JudgeAndLauncher` |
| Judge passes | the record log, the ledger file, the stage mark; worker threads, spent and reserved | `run_requests` (copy, submit, collect, append, checkpoint), `one`, `Ledger`, `read_jsonl`, the stage functions of two of the packages that use it | `JudgePass` |
| SAE shard sets | `ae_shard_step<n>.pt` and `gen_state_step<n>.json` per rank, `latest.json`, `TRAIN_DONE`; step and stop flags | `find_common_latest_step`, the save, prune and barrier of `main`, the stop agreement, `train_online` | `ShardedCheckpoints` |
| No-positive resampling | counters per direction, a drop list on disk | `_sample_block_idx`, `NPRTracker`, `_NPRDropList` | planned |
| Checkpoints | `step_<k>/`, `optim.pt`, `final/` | the tail of `run_trainer`'s loop, `_save_fullparam_ckpt` | planned (only "final precedes STOP" is modelled, in `Launcher`) |

How they interact. The launcher spawns the ranks and otherwise reads only their
return codes. Rollout ranks produce block files, trainer ranks consume them, and
the queue's length (plus in-flight marks) is the only flow control. The trainer
publishes a policy every `--publish-every` steps: as a LoRA directory that
`latest` names, or, with `--full-param`, as weights moved into the engines at a
block boundary. Evaluations ride on both paths, since rollout ranks spend idle
time on them and trainer ranks score them at the start of a step. Trainer ranks
talk to each other only in `torch.distributed` collectives. A scored evaluation
(the end of `InlineEval`) starts a judge thread on rank 0 (the start of
`JudgeStages`); the texts that thread obtains come back into the scoring of a
later evaluation. The judge passes and the SAE training are programs of their own.

### 1.2 What is hard, and what would make each part correct

* **Pipeline.** `depth()` is two globs and the mark a third step; `refresh()`
  opens a directory that rank 0 may be pruning; rank 0 deletes files that other
  trainer ranks may be reading. Correct means: every block is trained exactly
  once or counted as dropped, in file order; the queue is bounded; a label is the
  policy that sampled the block and was published; `latest` is always loadable;
  the run ends.
* **Weight sync.** Engines wait for the trainer and the trainer for the engines,
  while either may be in the middle of a block. Correct means: no block is sampled
  from a mixture of versions, a label is the model in the engine, and no side
  waits for ever.
* **Inline evaluation.** Three parties touch a request and its shards in no fixed
  order, requests expire, adapters are pruned. Correct means: what is scored is
  whole or reported as failed, nobody opens a file that is gone, nobody works for
  an eval that is over, and the side job does not starve the training.
* **Boot and step.** Each rank decides from local data which collectives it will
  make. Correct means: ranks agree on micro-batch, evals and step-or-skip; the
  averaged gradient is that of the whole batch; nobody is left in a collective.
* **Launcher.** Ranks die between any two of its polls. Correct means: return
  code 0 is the truth, and it always returns.
* **Judge threads.** Several stages and a warm-up thread share an executor, a lock
  and two queues; each gives up at a deadline while its calls run on, and the
  process may end under them. Correct means: every launched checkpoint gets one
  entry and the texts keep their checkpoint; what a stage gave up does not hold up
  the next one; the naive arm is made once; no thread stays for ever.
* **Judge passes.** Every call costs money, and a pass may be killed between two
  appends. Correct means: nothing answered is asked again, no requester is
  recorded twice, a stage marked complete is complete, the cap is passed by no
  more than what the calls under way cost beyond their estimates.
* **SAE shard sets.** Each rank saves and prunes by itself and can be killed
  between any two files. Correct means: a relaunch finds a set, of one launch,
  not older than promised; TRAIN_DONE stands for the last complete set; a stop
  leaves no rank in a collective.

`PROJECT.json` lists each hazard at its line with the properties that watch it.

### 1.3 Components outside the models

* **RL predecessor** (`rl/rl.py`): one process per GPU, no queue.
* **Evaluation** (`eval/`): batch scripts over checkpoints. One piece with a
  protocol is planned: the checkpoint daemon (`eval_ckpt_daemon.py`).
* **SFT** (`sft/`): one training loop; the checkpoint writer of `fullft.py` is
  planned.
* **SAE training** (`sae2m/`): producer/consumer activation buffers and resumable
  chain drivers are planned; the rest is numeric.
* **Data banks, `mxf/`, Modal entry points, paper evaluations**: offline file
  builders, stateless numerics and configuration. Nothing to interleave.

## 2. Modules and the code

Every definition that models code has its lines in `PROJECT.json` under `map`.

### RolloutPipeline (LoRA policy)

Files are variables: `queue` is the set of complete block files, `inflight` the
ranks with a mark, `adapters` the step directories, `latest` and `stop` the two
flag files. Whatever another process can observe is a step of its own, so each
action is the code between two file operations. For a rollout rank they are, in
order:

| Action | Code |
|---|---|
| `AwaitFirst`, `BootMeta` | wait for `latest`, first `refresh()` |
| `Top`, `Backpressure` | poll `STOP`; the backpressure loop's `depth()`, glob by glob |
| `Recheck`, `RecheckDepth` | the second `depth()` before the mark |
| `Mark` | `open(inflight, "w")` |
| `Refresh`, `RefreshMeta` | read `latest`, open that step's `meta.json` |
| `Generate` | `_generate_block`: vLLM reads the adapter if it is not loaded |
| `Write`, `Unmark` | `os.replace` of the block, `os.remove` of the mark |

Trainer rank 0 goes through `SaveAdapter`, `FlipLatest`, `PruneAdapters`
(`_publish_adapter`), `Pick` (`_pick_blocks` and the broadcast), `Barrier`,
`DeleteBlocks`, `Update`, `Finish`; every trainer rank has its own `Load(i)`. A
`.tmp` that is then renamed is invisible to every glob in the code and is not
modelled. A missing directory raises in the code and ends the process: `crashed`.
`clock` is `time_ns()`; only the order it gives file names matters.

`BlockStream` is the abstract promise: a pool from which each update cuts one
batch of exactly `BlocksPerStep` blocks, oldest first (newest with
`--drop-stale`, discarding the rest). `PipelineStream` holds the refinement
mapping: the pool is the queue without the blocks picked for deletion, a block is
known once its file is renamed, and the policy is `latest`. `PipelineFlags` puts
two configurations beside each other: one rollout rank, given by the constants,
and `Stale`, an instance with `--drop-stale`; `Either` maps both to the stream.

### WeightSync (full-parameter policy)

`engine[r]` is the model in rank r's vLLM, `cur[r]` the label it puts on blocks;
the code keeps these apart, so does the model. In nccl mode the handshake is
`FlagPending`, `AwaitReady`, `Broadcast`, `ClearFlags` on the trainer and
`PollNccl`, `Receive`, `SeeLatest` on each rank, with `Attend` for a rank that is
asked while it sits in backpressure. In fs mode it is `WriteShard(t)`,
`SealShards` (barrier and `prune_fs_steps`) and `PollFs`, `MetaFs`, `LoadFs`. The
block queue is only a counter here: `RolloutPipeline` has the details.
`WeightModes` puts both modes beside each other: fs, given by the constants, and
the instance `Nccl`.

### InlineEval

A request and a shard are records; a shard keeps its rows and whether it failed.
`Look`, `OpenRequest`, `GenerateChunk` and `WriteShard` are `eval_job` and
`_EvalJob`; `slots` is the LRU of the engine's two LoRA slots, since an evicted
adapter has to be read again from a directory that may be gone. An eval fails
as data, in one of three ways: its adapter is gone (`OpenRequest`,
`ChunkRaises`), any other exception hits a chunk (`ChunkRaises`: generating,
decoding, an RPC), or one hits the scoring on a trainer rank (`LoadShards`, which
`Gather` brings to rank 0). The last two can hit any eval of `Faulty`, and
`faults` remembers which they did. A request that cannot be opened just now is
tried again. `CheckEvals`,
`LoadShards`, `Gather`, `RemoveShards`, `RemoveRequest` are the scoring;
`WriteRequest` files the next request. Time is abstract: a request may be overdue
(rollout side) or too old (trainer side) at any look.

### TrainerBoot and TrainerStep

`TrainerStep` extends `TrainerBoot`: the ranks that finish the boot enter the
step. A collective is one action that needs all ranks at the same point; local
work is an action of one rank. `TrainerBoot` models the probe attempt by attempt
(`Plan` is `plan_probe_step`, `Measured` is `sync_max`) and pairs the two
MIN all-reduces of the eval agreement by call order, as `torch.distributed` does.
`TrainerStep` splits the batch (`Share`), lets the filter keep any set of groups
it could keep (`KeptSets`), and goes through the parts of a step in code order
(`Program`). A gradient is represented by the coefficient each token receives, as
a fraction of integers, so that equality is exact. Whether it is a number at all
is `finite`: a backward pass may end in an inf or NaN on any rank (`Backward`), a
sum is finite only if all its parts are, and may overflow even then (`Combine`).
A step is skipped when the weights add up to nothing or the norm is not finite
(`Decide` with LoRA, each rank for itself; `Clip` with the full policy, by a norm
that is itself a collective).

### Launcher

`proc` is what `poll()` would return. The launcher first lists the living
(`ListAlive`), then reads return codes (`CheckDead`): two steps, as in the code.
`Die` strikes at any point, at most `MaxDeaths` times. `JudgeAndLauncher` puts it
beside `JudgeStages`.

### JudgeStages (`eval/inline_extra_evals.py`)

The training loop is `BroadcastPending`, `Score` or `ScoreFails`, `Launch`,
`Poll` for each evaluation and `EndWait`, `LastPoll`, `Exit` at its end. A judge
thread is `EnsureNaive` (under `naive_lock`, held until `EndNaive`),
`SubmitStage`, `Collect` for every answer `_run_futures` hands to `chain`,
`TimeOut`, `PutTexts`, `PutResult`, `Release`; the warm thread (`Warm`) does the
first part only. A call is a record of its thread, feature and kind; it is
`queued`, `running`, then `good` or `bad`, and `awaited` while some
`_run_futures` still looks for it. `naive` keeps, per feature, *which thread's
call* made the description and the texts, so that making one again is visible.
Past `LastPoll` the interpreter refuses new calls (`submit` raises) but runs all
that are queued: `Begin`, `Answer` and `Exit` are the library's behaviour.

### JudgePass (`eval/common/judge_client.py` and two of its users)

Several packages of `eval/` call `run_requests`; their stages differ in what they
ask and in what they check before the mark. The module has the shared rules, as the
steering package uses them, and those of `rollout_coherence`, which retries more,
reads back as spent what the log says, and looks again before the mark.

The log is, per requester, the sequence of its records; `torn` is a log that ends
in half a line. The main thread is `Start` (read log and ledger), `CopyAnswer`
(records owed to requesters of an answered key), `Submit`, `Collect`,
`LogRecord` (one append each), `Checkpoint`, `Return`, `GiveUp`, `Mark`; a worker
is `Take`, `Reserve` (or refused by the cap), `Reply`, `Fail`, `Raise`. A call
reserves the estimate `Est`, made from the length of its texts, and is settled at
what it really cost: any of `Costs`, less or more than the estimate, up to
`MaxCost`. `Kill` strikes anywhere, within an append too. `package` chooses between the two.

### ShardedCheckpoints (`sae2m/`)

A shard is its step and the launch that wrote it. Between saves the ranks move as
one (`train_step` is full of collectives); in a save each is on its own from the
shard through the prune and the `gen_state` file to the barrier, and `Kill` finds
them in any combination. `Launch` is `train_online` up to the resume.

## 3. Runs

Every instance is finite by itself (`TotalSteps` bounds the run); the explicit
bounds are named in the modules (`MaxLen`, `Peaks`, `MaxDeaths`, `MaxKills`,
`MaxPasses`, `MaxCost`, `Faulty`).

| Run | Instance | Shows | States |
|---|---|---|---|
| `pipeline_safety` | 2 rollout, 2 trainer ranks, lag 2, keep 1 adapter | all safety properties of the queue and the adapter directory; implements the abstract batches | 302,688 |
| `pipeline_flags` | (a) 1 rollout rank, 2 blocks per step, lag 2, 7 steps; (b) 2 rollout ranks, `--drop-stale`, publish every 2nd step, offset 1 | `BlockStream` implemented with its liveness, the run ends; in (a) the cap bounds the lag and keeping `MaxLag + 1` adapters is enough | 151,885 |
| `weight_sync` | (a) fs, 1 engine, cap 3, 4 shard sets kept; (b) nccl, 3 engines, 2 blocks per step, cap 4 | one version at a time, correct labels, no shard set vanishes under its reader, no mutual waiting | 16,969 |
| `weight_sync_fs_late` | 2 engines, fs | **violation** of `LabelIsServed` | |
| `inline_eval` | 2 rollout, 2 trainer ranks, 2 rows, an eval every step, keep 1 adapter, exceptions in the first eval | whole or failed, no error lost or made up, never repeated, no starvation | 3.3 million |
| `step_even` | 2 trainer ranks, 3 groups of 2, both policies, all aggregations, gradients that may not be finite | agreement, union gradient, nobody left behind | 717,348 |
| `boot_agreement` | one rank lacks the eval assets | **violation** of `BootEnds` | |
| `step_empty_rank` | a rank whose groups are all filtered | **violation** of `UnionGradient` | |
| `step_scoring` | ranks with unequal numbers of texts to score | **violation** of `StepEnds` | |
| `judge_and_launcher` | (a) 2 evaluations and the warm thread, 1 permit, 1 executor thread; (b) launcher, 2 + 2 ranks, up to 2 deaths | (a) entries and texts all arrive under their checkpoint, nothing orphaned, one naive arm, every thread ends; (b) truthful return code, it returns | 732,261 |
| `judge_pass` | 3 requesters of 2 requests, 2 workers, cap of 2 estimates, calls that cost less or more than theirs, 2 passes, 1 kill, both packages | nothing asked or recorded twice, honest mark, bounded overshoot and exact ledger, a pass ends | 3.3 million |
| `sae_resume` | 2 ranks, 5 steps, save every 2, keep 2, 4 launches, 2 stops, 3 kills | a relaunch finds a whole set, TRAIN_DONE is final, a launch ends | 1.6 million |

Three runs hold two configurations each (`PipelineFlags`, `WeightModes`,
`JudgeAndLauncher`): a variable (`config`, `part`) is chosen at the start and
never changes, the behaviours of the two do not meet, and each property says
which of them it is about. `pipeline_flags` and `weight_sync` do this because
their two halves ask the same questions of the same module under other flags;
`judge_and_launcher` joins two modules that share no state (the inside of rank
0's process and what surrounds all processes), so that its liveness property asks
of both whether they come to an end. Where a theorem about a composition has
premises on the constants (`OneRollout`, `EnoughKept`, `OneEngine`, `EnoughSets`),
the MC module assumes them of the run's instance, so TLC evaluates them.

Why these bounds are enough. Two producers are the least that can overshoot the
cap, two consumers the least for a delete to race a load, and keeping one
adapter makes every pruning race possible. In `inline_eval` each rank has one
chunk of one row, which lets a shard be missing, whole or failed; exceptions hit the
first eval only, so that an eval with one is in progress beside others without, and
pruning can fail those too (the theorems are about any rows, chunks and faults).
Three engines leave one behind while two are synchronised. `pipeline_flags` (a) trains well over `MaxLag` steps, so
that the oldest block reaches its greatest age and the pruning window slides.
`step_even` splits three groups over two ranks, so shares are uneven, and the
probe's candidates include a jump beyond twice the largest that fits and a peak
at, below and over the budget. Two deaths let one hit a run that another has
already broken, or its shutdown. In `judge_and_launcher` one permit lets a
checkpoint be skipped, and the warm thread and a stage contend for the lock and
the single executor thread, before and after a deadline; a feature's calls do not
meet another's, so one feature is enough, and the cache is empty, half full or
full at the start. `JudgeEvery` is 1, the code's default. In `judge_pass` two
requesters share a request (the copies), two workers meet the cap together with
calls of 1 or 3 under an estimate of 2, so that both overruns can occur at once, and a
kill may fall between the two records of one answer. `sae_resume` has one kill
more than shards kept, both sides of `Resumable`'s premise, and a last step that
is not a multiple of `SaveEvery`.

Deadlock is checked except in `StepEven`, `StepScoring` and `BootAgreement`: with
the full-parameter policy, unequal scoring or unequal assets really do stop the
ranks (findings below), and `StepEndsEven` says in which runs they do not.

Each property of a passing run has a mutant in `PROJECT.json`: a plausible bug in
the code it watches, under which TLC refutes it.

### Fairness

Every process has weak fairness on its next action. Each runs on GPUs of its own,
no process waits for a lock, and every wait in the code is a polling loop with a
sleep, so a process whose next action stays enabled takes it. (The threads of
`JudgeStages` are fair as a group: some thread that can move does. Its lock is the
one wait that is no polling loop.) A collective is
fair once all its ranks are in it. Nothing obliges a process to die
(`Launcher!Die`), be killed or stopped, or a request to become overdue. In
`JudgeStages` deadlines do pass, and *nothing* is assumed of the calls: they may
hang for ever. In `JudgePass` a call does return, since `judge_client.py` sets a
timeout on every one; nobody is obliged to start another pass or launch.

### Disagreements between code and documentation

1. **Late engine in fs mode** (1247, run `weight_sync_fs_late`).
   `_FullParamSync.initial()` takes the step in `latest` for the engine's,
   although the engine holds the policy base. A rank that comes up after the
   first update labels samples of the base with a later step.
2. **Empty rank** (761, run `step_empty_rank`). `loss_weights` clamps counts to 1
   and reuses them as all-reduce weights, so a rank without kept groups shrinks
   the gradient, and the "empty effective batch" skip is unreachable. With at
   least one kept group on every rank the promise holds
   (`UnionGradientNonEmpty`).
3. **Uneven scoring under FSDP2** (2757, run `step_scoring`). The number of
   scoring forwards is exchanged after the forwards, which are themselves
   collectives; ranks that need different numbers hang.
4. **Eval assets** (2610, run `boot_agreement`). A rank whose
   `load_eval_assets` failed skips the all-reduce in
   `prepare_extra_eval_assets`; its own agreement is paired with the others'
   first one.

Facts the models brought out that no run turns into a finding:

* With several rollout ranks `--max-lag` bounds the queue and not the
  age of a trained block: a rank holds its slot while it generates and the others
  feed the trainer meanwhile, so `LagBound` is a property of one rank.
* In fs mode no shard set is safe from pruning below
  `FsKeepSteps >= Cap/BlocksPerStep + 1`: the default of 2 suffices for
  `--max-lag 1` only.
* `--keep-ckpts 1`, the default of `train_online`: a rank that has saved and pruned
  holds the new shard only, a rank killed before its save the old one only, so no
  complete set is left and the relaunch silently starts afresh. `Resumable`
  therefore asks for fewer kills than shards kept.
* Two kills in the save of the same step can leave a set whose shards are of
  different launches; the file names do not tell. A kill inside the write of
  `gen_state` makes every relaunch raise, and a kill between the last set and
  `TRAIN_DONE` leaves a run that no launch ever marks done.
* `judge_client.py:628` says of a refused key that nothing was sent after the
  first such response; with several workers, calls already reserved are still sent.
* The judge's cap is no hard limit: `reserve` holds back an estimate (characters
  / 3.5, times 1.1, `judge_client.py:179`), and `settle` charges the actual usage
  (194), which nothing bounds by it. What holds is `OvershootBounded`: the
  overrun is that of one pool of calls at most, because every reservation counts
  what has been spent by then.
* The shared judge package forgets what was charged since the last checkpoint of
  the ledger when it is killed (`LedgerExact` needs `kills = 0`); the log, which
  has it, is read back by `rollout_coherence` only (`RecordsCovered`).
* A log that ends in half a line is never read again: a judge pass killed in an
  append needs a hand to continue.
* A judge thread's deadline (1800 s) exceeds the 900 s the trainer waits for it at
  the end. A stage still at work then finds that `chain` cannot submit, reports an
  error nobody polls any more, and its queued calls are run and paid for before
  the process may end. `NoOrphans` says that this is the only such case.
* An evaluation that errs takes along the adversarial texts that were drained for
  it (`spoilt` in `NothingLost`).

## 4. Proofs

Every invariant that a passing run checks is also a theorem, for all values of
the constants under the assumptions the modules name; TLC evaluates these on its
runs. A theorem with a premise (`ASSUME OneRollout PROVE ...`) is about a flag
combination for which alone the promise is made, and says so below. Each proof
has the same shape: an inductive invariant made of named parts, one lemma that it
holds at the start, one that a step keeps it (a step per action), and the
property as a consequence.

### RolloutPipelineProofs

Any number of ranks and every value of the flags under `RanksAssumption`,
`TrainersAssumption` and `FlagsAssumption` (finite sets of ranks, positive block
count and lag, `--drop-stale` only with lag 1, as `parse_args` has it).

| Theorem | Property | Argument |
|---|---|---|
| `TypeCorrect` | `TypeOK` (not in a run of its own) | Not inductive alone: `Refresh` needs that `latest` exists once a rank has left the wait, `Generate` that `cur` is a step, `Write` that the name is a block. `Served` adds these; `TypeInvariant` proves both. |
| `DepthBounded` | `DepthBound` | A rank between its last count and its mark is not in `Generating`, yet will produce. `Committed` counts it too, from the moment its count let it through. A rank commits on a count below the cap, so there are at most `Cap - 1` blocks then and at most all ranks committed; afterwards blocks and commitments only turn into one another. |
| `LoadsIntact` | `LoadIntact` | `PickInv`: while any trainer rank loads, rank 0 has not passed the barrier, and up to the delete the pick is in the queue. |
| `LatestAlwaysLoadable` | `LatestLoadable` | `AdapterInv`: no directory is newer than the step being published, and at the prune `latest` is that step; the newest directory is always kept (`NewestKeepsTheNewest`, for every `--keep-loras`). |
| `LabelsArePublished` | `LabelsPublished` | `LabelInv`: every place that holds a step number (requests, labels, names, files) holds one that was published and is not past `latest`, which only grows. |
| `NoBlockLost` | `BlocksAccounted` | A sum of cardinalities: it needs that no two blocks share a time (`Names`: the ones being written, the files, the pick) and that a batch has exactly `BlocksPerStep` blocks, all in the queue until they are deleted together (`BatchWhole`). |
| `PipelineImplementsBatches` | `ImplementsBatches` | Step by step: `Write` is the abstract arrival, `Pick` the cut of the oldest batch, `Update` and `FlipLatest` the update and the publication; all other actions stutter. `Stage` supplies what the abstract guards need of rank 0's place. The premise `[]Named` says that the abstract stream has a name for each block: `Ids` is the bound that TLC needs there and no bound of the code; `BatchesForEver` does without (`Nat \subseteq Ids`). |
| `NoneTrainedTwice` | an action property | From the refinement: a block enters the queue under a name none had before, and a batch takes its blocks from those that wait. |
| `LagIsBounded`, `LagStaysBounded` | `LagBounded` | With one rollout rank (`OneRollout`) and no `--max-queue-blocks` beyond the default. See below. |
| `NoAdapterMissing`, `NoneEverCrashes` | `NoneCrashes` | With `EnoughKept` in addition (`--keep-loras` at least the lag and a publication interval). `Kept`: what a rank is about to read is on disk, because a directory is pruned only when that many newer ones are there. |

The lag is the proof with an idea in it. A block's age is counted in updates, the
cap in blocks. `InLimit` adds them up: age times `BlocksPerStep` plus the blocks
ahead of it stays under a limit, for every block on disk and, with the whole
queue ahead, for a rank that has read a step number and not written yet. A cut
adds `BlocksPerStep` to the age and takes as many from those ahead; that it does
needs the queue to be in the order of labels (`Sorted`), which is false with two
rollout ranks. `Fresh` bounds what `latest` lags behind the update count, by
remainders of `PublishEvery`. The second of each pair of names is the same
invariant under `FlagsSpec`, the specification that the run checks.

### WeightSyncProofs

Any number of engines and trainer ranks, in both modes (`ModesSpec`).

| Theorem | Property | |
|---|---|---|
| `TypeCorrect` | | both modes |
| `VersionsNeverMix` | `NoneMixed` | nccl |
| `LabelsAreServed` | `LabelsServed` | nccl, and fs with `OneEngine` |
| `EnginesLive` | `NoneCrashes` | nccl, and fs with `OneEngine` and `EnoughSets` |
| `EnginesGoForward`, `EngineLoadsForward` | an action property | as above: an engine's weights change only to a newer policy, and only at a block boundary (`Behind`) |

For nccl the invariant is `NcclTypes /\ Answers /\ Order /\ Handshake`. `Answers`:
one publication at a time, and the ready files are answers to it. `Order`: how
`step`, the broadcast and `latest` follow each other along the trainer's
program. `Handshake` says of each engine that it is in one of three places: not
up (`Starting`), at work with the policy of `latest` while the trainer is not
swapping (`Working`), or held in the swap until `latest` names what it received
(`Held`). Mixed versions would need one engine at work and another in a swap.

For fs, labels are right because a single engine is up before the first update
(`Upfront`: there is no block to train on until it has written one); with two this
is false, which is `weight_sync_fs_late`. That it never finds a set gone is the
argument of the lag again, without an order of blocks: since the rank saw `k` in
`latest`, the updates took no more blocks than were in the queue, so `Reach(k)`,
the blocks of the updates since `k` and those left, is bounded; as many steps kept as that
takes (`EnoughSets`) keep `k`. This shows at once which `--fs-keep-steps` is
safe, and that the default is not beyond `--max-lag 1`.

### InlineEvalProofs

Any rollout and trainer ranks, rows, chunks and flags. The invariant `EvalInv` =
`EvalTypes /\ JobInv /\ ShardInv /\ ScoreInv /\ FailInv`: a job accounts for all
rows of its rank until it fails (`JobInv`); a shard is whole or failed, and of a
rank that will not work on the checkpoint again (`ShardInv`); all ranks are done
with a scored checkpoint, and the shards of the eval in hand stay until its score
(`ScoreInv`); an error stands for an adapter that is gone and never comes back, or for an
exception on record (`FailInv`). The converse needs one more part, `FaultInv`: an
exception that was raised is with the job, then in its shard, or with the trainer
ranks that score, until the outcome has it.

| Theorem | Property |
|---|---|
| `ScoredWhole` | `EvalComplete` |
| `NothingTwice` | `NoWorkRepeated` |
| `ShardsStayIntact` | `ShardsIntact` |
| `EveryErrorAccounted` | `ErrorsAccounted` |
| `ScoredOnce` | no checkpoint gets two scores (`HandInv`), though a request outlives its shards |
| `KeptAllScored` | with `--keep-loras 0` an eval that no exception hit is scored with all its rows (`KeepInv`) |

### TrainerStepProofs

`Spec` of `TrainerStep`, which contains the boot: any number of ranks, any batch,
group size, filter, lengths and peaks.

| Theorem | Property | Argument |
|---|---|---|
| `MicroBatchAlwaysFits` | `MicroBatchFits` | `ProbeInv`: the ranks have tried the same micro-batches (`SameTries`), and one that has chosen holds one whose *largest* peak fits (`MeasuredIsLargest`: what `sync_max` is for). |
| `EvalsAlwaysAgree` | `EvalsAgree` | `EvalInv`: a rank that skips `prepare_extra_eval_assets` brings FALSE into the reduction its first call is paired with, so the others cannot keep the extra evals. |
| `OneDecisionOnly` | `OneDecision` | `DecideInv`: from the part where the ranks share the gradient on (`Settled`), its sum of weights and whether it is finite are the same on all of them; before that, one rank's inf is nobody else's business. |
| `SharesPartition` | | `np.array_split` gives every group to exactly one rank: the first index of a share is the end of the share before (`SharesAbut`), by the arithmetic of quotient and remainder. |
| `GradientIsUnion` | `UnionGradientNonEmpty` | `GradInv`: no sum is taken before all ranks have weighed, and the sum is that of the weights of the shares. With a kept group in each share the clamps to 1 of `loss_weights` have no effect, so a rank's factor times its weight is the same for all ranks, and the total is that of the whole batch, because the sum over a partition is the sum of the sums (`SumLemmas`, `SharesPartition`). |

### JudgePassProofs

Any requests, workers, cap, passes and kills, both packages. The invariant `JInv`
is `Typed /\ Unanswered /\ NoDuplicates /\ WrittenDown /\ StageHonest`: a key whose
call is not yet being written down has no answer in the log, and of the one that
is, the requesters still owed the record have none; every key without a task is
answered for each requester. `LogRecord` is the step that needs all of it.

`Money`, for the three about the ledger, has these parts. `UnderLimit`: `reserved`
is the sum of what the calls under way, or ended by an uncaught exception, hold
(`HeldUp`), and the ledger stays within the limit even if each of these calls overruns its estimate (`Risk`); a
reservation is made below the cap, and no more calls are under way than there are
workers (`PoolHolds`). `Covered`: in
`rollout_coherence`, `spent` is at least the sum of what each key weighs, its
record in the log or else the last reply (`Weight`), so that a killed pass that
reads the log back loses nothing. `OneRecord`: a key that is being written down
has no other answer. `LedgerExact` is inductive with these. The log's total, a sum
over records of distinct keys, is `Weight` restricted to the answered ones
(`AnswersTell`).

| Theorem | Property |
|---|---|
| `NeverAskedTwice` | `AnsweredOnce` |
| `NeverRecordedTwice` | `NoDuplicates` |
| `MarkedIsComplete` | `StageHonest` |
| `OvershootIsBounded` | `OvershootBounded` |
| `LedgerStaysExact` | `LedgerExact` |
| `RecordsArePaid` | `RecordsCovered` |

### ShardedCheckpointsProofs

Any ranks, `--save-every`, `--keep-ckpts`, launches, stops and kills. The
invariant is `TypeOK /\ Lockstep /\ OneLaunch /\ Final /\ Anchored`. `Lockstep`
says where the ranks can be together. `Anchored` is the heart: there is a step `c`
not older than `latest` whose set is complete, and no rank has more shards newer
than `c` than there were kills, plus the one being saved. A prune counts the newer
ones first, so with fewer kills than shards kept it spares the anchor
(cardinalities of finite sets of steps).

| Theorem | Property | |
|---|---|---|
| `CompleteSetSurvives` | `Resumable` | from `Anchored` |
| `ResumeFitsTogether` | `ResumeWhole` | from `OneLaunch` and `Anchored` |
| `DoneMeansFinal` | `DoneIsFinal` | from `Final` |
| `TypeCorrect` | | |

### JudgeAndLauncherProofs

The judge for any features, evaluations, permits and executor threads; the
launcher for any ranks, steps and deaths (`RunAssumption`).

`SInv`, for the calls: what is awaited is awaited by a thread inside
`_run_futures` (`Waiting`), what concerns the naive arm by the holder of the lock
(`Held`) and for something still missing (`Missing`); a call is in one place
(`Apart`) and in none before its thread, or the call it follows, submits it
(`Fresh`); what is queued and not awaited belongs to a thread that raised at the
shutdown (`Left`). `NInv`, for the entries and texts: which evaluations are owed
an entry (`Owed`), that the entry and the place of the stage's thread tell the same
(`Told`), and that the texts are in exactly one place from the moment they are
handed over (`Placed`). `LInv`, for the launcher: a process that is gone stays gone,
so the list of the living errs on one side only; no trainer rank leaves the last
barrier before rank 0 saved.

| Theorem | Property | |
|---|---|---|
| `NaiveArmIsFixed` | `NaiveArmFixed` | an action property: `Collect` alone changes the arm, and by `Missing` only fills it |
| `NothingOrphaned` | `NoOrphans` | from `Left` |
| `AllArrives` | `NothingLost` | from `NInv` |
| `ZeroIsSuccess` | `SuccessIsReal` | from `LInv` |
| `PartsAreSound` | all four | under `PartsSpec`, the specification that the run checks |

### SumLemmas

What the proofs above need of `Min`, `Max` and `MapThenSumSet`: that a non-empty
finite set has a largest number, that the recursive function behind the sum
exists, that the sum does not depend on the order of the elements, what it becomes
when one value changes, and the sum over a disjoint union. The library states
induction with an operator as parameter, which the provers cannot
instantiate; here each fact is instead shown by the least cardinality for which it
would fail, from the well-foundedness of the numbers.

### Only model-checked

* Liveness (`RunsEnd`, `RunEnds`, `StepEndsEven`, `PartsEnd`, `PassEnds`,
  `LaunchEnds`), since fairness and ENABLED are outside the prover's fragment.
* `ImplementsStream`, which is `ImplementsBatches` with liveness under
  `FlagsSpec`. Its safety part is proved of `RolloutPipeline!Spec`, for every value
  of the flags (`PipelineImplementsBatches`), and not stated again for the
  composition.


## 5. Limits of the models

* A glob, a directory removal and a small file's read or write are atomic. The
  code's renames make this true of blocks, shards and flags; a directory that is
  read while `rmtree` is in it would raise like a missing one.
* All timeouts of the weight sync are fatal in the code and left out. In the
  evaluation, where they are not, they may happen at any time.
* Rewards, losses, texts, tensors and layout translation are data without
  control; only what the properties tell apart is kept.
* Out-of-memory errors in the probe end a run by design and are left out.
* The death of a rank is modelled in `Launcher` only, as the launcher takes
  the whole run down and a new run clears the work directory. A SIGTERM to the
  launcher itself is not handled by the code and not modelled.
* An explicit `--max-queue-blocks` below one batch stops the run at once, and
  fewer groups than trainer ranks crashes one (`my_groups[0]`, 2734). Both are
  configuration errors: the safety theorems cover the first, the liveness runs
  exclude both.
* A judge thread hands the executor its calls in one step, and a feature has one
  scoring call where the code has dozens; a permit leaked by a thread that cannot
  be started, and the files of the judge stages, are left out.
* In the SAE training a launch's files are on the volume once written; a lost
  commit is a kill at that point. The wandb run and `overwrite=True` are left out.

## 6. Not modelled

The other numeric and offline code (listed with its reason in `PROJECT.json`):
`rl/rl.py`, the eval suites, SFT, data banks, `mxf/`, Modal entry points and the
paper evaluations, which make up most of the repository's lines. They are
single-process batch programs without shared state, retries or recovery beyond
"rerun it"; what can be wrong in them is arithmetic on tensors.

## 7. Plan

Done, in this order: the pipeline and its abstract stream, the pipeline's proofs,
weight sync, inline evaluation, the trainer step, the launcher, the trainer boot;
then the judge passes and the SAE shard sets with their proofs, the judge threads
of the inline evaluation with theirs, and the launcher's return code; then a
theorem for each invariant the runs check: the accounting and the refinement of
the pipeline, the lag, the weight sync, the inline evaluation, the boot, the step
with its gradient, the ledger of the judge passes, the judge entries.

Next, to model:
1. No-positive resampling: `NPRTracker` on the trainer, `_NPRDropList` read by the
   rollout ranks while it is replaced; a dropped direction leaves the sampling
   within the blocks already queued, the drop list never empties the bank.
2. Checkpoints and resume of `rl_disagg.py`: the rolling removal of `optim.pt`,
   `final`, a restart from any state of the directory (`--init-adapter`,
   `--step-offset`), composed with the pipeline's `StepOffset`.
3. `eval_ckpt_daemon.py` (each checkpoint evaluated once across restarts), the
   producer/consumer buffers of `sae2m/`, the resumable chain drivers.
4. A bound on how many updates a queued block can wait, and on how long a
   publication delays a batch.

Next, to prove:
1. The safety part of `ImplementsStream` under `FlagsSpec`: the lemmas behind
   `PipelineImplementsBatches` once more for the instance `Stale`.
2. More action properties: the blocks of the batches follow the order of the
   labels with one rollout rank; a shard set, once sealed, is whole until it is
   pruned; what a pass has charged and logged only grows.
3. `LabelsServed` for several engines in fs mode that are all up before the first
   update, which is what `weight_sync_fs_late` violates.
