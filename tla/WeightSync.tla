------------------------------ MODULE WeightSync ------------------------------
(***************************************************************************)
(* How the full-parameter policy of rl/rl_disagg.py --full-param reaches   *)
(* the vLLM engines: _publish_fullparam and publish_nccl on the trainer    *)
(* side, _FullParamSync on every rollout rank.  The engines hold the whole *)
(* model and are refreshed in place at block boundaries, by one NCCL       *)
(* broadcast to all of them (--publish-mode nccl) or by shard files each   *)
(* loads on its own (fs).                                                  *)
(*                                                                         *)
(* Abstracted: the tensors (a model is the number of its update), the      *)
(* blocks (the queue is their number, RolloutPipeline has the rest), the   *)
(* exact depth() (a rank may begin a block whenever the queue is below the *)
(* cap).  A checksum tells two models apart.  The test of STOP in poll()   *)
(* and in publish_nccl is dead while a trainer lives: STOP comes last.     *)
(***************************************************************************)
EXTENDS Integers, FiniteSets

CONSTANTS
  Ranks, Trainers, Main,
  PublishMode,    (* --publish-mode, "nccl" or "fs"                        *)
  BlocksPerStep, Cap,
  StepOffset, TotalSteps, PublishEvery,
  KeepLoras,      (* --keep-loras: step directories kept, 0 = all          *)
  FsKeepSteps     (* --fs-keep-steps: shard sets kept, 0 = all             *)

ASSUME SyncRanksAssumption ==
  /\ IsFiniteSet(Ranks) /\ Ranks # {}
  /\ IsFiniteSet(Trainers) /\ Main \in Trainers
ASSUME SyncFlagsAssumption ==
  /\ PublishMode \in {"nccl", "fs"}
  /\ BlocksPerStep \in Nat \ {0} /\ Cap \in Nat \ {0}
  /\ StepOffset \in Nat /\ TotalSteps \in Nat /\ PublishEvery \in Nat
  /\ KeepLoras \in Nat /\ FsKeepSteps \in Nat

None == -1

VARIABLES
  (* files *)
  pending,  (* lora/pending: the step whose weights wait                   *)
  ready,    (* the <<r, k>> whose lora/ready_<r>_<k> exists                *)
  latest,   (* lora/latest                                                 *)
  metas,    (* the k whose lora/step_<k>/meta.json exists                  *)
  shards,   (* the <<t, k>> whose lora/step_<k>/shard_<t> exists           *)
  queue,    (* the number of unconsumed blocks                             *)
  stop,
  (* rollout ranks *)
  pc, want,
  cur,      (* fsync.cur_step: the label of the rank's blocks              *)
  engine,   (* the model the rank's vLLM engine holds                      *)
  busy,     (* the rank has begun a block                                  *)
  (* trainer ranks, in step with each other *)
  tp, step,
  sent      (* the last step broadcast to the weight group                 *)

files == <<pending, ready, latest, metas, shards, queue, stop>>
ranks == <<pc, want, cur, engine, busy>>
trainer == <<tp, step, sent>>
vars == <<pending, ready, latest, metas, shards, queue, stop, pc, want, cur,
          engine, busy, tp, step, sent>>

RankLocation == {"wait", "boot", "top", "poll", "recv", "seeLatest", "meta",
                 "load", "gen", "exit", "crashed"}
TrainerLocation == {"train", "flag", "await", "bcast", "clear", "shard",
                    "meta", "flip", "prune", "final", "done"}

(* The work directory is new.  Every engine has loaded the policy base:    *)
(* update StepOffset.                                                      *)
Init ==
  /\ pending = None /\ ready = {} /\ latest = None /\ metas = {} /\ shards = {}
  /\ queue = 0 /\ stop = FALSE
  /\ pc = [r \in Ranks |-> "wait"]
  /\ want = [r \in Ranks |-> None] /\ cur = [r \in Ranks |-> None]
  /\ engine = [r \in Ranks |-> StepOffset]
  /\ busy = [r \in Ranks |-> FALSE]
  /\ tp = "meta" /\ step = StepOffset /\ sent = None

-----------------------------------------------------------------------------
(* Rollout rank r *)

Goto(r, l) == pc' = [pc EXCEPT ![r] = l]

(* poll() returns: to the block begun, or to the backpressure loop. *)
Return(r) == Goto(r, IF busy[r] THEN "gen" ELSE "top")

(* The wait for the first publication and _read_latest in initial().       *)
AwaitFirst(r) ==
  /\ pc[r] = "wait" /\ latest # None
  /\ want' = [want EXCEPT ![r] = latest]
  /\ Goto(r, "boot")
  /\ UNCHANGED <<files, trainer, cur, engine, busy>>

(* initial(): takes the step of latest for the model the engine holds. A   *)
(* meta.json that stays away for half an hour ends the process.            *)
Initial(r) ==
  /\ pc[r] = "boot"
  /\ IF want[r] \in metas
     THEN cur' = [cur EXCEPT ![r] = want[r]] /\ Goto(r, "top")
     ELSE cur' = cur /\ Goto(r, "crashed")
  /\ UNCHANGED <<files, trainer, want, engine, busy>>

(* The queue has room: a block is begun, refresh() first. *)
Begin(r) ==
  /\ pc[r] = "top" /\ ~stop /\ queue < Cap
  /\ busy' = [busy EXCEPT ![r] = TRUE]
  /\ Goto(r, "poll")
  /\ UNCHANGED <<files, trainer, want, cur, engine>>

(* Mutant: the backpressure loop does not look for pending. *)
AttendMutant(r) == FALSE /\ UNCHANGED vars

(* Backpressure: a pending publication is attended to all the same. *)
Attend(r) ==
  /\ pc[r] = "top" /\ ~stop /\ queue >= Cap
  /\ PublishMode = "nccl" /\ pending # None
  /\ Goto(r, "poll")
  /\ UNCHANGED <<files, trainer, want, cur, engine, busy>>

Leave(r) ==
  /\ pc[r] = "top" /\ stop
  /\ Goto(r, "exit")
  /\ UNCHANGED <<files, trainer, want, cur, engine, busy>>

(* poll(), nccl: answer a new pending step with a ready file. *)
PollNccl(r) ==
  /\ pc[r] = "poll" /\ PublishMode = "nccl"
  /\ IF pending \in {None, cur[r]}
     THEN Return(r) /\ UNCHANGED <<want, ready>>
     ELSE /\ want' = [want EXCEPT ![r] = pending]
          /\ ready' = ready \union {<<r, pending>>}
          /\ Goto(r, "recv")
  /\ UNCHANGED <<pending, latest, metas, shards, queue, stop, trainer, cur,
                 engine, busy>>

(* wu_recv: the broadcast weights are in the engine. *)
Receive(r) ==
  /\ pc[r] = "recv" /\ sent = want[r]
  /\ engine' = [engine EXCEPT ![r] = sent]
  /\ Goto(r, "seeLatest")
  /\ UNCHANGED <<files, trainer, want, cur, busy>>

(* Mutant: whatever latest says is the step received. *)
SeeLatestMutant(r) ==
  /\ pc[r] = "seeLatest"
  /\ cur' = [cur EXCEPT ![r] = latest] /\ Return(r)
  /\ UNCHANGED <<files, trainer, want, engine, busy>>

(* The wait for latest = k, and _verify against the checksums of its meta. *)
SeeLatest(r) ==
  /\ pc[r] = "seeLatest" /\ latest = want[r]
  /\ IF latest \in metas /\ engine[r] = latest
     THEN cur' = [cur EXCEPT ![r] = latest] /\ Return(r)
     ELSE cur' = cur /\ Goto(r, "crashed")
  /\ UNCHANGED <<files, trainer, want, engine, busy>>

(* poll(), fs *)
PollFs(r) ==
  /\ pc[r] = "poll" /\ PublishMode = "fs"
  /\ IF latest = cur[r]
     THEN Return(r) /\ want' = want
     ELSE want' = [want EXCEPT ![r] = latest] /\ Goto(r, "meta")
  /\ UNCHANGED <<files, trainer, cur, engine, busy>>

MetaFs(r) ==
  /\ pc[r] = "meta"
  /\ Goto(r, IF want[r] \in metas THEN "load" ELSE "crashed")
  /\ UNCHANGED <<files, trainer, want, cur, engine, busy>>

(* wu_load_fs: opens the shard of every trainer rank, then loads. *)
LoadFs(r) ==
  /\ pc[r] = "load"
  /\ IF \A t \in Trainers : <<t, want[r]>> \in shards
     THEN /\ engine' = [engine EXCEPT ![r] = want[r]]
          /\ cur' = [cur EXCEPT ![r] = want[r]]
          /\ Return(r)
     ELSE Goto(r, "crashed") /\ UNCHANGED <<engine, cur>>
  /\ UNCHANGED <<files, trainer, want, busy>>

(* The block, sampled from engine[r] and labelled cur[r]. *)
Generate(r) ==
  /\ pc[r] = "gen"
  /\ queue' = queue + 1
  /\ busy' = [busy EXCEPT ![r] = FALSE]
  /\ Goto(r, "top")
  /\ UNCHANGED <<pending, ready, latest, metas, shards, stop, trainer, want,
                 cur, engine>>

Rollout(r) ==
  \/ AwaitFirst(r) \/ Initial(r) \/ Begin(r) \/ Attend(r) \/ Leave(r)
  \/ PollNccl(r) \/ Receive(r) \/ SeeLatest(r)
  \/ PollFs(r) \/ MetaFs(r) \/ LoadFs(r) \/ Generate(r)

-----------------------------------------------------------------------------
(* The trainer ranks *)

Publishes(k) == PublishEvery > 0 /\ k % PublishEvery = 0

Resume == IF step < TotalSteps THEN "train" ELSE "final"

(* A batch is taken from the queue and the policy updated. *)
Train ==
  /\ tp = "train" /\ queue >= BlocksPerStep
  /\ queue' = queue - BlocksPerStep
  /\ step' = step + 1
  /\ tp' = IF Publishes(step + 1)
           THEN IF PublishMode = "nccl" THEN "flag" ELSE "shard"
           ELSE IF step + 1 < TotalSteps THEN "train" ELSE "final"
  /\ UNCHANGED <<pending, ready, latest, metas, shards, stop, ranks, sent>>

(* publish_nccl: rank 0 flags the step ... *)
FlagPending ==
  /\ tp = "flag"
  /\ pending' = step /\ tp' = "await"
  /\ UNCHANGED <<ready, latest, metas, shards, queue, stop, ranks, step, sent>>

(* Mutant: rank 0 goes ahead when one engine is ready. *)
AwaitReadyMutant ==
  /\ tp = "await" /\ \E r \in Ranks : <<r, step>> \in ready
  /\ tp' = "bcast"
  /\ UNCHANGED <<files, ranks, step, sent>>

(* ... waits until every engine stands at a block boundary ... *)
AwaitReady ==
  /\ tp = "await" /\ \A r \in Ranks : <<r, step>> \in ready
  /\ tp' = "bcast"
  /\ UNCHANGED <<files, ranks, step, sent>>

(* ... and broadcasts.  The root may return before a receiver has loaded.  *)
Broadcast ==
  /\ tp = "bcast"
  /\ sent' = step /\ tp' = "clear"
  /\ UNCHANGED <<files, ranks, step>>

(* The ready files go, then pending.  No rank acts on either in between:   *)
(* all of them are in wu_recv or wait for latest.                          *)
ClearFlags ==
  /\ tp = "clear"
  /\ ready' = {} /\ pending' = None /\ tp' = "meta"
  /\ UNCHANGED <<latest, metas, shards, queue, stop, ranks, step, sent>>

(* fs: trainer rank t writes its shards (to a .tmp, then os.replace). *)
WriteShard(t) ==
  /\ tp = "shard" /\ <<t, step>> \notin shards
  /\ shards' = shards \union {<<t, step>>}
  /\ UNCHANGED <<pending, ready, latest, metas, queue, stop, ranks, trainer>>

(* The n newest of S; n = 0 keeps all. *)
Newest(n, S) ==
  IF n = 0 THEN S ELSE {k \in S : Cardinality({j \in S : j > k}) < n}

(* The directory of the step being published is there from the start. *)
Dirs == metas \union {step}

(* Mutant: rank 0 does not wait for the other ranks' files. *)
SealShardsMutant ==
  /\ tp = "shard" /\ <<Main, step>> \in shards
  /\ shards' = {s \in shards : s[2] \in Newest(FsKeepSteps, Dirs)}
  /\ tp' = "meta"
  /\ UNCHANGED <<pending, ready, latest, metas, queue, stop, ranks, step, sent>>

(* dist.barrier(), then prune_fs_steps: shards of old steps go before the  *)
(* new step is announced.                                                  *)
SealShards ==
  /\ tp = "shard" /\ \A t \in Trainers : <<t, step>> \in shards
  /\ shards' = {s \in shards : s[2] \in Newest(FsKeepSteps, Dirs)}
  /\ tp' = "meta"
  /\ UNCHANGED <<pending, ready, latest, metas, queue, stop, ranks, step, sent>>

WriteMeta ==
  /\ tp = "meta"
  /\ metas' = metas \union {step} /\ tp' = "flip"
  /\ UNCHANGED <<pending, ready, latest, shards, queue, stop, ranks, step, sent>>

FlipLatest ==
  /\ tp = "flip"
  /\ latest' = step /\ tp' = "prune"
  /\ UNCHANGED <<pending, ready, metas, shards, queue, stop, ranks, step, sent>>

PruneSteps ==
  /\ tp = "prune"
  /\ metas' = Newest(KeepLoras, metas)
  /\ shards' = {s \in shards : s[2] \in Newest(KeepLoras, metas)}
  /\ tp' = Resume
  /\ UNCHANGED <<pending, ready, latest, queue, stop, ranks, step, sent>>

Finish ==
  /\ tp = "final"
  /\ stop' = TRUE /\ tp' = "done"
  /\ UNCHANGED <<pending, ready, latest, metas, shards, queue, ranks, step, sent>>

Trainer ==
  \/ Train \/ FlagPending \/ AwaitReady \/ Broadcast \/ ClearFlags
  \/ (\E t \in Trainers : WriteShard(t)) \/ SealShards
  \/ WriteMeta \/ FlipLatest \/ PruneSteps \/ Finish

-----------------------------------------------------------------------------
Ended == tp = "done" /\ \A r \in Ranks : pc[r] \in {"exit", "crashed"}

Done == Ended /\ UNCHANGED vars

Next == (\E r \in Ranks : Rollout(r)) \/ Trainer \/ Done

(* Separate processes on separate GPUs: none is starved. *)
Fairness == (\A r \in Ranks : WF_vars(Rollout(r))) /\ WF_vars(Trainer)

Spec == Init /\ [][Next]_vars /\ Fairness

-----------------------------------------------------------------------------
(* Properties *)

(* Values of the files and locals; a rank past initial() has a label.      *)
TypeOK ==
  /\ pending \in Nat \union {None} /\ latest \in Nat \union {None}
  /\ ready \in SUBSET (Ranks \X Nat) /\ metas \in SUBSET Nat
  /\ shards \in SUBSET (Trainers \X Nat)
  /\ queue \in Nat /\ stop \in BOOLEAN
  /\ pc \in [Ranks -> RankLocation] /\ want \in [Ranks -> Nat \union {None}]
  /\ cur \in [Ranks -> Nat \union {None}] /\ engine \in [Ranks -> Nat]
  /\ busy \in [Ranks -> BOOLEAN]
  /\ tp \in TrainerLocation /\ step \in Nat /\ sent \in Nat \union {None}
  /\ \A r \in Ranks : pc[r] \in {"top", "poll", "gen"} => cur[r] \in Nat

(* A block is labelled with the model it is sampled from: the order  *)
(* of consumption, the lag the trainer logs and the norm the injection is  *)
(* scaled by go by the label.  (A rank that starts after the first update  *)
(* breaks it in fs mode.)                                                  *)
LabelIsServed == \A r \in Ranks : pc[r] = "gen" => engine[r] = cur[r]

(* nccl, "every engine serves exactly step k afterwards (no mixed          *)
(* versions)": engines never sample from different models, and while the   *)
(* trainer is between publications from none but the announced one.        *)
NoMixedVersions ==
  /\ \A q, r \in Ranks : pc[q] = "gen" /\ pc[r] = "gen" => engine[q] = engine[r]
  /\ tp \in {"train", "final"} =>
       \A r \in Ranks : pc[r] = "gen" => engine[r] = latest

(* No rank dies of a missing meta.json, a missing shard or a checksum.     *)
NoRankCrashes == \A r \in Ranks : pc[r] # "crashed"

(* The block boundaries meet: no publication waits forever for an engine,  *)
(* no engine for a publication, and the run ends.                          *)
RunEnds == <>(Ended /\ step = TotalSteps)

=============================================================================
