------------------------------ MODULE InlineEval ------------------------------
(***************************************************************************)
(* The inline evaluation of rl/rl_disagg.py: every few updates the trainer *)
(* files a request eval_req/req_<k>.pt; the rollout ranks generate the     *)
(* texts, each its share of the rows, in the slack of the block queue and  *)
(* leave a shard eval_gen/<k>_<r>.pt; a later step scores the complete set *)
(* on all trainer ranks and removes the files.                             *)
(*                                                                         *)
(* Abstracted: texts and scores (a shard is the rows it holds and whether  *)
(* it failed), the eval sets (one of NRows rows), the block queue (its     *)
(* length) and the steps of a publication: RolloutPipeline has both.  Time *)
(* is abstract: a request may be found overdue, or given up, at any look.  *)
(***************************************************************************)
EXTENDS Integers, FiniteSets, Sequences, SequencesExt

CONSTANTS
  NRollout,      (* --n-rollout                                            *)
  Trainers, Main,
  NRows,         (* rows of the eval set                                   *)
  ChunkRows,     (* --eval-chunk-seqs // samples per row, at least 1       *)
  BlocksPerStep, Cap,
  TotalSteps, PublishEvery, KeepLoras,
  EvalEvery,     (* --inline-eval-every                                    *)
  Faulty         (* bound: the checkpoints whose eval an exception may hit *)

ASSUME EvalAssumption ==
  /\ NRollout \in Nat \ {0} /\ Main \in Trainers
  /\ NRows \in Nat /\ ChunkRows \in Nat \ {0}
  /\ BlocksPerStep \in Nat \ {0} /\ Cap \in Nat \ {0} /\ TotalSteps \in Nat
  /\ PublishEvery \in Nat /\ KeepLoras \in Nat /\ EvalEvery \in Nat \ {0}
  /\ Faulty \subseteq Nat

Ranks == 0 .. NRollout - 1
Rows == 0 .. NRows - 1

VARIABLES
  (* files *)
  adapters, latest, queue, stop,
  reqs,      (* the checkpoints with a request file; adapter k + 1         *)
  shards,    (* the shard files                                            *)
  (* rollout ranks *)
  pc,
  slots,     (* the adapters in the engine's two LoRA slots, newest first  *)
  want,      (* the request eval_job() found                               *)
  job,       (* ev_job                                                     *)
  done,      (* ev_done                                                    *)
  (* trainer ranks *)
  tp, step,
  evk,       (* ev_ready: the eval to score                                *)
  loaded,    (* the trainer ranks that have read the shards and scored     *)
             (* their rows, or given up                                    *)
  failed,    (* those of them with an exception to report                  *)
  scored,    (* history: the outcomes                                      *)
  faults     (* history: the checkpoints that an exception was raised for, *)
             (* in a chunk or in the scoring                               *)

files == <<adapters, latest, queue, stop, reqs, shards>>
ranks == <<pc, slots, want, job, done>>
trainer == <<tp, step, evk, loaded, failed, scored, faults>>
vars == <<adapters, latest, queue, stop, reqs, shards, pc, slots, want, job,
          done, tp, step, evk, loaded, failed, scored, faults>>

None == -1
NoJob == [k |-> None, left |-> {}, rows |-> {}, err |-> FALSE]

Init ==
  /\ adapters = {0} /\ latest = 0 /\ queue = 0 /\ stop = FALSE
  /\ reqs = {} /\ shards = {}
  /\ pc = [r \in Ranks |-> "top"] /\ slots = [r \in Ranks |-> <<>>]
  /\ want = [r \in Ranks |-> None] /\ job = [r \in Ranks |-> NoJob]
  /\ done = [r \in Ranks |-> {}]
  /\ tp = "check" /\ step = 0 /\ evk = None /\ loaded = {} /\ failed = {}
  /\ scored = {} /\ faults = {}

IsLeast(k, S) == k \in S /\ \A j \in S : k <= j

HasShard(k, r) == \E s \in shards : s.k = k /\ s.rank = r

-----------------------------------------------------------------------------
(* Rollout rank r *)

Goto(r, l) == pc' = [pc EXCEPT ![r] = l]

(* The LRU of two slots after adapter k was used. *)
Use(s, k) ==
  LET rest == SelectSeq(s, LAMBDA j : j # k)
  IN <<k>> \o SubSeq(rest, 1, IF Len(rest) > 1 THEN 1 ELSE Len(rest))

(* Mutant: no ev_done. *)
OpenRequestsMutant(r) == {k \in reqs : ~HasShard(k, r)}

(* The requests rank r has work for. *)
OpenRequests(r) == {k \in reqs : k \notin done[r] /\ ~HasShard(k, r)}

(* eval_job(): without a job, the oldest of them. *)
Look(r) ==
  /\ pc[r] = "top" /\ ~stop
  /\ IF job[r] # NoJob \/ OpenRequests(r) = {}
     THEN want' = want /\ Goto(r, "decide")
     ELSE /\ \E k \in OpenRequests(r) :
               IsLeast(k, OpenRequests(r)) /\ want' = [want EXCEPT ![r] = k]
          /\ Goto(r, "open")
  /\ UNCHANGED <<files, trainer, slots, job, done>>

Leave(r) ==
  /\ pc[r] = "top" /\ stop
  /\ Goto(r, "exit")
  /\ UNCHANGED <<files, trainer, slots, want, job, done>>

(* _eval_plan: the rows of rank r. *)
Share(r) == {i \in Rows : i % NRollout = r}

(* _EvalJob(): an exception (a request given up, an adapter that vanishes  *)
(* under the reader) leaves no job, to be tried again; an adapter already  *)
(* pruned is an error to hand to the trainer.                              *)
OpenRequest(r) ==
  /\ pc[r] = "open"
  /\ \/ job' = job
     \/ /\ want[r] \in reqs
        /\ job' = [job EXCEPT ![r] = [k |-> want[r], left |-> Share(r), rows |-> {},
                                     err |-> want[r] + 1 \notin adapters]]
  /\ want' = [want EXCEPT ![r] = None]
  /\ Goto(r, "decide")
  /\ UNCHANGED <<files, trainer, slots, done>>

Complete(j) == j.err \/ j.left = {}

Backpressure(r) ==
  /\ pc[r] = "decide" /\ job[r] = NoJob /\ queue >= Cap
  /\ Goto(r, "top")
  /\ UNCHANGED <<files, trainer, slots, want, job, done>>

(* A block, with the adapter of latest; RolloutPipeline has the races. *)
Generate(r) ==
  /\ pc[r] = "decide" /\ queue < Cap
  /\ queue' = queue + 1
  /\ slots' = [slots EXCEPT ![r] = Use(@, latest)]
  /\ Goto(r, "top")
  /\ UNCHANGED <<adapters, latest, stop, reqs, shards, trainer, want, job,
                 done>>

(* The first rows of S, as many as a chunk has. *)
Chunk(S) == {i \in S : Cardinality({h \in S : h < i}) < ChunkRows}

(* An exception hits the eval of checkpoint k. *)
Fault(k) == k \in Faulty /\ faults' = faults \union {k}

(* _EvalJob.step without an exception: the texts of one chunk. *)
ChunkDone(r) ==
  LET j == job[r] IN
  /\ j.k + 1 \in adapters \union Range(slots[r])
  /\ job' = [job EXCEPT ![r].left = @ \ Chunk(j.left),
                        ![r].rows = @ \union Chunk(j.left)]
  /\ slots' = [slots EXCEPT ![r] = Use(@, j.k + 1)]
  /\ faults' = faults

(* Any exception ends the job as an error: an adapter in neither slot has  *)
(* no directory to be read from, or generating, decoding, an RPC failed.   *)
ChunkRaises(r) ==
  LET j == job[r] IN
  /\ IF j.k + 1 \in adapters \union Range(slots[r]) THEN Fault(j.k) ELSE faults' = faults
  /\ job' = [job EXCEPT ![r].left = {}, ![r].err = TRUE]
  /\ slots' = slots

(* An eval slot (the block queue is full, or the request overdue) is one   *)
(* chunk.                                                                  *)
GenerateChunk(r) ==
  /\ pc[r] = "decide" /\ job[r] # NoJob /\ ~Complete(job[r])
  /\ ChunkDone(r) \/ ChunkRaises(r)
  /\ Goto(r, IF Complete(job'[r]) THEN "shard" ELSE "top")
  /\ UNCHANGED <<files, tp, step, evk, loaded, failed, scored, want, done>>

(* Mutant: the job is not forgotten. *)
WriteShardMutant(r) ==
  LET j == job[r] IN
  /\ pc[r] = "shard" \/ (pc[r] = "decide" /\ j # NoJob /\ Complete(j))
  /\ shards' = shards \union {[k |-> j.k, rank |-> r, rows |-> j.rows, err |-> j.err]}
  /\ done' = [done EXCEPT ![r] = @ \union {j.k}]
  /\ Goto(r, "top")
  /\ UNCHANGED <<adapters, latest, queue, stop, reqs, trainer, slots, want,
                 job>>

(* _EvalJob.write (through a .tmp) in the slot of the last chunk, or of an *)
(* error; the request may be gone. *)
WriteShard(r) ==
  LET j == job[r] IN
  /\ pc[r] = "shard" \/ (pc[r] = "decide" /\ j # NoJob /\ Complete(j))
  /\ shards' = shards \union {[k |-> j.k, rank |-> r, rows |-> j.rows, err |-> j.err]}
  /\ done' = [done EXCEPT ![r] = @ \union {j.k}]
  /\ job' = [job EXCEPT ![r] = NoJob]
  /\ Goto(r, "top")
  /\ UNCHANGED <<adapters, latest, queue, stop, reqs, trainer, slots, want>>

Rollout(r) ==
  \/ Look(r) \/ Leave(r) \/ OpenRequest(r)
  \/ Backpressure(r) \/ Generate(r) \/ GenerateChunk(r) \/ WriteShard(r)

-----------------------------------------------------------------------------
(* The trainer ranks *)

(* Mutant: the first shard is enough. *)
ReadyMutant(k) == \E r \in Ranks : HasShard(k, r)

(* _eval_shards_ready *)
Ready(k) == \A r \in Ranks : HasShard(k, r)

(* The start of a step: the oldest complete eval is taken; of the requests *)
(* before it any may be too old and is dropped.                            *)
CheckEvals ==
  LET ready == {k \in reqs : Ready(k)} IN
  /\ tp = "check"
  /\ \E k \in ready \union {None} :
       /\ IF ready = {} THEN k = None ELSE IsLeast(k, ready)
       /\ evk' = k
       /\ \E old \in SUBSET {j \in reqs \ ready : k = None \/ j < k} :
            reqs' = reqs \ old
  /\ tp' = "pick"
  /\ UNCHANGED <<adapters, latest, queue, stop, shards, ranks, step, loaded,
                 failed, scored, faults>>

(* The wait for a batch, and its broadcast together with ev_ready. *)
Pick ==
  /\ tp = "pick" /\ queue >= BlocksPerStep
  /\ tp' = IF evk = None THEN "take" ELSE "score"
  /\ UNCHANGED <<files, ranks, step, evk, loaded, failed, scored, faults>>

(* _score_eval_block, trainer rank i: the shards are read and its part of  *)
(* the rows is scored; an exception on the way is caught as data ...       *)
LoadShards(i) ==
  /\ tp # "pick" /\ evk # None /\ i \notin loaded
  /\ loaded' = loaded \union {i}
  /\ \/ UNCHANGED <<failed, faults>>
     \/ failed' = failed \union {i} /\ Fault(evk)
  /\ UNCHANGED <<files, ranks, tp, step, evk, scored>>

(* Mutant: rank 0 reports its own exception only. *)
OutcomeMutant(k) ==
  LET mine == {s \in shards : s.k = k}
      err  == Main \in failed \/ \E s \in mine : s.err
  IN [k |-> k, rows |-> IF err THEN {} ELSE UNION {s.rows : s \in mine}, err |-> err]

(* The shards of checkpoint k merged.  A shard's error fails every rank,   *)
(* an exception of one rank reaches rank 0 with the gathered scores.       *)
Outcome(k) ==
  LET mine == {s \in shards : s.k = k}
      err  == failed # {} \/ \E s \in mine : s.err
  IN [k |-> k, rows |-> IF err THEN {} ELSE UNION {s.rows : s \in mine}, err |-> err]

(* Mutant: rank 0 does not wait for the others. *)
GatherMutant ==
  /\ tp = "score" /\ Main \in loaded
  /\ scored' = scored \union {Outcome(evk)} /\ tp' = "clean"
  /\ UNCHANGED <<files, ranks, step, evk, loaded, failed, faults>>

(* ... and all_gather brings the scores, or the errors, together. *)
Gather ==
  /\ tp = "score" /\ loaded = Trainers
  /\ scored' = scored \union {Outcome(evk)} /\ tp' = "clean"
  /\ UNCHANGED <<files, ranks, step, evk, loaded, failed, faults>>

(* The shards go first, the request last. *)
RemoveShards ==
  /\ tp = "clean"
  /\ shards' = {s \in shards : s.k # evk} /\ tp' = "cleanReq"
  /\ UNCHANGED <<adapters, latest, queue, stop, reqs, ranks, step, evk, loaded,
                 failed, scored, faults>>

RemoveRequest ==
  /\ tp = "cleanReq"
  /\ reqs' = reqs \ {evk} /\ evk' = None /\ loaded' = {} /\ failed' = {} /\ tp' = "take"
  /\ UNCHANGED <<adapters, latest, queue, stop, shards, ranks, step, scored, faults>>

TakeBlocks ==
  /\ tp = "take"
  /\ queue' = queue - BlocksPerStep /\ tp' = "train"
  /\ UNCHANGED <<adapters, latest, stop, reqs, shards, ranks, step, evk,
                 loaded, failed, scored, faults>>

Publishes(k) == PublishEvery > 0 /\ k % PublishEvery = 0

Newest(S) ==
  IF KeepLoras = 0 THEN S
  ELSE {k \in S : Cardinality({j \in S : j > k}) < KeepLoras}

(* The update; with a publication the adapter appears and old ones go.     *)
Update ==
  /\ tp = "train"
  /\ step' = step + 1
  /\ IF Publishes(step + 1)
     THEN /\ latest' = step + 1
          /\ adapters' = Newest(adapters \union {step + 1})
     ELSE UNCHANGED <<latest, adapters>>
  /\ tp' = "request"
  /\ UNCHANGED <<queue, stop, reqs, shards, ranks, evk, loaded, failed, scored,
                 faults>>

(* _write_eval_request: checkpoint k is the policy after update k + 1.     *)
WriteRequest ==
  /\ tp = "request"
  /\ reqs' = IF Publishes(step) /\ (step - 1) % EvalEvery = 0
             THEN reqs \union {step - 1} ELSE reqs
  /\ tp' = IF step < TotalSteps THEN "check" ELSE "final"
  /\ UNCHANGED <<adapters, latest, queue, stop, shards, ranks, step, evk,
                 loaded, failed, scored, faults>>

Finish ==
  /\ tp = "final"
  /\ stop' = TRUE /\ tp' = "done"
  /\ UNCHANGED <<adapters, latest, queue, reqs, shards, ranks, step, evk,
                 loaded, failed, scored, faults>>

Trainer ==
  \/ CheckEvals \/ Pick \/ (\E i \in Trainers : LoadShards(i)) \/ Gather
  \/ RemoveShards \/ RemoveRequest \/ TakeBlocks \/ Update \/ WriteRequest
  \/ Finish

-----------------------------------------------------------------------------
Ended == tp = "done" /\ \A r \in Ranks : pc[r] = "exit"

Done == Ended /\ UNCHANGED vars

Next == (\E r \in Ranks : Rollout(r)) \/ Trainer \/ Done

(* Separate processes on separate GPUs: none is starved. *)
Fairness == (\A r \in Ranks : WF_vars(Rollout(r))) /\ WF_vars(Trainer)

Spec == Init /\ [][Next]_vars /\ Fairness

-----------------------------------------------------------------------------
(* Properties *)

Shard == [k : Nat, rank : Ranks, rows : SUBSET Rows, err : BOOLEAN]

(* Values of the files and locals; an error leaves no rows to generate.    *)
TypeOK ==
  /\ adapters \in SUBSET Nat /\ latest \in adapters
  /\ queue \in Nat /\ stop \in BOOLEAN /\ reqs \in SUBSET Nat
  /\ shards \in SUBSET Shard
  /\ \A r \in Ranks : Len(slots[r]) <= 2 /\ Range(slots[r]) \subseteq Nat
  /\ want \in [Ranks -> Nat \union {None}] /\ done \in [Ranks -> SUBSET Nat]
  /\ \A r \in Ranks : job[r] # NoJob => job[r].k \in Nat /\ job[r].rows \subseteq Rows
  /\ step \in Nat /\ evk \in Nat \union {None}
  /\ loaded \in SUBSET Trainers /\ failed \in SUBSET loaded /\ faults \in SUBSET Nat

(* An eval is scored only when it is whole: the shards of all ranks, which *)
(* share the rows without gap, or else an error, never a partial mean.     *)
EvalComplete == \A s \in scored : s.err \/ s.rows = Rows

ScoredSteps == {s.k : s \in scored}

(* No rank works on, or leaves a shard of, a checkpoint already scored,    *)
(* although its shards vanish before its request does.                     *)
NoWorkRepeated ==
  /\ \A r \in Ranks : job[r] # NoJob => job[r].k \notin ScoredSteps
  /\ \A s \in shards : s.k \in ScoredSteps => s.k = evk

(* No trainer rank opens a shard that rank 0 has removed. *)
ShardsIntact == evk # None /\ loaded # Trainers => Ready(evk)

(* Errors travel as data, none is lost and none strays: an exception of    *)
(* any rank, in a chunk or while scoring, ends the eval it hit as an       *)
(* error, and an eval without one fails only if its adapter was pruned     *)
(* before all ranks had used it.                                           *)
ErrorsAccounted ==
  \A s \in scored :
    /\ s.k \in faults => s.err
    /\ s.err => s.k \in faults \/ s.k + 1 \notin adapters

(* The evals never starve the rollouts: the run ends. *)
RunEnds == <>(Ended /\ step = TotalSteps)

=============================================================================
