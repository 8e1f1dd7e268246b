--------------------------- MODULE InlineEvalProofs ---------------------------
(***************************************************************************)
(* Proofs about InlineEval for every number of rollout and trainer ranks,  *)
(* rows, chunks, queue, publication and pruning flags: an eval is scored   *)
(* once and whole, from shards that stay until all trainer ranks have read *)
(* them, and fails for want of its adapter or for an exception of its own. *)
(***************************************************************************)
EXTENDS InlineEval, TLAPS

-----------------------------------------------------------------------------
(* The inductive invariant. *)

(* The checkpoints there are. *)
Past == 0 .. step - 1

(* Requests, jobs, shards and scores are about checkpoints there are.      *)
EvalTypes ==
  /\ step \in Nat /\ (tp = "request" => step > 0)
  /\ reqs \subseteq Past
  /\ shards \subseteq [k : Past, rank : Ranks, rows : SUBSET Rows, err : BOOLEAN]
  /\ scored \subseteq [k : Past, rows : SUBSET Rows, err : BOOLEAN]
  /\ \A r \in Ranks :
       \/ job[r] = NoJob
       \/ job[r] \in [k : Past, left : SUBSET Rows, rows : SUBSET Rows, err : BOOLEAN]
  /\ DOMAIN pc = Ranks /\ DOMAIN want = Ranks /\ DOMAIN job = Ranks /\ DOMAIN done = Ranks
  /\ evk \in Past \union {None}

(* A rank never opens a request it has done, and a job accounts for all    *)
(* rows of the rank until it failed.                                       *)
JobInv ==
  \A r \in Ranks :
    /\ pc[r] = "open" => want[r] \in Past \ done[r] /\ job[r] = NoJob
    /\ pc[r] = "shard" => job[r] # NoJob /\ Complete(job[r])
    /\ job[r] # NoJob =>
         /\ job[r].k \notin done[r]
         /\ job[r].err \/ job[r].rows \union job[r].left = Share(r)

(* A shard is that of a rank that will not work on the checkpoint again;   *)
(* that of a scored checkpoint is about to be removed.                     *)
ShardInv ==
  \A s \in shards :
    /\ s.k \in done[s.rank]
    /\ s.err \/ s.rows = Share(s.rank)
    /\ s.k \in ScoredSteps => s.k = evk

(* All ranks are done with a scored checkpoint, and the shards of the eval *)
(* in hand stay until its score.                                           *)
ScoreInv ==
  /\ \A r \in Ranks : ScoredSteps \subseteq done[r]
  /\ tp \notin {"pick", "score", "clean", "cleanReq"} => evk = None
  /\ tp = "score" => evk # None
  /\ tp \in {"pick", "score"} /\ evk # None => Ready(evk)
  /\ tp \in {"clean", "cleanReq"} => evk \in ScoredSteps /\ loaded = Trainers
  /\ tp = "cleanReq" => \A s \in shards : s.k # evk
  /\ ShardsIntact /\ EvalComplete

(* The adapter of checkpoint k is pruned.                                  *)
Gone(k) == k + 1 \notin adapters

(* An error has its cause: the loss of an adapter, which never comes back, *)
(* or an exception, which is on record.                                    *)
FailInv ==
  /\ \A r \in Ranks : job[r] # NoJob /\ job[r].err => Gone(job[r].k) \/ job[r].k \in faults
  /\ \A s \in shards \union scored : s.err => Gone(s.k) \/ s.k \in faults
  /\ failed # {} => evk # None /\ evk \in faults

EvalInv == EvalTypes /\ JobInv /\ ShardInv /\ ScoreInv /\ FailInv

-----------------------------------------------------------------------------

(* Nothing is requested at first. *)
LEMMA EvalInit == Init => EvalInv
  <1> SUFFICES ASSUME Init PROVE EvalInv OBVIOUS
  <1> USE EvalAssumption DEF Init
  <1>1. EvalTypes BY DEF EvalTypes, None
  <1>2. JobInv BY DEF JobInv
  <1>3. ShardInv BY DEF ShardInv
  <1>4. ScoreInv BY DEF ScoreInv, ScoredSteps, ShardsIntact, EvalComplete
  <1>5. FailInv BY DEF FailInv
  <1> QED BY <1>1, <1>2, <1>3, <1>4, <1>5 DEF EvalInv

(* The rows are dealt out to the ranks. *)
LEMMA SharesCover == UNION {Share(r) : r \in Ranks} = Rows
  <1>1. \A i \in Rows : i % NRollout \in Ranks BY EvalAssumption DEF Rows, Ranks
  <1> QED BY <1>1 DEF Share

(* A step of a rank that only moves its program counter, or the queue and  *)
(* the slots. *)
LEMMA RankMoves ==
  ASSUME EvalInv, NEW r \in Ranks, NEW l \in {"top", "decide", "exit"},
         pc' = [pc EXCEPT ![r] = l],
         UNCHANGED <<adapters, reqs, shards, want, job, done, tp, step, evk, loaded, failed,
                     scored, faults>>
  PROVE  EvalInv'
  <1> USE DEF EvalInv
  <1>1. EvalTypes' BY DEF EvalTypes, Past
  <1>2. JobInv' BY DEF JobInv, EvalTypes, Past
  <1>3. ShardInv' BY DEF ShardInv, ScoredSteps
  <1>4. ScoreInv' BY DEF ScoreInv, ScoredSteps, ShardsIntact, EvalComplete, Ready, HasShard
  <1>5. FailInv' BY DEF FailInv, Gone
  <1> QED BY <1>1, <1>2, <1>3, <1>4, <1>5

LEMMA LookStep ==
  ASSUME EvalInv, NEW r \in Ranks, Look(r)
  PROVE  EvalInv'
  <1> USE DEF EvalInv, files, trainer, Goto
  <1>1. CASE job[r] # NoJob \/ OpenRequests(r) = {} BY <1>1, RankMoves DEF Look
  <1>2. CASE ~(job[r] # NoJob \/ OpenRequests(r) = {})
    <2>1. PICK k \in OpenRequests(r) : want' = [want EXCEPT ![r] = k]
      BY <1>2 DEF Look
    <2>2. /\ job[r] = NoJob /\ pc' = [pc EXCEPT ![r] = "open"]
          /\ UNCHANGED <<files, trainer, slots, job, done>>
      BY <1>2 DEF Look
    <2>3. k \in Past \ done[r] BY <2>1 DEF OpenRequests, EvalTypes
    <2>4. EvalTypes' BY <2>1, <2>2 DEF EvalTypes, Past
    <2>5. JobInv' BY <2>1, <2>2, <2>3 DEF JobInv, EvalTypes, Past
    <2>6. ShardInv' BY <2>2 DEF ShardInv, ScoredSteps
    <2>7. ScoreInv' BY <2>2 DEF ScoreInv, ScoredSteps, ShardsIntact, EvalComplete, Ready, HasShard
    <2>8. FailInv' BY <2>2 DEF FailInv, Gone
    <2> QED BY <2>4, <2>5, <2>6, <2>7, <2>8
  <1> QED BY <1>1, <1>2

LEMMA OpenStep ==
  ASSUME EvalInv, NEW r \in Ranks, OpenRequest(r)
  PROVE  EvalInv'
  <1> USE DEF EvalInv, files, trainer, Goto
  <1> DEFINE k == want[r]
             new == [k |-> k, left |-> Share(r), rows |-> {}, err |-> k + 1 \notin adapters]
  <1>1. k \in Past \ done[r] /\ job[r] = NoJob BY DEF OpenRequest, JobInv
  <1>2. /\ want' = [want EXCEPT ![r] = None] /\ pc' = [pc EXCEPT ![r] = "decide"]
        /\ job' = job \/ job' = [job EXCEPT ![r] = new]
        /\ UNCHANGED <<files, trainer, slots, done>>
    BY DEF OpenRequest
  <1>3. /\ new.k = k /\ new.rows \union new.left = Share(r)
        /\ new.err <=> Gone(k)
        /\ new \in [k : Past, left : SUBSET Rows, rows : SUBSET Rows, err : BOOLEAN]
    BY <1>1 DEF Share, Gone
  <1>4. job'[r] \in {NoJob, new} /\ \A q \in Ranks \ {r} : job'[q] = job[q]
    BY <1>1, <1>2 DEF EvalTypes
  <1> HIDE DEF new, k
  <1>5. EvalTypes' BY <1>2, <1>3, <1>4 DEF EvalTypes, Past
  <1>6. JobInv' BY <1>1, <1>2, <1>3, <1>4 DEF JobInv, EvalTypes, Past
  <1>7. ShardInv' BY <1>2 DEF ShardInv, ScoredSteps
  <1>8. ScoreInv' BY <1>2 DEF ScoreInv, ScoredSteps, ShardsIntact, EvalComplete, Ready, HasShard
  <1>9. FailInv' BY <1>2, <1>3, <1>4 DEF FailInv, Gone
  <1> QED BY <1>5, <1>6, <1>7, <1>8, <1>9

LEMMA ChunkStep ==
  ASSUME EvalInv, NEW r \in Ranks, GenerateChunk(r)
  PROVE  EvalInv'
  <1> USE DEF EvalInv, files, trainer, Goto
  <1>1. /\ job[r] # NoJob /\ pc[r] = "decide"
        /\ pc' = [pc EXCEPT ![r] = IF Complete(job'[r]) THEN "shard" ELSE "top"]
        /\ UNCHANGED <<files, tp, step, evk, loaded, failed, scored, want, done>>
        /\ faults \subseteq faults'
    BY DEF GenerateChunk, ChunkDone, ChunkRaises, Fault
  <1>2. job[r] \in [k : Past, left : SUBSET Rows, rows : SUBSET Rows, err : BOOLEAN]
    BY <1>1 DEF EvalTypes
  <1>3. /\ job'[r] \in [k : Past, left : SUBSET Rows, rows : SUBSET Rows, err : BOOLEAN]
        /\ job'[r].k = job[r].k
        /\ job'[r].err \/ job'[r].rows \union job'[r].left = job[r].rows \union job[r].left
        /\ job'[r].err => job[r].err \/ Gone(job[r].k) \/ job[r].k \in faults'
        /\ job[r].err => job'[r].err
        /\ \A q \in Ranks \ {r} : job'[q] = job[q]
        /\ DOMAIN job' = Ranks
    <2>1. CASE ChunkDone(r)
      <3>1. job' = [job EXCEPT ![r].left = @ \ Chunk(job[r].left),
                               ![r].rows = @ \union Chunk(job[r].left)]
        BY <2>1 DEF ChunkDone
      <3>2. Chunk(job[r].left) \subseteq job[r].left BY DEF Chunk
      <3>3. /\ job'[r].left = job[r].left \ Chunk(job[r].left)
            /\ job'[r].rows = job[r].rows \union Chunk(job[r].left)
            /\ job'[r].k = job[r].k /\ job'[r].err = job[r].err
            /\ job'[r] \in [k : Past, left : SUBSET Rows, rows : SUBSET Rows, err : BOOLEAN]
        BY <3>1, <3>2, <1>2 DEF EvalTypes
      <3> QED BY <3>1, <3>2, <3>3 DEF EvalTypes
    <2>2. CASE ChunkRaises(r)
      <3>1. /\ job' = [job EXCEPT ![r].left = {}, ![r].err = TRUE]
            /\ Gone(job[r].k) \/ job[r].k \in faults'
        BY <2>2 DEF ChunkRaises, Fault, Gone
      <3>2. /\ job'[r].k = job[r].k /\ job'[r].err = TRUE
            /\ job'[r] \in [k : Past, left : SUBSET Rows, rows : SUBSET Rows, err : BOOLEAN]
        BY <3>1, <1>2 DEF EvalTypes
      <3> QED BY <3>1, <3>2 DEF EvalTypes
    <2> QED BY <2>1, <2>2 DEF GenerateChunk
  <1>4. job'[r] # NoJob BY <1>3, EvalAssumption DEF NoJob, None, Past, EvalTypes
  <1>5. EvalTypes' BY <1>1, <1>3 DEF EvalTypes, Past
  <1>6. JobInv'
    <2>1. /\ pc[r]' \in {"shard", "top"} /\ (pc[r]' = "shard" => Complete(job[r])')
          /\ \A q \in Ranks \ {r} : pc'[q] = pc[q]
      BY <1>1 DEF EvalTypes
    <2>2. \A q \in Ranks \ {r} : Complete(job[q])' <=> Complete(job[q]) BY <1>3 DEF Complete
    <2>3. job[r].err \/ job[r].rows \union job[r].left = Share(r) BY <1>1 DEF JobInv
    <2> QED BY <1>1, <1>3, <1>4, <2>1, <2>2, <2>3 DEF JobInv, Past
  <1>7. ShardInv' BY <1>1 DEF ShardInv, ScoredSteps
  <1>8. ScoreInv' BY <1>1 DEF ScoreInv, ScoredSteps, ShardsIntact, EvalComplete, Ready, HasShard
  <1>9. FailInv' BY <1>1, <1>3 DEF FailInv, Gone
  <1> QED BY <1>5, <1>6, <1>7, <1>8, <1>9

LEMMA ShardStep ==
  ASSUME EvalInv, NEW r \in Ranks, WriteShard(r)
  PROVE  EvalInv'
  <1> USE DEF EvalInv
  <1> DEFINE new == [k |-> job[r].k, rank |-> r, rows |-> job[r].rows, err |-> job[r].err]
  <1>1. /\ job[r] # NoJob /\ Complete(job[r]) BY DEF WriteShard, JobInv
  <1>2. /\ shards' = shards \union {new}
        /\ done' = [done EXCEPT ![r] = @ \union {job[r].k}]
        /\ job' = [job EXCEPT ![r] = NoJob] /\ pc' = [pc EXCEPT ![r] = "top"]
        /\ UNCHANGED <<adapters, reqs, want, tp, step, evk, loaded, failed, scored, faults>>
    BY DEF WriteShard, Goto, trainer
  <1>3. /\ job[r].k \in Past \ done[r]
        /\ job[r].err \/ job[r].rows = Share(r)
        /\ job[r].err => Gone(job[r].k) \/ job[r].k \in faults
        /\ new \in [k : Past, rank : Ranks, rows : SUBSET Rows, err : BOOLEAN]
    BY <1>1 DEF JobInv, EvalTypes, FailInv, Complete
  <1>4. job[r].k \notin ScoredSteps BY <1>3 DEF ScoreInv
  <1>5. \A q \in Ranks : done[q] \subseteq done'[q] BY <1>2 DEF EvalTypes
  <1>6. job[r].k \in done'[r] BY <1>2 DEF EvalTypes
  <1>7. EvalTypes' BY <1>2, <1>3 DEF EvalTypes, Past
  <1>8. JobInv'
    <2>1. job'[r] = NoJob /\ pc'[r] = "top" BY <1>2 DEF EvalTypes
    <2>2. \A q \in Ranks \ {r} : job'[q] = job[q] /\ pc'[q] = pc[q] /\ done'[q] = done[q]
      BY <1>2 DEF EvalTypes
    <2> QED BY <1>2, <2>1, <2>2 DEF JobInv, Past, Complete
  <1>9. ShardInv'
    <2>1. ScoredSteps' = ScoredSteps BY <1>2 DEF ScoredSteps
    <2>2. ASSUME NEW s \in shards
          PROVE  s.k \in done'[s.rank] /\ (s.err \/ s.rows = Share(s.rank))
                 /\ (s.k \in ScoredSteps => s.k = evk)
      BY <1>5 DEF ShardInv, EvalTypes
    <2>3. new.k = job[r].k /\ new.rank = r /\ new.rows = job[r].rows /\ new.err = job[r].err
      OBVIOUS
    <2> HIDE DEF new
    <2> QED BY <1>2, <1>3, <1>4, <1>6, <2>1, <2>2, <2>3 DEF ShardInv
  <1>10. ScoreInv'
    <2>1. ScoredSteps' = ScoredSteps /\ EvalComplete' BY <1>2 DEF ScoredSteps, EvalComplete, ScoreInv
    <2>2. ShardsIntact' BY <1>2 DEF ShardsIntact, Ready, HasShard, ScoreInv
    <2>3. tp = "cleanReq" => job[r].k # evk BY <1>4 DEF ScoreInv
    <2>4. Ready(evk) => Ready(evk)' BY <1>2 DEF Ready, HasShard
    <2> QED BY <1>2, <1>5, <2>1, <2>2, <2>3, <2>4 DEF ScoreInv
  <1>11. FailInv'
    <2>1. \A q \in Ranks \ {r} : job'[q] = job[q] BY <1>2 DEF EvalTypes
    <2>2. job'[r] = NoJob BY <1>2 DEF EvalTypes
    <2>3. new.k = job[r].k /\ new.err = job[r].err OBVIOUS
    <2> HIDE DEF new
    <2> QED BY <1>2, <1>3, <2>1, <2>2, <2>3 DEF FailInv, Gone
  <1> QED BY <1>7, <1>8, <1>9, <1>10, <1>11

-----------------------------------------------------------------------------
(* The trainer. *)

(* What holds of the jobs is no matter of the trainer's steps.             *)
LEMMA JobsKept ==
  ASSUME JobInv, UNCHANGED <<ranks, step>>
  PROVE  JobInv'
  BY DEF JobInv, ranks, Complete, Past

LEMMA TypesKept ==
  ASSUME EvalTypes, UNCHANGED <<ranks, step>>, tp' # "request",
         reqs' \subseteq reqs, shards' \subseteq shards,
         scored' \subseteq [k : Past, rows : SUBSET Rows, err : BOOLEAN],
         evk' \in Past \union {None}
  PROVE  EvalTypes'
  BY DEF EvalTypes, ranks, Past

LEMMA FailuresKept ==
  ASSUME FailInv, UNCHANGED <<ranks, adapters, scored, faults>>, shards' \subseteq shards,
         failed' # {} => failed' = failed /\ evk' = evk
  PROVE  FailInv'
  BY DEF FailInv, ranks, Gone

LEMMA CheckStep ==
  ASSUME EvalInv, CheckEvals
  PROVE  EvalInv'
  <1> USE DEF EvalInv
  <1> DEFINE ready == {k \in reqs : Ready(k)}
  <1>1. /\ tp = "check" /\ tp' = "pick" /\ evk' \in ready \union {None} /\ reqs' \subseteq reqs
        /\ UNCHANGED <<adapters, shards, ranks, step, loaded, failed, scored, faults>>
    BY DEF CheckEvals
  <1>2. evk = None BY <1>1 DEF ScoreInv
  <1>3. evk' \in Past \union {None} BY <1>1 DEF EvalTypes
  <1>4. EvalTypes' BY <1>1, <1>3, TypesKept DEF EvalTypes
  <1>5. JobInv' BY <1>1, JobsKept
  <1>6. \A k : Ready(k)' <=> Ready(k) BY <1>1 DEF Ready, HasShard
  <1>7. \A s \in shards : s.k \notin ScoredSteps
    BY <1>2, EvalAssumption DEF ShardInv, EvalTypes, Past, None
  <1>8. ShardInv' BY <1>1, <1>7 DEF ShardInv, ScoredSteps, ranks
  <1>9. evk' # None => Ready(evk)' BY <1>1, <1>6
  <1>10. ScoreInv' BY <1>1, <1>9 DEF ScoreInv, ScoredSteps, ShardsIntact, EvalComplete, ranks
  <1>11. FailInv' BY <1>1, <1>2, FailuresKept DEF FailInv
  <1> QED BY <1>4, <1>5, <1>8, <1>10, <1>11

LEMMA GatherStep ==
  ASSUME EvalInv, Gather
  PROVE  EvalInv'
  <1> USE DEF EvalInv
  <1> DEFINE new == Outcome(evk)   mine == {s \in shards : s.k = evk}
  <1>1. /\ tp = "score" /\ tp' = "clean" /\ loaded = Trainers
        /\ scored' = scored \union {new}
        /\ UNCHANGED <<adapters, reqs, shards, ranks, step, evk, loaded, failed, faults>>
    BY DEF Gather, files
  <1>2. evk \in Past /\ Ready(evk) BY <1>1 DEF ScoreInv, EvalTypes
  <1>3. /\ new.k = evk /\ new.err = (failed # {} \/ \E s \in mine : s.err)
        /\ new.rows = IF new.err THEN {} ELSE UNION {s.rows : s \in mine}
    BY DEF Outcome
  <1>4. new \in [k : Past, rows : SUBSET Rows, err : BOOLEAN]
    <2>1. \A s \in mine : s.rows \subseteq Rows BY DEF EvalTypes
    <2>2. UNION {s.rows : s \in mine} \in SUBSET Rows BY <2>1
    <2> QED BY <1>2, <1>3, <2>2 DEF Outcome
  <1>5. new.err \/ new.rows = Rows
    <2> SUFFICES ASSUME ~new.err PROVE new.rows = Rows OBVIOUS
    <2>1. \A s \in mine : s.rows = Share(s.rank) /\ s.rank \in Ranks
      BY <1>3 DEF ShardInv, EvalTypes
    <2>2. \A r \in Ranks : \E s \in mine : s.rank = r BY <1>2 DEF Ready, HasShard
    <2>3. UNION {s.rows : s \in mine} = UNION {Share(r) : r \in Ranks} BY <2>1, <2>2
    <2> QED BY <1>3, <2>3, SharesCover
  <1>6. new.err => Gone(evk) \/ evk \in faults
    BY <1>3 DEF FailInv
  <1>7. \A r \in Ranks : evk \in done[r]
    BY <1>2 DEF Ready, HasShard, ShardInv
  <1> HIDE DEF new, mine
  <1>8. ScoredSteps' = ScoredSteps \union {evk} BY <1>1, <1>3 DEF ScoredSteps
  <1>9. EvalTypes' BY <1>1, <1>2, <1>4, TypesKept DEF EvalTypes
  <1>10. JobInv' BY <1>1, JobsKept
  <1>11. ShardInv' BY <1>1, <1>8 DEF ShardInv, ranks
  <1>12. EvalComplete' BY <1>1, <1>5 DEF EvalComplete, ScoreInv
  <1>13. ScoreInv' BY <1>1, <1>7, <1>8, <1>12 DEF ScoreInv, ShardsIntact, ranks
  <1>14. FailInv' BY <1>1, <1>3, <1>6 DEF FailInv, Gone, ranks
  <1> QED BY <1>9, <1>10, <1>11, <1>13, <1>14

LEMMA TrainerStep ==
  ASSUME EvalInv, Trainer
  PROVE  EvalInv'
  <1> USE DEF EvalInv
  <1>1. CASE CheckEvals BY <1>1, CheckStep
  <1>2. CASE Gather BY <1>2, GatherStep
  <1>3. CASE Pick
    <2>1. /\ tp = "pick" /\ tp' = (IF evk = None THEN "take" ELSE "score")
          /\ UNCHANGED <<adapters, reqs, shards, ranks, step, evk, loaded, failed, scored, faults>>
      BY <1>3 DEF Pick, files
    <2>2. EvalTypes' BY <2>1, TypesKept DEF EvalTypes
    <2>3. ShardInv' BY <2>1 DEF ShardInv, ScoredSteps, ranks
    <2>4. ScoreInv'
      BY <2>1 DEF ScoreInv, ScoredSteps, ShardsIntact, EvalComplete, Ready, HasShard, ranks
    <2> QED BY <2>1, <2>2, <2>3, <2>4, JobsKept, FailuresKept
  <1>4. ASSUME NEW i \in Trainers, LoadShards(i) PROVE EvalInv'
    <2>1. /\ evk # None /\ i \notin loaded /\ loaded' = loaded \union {i}
          /\ faults \subseteq faults' /\ (failed' = failed \/ evk \in faults')
          /\ UNCHANGED <<adapters, reqs, shards, ranks, tp, step, evk, scored>>
      BY <1>4 DEF LoadShards, files, Fault
    <2>2. tp \in {"pick", "score"} BY <2>1 DEF ScoreInv
    <2>3. EvalTypes' BY <2>1, <2>2, TypesKept DEF EvalTypes
    <2>4. ShardInv' BY <2>1 DEF ShardInv, ScoredSteps, ranks
    <2>5. Ready(evk)' BY <2>1, <2>2 DEF ScoreInv, Ready, HasShard
    <2>6. ScoreInv'
      BY <2>1, <2>2, <2>5 DEF ScoreInv, ScoredSteps, ShardsIntact, EvalComplete, ranks
    <2>7. FailInv' BY <2>1 DEF FailInv, Gone, ranks
    <2> QED BY <2>1, <2>3, <2>4, <2>6, <2>7, JobsKept
  <1>5. CASE RemoveShards
    <2>1. /\ tp = "clean" /\ tp' = "cleanReq" /\ shards' = {s \in shards : s.k # evk}
          /\ UNCHANGED <<adapters, reqs, ranks, step, evk, loaded, failed, scored, faults>>
      BY <1>5 DEF RemoveShards
    <2>2. EvalTypes' BY <2>1, TypesKept DEF EvalTypes
    <2>3. ShardInv' BY <2>1 DEF ShardInv, ScoredSteps, ranks
    <2>4. ScoreInv' BY <2>1 DEF ScoreInv, ScoredSteps, ShardsIntact, EvalComplete, ranks
    <2> QED BY <2>1, <2>2, <2>3, <2>4, JobsKept, FailuresKept
  <1>6. CASE RemoveRequest
    <2>1. /\ tp = "cleanReq" /\ tp' = "take" /\ reqs' = reqs \ {evk} /\ evk' = None
          /\ failed' = {}
          /\ UNCHANGED <<adapters, shards, ranks, step, scored, faults>>
      BY <1>6 DEF RemoveRequest
    <2>2. EvalTypes' BY <2>1, TypesKept DEF EvalTypes
    <2>3. \A s \in shards : s.k \notin ScoredSteps BY <2>1 DEF ShardInv, ScoreInv
    <2>4. ShardInv' BY <2>1, <2>3 DEF ShardInv, ScoredSteps, ranks
    <2>5. ScoreInv' BY <2>1 DEF ScoreInv, ScoredSteps, ShardsIntact, EvalComplete, ranks
    <2> QED BY <2>1, <2>2, <2>4, <2>5, JobsKept, FailuresKept
  <1>7. CASE TakeBlocks \/ Finish
    <2>1. /\ tp \in {"take", "final"} /\ tp' \in {"train", "done"}
          /\ UNCHANGED <<adapters, reqs, shards, ranks, step, evk, loaded, failed, scored, faults>>
      BY <1>7 DEF TakeBlocks, Finish
    <2>2. EvalTypes' BY <2>1, TypesKept DEF EvalTypes
    <2>3. ShardInv' BY <2>1 DEF ShardInv, ScoredSteps, ranks
    <2>4. ScoreInv'
      BY <2>1 DEF ScoreInv, ScoredSteps, ShardsIntact, EvalComplete, Ready, HasShard, ranks
    <2> QED BY <2>1, <2>2, <2>3, <2>4, JobsKept, FailuresKept
  <1>8. CASE Update
    <2>1. /\ tp = "train" /\ tp' = "request" /\ step' = step + 1
          /\ adapters' \subseteq adapters \union {step + 1}
          /\ UNCHANGED <<reqs, shards, ranks, evk, loaded, failed, scored, faults>>
      BY <1>8 DEF Update, Newest
    <2>2. step \in Nat /\ Past \subseteq Past' BY <2>1 DEF EvalTypes, Past
    <2>3. \A k \in Past : Gone(k) => Gone(k)' BY <2>1, <2>2 DEF Gone, Past
    <2>4. EvalTypes'
      <3>1. step' \in Nat /\ step' > 0 BY <2>1, <2>2
      <3>2. evk' \in Past' \union {None} /\ reqs' \subseteq Past' BY <2>1, <2>2 DEF EvalTypes
      <3>3. /\ shards' \subseteq [k : Past', rank : Ranks, rows : SUBSET Rows, err : BOOLEAN]
            /\ scored' \subseteq [k : Past', rows : SUBSET Rows, err : BOOLEAN]
        BY <2>1, <2>2 DEF EvalTypes
      <3>4. \A r \in Ranks :
              \/ job'[r] = NoJob
              \/ job'[r] \in [k : Past', left : SUBSET Rows, rows : SUBSET Rows, err : BOOLEAN]
        BY <2>1, <2>2 DEF EvalTypes, ranks
      <3> QED BY <2>1, <3>1, <3>2, <3>3, <3>4 DEF EvalTypes, ranks
    <2>5. JobInv' BY <2>1, <2>2 DEF JobInv, ranks, Complete
    <2>6. ShardInv' BY <2>1 DEF ShardInv, ScoredSteps, ranks
    <2>7. ScoreInv'
      BY <2>1 DEF ScoreInv, ScoredSteps, ShardsIntact, EvalComplete, Ready, HasShard, ranks
    <2>8. FailInv'
      <3>1. \A r \in Ranks : job'[r] = job[r] /\ (job[r] # NoJob => job[r].k \in Past)
        BY <2>1 DEF ranks, EvalTypes
      <3>2. \A s \in shards \union scored : s.k \in Past BY DEF EvalTypes
      <3> QED BY <2>1, <2>3, <3>1, <3>2 DEF FailInv
    <2> QED BY <2>4, <2>5, <2>6, <2>7, <2>8
  <1>9. CASE WriteRequest
    <2>1. /\ tp = "request" /\ tp' \in {"check", "final"} /\ reqs' \subseteq reqs \union {step - 1}
          /\ UNCHANGED <<adapters, shards, ranks, step, evk, loaded, failed, scored, faults>>
      BY <1>9 DEF WriteRequest
    <2>2. step - 1 \in Past BY <2>1 DEF EvalTypes, Past
    <2>3. EvalTypes' BY <2>1, <2>2 DEF EvalTypes, ranks, Past
    <2>4. ShardInv' BY <2>1 DEF ShardInv, ScoredSteps, ranks
    <2>5. ScoreInv'
      BY <2>1 DEF ScoreInv, ScoredSteps, ShardsIntact, EvalComplete, Ready, HasShard, ranks
    <2> QED BY <2>1, <2>3, <2>4, <2>5, JobsKept, FailuresKept
  <1> QED BY <1>1, <1>2, <1>3, <1>4, <1>5, <1>6, <1>7, <1>8, <1>9 DEF Trainer

LEMMA EvalStep ==
  ASSUME EvalInv, [Next]_vars
  PROVE  EvalInv'
  <1>1. ASSUME NEW r \in Ranks, Leave(r) \/ Backpressure(r) \/ Generate(r)
        PROVE  EvalInv'
    BY <1>1, RankMoves DEF Leave, Backpressure, Generate, Goto, files, trainer
  <1>2. ASSUME NEW r \in Ranks, Rollout(r) PROVE EvalInv'
    BY <1>1, <1>2, LookStep, OpenStep, ChunkStep, ShardStep DEF Rollout
  <1>3. CASE UNCHANGED vars
    <2> USE <1>3 DEF vars, EvalInv
    <2>1. EvalTypes' BY DEF EvalTypes, Past
    <2>2. JobInv' BY DEF JobInv, Complete, Past
    <2>3. ShardInv' BY DEF ShardInv, ScoredSteps
    <2>4. ScoreInv' BY DEF ScoreInv, ScoredSteps, ShardsIntact, EvalComplete, Ready, HasShard
    <2>5. FailInv' BY DEF FailInv, Gone
    <2> QED BY <2>1, <2>2, <2>3, <2>4, <2>5
  <1> QED BY <1>2, <1>3, TrainerStep DEF Next, Done

-----------------------------------------------------------------------------

(* The invariant holds in every reachable state of the inline evaluation:  *)
(* requests, jobs, shards and scores fit together.                         *)
THEOREM Invariant == Spec => []EvalInv
  BY EvalInit, EvalStep, PTL DEF Spec

(* An eval is scored whole or as an error, for any number of ranks, rows   *)
(* and chunks.                                                             *)
THEOREM ScoredWhole == Spec => []EvalComplete
  <1>1. EvalInv => EvalComplete BY DEF EvalInv, ScoreInv
  <1> QED BY <1>1, Invariant, PTL

(* No checkpoint is generated for, or its shards written, after its score. *)
THEOREM NothingTwice == Spec => []NoWorkRepeated
  <1>1. EvalInv => NoWorkRepeated
    BY DEF EvalInv, JobInv, ShardInv, ScoreInv, NoWorkRepeated
  <1> QED BY <1>1, Invariant, PTL

(* The shards of an eval are there until all trainer ranks have them.      *)
THEOREM ShardsStayIntact == Spec => []ShardsIntact
  <1>1. EvalInv => ShardsIntact BY DEF EvalInv, ScoreInv
  <1> QED BY <1>1, Invariant, PTL

-----------------------------------------------------------------------------
(* One score for a checkpoint. *)

OneScore == \A s, t \in scored : s.k = t.k => s = t

(* What is taken up has no score yet: its request outlives its shards, but *)
(* nobody writes shards again.                                             *)
HandInv == OneScore /\ (tp \in {"pick", "score"} => evk \notin ScoredSteps)

LEMMA HandStep ==
  ASSUME EvalInv, HandInv, [Next]_vars
  PROVE  HandInv'
  <1> USE DEF EvalInv
  <1>1. ASSUME scored' = scored, tp' \in {"pick", "score"} => evk' \notin ScoredSteps
        PROVE  HandInv'
    BY <1>1 DEF HandInv, OneScore, ScoredSteps
  <1>2. CASE CheckEvals
    <2>1. /\ tp = "check" /\ evk' \in {k \in reqs : Ready(k)} \union {None}
          /\ scored' = scored
      BY <1>2 DEF CheckEvals
    <2>2. evk = None BY <2>1 DEF ScoreInv
    <2>3. None \notin Past BY EvalAssumption DEF Past, None, EvalTypes
    <2>4. \A s \in shards : s.k \notin ScoredSteps
      BY <2>2, <2>3 DEF ShardInv, EvalTypes
    <2>5. None \notin ScoredSteps BY <2>3 DEF ScoredSteps, EvalTypes
    <2>6. 0 \in Ranks BY EvalAssumption DEF Ranks
    <2>7. evk' \notin ScoredSteps BY <2>1, <2>4, <2>5, <2>6 DEF Ready, HasShard
    <2> QED BY <1>1, <2>1, <2>7
  <1>3. CASE Gather
    <2>1. /\ tp = "score" /\ tp' = "clean"
          /\ scored' = scored \union {Outcome(evk)} /\ Outcome(evk).k = evk
      BY <1>3 DEF Gather, Outcome
    <2>2. \A s \in scored : s.k # evk BY <2>1 DEF HandInv, ScoredSteps
    <2> QED BY <2>1, <2>2 DEF HandInv, OneScore
  <1>4. CASE Pick \/ \E i \in Trainers : LoadShards(i)
    <2>1. scored' = scored /\ evk' = evk BY <1>4 DEF Pick, LoadShards, files
    <2>2. tp \in {"pick", "score"} \/ tp' = tp BY <1>4 DEF Pick, LoadShards, files
    <2> QED BY <1>1, <2>1, <2>2 DEF HandInv
  <1>5. CASE RemoveShards \/ RemoveRequest \/ TakeBlocks \/ Update \/ WriteRequest \/ Finish
    <2>1. scored' = scored /\ tp' \notin {"pick", "score"}
      BY <1>5 DEF RemoveShards, RemoveRequest, TakeBlocks, Update, WriteRequest, Finish
    <2> QED BY <1>1, <2>1
  <1>6. CASE (\E r \in Ranks : Rollout(r)) \/ UNCHANGED vars
    <2>1. UNCHANGED <<scored, tp, evk>>
      BY <1>6 DEF Rollout, Look, Leave, OpenRequest, Backpressure, Generate,
         GenerateChunk, WriteShard, trainer, vars
    <2> QED BY <1>1, <2>1 DEF HandInv
  <1> QED BY <1>2, <1>3, <1>4, <1>5, <1>6 DEF Next, Done, Trainer

(* No checkpoint gets two scores: the request that stays a moment longer   *)
(* than its shards is not taken up a second time.                          *)
THEOREM ScoredOnce == Spec => []OneScore
  <1>1. Init => HandInv BY DEF Init, HandInv, OneScore, ScoredSteps
  <1>2. EvalInv /\ HandInv /\ [Next]_vars => HandInv' BY HandStep
  <1>3. HandInv => OneScore BY DEF HandInv
  <1> QED BY <1>1, <1>2, <1>3, Invariant, PTL DEF Spec

-----------------------------------------------------------------------------
(* No exception is lost. *)

(* Where the exception that hit the eval of k is to be found.              *)
Traced(k) ==
  \/ k \in ScoredSteps
  \/ \E r \in Ranks : job[r] # NoJob /\ job[r].k = k /\ job[r].err
  \/ \E s \in shards : s.k = k /\ s.err
  \/ evk = k /\ failed # {}

FaultInv ==
  /\ \A k \in faults : Traced(k)
  /\ \A s \in scored : s.k \in faults => s.err

LEMMA FaultStep ==
  ASSUME EvalInv, HandInv, FaultInv, [Next]_vars
  PROVE  FaultInv'
  <1> USE DEF EvalInv
  <1>1. ASSUME NEW r \in Ranks, GenerateChunk(r) PROVE FaultInv'
    <2>1. /\ job[r] # NoJob /\ ~job[r].err
          /\ UNCHANGED <<shards, scored, evk, failed>>
      BY <1>1 DEF GenerateChunk, Complete, files
    <2>2. job[r] \in [k : Past, left : SUBSET Rows, rows : SUBSET Rows, err : BOOLEAN]
      BY <2>1 DEF EvalTypes
    <2>3. job[r].k \notin ScoredSteps BY <2>1 DEF JobInv, ScoreInv
    <2>4. \A q \in Ranks \ {r} : job'[q] = job[q]
      BY <1>1 DEF GenerateChunk, ChunkDone, ChunkRaises, EvalTypes
    <2>5. \A k : Traced(k) => Traced(k)' BY <2>1, <2>4 DEF Traced, ScoredSteps
    <2>6. CASE ChunkDone(r)
      <3>1. faults' = faults BY <2>6 DEF ChunkDone
      <3> QED BY <2>1, <2>5, <3>1 DEF FaultInv
    <2>7. CASE ChunkRaises(r)
      <3>1. faults' \subseteq faults \union {job[r].k} BY <2>7 DEF ChunkRaises, Fault
      <3>2. job'[r].k = job[r].k /\ job'[r].err
        BY <2>2, <2>7 DEF ChunkRaises, EvalTypes
      <3>3. job'[r] # NoJob BY <3>2 DEF NoJob
      <3>4. \A k : k = job[r].k => Traced(k)' BY <3>2, <3>3 DEF Traced
      <3>5. \A s \in scored : s.k # job[r].k BY <2>3 DEF ScoredSteps
      <3> QED BY <2>1, <2>5, <3>1, <3>4, <3>5 DEF FaultInv
    <2> QED BY <1>1, <2>6, <2>7 DEF GenerateChunk
  <1>2. ASSUME NEW r \in Ranks, WriteShard(r) PROVE FaultInv'
    <2> DEFINE new == [k |-> job[r].k, rank |-> r, rows |-> job[r].rows, err |-> job[r].err]
    <2>1. /\ shards' = shards \union {new} /\ job' = [job EXCEPT ![r] = NoJob]
          /\ UNCHANGED <<scored, evk, failed, faults>>
      BY <1>2 DEF WriteShard, trainer
    <2>2. new.k = job[r].k /\ new.err = job[r].err OBVIOUS
    <2>3. \A q \in Ranks \ {r} : job'[q] = job[q] BY <2>1 DEF EvalTypes
    <2> HIDE DEF new
    <2>4. \A k : Traced(k) => Traced(k)' BY <2>1, <2>2, <2>3 DEF Traced, ScoredSteps
    <2> QED BY <2>1, <2>4 DEF FaultInv
  <1>3. ASSUME NEW r \in Ranks, OpenRequest(r) PROVE FaultInv'
    <2>1. /\ \A q \in Ranks \ {r} : job'[q] = job[q]
          /\ UNCHANGED <<shards, scored, evk, failed, faults>>
      BY <1>3 DEF OpenRequest, files, trainer, EvalTypes
    <2>2. job[r] = NoJob BY <1>3 DEF OpenRequest, JobInv
    <2>3. \A k : Traced(k) => Traced(k)' BY <2>1, <2>2 DEF Traced, ScoredSteps
    <2> QED BY <2>1, <2>3 DEF FaultInv
  <1>4. ASSUME NEW i \in Trainers, LoadShards(i) PROVE FaultInv'
    <2>1. UNCHANGED <<shards, job, scored, evk>> BY <1>4 DEF LoadShards, files, ranks
    <2>2. \/ UNCHANGED <<failed, faults>>
          \/ failed' # {} /\ failed \subseteq failed' /\ faults' = faults \union {evk}
      BY <1>4 DEF LoadShards, Fault
    <2>3. evk \notin ScoredSteps BY <1>4 DEF LoadShards, ScoreInv, HandInv
    <2>4. \A k : Traced(k) => Traced(k)' BY <2>1, <2>2 DEF Traced, ScoredSteps
    <2>5. failed' # {} => Traced(evk)' BY <2>1 DEF Traced
    <2>6. \A s \in scored : s.k # evk BY <2>3 DEF ScoredSteps
    <2> QED BY <2>1, <2>2, <2>4, <2>5, <2>6 DEF FaultInv
  <1>5. CASE Gather
    <2>1. /\ tp = "score" /\ scored' = scored \union {Outcome(evk)}
          /\ UNCHANGED <<shards, job, evk, failed, faults>>
      BY <1>5 DEF Gather, files, ranks
    <2>2. /\ Outcome(evk).k = evk
          /\ Outcome(evk).err = (failed # {} \/ \E s \in shards : s.k = evk /\ s.err)
      BY DEF Outcome
    <2>3. evk \notin ScoredSteps /\ Ready(evk) BY <2>1 DEF HandInv, ScoreInv
    <2>4. \A r \in Ranks : job[r] # NoJob => job[r].k # evk
      BY <2>3 DEF Ready, HasShard, ShardInv, JobInv
    <2>5. evk \in faults => Outcome(evk).err
      BY <2>2, <2>3, <2>4 DEF FaultInv, Traced
    <2>6. \A k : Traced(k) => Traced(k)' BY <2>1 DEF Traced, ScoredSteps
    <2> QED BY <2>1, <2>2, <2>5, <2>6 DEF FaultInv
  <1>6. CASE CheckEvals
    <2>1. UNCHANGED <<shards, job, scored, failed, faults>> /\ tp = "check"
      BY <1>6 DEF CheckEvals, ranks
    <2>2. failed = {} BY <2>1 DEF FailInv, ScoreInv
    <2>3. \A k : Traced(k) => Traced(k)' BY <2>1, <2>2 DEF Traced, ScoredSteps
    <2> QED BY <2>1, <2>3 DEF FaultInv
  <1>7. CASE RemoveShards
    <2>1. /\ shards' = {s \in shards : s.k # evk} /\ evk \in ScoredSteps
          /\ UNCHANGED <<job, scored, evk, failed, faults>>
      BY <1>7 DEF RemoveShards, ranks, ScoreInv
    <2>2. \A k : Traced(k) => Traced(k)' BY <2>1 DEF Traced, ScoredSteps
    <2> QED BY <2>1, <2>2 DEF FaultInv
  <1>8. CASE RemoveRequest
    <2>1. evk \in ScoredSteps /\ UNCHANGED <<shards, job, scored, faults>>
      BY <1>8 DEF RemoveRequest, ranks, ScoreInv
    <2>2. \A k : Traced(k) => Traced(k)' BY <2>1 DEF Traced, ScoredSteps
    <2> QED BY <2>1, <2>2 DEF FaultInv
  <1>9. ASSUME UNCHANGED <<shards, job, scored, evk, failed, faults>> PROVE FaultInv'
    BY <1>9 DEF FaultInv, Traced, ScoredSteps
  <1>10. ASSUME NEW r \in Ranks, Look(r) \/ Leave(r) \/ Backpressure(r) \/ Generate(r)
         PROVE  FaultInv'
    BY <1>9, <1>10 DEF Look, Leave, Backpressure, Generate, files, trainer
  <1>11. CASE Pick \/ TakeBlocks \/ Update \/ WriteRequest \/ Finish \/ UNCHANGED vars
    BY <1>9, <1>11 DEF Pick, TakeBlocks, Update, WriteRequest, Finish, files, ranks, vars
  <1> QED BY <1>1, <1>2, <1>3, <1>4, <1>5, <1>6, <1>7, <1>8, <1>10, <1>11
          DEF Next, Done, Rollout, Trainer

(* Of an exception that hits an eval some trace is kept until it is scored. *)
LEMMA FaultsTraced == Spec => []FaultInv
  <1>1. Init => HandInv /\ FaultInv
    BY DEF Init, HandInv, OneScore, ScoredSteps, FaultInv
  <1>2. EvalInv /\ HandInv /\ FaultInv /\ [Next]_vars => HandInv' /\ FaultInv'
    BY HandStep, FaultStep
  <1> QED BY <1>1, <1>2, Invariant, PTL DEF Spec

(* An exception of any rank ends the eval it hit, and no other, as an      *)
(* error; an eval without one fails only for want of its adapter.          *)
THEOREM EveryErrorAccounted == Spec => []ErrorsAccounted
  <1>1. EvalInv /\ FaultInv => ErrorsAccounted
    BY DEF EvalInv, FailInv, FaultInv, ErrorsAccounted, Gone
  <1> QED BY <1>1, Invariant, FaultsTraced, PTL

-----------------------------------------------------------------------------
(* All adapters kept: nothing but an exception makes an eval fail. *)

(* Every adapter that a request, a job or an eval is about is there.       *)
KeepInv ==
  /\ tp = "request" /\ Publishes(step) => step \in adapters
  /\ \A k \in reqs : ~Gone(k)
  /\ \A r \in Ranks : pc[r] = "open" => ~Gone(want[r])
  /\ \A r \in Ranks : job[r] # NoJob => ~Gone(job[r].k)
  /\ \A s \in shards \union scored : ~Gone(s.k)

LEMMA KeepStep ==
  ASSUME KeepLoras = 0, EvalInv, KeepInv, [Next]_vars
  PROVE  KeepInv'
  <1>1. adapters \subseteq adapters'
    BY DEF Next, Rollout, Look, Leave, OpenRequest, Backpressure, Generate, GenerateChunk,
           WriteShard, Trainer, CheckEvals, Pick, LoadShards, Gather, RemoveShards,
           RemoveRequest, TakeBlocks, Update, WriteRequest, Finish, Done, Newest, files, vars
  <1>2. \A k : ~Gone(k) => ~Gone(k)' BY <1>1 DEF Gone
  <1>3. ASSUME NEW r \in Ranks, Rollout(r) PROVE KeepInv'
    <2>1. UNCHANGED <<reqs, tp, step, scored>>
      BY <1>3 DEF Rollout, Look, Leave, OpenRequest, Backpressure, Generate, GenerateChunk,
                  WriteShard, files, trainer
    <2>2. \A q \in Ranks : pc[q]' = "open" => ~Gone(want[q])'
      <3>1. CASE Look(r)
        <4>1. \A q \in Ranks : pc'[q] = "open" =>
              (want'[q] = want[q] /\ pc[q] = "open") \/ want'[q] \in reqs
          BY <3>1 DEF Look, Goto, OpenRequests, EvalInv, EvalTypes
        <4> QED BY <1>2, <4>1 DEF KeepInv, Gone
      <3>2. CASE ~Look(r)
        <4>1. \A q \in Ranks : pc'[q] = "open" => want'[q] = want[q] /\ pc[q] = "open"
          BY <1>3, <3>2 DEF Rollout, Leave, OpenRequest, Backpressure, Generate, GenerateChunk,
                            WriteShard, Goto, EvalInv, EvalTypes
        <4> QED BY <1>2, <4>1 DEF KeepInv, Gone
      <3> QED BY <3>1, <3>2
    <2>3. \A q \in Ranks : job[q]' # NoJob => ~Gone(job[q].k)'
      <3>1. CASE OpenRequest(r)
        <4>1. \A q \in Ranks :
                job'[q] = job[q] \/ (job'[q].k = want[r] /\ pc[r] = "open")
          BY <3>1 DEF OpenRequest, EvalInv, EvalTypes
        <4> QED BY <1>2, <4>1 DEF KeepInv, Gone
      <3>2. CASE GenerateChunk(r)
        <4>1. job[r] # NoJob /\ job[r] \in [k : Past, left : SUBSET Rows, rows : SUBSET Rows,
                                            err : BOOLEAN]
          BY <3>2 DEF GenerateChunk, EvalInv, EvalTypes
        <4>2. \A q \in Ranks \ {r} : job'[q] = job[q]
          BY <3>2 DEF GenerateChunk, ChunkDone, ChunkRaises, EvalInv, EvalTypes
        <4>3. job'[r].k = job[r].k
          BY <3>2, <4>1 DEF GenerateChunk, ChunkDone, ChunkRaises, EvalInv, EvalTypes
        <4> QED BY <1>2, <4>1, <4>2, <4>3 DEF KeepInv, Gone
      <3>3. CASE ~OpenRequest(r) /\ ~GenerateChunk(r)
        <4>1. \A q \in Ranks : job'[q] \in {job[q], NoJob}
          BY <1>3, <3>3 DEF Rollout, Look, Leave, Backpressure, Generate, WriteShard, EvalInv,
                            EvalTypes
        <4> QED BY <1>2, <4>1 DEF KeepInv, Gone
      <3> QED BY <3>1, <3>2, <3>3
    <2>4. \A s \in shards' \union scored' : ~Gone(s.k)'
      <3>1. \A s \in shards' : s \in shards \/ (s.k = job[r].k /\ job[r] # NoJob)
        <4>1. CASE WriteShard(r) BY <4>1 DEF WriteShard, EvalInv, JobInv
        <4>2. CASE ~WriteShard(r)
          BY <1>3, <4>2 DEF Rollout, Look, Leave, OpenRequest, Backpressure, Generate,
                            GenerateChunk, files
        <4> QED BY <4>1, <4>2
      <3> QED BY <1>2, <2>1, <3>1 DEF KeepInv, Gone
    <2>5. \A k \in reqs' : ~Gone(k)' BY <1>2, <2>1 DEF KeepInv
    <2> QED BY <1>1, <2>1, <2>2, <2>3, <2>4, <2>5 DEF KeepInv, Publishes
  <1>4. ASSUME Trainer PROVE KeepInv'
    <2>1. UNCHANGED <<pc, want, job>> /\ shards' \subseteq shards
      BY <1>4 DEF Trainer, CheckEvals, Pick, LoadShards, Gather, RemoveShards, RemoveRequest,
                  TakeBlocks, Update, WriteRequest, Finish, ranks, files
    <2>2. tp' = "request" /\ Publishes(step') => step' \in adapters'
      BY <1>4 DEF Trainer, CheckEvals, Pick, LoadShards, Gather, RemoveShards, RemoveRequest,
                  TakeBlocks, Update, WriteRequest, Finish, ranks, files, Newest, KeepInv,
                  Publishes
    <2>3. \A k \in reqs' : ~Gone(k)'
      <3>1. \A k \in reqs' : k \in reqs \/ (k = step - 1 /\ tp = "request" /\ Publishes(step))
        <4>1. CASE WriteRequest BY <4>1 DEF WriteRequest
        <4>2. CASE ~WriteRequest
          BY <1>4, <4>2 DEF Trainer, CheckEvals, Pick, LoadShards, Gather, RemoveShards,
                            RemoveRequest, TakeBlocks, Update, Finish, files
        <4> QED BY <4>1, <4>2
      <3>2. step - 1 + 1 = step BY DEF EvalInv, EvalTypes
      <3> QED BY <1>2, <3>1, <3>2 DEF KeepInv, Gone
    <2>4. \A s \in scored' : ~Gone(s.k)
      <3>1. CASE Gather
        <4>1. scored' = scored \union {Outcome(evk)} /\ Ready(evk)
          BY <3>1 DEF Gather, EvalInv, ScoreInv
        <4>2. 0 \in Ranks BY EvalAssumption DEF Ranks
        <4>3. ~Gone(evk) BY <4>1, <4>2 DEF Ready, HasShard, KeepInv
        <4> QED BY <4>1, <4>3 DEF KeepInv, Outcome
      <3>2. CASE ~Gather
        BY <1>4, <3>2 DEF Trainer, CheckEvals, Pick, LoadShards, RemoveShards, RemoveRequest,
                          TakeBlocks, Update, WriteRequest, Finish, KeepInv
      <3> QED BY <3>1, <3>2
    <2> QED BY <1>2, <2>1, <2>2, <2>3, <2>4 DEF KeepInv, Gone
  <1>5. CASE UNCHANGED vars BY <1>5 DEF vars, KeepInv, Gone, Publishes
  <1> QED BY <1>3, <1>4, <1>5 DEF Next, Done

(* An eval fails exactly when an exception hit it. *)
AllScored ==
  \A s \in scored : IF s.k \in faults THEN s.err ELSE ~s.err /\ s.rows = Rows

(* With every adapter kept (--keep-loras 0) an eval that no exception hits *)
(* does not fail, and has the texts of all rows.                           *)
THEOREM KeptAllScored ==
  ASSUME KeepLoras = 0
  PROVE  Spec => []AllScored
  <1>1. Init => KeepInv BY DEF Init, KeepInv
  <1>2. EvalInv /\ KeepInv /\ [Next]_vars => KeepInv' BY KeepStep
  <1>3. EvalInv /\ KeepInv /\ FaultInv => AllScored
    BY DEF EvalInv, ScoreInv, EvalComplete, FailInv, FaultInv, KeepInv, AllScored
  <1> QED BY <1>1, <1>2, <1>3, Invariant, FaultsTraced, PTL DEF Spec

=============================================================================
