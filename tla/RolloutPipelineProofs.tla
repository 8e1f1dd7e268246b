------------------------ MODULE RolloutPipelineProofs ------------------------
(***************************************************************************)
(* Theorems about RolloutPipeline, for every number of rollout and trainer *)
(* ranks and every value of the flags.                                     *)
(***************************************************************************)
EXTENDS PipelineFlags, FiniteSetTheorems, TLAPS

LEMMA NoneIsNoStep == None \notin Nat
  BY DEF None

-----------------------------------------------------------------------------
(* Types.  TypeOK alone is not inductive: Refresh needs that latest exists *)
(* once a rank has left the wait, and Generate that cur_step is a step.    *)

Served ==
  \A r \in Ranks :
    /\ pc[r] # "wait" => latest \in Nat
    /\ pc[r] \in {"bootMeta", "meta"} => want[r] \in Nat
    /\ pc[r] \notin {"wait", "bootMeta", "crashed"} => cur[r] \in Nat
    /\ pc[r] = "write" => name[r] \in Block

TypeInv == TypeOK /\ Served

LEMMA TypeInit == Init => TypeInv
  <1> SUFFICES ASSUME Init PROVE TypeInv OBVIOUS
  <1> USE RanksAssumption, TrainersAssumption, FlagsAssumption, NoneIsNoStep
  <1>1. IsFiniteSet({}) BY FS_EmptySet
  <1>2. TypeOK BY <1>1 DEF Init, TypeOK, RolloutLocation, TrainerLocation
  <1>3. Served BY DEF Init, Served
  <1> QED BY <1>2, <1>3 DEF TypeInv

LEMMA RolloutType ==
  ASSUME TypeInv, NEW r \in Ranks, Rollout(r)
  PROVE  TypeInv'
  <1> USE NoneIsNoStep DEF TypeInv, TypeOK, Served, Goto, files, trainer,
        RolloutLocation
  <1>1. CASE AwaitFirst(r)
    BY <1>1 DEF AwaitFirst
  <1>2. CASE BootMeta(r)
    BY <1>2 DEF BootMeta, OpenMeta
  <1>3. CASE Top(r)
    <2>1. Cardinality(queue) \in Nat BY FS_CardinalityType
    <2> QED BY <1>3, <2>1 DEF Top, CountBlocks
  <1>4. CASE Backpressure(r)
    BY <1>4 DEF Backpressure
  <1>5. CASE Recheck(r)
    <2>1. Cardinality(queue) \in Nat BY FS_CardinalityType
    <2> QED BY <1>5, <2>1 DEF Recheck, CountBlocks
  <1>6. CASE RecheckDepth(r)
    BY <1>6 DEF RecheckDepth
  <1>7. CASE Mark(r)
    BY <1>7 DEF Mark
  <1>8. CASE Refresh(r)
    BY <1>8 DEF Refresh
  <1>9. CASE RefreshMeta(r)
    BY <1>9 DEF RefreshMeta, OpenMeta
  <1>10. CASE Generate(r)
    BY <1>10 DEF Generate, Block
  <1>11. CASE Write(r)
    <2>1. IsFiniteSet(queue \union {name[r]}) BY FS_AddElement
    <2> QED BY <1>11, <2>1 DEF Write
  <1>12. CASE Unmark(r)
    BY <1>12 DEF Unmark
  <1> QED BY <1>1, <1>2, <1>3, <1>4, <1>5, <1>6, <1>7, <1>8, <1>9, <1>10,
            <1>11, <1>12 DEF Rollout

LEMMA TrainerType ==
  ASSUME TypeInv, Trainer
  PROVE  TypeInv'
  <1> USE NoneIsNoStep, TrainersAssumption, FlagsAssumption
        DEF TypeInv, TypeOK, Served, files, rollouts, TrainerLocation, MainGoto
  <1>1. CASE SaveAdapter
    <2>1. IsFiniteSet(adapters \union {step}) BY FS_AddElement
    <2> QED BY <1>1, <2>1 DEF SaveAdapter
  <1>2. CASE FlipLatest
    BY <1>2 DEF FlipLatest
  <1>3. CASE PruneAdapters
    <2>1. Newest(adapters) \in SUBSET adapters BY DEF Newest
    <2>2. IsFiniteSet(Newest(adapters)) BY <2>1, FS_Subset
    <2> QED BY <1>3, <2>1, <2>2 DEF PruneAdapters, NextStep
  <1>4. CASE Pick
    <2>1. stale' \in SUBSET queue BY <1>4 DEF Pick
    <2>2. IsFiniteSet(stale') BY <2>1, FS_Subset
    <2> QED BY <1>4, <2>2 DEF Pick
  <1>5. ASSUME NEW i \in Trainers, Load(i) PROVE TypeInv'
    BY <1>5 DEF Load
  <1>6. CASE Barrier
    BY <1>6 DEF Barrier
  <1>7. CASE DeleteBlocks
    <2>1. queue \ (take \union stale) \in SUBSET queue OBVIOUS
    <2>2. IsFiniteSet(queue \ (take \union stale)) BY <2>1, FS_Subset
    <2> QED BY <1>7, <2>2, FS_CardinalityType DEF DeleteBlocks
  <1>8. CASE Update
    BY <1>8, FS_EmptySet DEF Update
  <1>9. CASE Finish
    BY <1>9 DEF Finish
  <1> QED BY <1>1, <1>2, <1>3, <1>4, <1>5, <1>6, <1>7, <1>8, <1>9 DEF Trainer


LEMMA StutterType ==
  ASSUME TypeInv, UNCHANGED vars
  PROVE  TypeInv'
  BY DEF TypeInv, TypeOK, Served, vars

LEMMA TypeStep == ASSUME TypeInv, [Next]_vars PROVE TypeInv'
  BY RolloutType, TrainerType, StutterType DEF Next, Done

(* The types are invariant together with Served: latest exists once a rank *)
(* has left the wait for it, and the engine then has a step to label with. *)
THEOREM TypeInvariant == Spec => []TypeInv
  <1>1. Init => TypeInv BY TypeInit
  <1>2. TypeInv /\ [Next]_vars => TypeInv' BY TypeStep
  <1> QED BY <1>1, <1>2, PTL DEF Spec

(* Among them those that the module states itself.                         *)
THEOREM TypeCorrect == Spec => []TypeOK
  <1>1. TypeInv => TypeOK BY DEF TypeInv
  <1> QED BY TypeInvariant, <1>1, PTL

-----------------------------------------------------------------------------
(* The depth of the queue.  DepthBound counts blocks and ranks at work; the *)
(* invariant also counts a rank whose last count of the block files let it *)
(* through, even while the queue it counted has filled up behind it.       *)

Committed ==
  {r \in Ranks : \/ pc[r] \in {"mark", "refresh", "meta", "gen", "write"}
                 \/ pc[r] = "recheckDepth" /\ seen[r] < Cap}

DepthInv ==
  Cardinality(queue) + Cardinality(Committed) <= Cap + Cardinality(Ranks) - 1

LEMMA CapType == Cap \in Nat \ {0}
  <1> USE FlagsAssumption DEF Cap
  <1>1. MaxLag * BlocksPerStep \in Nat \ {0}
    <2>1. ASSUME NEW a \in Nat \ {0}, NEW b \in Nat \ {0} PROVE a * b \in Nat \ {0}
      BY <2>1
    <2> QED BY <2>1
  <1> QED BY <1>1

LEMMA CommittedFinite ==
  /\ IsFiniteSet(Committed) /\ Cardinality(Committed) \in Nat
  /\ Cardinality(Committed) <= Cardinality(Ranks)
  /\ Cardinality(Ranks) \in Nat \ {0}
  <1>1. Committed \in SUBSET Ranks BY DEF Committed
  <1> QED BY <1>1, RanksAssumption, FS_Subset, FS_CardinalityType, FS_EmptySet

LEMMA DepthInit == Init => DepthInv
  <1> SUFFICES ASSUME Init PROVE DepthInv OBVIOUS
  <1>1. Committed = {} BY DEF Init, Committed
  <1>2. Cardinality(queue) = 0 BY FS_EmptySet DEF Init
  <1> QED BY <1>1, <1>2, CapType, CommittedFinite, FS_EmptySet DEF DepthInv

(* Steps that put no block in the queue and commit no further rank. *)
LEMMA DepthShrinks ==
  ASSUME TypeInv, TypeInv', DepthInv,
         queue' \subseteq queue, Committed' \subseteq Committed
  PROVE  DepthInv'
  <1>1. IsFiniteSet(queue) /\ IsFiniteSet(Committed)
    BY CommittedFinite DEF TypeInv, TypeOK
  <1>2. /\ Cardinality(queue') <= Cardinality(queue)
        /\ Cardinality(Committed') <= Cardinality(Committed)
    BY <1>1, FS_Subset
  <1>3. /\ Cardinality(queue) \in Nat /\ Cardinality(queue') \in Nat
        /\ Cardinality(Committed) \in Nat /\ Cardinality(Committed') \in Nat
    BY <1>1, FS_Subset, FS_CardinalityType
  <1> QED BY <1>2, <1>3, CapType, CommittedFinite DEF DepthInv

LEMMA DepthRollout ==
  ASSUME TypeInv, TypeInv', DepthInv, NEW r \in Ranks, Rollout(r)
  PROVE  DepthInv'
  <1> USE DEF Goto, files, trainer
  <1>0. /\ pc \in [Ranks -> RolloutLocation] /\ seen \in [Ranks -> Nat]
        /\ IsFiniteSet(queue) /\ IsFiniteSet(inflight)
    BY RanksAssumption, FS_Subset DEF TypeInv, TypeOK
  <1>1. CASE \/ AwaitFirst(r) \/ BootMeta(r) \/ Top(r) \/ Backpressure(r)
             \/ Mark(r) \/ Refresh(r) \/ RefreshMeta(r) \/ Generate(r)
             \/ Unmark(r)
    <2>1. queue' \subseteq queue
      BY <1>1 DEF AwaitFirst, BootMeta, Top, Backpressure, Mark, Refresh,
                  RefreshMeta, Generate, Unmark, OpenMeta
    <2>2. Committed' \subseteq Committed
      BY <1>0, <1>1 DEF Committed, AwaitFirst, BootMeta, Top, Backpressure,
           Mark, Refresh, RefreshMeta, Generate, Unmark, OpenMeta, CountBlocks
    <2> QED BY <2>1, <2>2, DepthShrinks
  (* A fresh count below the cap may commit r; there are at most Cap - 1     *)
  (* blocks then.                                                            *)
  <1>2. CASE Recheck(r)
    <2>1. queue' = queue BY <1>2 DEF Recheck
    <2>2. CASE Cardinality(queue) < Cap
      <3>1. Cardinality(Committed') <= Cardinality(Ranks)
        <4>1. Committed' \in SUBSET Ranks BY DEF Committed
        <4> QED BY <4>1, RanksAssumption, FS_Subset
      <3>2. Cardinality(Committed') \in Nat
        <4>1. Committed' \in SUBSET Ranks BY DEF Committed
        <4> QED BY <4>1, RanksAssumption, FS_Subset, FS_CardinalityType
      <3> QED BY <2>1, <2>2, <3>1, <3>2, <1>0, CapType, CommittedFinite,
                 FS_CardinalityType DEF DepthInv
    <2>3. CASE ~(Cardinality(queue) < Cap)
      <3>1. Committed' \subseteq Committed
        BY <1>0, <1>2, <2>3 DEF Committed, Recheck, CountBlocks
      <3> QED BY <2>1, <3>1, DepthShrinks
    <2> QED BY <2>2, <2>3
  (* A rank that passes was counted already. *)
  <1>3. CASE RecheckDepth(r)
    <2>1. queue' = queue BY <1>3 DEF RecheckDepth
    <2>2. Cardinality(inflight \ {r}) \in Nat
      BY <1>0, FS_RemoveElement, FS_CardinalityType
    <2>3. Depth(r) < Cap => seen[r] < Cap
      BY <1>0, <2>2, CapType DEF Depth
    <2>4. Depth(r) >= Cap \/ Depth(r) < Cap
      BY <1>0, <2>2, CapType DEF Depth
    <2>5. Committed' \subseteq Committed
      BY <1>0, <1>3, <2>3, <2>4 DEF Committed, RecheckDepth
    <2> QED BY <2>1, <2>5, DepthShrinks
  (* The block written is the rank's own commitment. *)
  <1>4. CASE Write(r)
    <2>1. /\ Cardinality(queue') <= Cardinality(queue) + 1
          /\ Cardinality(queue') \in Nat /\ Cardinality(queue) \in Nat
      <3> DEFINE b == name[r]
      <3>1. queue' = queue \union {b} BY <1>4 DEF Write
      <3>2. /\ IsFiniteSet(queue \union {b})
            /\ Cardinality(queue \union {b}) =
                 IF b \in queue THEN Cardinality(queue) ELSE Cardinality(queue) + 1
        BY <1>0, FS_AddElement
      <3>3. Cardinality(queue) \in Nat BY <1>0, FS_CardinalityType
      <3> HIDE DEF b
      <3> QED BY <3>1, <3>2, <3>3
    <2>2. r \in Committed /\ Committed' = Committed \ {r}
      BY <1>0, <1>4 DEF Committed, Write
    <2>3. Cardinality(Committed') = Cardinality(Committed) - 1
      BY <2>2, CommittedFinite, FS_RemoveElement
    <2> QED BY <2>1, <2>3, CapType, CommittedFinite DEF DepthInv
  <1> QED BY <1>1, <1>2, <1>3, <1>4 DEF Rollout

LEMMA DepthTrainer ==
  ASSUME TypeInv, TypeInv', DepthInv, Trainer \/ UNCHANGED vars
  PROVE  DepthInv'
  <1>1. queue' \subseteq queue
    BY DEF Trainer, SaveAdapter, FlipLatest, PruneAdapters, Pick, Load, Barrier,
           DeleteBlocks, Update, Finish, files, vars
  <1>2. Committed' = Committed
    BY DEF Trainer, SaveAdapter, FlipLatest, PruneAdapters, Pick, Load, Barrier,
           DeleteBlocks, Update, Finish, rollouts, vars, Committed
  <1> QED BY <1>1, <1>2, DepthShrinks

LEMMA DepthStep == ASSUME TypeInv, TypeInv', DepthInv, [Next]_vars PROVE DepthInv'
  BY DepthRollout, DepthTrainer DEF Next, Done

LEMMA DepthInvariant == Spec => []DepthInv
  <1>1. TypeInv /\ TypeInv' /\ DepthInv /\ [Next]_vars => DepthInv' BY DepthStep
  <1> QED BY <1>1, DepthInit, TypeInvariant, PTL DEF Spec

(* However the ranks interleave, the blocks on disk and under way exceed   *)
(* the cap by less than the number of rollout ranks.                       *)
THEOREM DepthBounded == Spec => []DepthBound
  <1>1. TypeInv /\ DepthInv => DepthBound
    <2> SUFFICES ASSUME TypeInv, DepthInv PROVE DepthBound OBVIOUS
    <2>1. Generating \in SUBSET Committed BY DEF Generating, Committed
    <2>2. /\ Cardinality(Generating) <= Cardinality(Committed)
          /\ Cardinality(Generating) \in Nat
      BY <2>1, CommittedFinite, FS_Subset, FS_CardinalityType
    <2>3. Cardinality(queue) \in Nat
      BY FS_CardinalityType DEF TypeInv, TypeOK
    <2> QED BY <2>2, <2>3, CapType, CommittedFinite DEF DepthInv, DepthBound
  <1> QED BY <1>1, DepthInvariant, TypeInvariant, PTL


-----------------------------------------------------------------------------
(* The picked files stay until every trainer rank has them in memory: a    *)
(* rank that still loads has rank 0 before the barrier.                    *)

PickInv ==
  /\ \A i \in Trainers : tp[i] = "load" => tp[Main] \in {"load", "barrier"}
  /\ tp[Main] \in {"load", "barrier", "delete"} => take \union stale \subseteq queue

THEOREM LoadsIntact == Spec => []LoadIntact
  <1> USE TrainersAssumption
  <1>1. Init => PickInv
    BY DEF Init, PickInv
  <1>2. TypeInv /\ PickInv /\ [Next]_vars => PickInv'
    <2> SUFFICES ASSUME TypeInv, PickInv, [Next]_vars PROVE PickInv' OBVIOUS
    <2>0. tp \in [Trainers -> TrainerLocation] BY DEF TypeInv, TypeOK
    <2>1. ASSUME NEW r \in Ranks, Rollout(r) PROVE PickInv'
      <3>1. queue \subseteq queue'
        BY <2>1 DEF Rollout, AwaitFirst, BootMeta, Top, Backpressure, Recheck,
             RecheckDepth, Mark, Refresh, RefreshMeta, Generate, Write, Unmark,
             OpenMeta, files
      <3>2. UNCHANGED trainer
        BY <2>1 DEF Rollout, AwaitFirst, BootMeta, Top, Backpressure, Recheck,
             RecheckDepth, Mark, Refresh, RefreshMeta, Generate, Write, Unmark,
             OpenMeta, trainer
      <3> QED BY <3>1, <3>2 DEF PickInv, trainer
    <2>2. CASE Trainer
      <3> USE <2>0 DEF PickInv, MainGoto, files
      <3>1. CASE SaveAdapter BY <3>1 DEF SaveAdapter
      <3>2. CASE FlipLatest BY <3>2 DEF FlipLatest
      <3>3. CASE PruneAdapters BY <3>3 DEF PruneAdapters, NextStep
      <3>4. CASE Pick BY <3>4 DEF Pick
      <3>5. ASSUME NEW i \in Trainers, Load(i) PROVE PickInv' BY <3>5 DEF Load
      <3>6. CASE Barrier BY <3>6 DEF Barrier
      <3>7. CASE DeleteBlocks BY <3>7 DEF DeleteBlocks
      <3>8. CASE Update BY <3>8 DEF Update
      <3>9. CASE Finish BY <3>9 DEF Finish
      <3> QED BY <2>2, <3>1, <3>2, <3>3, <3>4, <3>5, <3>6, <3>7, <3>8, <3>9
              DEF Trainer
    <2>3. CASE UNCHANGED vars BY <2>3 DEF PickInv, vars
    <2> QED BY <2>1, <2>2, <2>3 DEF Next, Done
  <1>3. PickInv => LoadIntact BY DEF PickInv, LoadIntact
  <1> QED BY <1>1, <1>2, <1>3, TypeInvariant, PTL DEF Spec

-----------------------------------------------------------------------------
(* The named adapter: no directory is newer than the one being published,  *)
(* so latest names the newest when the old ones go, and survives.          *)

AdapterInv ==
  /\ \A k \in adapters : k <= step
  /\ latest # None => latest \in adapters
  /\ tp[Main] = "flip" => step \in adapters
  /\ tp[Main] = "prune" => latest = step

LEMMA NewestKeepsTheNewest ==
  ASSUME NEW S, NEW k \in S, S \subseteq Nat, \A j \in S : j <= k
  PROVE  k \in Newest(S)
  <1>1. {j \in S : j > k} = {}
    <2>1. \A j \in S : j \in Nat /\ k \in Nat /\ j <= k OBVIOUS
    <2>2. \A j \in S : ~(j > k) BY <2>1
    <2> QED BY <2>2
  <1>2. Cardinality({j \in S : j > k}) = 0 BY <1>1, FS_EmptySet
  <1> QED BY <1>2, FlagsAssumption DEF Newest

LEMMA AdapterInit == Init => AdapterInv
  BY TrainersAssumption DEF Init, AdapterInv

LEMMA AdapterStep == ASSUME TypeInv, AdapterInv, [Next]_vars PROVE AdapterInv'
  <1> USE TrainersAssumption
  <1>0. /\ tp \in [Trainers -> TrainerLocation] /\ step \in Nat
        /\ adapters \subseteq Nat
    BY DEF TypeInv, TypeOK
  <1>1. ASSUME NEW r \in Ranks, Rollout(r) PROVE AdapterInv'
    <2>1. UNCHANGED <<adapters, latest, trainer>>
      BY <1>1 DEF Rollout, AwaitFirst, BootMeta, Top, Backpressure, Recheck,
           RecheckDepth, Mark, Refresh, RefreshMeta, Generate, Write, Unmark,
           OpenMeta, files
    <2> QED BY <2>1 DEF AdapterInv, trainer
  <1>2. CASE Trainer
    <2> USE <1>0 DEF AdapterInv, MainGoto, files
    <2>1. CASE SaveAdapter BY <2>1 DEF SaveAdapter
    <2>2. CASE FlipLatest BY <2>2 DEF FlipLatest
    <2>3. CASE PruneAdapters
      <3>1. step \in Nat /\ step \in adapters /\ latest = step
        BY <2>3, NoneIsNoStep DEF PruneAdapters
      <3>2. latest \in Newest(adapters)
        BY <3>1, NewestKeepsTheNewest
      <3>3. Newest(adapters) \subseteq adapters BY DEF Newest
      <3> QED BY <2>3, <3>2, <3>3 DEF PruneAdapters, NextStep
    <2>4. CASE Pick BY <2>4 DEF Pick
    <2>5. ASSUME NEW i \in Trainers, Load(i) PROVE AdapterInv' BY <2>5 DEF Load
    <2>6. CASE Barrier BY <2>6 DEF Barrier
    <2>7. CASE DeleteBlocks BY <2>7 DEF DeleteBlocks
    <2>8. CASE Update BY <2>8 DEF Update
    <2>9. CASE Finish BY <2>9 DEF Finish
    <2> QED BY <1>2, <2>1, <2>2, <2>3, <2>4, <2>5, <2>6, <2>7, <2>8, <2>9
            DEF Trainer
  <1>3. CASE UNCHANGED vars BY <1>3 DEF AdapterInv, vars
  <1> QED BY <1>1, <1>2, <1>3 DEF Next, Done

LEMMA AdapterInvariant == Spec => []AdapterInv
  <1>1. TypeInv /\ AdapterInv /\ [Next]_vars => AdapterInv' BY AdapterStep
  <1> QED BY <1>1, AdapterInit, TypeInvariant, PTL DEF Spec

(* The adapter latest names is on disk whenever a rank may read latest.    *)
THEOREM LatestAlwaysLoadable == Spec => []LatestLoadable
  <1>1. AdapterInv => LatestLoadable BY DEF AdapterInv, LatestLoadable
  <1> QED BY <1>1, AdapterInvariant, PTL

-----------------------------------------------------------------------------
(* Labels.  Everything that holds a step number holds one that was         *)
(* published, and none is ahead of latest.                                 *)

Published(k) ==
  k \in Nat /\ StepOffset <= k /\ (k = StepOffset \/ Publishes(k))

Held(k) == k = None \/ (Published(k) /\ k <= latest)

LabelInv ==
  /\ StepOffset <= step
  /\ tp[Main] \in {"save", "flip"} => Published(step)
  /\ latest # None => Published(latest) /\ latest <= step
  /\ \A r \in Ranks : Held(want[r]) /\ Held(cur[r])
  /\ \A r \in Ranks : pc[r] = "write" => Held(name[r].step)
  /\ \A b \in queue \union take : Held(b.step)

LEMMA LabelTrainer ==
  ASSUME TypeInv, LabelInv, Trainer
  PROVE  LabelInv'
  <1> USE TrainersAssumption, FlagsAssumption, NoneIsNoStep
      DEF MainGoto, files, rollouts, LabelInv
  <1>0. /\ tp \in [Trainers -> TrainerLocation] /\ step \in Nat
        /\ latest \in Nat \union {None}
    BY DEF TypeInv, TypeOK
  <1>1. CASE SaveAdapter BY <1>0, <1>1 DEF SaveAdapter, Held
  <1>2. CASE FlipLatest
    <2>1. \A k : Held(k) => Held(k)'
      <3> SUFFICES ASSUME NEW k, k # None, Published(k), k <= latest
                   PROVE  k <= latest'
        BY <1>2 DEF FlipLatest, Held, Published, Publishes
      <3>1. k \in Nat BY DEF Published
      <3>2. latest \in Nat /\ latest <= step
        BY <1>0, <3>1 DEF None
      <3> QED BY <1>0, <1>2, <3>1, <3>2 DEF FlipLatest
    <2> QED BY <1>0, <1>2, <2>1 DEF FlipLatest
  <1>3. CASE PruneAdapters BY <1>0, <1>3 DEF PruneAdapters, NextStep, Held
  <1>4. CASE Pick BY <1>0, <1>4 DEF Pick, Held
  <1>5. ASSUME NEW i \in Trainers, Load(i) PROVE LabelInv'
    BY <1>0, <1>5 DEF Load, Held
  <1>6. CASE Barrier BY <1>0, <1>6 DEF Barrier, Held
  <1>7. CASE DeleteBlocks BY <1>0, <1>7 DEF DeleteBlocks, Held
  <1>8. CASE Update BY <1>0, <1>8 DEF Update, Held, Published
  <1>9. CASE Finish BY <1>0, <1>9 DEF Finish, Held
  <1> QED BY <1>1, <1>2, <1>3, <1>4, <1>5, <1>6, <1>7, <1>8, <1>9 DEF Trainer


LEMMA LabelRollout ==
  ASSUME TypeInv, LabelInv, NEW r \in Ranks, Rollout(r)
  PROVE  LabelInv'
  <1> USE NoneIsNoStep DEF Goto, files, trainer, LabelInv, Held
  <1>0. /\ pc \in [Ranks -> RolloutLocation]
        /\ want \in [Ranks -> Nat \union {None}]
        /\ cur \in [Ranks -> Nat \union {None}]
        /\ name \in [Ranks -> Block \union {NoBlock}]
        /\ latest \in Nat \union {None} /\ step \in Nat
    BY DEF TypeInv, TypeOK
  <1>1. CASE AwaitFirst(r) BY <1>0, <1>1 DEF AwaitFirst
  <1>2. CASE BootMeta(r) BY <1>0, <1>2 DEF BootMeta, OpenMeta
  <1>3. CASE Top(r) BY <1>0, <1>3 DEF Top, CountBlocks
  <1>4. CASE Backpressure(r) BY <1>0, <1>4 DEF Backpressure
  <1>5. CASE Recheck(r) BY <1>0, <1>5 DEF Recheck, CountBlocks
  <1>6. CASE RecheckDepth(r) BY <1>0, <1>6 DEF RecheckDepth
  <1>7. CASE Mark(r) BY <1>0, <1>7 DEF Mark
  <1>8. CASE Refresh(r) BY <1>0, <1>8 DEF Refresh
  <1>9. CASE RefreshMeta(r) BY <1>0, <1>9 DEF RefreshMeta, OpenMeta
  <1>10. CASE Generate(r) BY <1>0, <1>10 DEF Generate
  <1>11. CASE Write(r) BY <1>0, <1>11 DEF Write
  <1>12. CASE Unmark(r) BY <1>0, <1>12 DEF Unmark
  <1> QED BY <1>1, <1>2, <1>3, <1>4, <1>5, <1>6, <1>7, <1>8, <1>9, <1>10,
            <1>11, <1>12 DEF Rollout

LEMMA LabelInit == Init => LabelInv
  BY FlagsAssumption, TrainersAssumption DEF Init, LabelInv, Held, Published

LEMMA LabelStep == ASSUME TypeInv, LabelInv, [Next]_vars PROVE LabelInv'
  <1>1. LabelInv /\ UNCHANGED vars => LabelInv'
    BY DEF LabelInv, Held, vars
  <1> QED BY <1>1, LabelRollout, LabelTrainer DEF Next, Done

(* Everything that holds a step number holds a published one. *)
THEOREM LabelInvariant == Spec => []LabelInv
  <1>1. TypeInv /\ LabelInv /\ [Next]_vars => LabelInv' BY LabelStep
  <1> QED BY <1>1, LabelInit, TypeInvariant, PTL DEF Spec

(* No block is ever labelled with a policy that was not published, or with *)
(* one newer than the trainer's.                                           *)
THEOREM LabelsArePublished == Spec => []LabelsPublished
  <1>1. TypeInv /\ LabelInv => LabelsPublished
    <2> SUFFICES ASSUME TypeInv, LabelInv, NEW b \in queue \union take
                 PROVE  /\ StepOffset <= b.step /\ b.step <= latest
                        /\ latest <= step
                        /\ b.step = StepOffset \/ Publishes(b.step)
      BY DEF LabelsPublished
    <2>1. b \in Block /\ b.step \in Nat BY DEF TypeInv, TypeOK, Block
    <2>2. Published(b.step) /\ b.step <= latest
      BY <2>1, NoneIsNoStep DEF LabelInv, Held
    <2>3. latest # None
      BY <2>1, <2>2 DEF TypeInv, TypeOK, None
    <2> QED BY <2>2, <2>3 DEF LabelInv, Published
  <1> QED BY <1>1, LabelInvariant, TypeInvariant, PTL

-----------------------------------------------------------------------------
(* Batches and names.  Every block under way or on disk has a time of its  *)
(* own, and what rank 0 picks is whole and in the queue until it is gone.  *)

Names ==
  /\ \A r \in Writing : name[r].t \in 1 .. clock
  /\ \A q, r \in Writing : name[q].t = name[r].t => q = r
  /\ \A b \in queue \union Picked : b.t \in 1 .. clock
  /\ \A b \in queue \union Picked, r \in Writing : name[r].t # b.t

BatchWhole ==
  /\ tp[Main] \in {"load", "barrier", "delete"} =>
       /\ Cardinality(take) = BlocksPerStep
       /\ Picked \subseteq queue /\ take \intersect stale = {}
  /\ tp[Main] = "train" =>
       Cardinality(take) = BlocksPerStep /\ Picked \intersect queue = {}
  /\ tp[Main] \notin {"load", "barrier", "delete", "train"} => Picked = {}

Account == Names /\ BatchWhole /\ BlocksAccounted

(* A rollout rank that neither names nor writes a block. *)
LEMMA NamesNothing ==
  ASSUME TypeInv, NEW r \in Ranks, Rollout(r), ~(Generate(r) /\ CanServe(r)), ~Write(r)
  PROVE  /\ Writing' = Writing /\ \A q \in Writing : name'[q] = name[q]
         /\ UNCHANGED <<queue, clock, trainer>>
  <1> USE DEF Goto, files, trainer
  <1>0. pc \in [Ranks -> RolloutLocation] BY DEF TypeInv, TypeOK
  <1>1. CASE AwaitFirst(r) BY <1>0, <1>1 DEF AwaitFirst, Writing
  <1>2. CASE BootMeta(r) BY <1>0, <1>2 DEF BootMeta, OpenMeta, Writing
  <1>3. CASE Top(r) BY <1>0, <1>3 DEF Top, CountBlocks, Writing
  <1>4. CASE Backpressure(r) BY <1>0, <1>4 DEF Backpressure, Writing
  <1>5. CASE Recheck(r) BY <1>0, <1>5 DEF Recheck, CountBlocks, Writing
  <1>6. CASE RecheckDepth(r) BY <1>0, <1>6 DEF RecheckDepth, Writing
  <1>7. CASE Mark(r) BY <1>0, <1>7 DEF Mark, Writing
  <1>8. CASE Refresh(r) BY <1>0, <1>8 DEF Refresh, Writing
  <1>9. CASE RefreshMeta(r) BY <1>0, <1>9 DEF RefreshMeta, OpenMeta, Writing
  <1>10. CASE Generate(r) BY <1>0, <1>10 DEF Generate, Writing
  <1>11. CASE Unmark(r) BY <1>0, <1>11 DEF Unmark, Writing
  <1> QED BY <1>1, <1>2, <1>3, <1>4, <1>5, <1>6, <1>7, <1>8, <1>9, <1>10,
            <1>11 DEF Rollout

(* A block is named. *)
LEMMA NamesOne ==
  ASSUME TypeInv, NEW r \in Ranks, Generate(r), CanServe(r)
  PROVE  /\ r \notin Writing /\ Writing' = Writing \union {r}
         /\ \A q \in Writing : name'[q] = name[q]
         /\ name'[r].step = cur[r] /\ name'[r].t = clock + 1 /\ name'[r].rank = r
         /\ clock' = clock + 1 /\ UNCHANGED <<queue, trainer>>
  BY DEF Generate, Goto, Writing, files, trainer, TypeInv, TypeOK

LEMMA WritesOne ==
  ASSUME TypeInv, NEW r \in Ranks, Write(r)
  PROVE  /\ r \in Writing /\ Writing' = Writing \ {r}
         /\ queue' = queue \union {name[r]} /\ UNCHANGED <<name, clock, trainer>>
  BY DEF Write, Goto, Writing, trainer, TypeInv, TypeOK

LEMMA NamesRollout ==
  ASSUME TypeInv, Names, NEW r \in Ranks, Rollout(r)
  PROVE  Names'
  <1>0. clock \in Nat BY DEF TypeInv, TypeOK
  <1>1. CASE ~(Generate(r) /\ CanServe(r)) /\ ~Write(r)
    BY <1>1, NamesNothing DEF Names, Picked, trainer
  <1>2. CASE Generate(r) /\ CanServe(r)
    <2>1. clock + 1 \notin 1 .. clock /\ 1 .. clock \subseteq 1 .. clock + 1
          /\ clock + 1 \in 1 .. clock + 1
      BY <1>0
    <2>2. name'[r].t = clock + 1 BY <1>2, NamesOne
    <2> QED BY <1>2, <2>1, <2>2, NamesOne DEF Names, Picked, trainer
  <1>3. CASE Write(r)
    BY <1>3, WritesOne DEF Names, Picked, trainer
  <1> QED BY <1>1, <1>2, <1>3

LEMMA NamesTrainer ==
  ASSUME TypeInv, Names, Trainer \/ UNCHANGED vars
  PROVE  Names'
  <1>1. /\ UNCHANGED <<pc, name, clock>>
        /\ queue' \union Picked' \subseteq queue \union Picked
    BY DEF Trainer, SaveAdapter, FlipLatest, PruneAdapters, Pick, Load, Barrier,
           DeleteBlocks, Update, Finish, files, rollouts, vars, Picked
  <1> QED BY <1>1 DEF Names, Writing

LEMMA BatchRollout ==
  ASSUME TypeInv, Names, BatchWhole, NEW r \in Ranks, Rollout(r)
  PROVE  BatchWhole'
  <1>1. CASE ~Write(r)
    <2>1. UNCHANGED <<queue, trainer>> BY <1>1, NamesNothing, NamesOne
    <2> QED BY <2>1 DEF BatchWhole, Picked, trainer
  <1>2. CASE Write(r)
    BY <1>2, WritesOne DEF BatchWhole, Picked, trainer, Names
  <1> QED BY <1>1, <1>2

LEMMA BatchTrainer ==
  ASSUME TypeInv, BatchWhole, Trainer \/ UNCHANGED vars
  PROVE  BatchWhole'
  <1> USE TrainersAssumption DEF BatchWhole, Picked
  <1>0. tp \in [Trainers -> TrainerLocation] BY DEF TypeInv, TypeOK
  <1> USE <1>0 DEF MainGoto, files
  <1>1. CASE SaveAdapter BY <1>1 DEF SaveAdapter
  <1>2. CASE FlipLatest BY <1>2 DEF FlipLatest
  <1>3. CASE PruneAdapters BY <1>3 DEF PruneAdapters, NextStep
  <1>4. CASE Pick BY <1>4 DEF Pick
  <1>5. ASSUME NEW i \in Trainers, Load(i) PROVE BatchWhole' BY <1>5 DEF Load
  <1>6. CASE Barrier BY <1>6 DEF Barrier
  <1>7. CASE DeleteBlocks BY <1>7 DEF DeleteBlocks
  <1>8. CASE Update BY <1>8 DEF Update
  <1>9. CASE Finish BY <1>9 DEF Finish
  <1>10. CASE UNCHANGED vars BY <1>10 DEF vars
  <1> QED BY <1>1, <1>2, <1>3, <1>4, <1>5, <1>6, <1>7, <1>8, <1>9, <1>10
          DEF Trainer

LEMMA WritingFinite == IsFiniteSet(Writing) /\ Cardinality(Writing) \in Nat
  BY RanksAssumption, FS_Subset, FS_CardinalityType DEF Writing

LEMMA AccountRollout ==
  ASSUME TypeInv, Names, BlocksAccounted, NEW r \in Ranks, Rollout(r)
  PROVE  BlocksAccounted'
  <1> USE DEF BlocksAccounted
  <1>0. /\ IsFiniteSet(queue) /\ Cardinality(queue) \in Nat /\ clock \in Nat
        /\ step \in Nat /\ dropped \in Nat /\ StepOffset \in Nat
        /\ BlocksPerStep \in Nat
    BY FlagsAssumption, FS_CardinalityType DEF TypeInv, TypeOK
  <1>a. PICK n \in Int : n = BlocksPerStep * Batches BY <1>0 DEF Batches
  <1>b. UNCHANGED trainer => BlocksPerStep * Batches' = n BY <1>a DEF Batches, trainer
  <1>1. CASE ~(Generate(r) /\ CanServe(r)) /\ ~Write(r)
    BY <1>1, NamesNothing DEF Batches, trainer, Writing
  <1>2. CASE Generate(r) /\ CanServe(r)
    <2>1. Cardinality(Writing') = Cardinality(Writing) + 1
      BY <1>2, NamesOne, WritingFinite, FS_AddElement
    <2>2. UNCHANGED <<queue, dropped>> /\ clock' = clock + 1
      BY <1>2, NamesOne DEF trainer
    <2>3. BlocksPerStep * Batches' = n BY <1>b, <1>2, NamesOne
    <2> QED BY <1>0, <1>a, <2>1, <2>2, <2>3, WritingFinite DEF Writing
  <1>3. CASE Write(r)
    <2>1. Cardinality(Writing') = Cardinality(Writing) - 1
      BY <1>3, WritesOne, WritingFinite, FS_RemoveElement
    <2>2. name[r] \notin queue BY <1>3, WritesOne DEF Names
    <2>3. Cardinality(queue') = Cardinality(queue) + 1
      BY <1>0, <1>3, <2>2, WritesOne, FS_AddElement
    <2>4. UNCHANGED <<clock, dropped>> BY <1>3, WritesOne DEF trainer
    <2> QED BY <1>0, <1>a, <1>b, <1>3, <2>1, <2>3, <2>4, WritesOne, WritingFinite
            DEF Writing
  <1> QED BY <1>1, <1>2, <1>3

LEMMA AccountTrainer ==
  ASSUME TypeInv, BatchWhole, BlocksAccounted, Trainer \/ UNCHANGED vars
  PROVE  BlocksAccounted'
  <1> USE TrainersAssumption DEF BlocksAccounted
  <1>0. /\ IsFiniteSet(queue) /\ Cardinality(queue) \in Nat /\ clock \in Nat
        /\ step \in Nat /\ dropped \in Nat /\ StepOffset \in Nat
        /\ BlocksPerStep \in Nat /\ tp \in [Trainers -> TrainerLocation]
    BY FlagsAssumption, FS_CardinalityType DEF TypeInv, TypeOK
  <1>1. CASE DeleteBlocks
    <2>1. /\ tp[Main] = "delete" /\ tp'[Main] = "train"
          /\ queue' = queue \ Picked /\ dropped' = dropped + Cardinality(stale)
          /\ UNCHANGED <<pc, clock, step>>
      BY <1>0, <1>1 DEF DeleteBlocks, MainGoto, Picked, rollouts
    <2>2. /\ Cardinality(take) = BlocksPerStep /\ Picked \subseteq queue
          /\ take \intersect stale = {}
      BY <2>1 DEF BatchWhole
    <2>3. /\ IsFiniteSet(take) /\ IsFiniteSet(stale) /\ IsFiniteSet(Picked)
          /\ Cardinality(stale) \in Nat
      BY <1>0, <2>2, FS_Subset, FS_CardinalityType DEF Picked
    <2>4. Cardinality(Picked) = BlocksPerStep + Cardinality(stale)
      BY <2>2, <2>3, FS_Union, FS_EmptySet, <1>0 DEF Picked
    <2>5. Cardinality(queue') = Cardinality(queue) - Cardinality(Picked)
      <3>1. queue \intersect Picked = Picked BY <2>2
      <3>2. Cardinality(queue \ Picked) =
              Cardinality(queue) - Cardinality(queue \intersect Picked)
        BY <1>0, FS_Difference
      <3> QED BY <2>1, <3>1, <3>2
    <2>6. Batches = step - StepOffset /\ Batches' = step - StepOffset + 1
      BY <1>0, <2>1 DEF Batches
    <2>7. BlocksPerStep * Batches' = BlocksPerStep * Batches + BlocksPerStep
      <3>1. \A a, b \in Int : a * (b + 1) = a * b + a OBVIOUS
      <3> QED BY <1>0, <2>6, <3>1
    <2>8. PICK n \in Int : n = BlocksPerStep * Batches BY <1>0, <2>6
    <2> QED BY <1>0, <2>1, <2>3, <2>4, <2>5, <2>7, <2>8, WritingFinite DEF Writing
  <1>2. CASE Update
    <2>1. tp[Main] = "train" /\ tp'[Main] # "train" /\ step' = step + 1
      BY <1>0, <1>2 DEF Update
    <2>2. Batches' = Batches BY <1>0, <2>1 DEF Batches
    <2> QED BY <1>2, <2>2 DEF Update, files, rollouts
  <1>3. CASE ~DeleteBlocks /\ ~Update
    <2>1. /\ UNCHANGED <<pc, clock, queue, dropped, step>>
          /\ tp'[Main] = "train" <=> tp[Main] = "train"
      BY <1>0, <1>3 DEF Trainer, SaveAdapter, FlipLatest, PruneAdapters, Pick, Load,
           Barrier, Finish, MainGoto, NextStep, files, rollouts, vars
    <2> QED BY <2>1 DEF Batches
  <1> QED BY <1>1, <1>2, <1>3

LEMMA AccountInit == Init => Account
  <1> SUFFICES ASSUME Init PROVE Account OBVIOUS
  <1>1. Writing = {} /\ Picked = {} /\ queue = {} BY DEF Init, Writing, Picked
  <1>2. Names BY <1>1 DEF Names
  <1>3. tp[Main] = "save" BY TrainersAssumption DEF Init
  <1>4. BatchWhole BY <1>1, <1>3 DEF BatchWhole
  <1>5. BlocksAccounted
    <2>1. Batches = 0 BY <1>3, FlagsAssumption DEF Batches, Init
    <2>2. BlocksPerStep * 0 = 0 BY FlagsAssumption
    <2> QED BY <1>1, <2>1, <2>2, FS_EmptySet DEF BlocksAccounted, Init, Writing
  <1> QED BY <1>2, <1>4, <1>5 DEF Account

LEMMA AccountStep == ASSUME TypeInv, Account, [Next]_vars PROVE Account'
  BY NamesRollout, NamesTrainer, BatchRollout, BatchTrainer, AccountRollout,
     AccountTrainer DEF Account, Next, Done

LEMMA AccountInvariant == Spec => []Account
  <1>1. TypeInv /\ Account /\ [Next]_vars => Account' BY AccountStep
  <1> QED BY <1>1, AccountInit, TypeInvariant, PTL DEF Spec

(* No block is lost and none is trained twice, however many ranks write,   *)
(* whatever is discarded and whenever.                                     *)
THEOREM NoBlockLost == Spec => []BlocksAccounted
  <1>1. Account => BlocksAccounted BY DEF Account
  <1> QED BY <1>1, AccountInvariant, PTL

-----------------------------------------------------------------------------
(* The refinement.  What the abstract guards need of rank 0's place in the *)
(* run: it cuts only while updates are owed, and publishes a new policy.   *)
Stage ==
  /\ tp[Main] = "pick" => step < TotalSteps
  /\ tp[Main] = "final" => step >= TotalSteps
  /\ stop <=> tp[Main] = "done"
  /\ tp[Main] \in {"save", "flip"} => latest # step

LEMMA StageStep ==
  ASSUME TypeInv, LabelInv, Stage, [Next]_vars
  PROVE  Stage'
  <1> USE TrainersAssumption, FlagsAssumption DEF Stage
  <1>0. /\ tp \in [Trainers -> TrainerLocation] /\ step \in Nat
        /\ latest \in Nat \union {None}
    BY DEF TypeInv, TypeOK
  <1>1. ASSUME NEW r \in Ranks, Rollout(r) PROVE Stage'
    <2>1. UNCHANGED <<trainer, stop, latest>>
      BY <1>1 DEF Rollout, AwaitFirst, BootMeta, Top, Backpressure, Recheck,
           RecheckDepth, Mark, Refresh, RefreshMeta, Generate, Write, Unmark,
           OpenMeta, files
    <2> QED BY <2>1 DEF trainer
  <1>2. CASE Trainer
    <2> USE <1>0 DEF MainGoto, files
    <2>1. CASE SaveAdapter BY <2>1 DEF SaveAdapter
    <2>2. CASE FlipLatest BY <2>2 DEF FlipLatest
    <2>3. CASE PruneAdapters BY <2>3 DEF PruneAdapters, NextStep
    <2>4. CASE Pick BY <2>4 DEF Pick
    <2>5. ASSUME NEW i \in Trainers, Load(i) PROVE Stage' BY <2>5 DEF Load
    <2>6. CASE Barrier BY <2>6 DEF Barrier
    <2>7. CASE DeleteBlocks BY <2>7 DEF DeleteBlocks
    <2>8. CASE Update
      <3>1. latest = None \/ latest <= step BY DEF LabelInv
      <3>2. latest # step + 1 BY <1>0, <3>1, NoneIsNoStep DEF None
      <3> QED BY <2>8, <3>2 DEF Update
    <2>9. CASE Finish BY <2>9 DEF Finish
    <2> QED BY <1>2, <2>1, <2>2, <2>3, <2>4, <2>5, <2>6, <2>7, <2>8, <2>9
            DEF Trainer
  <1>3. CASE UNCHANGED vars BY <1>3 DEF vars
  <1> QED BY <1>1, <1>2, <1>3 DEF Next, Done

(* Ids holds every name handed out. *)
Named == 1 .. clock \subseteq Ids

LEMMA InitMapsToInit == Init => Stream!Init
  <1> SUFFICES ASSUME Init PROVE Stream!Init OBVIOUS
  <1>1. Written = {} BY DEF Init, Written
  <1> QED BY <1>1 DEF Init, Stream!Init, Picked, Flags, None

LEMMA RolloutMaps ==
  ASSUME TypeInv, LabelInv, Names, Named, NEW r \in Ranks, Rollout(r)
  PROVE  Stream!Produce \/ UNCHANGED (Stream!vars)
  <1>u. UNCHANGED <<latest, stop, trainer>>
    BY DEF Rollout, AwaitFirst, BootMeta, Top, Backpressure, Recheck,
         RecheckDepth, Mark, Refresh, RefreshMeta, Generate, Write, Unmark,
         OpenMeta, files
  <1>0. clock \in Nat BY DEF TypeInv, TypeOK
  <1>1. CASE ~(Generate(r) /\ CanServe(r)) /\ ~Write(r)
    <2>1. Written' = Written BY <1>1, NamesNothing DEF Written
    <2> QED BY <1>u, <1>1, <2>1, NamesNothing DEF Stream!vars, Picked, trainer
  (* A name is handed out, and is not known yet. *)
  <1>2. CASE Generate(r) /\ CanServe(r)
    <2>0. name'[r].t = clock + 1 BY <1>2, NamesOne
    <2>1. Written' = Written
      <3> DEFINE T == {name[q].t : q \in Writing}
      <3>1. {name'[q].t : q \in Writing'} = T \union {clock + 1}
        BY <1>2, <2>0, NamesOne
      <3>2. 1 .. clock' = 1 .. clock + 1 BY <1>2, NamesOne
      <3>3. (1 .. clock + 1) \ (T \union {clock + 1}) = 1 .. clock \ T
        <4>1. \A x : x \in 1 .. clock + 1 <=> (x \in 1 .. clock \/ x = clock + 1)
          BY <1>0
        <4>2. clock + 1 \notin 1 .. clock BY <1>0
        <4> QED BY <4>1, <4>2
      <3> QED BY <3>1, <3>2, <3>3 DEF Written
    <2> QED BY <1>u, <1>2, <2>1, NamesOne DEF Stream!vars, Picked, trainer
  <1>3. CASE Write(r)
    <2> DEFINE b == name[r]
    <2>1. /\ r \in Writing /\ Writing' = Writing \ {r}
          /\ queue' = queue \union {b} /\ UNCHANGED <<name, clock, trainer>>
      BY <1>3, WritesOne
    <2>2. b \in Block /\ b = [step |-> b.step, t |-> b.t, rank |-> b.rank]
      BY <1>3, <2>1 DEF TypeInv, Served, Block, Write
    <2>3. b.t \in 1 .. clock /\ b \notin Picked BY <2>1 DEF Names
    <2>4. b.t \in Ids \ Written BY <2>1, <2>3 DEF Named, Written
    <2>5. Written' = Written \union {b.t}
      <3>1. {name[q].t : q \in Writing \ {r}} = {name[q].t : q \in Writing} \ {b.t}
        BY <2>1 DEF Names
      <3>2. Written' = 1 .. clock \ {name[q].t : q \in Writing \ {r}}
        BY <2>1 DEF Written
      <3> QED BY <2>3, <3>1, <3>2 DEF Written
    <2>6. (queue \ Picked)' = (queue \ Picked) \union {b}
      BY <2>1, <2>3 DEF Picked, trainer
    <2>7. b.step \in StepOffset .. latest /\ b.rank \in Ranks
      <3>1. Held(b.step) BY <1>3 DEF LabelInv, Write
      <3>2. b.step \in Nat /\ b.rank \in Ranks BY <2>2 DEF Block
      <3>3. StepOffset <= b.step /\ b.step <= latest
        BY <3>1, <3>2, NoneIsNoStep DEF Held, Published
      <3>4. latest \in Int BY DEF TypeInv, TypeOK, None
      <3> QED BY <3>2, <3>3, <3>4, FlagsAssumption
    <2>8. UNCHANGED <<take, latest, step, stop>> BY <1>u DEF trainer
    <2> HIDE DEF b
    <2> QED BY <2>2, <2>4, <2>5, <2>6, <2>7, <2>8 DEF Stream!Produce, Flags
  <1> QED BY <1>1, <1>2, <1>3

LEMMA TrainerMaps ==
  ASSUME TypeInv, TypeInv', LabelInv, BatchWhole, Stage, Trainer
  PROVE  Stream!Next \/ UNCHANGED (Stream!vars)
  <1> USE TrainersAssumption, FlagsAssumption
  <1>0. /\ tp \in [Trainers -> TrainerLocation] /\ step \in Nat
        /\ IsFiniteSet(queue)
    BY DEF TypeInv, TypeOK
  <1>k. UNCHANGED <<pc, name, clock>> => Written' = Written
    BY DEF Written, Writing
  <1>s. ASSUME UNCHANGED <<queue, take, stale, latest, step, stop>>,
               UNCHANGED rollouts
        PROVE  UNCHANGED (Stream!vars)
    BY <1>s, <1>k DEF Stream!vars, Picked, rollouts
  <1>1. CASE SaveAdapter BY <1>1, <1>s DEF SaveAdapter
  <1>2. CASE FlipLatest
    <2>1. latest # step BY <1>2 DEF FlipLatest, Stage
    <2>2. Stream!Publish
      BY <1>2, <2>1, <1>k DEF FlipLatest, Stream!Publish, Picked, rollouts
    <2> QED BY <2>2 DEF Stream!Next
  <1>3. CASE PruneAdapters BY <1>3, <1>s DEF PruneAdapters
  <1>4. CASE Pick
    <2>1. take = {} /\ stale = {} BY <1>4 DEF Pick, BatchWhole, Picked
    <2>2. PICK T \in SUBSET queue :
            /\ Cardinality(T) = BlocksPerStep /\ take' = T
            /\ IF DropStale THEN IsNewest(T, queue) /\ stale' = queue \ T
                            ELSE IsOldest(T, queue) /\ stale' = {}
      BY <1>4 DEF Pick
    <2>3. UNCHANGED <<queue, latest, stop, step, pc, name, clock>>
      BY <1>4 DEF Pick, files, rollouts
    <2>4. (queue \ Picked)' = IF DropStale THEN {} ELSE queue \ T
      BY <2>2, <2>3 DEF Picked
    <2>5. queue \ Picked = queue BY <2>1 DEF Picked
    <2>6. \A b \in T, c \in queue \ T :
            IF DropStale THEN Stream!Before(c, b) ELSE Stream!Before(b, c)
      BY <2>2 DEF IsNewest, IsOldest, Before, Stream!Before
    <2>7. step < TotalSteps BY <1>4 DEF Pick, Stage
    <2>8. Stream!Cut
      <3>1. /\ Flags.BlocksPerStep = BlocksPerStep /\ Flags.TotalSteps = TotalSteps
            /\ Flags.DropStale = DropStale
        BY DEF Flags
      <3>2. Written' = Written BY <1>k, <2>3
      <3>3. T \in SUBSET (queue \ Picked) BY <2>5
      <3>6. Stream!Cardinality(T) = Cardinality(T)
        BY DEF Stream!Cardinality, Cardinality
      <3>4. /\ Cardinality(T) = Flags.BlocksPerStep
            /\ \A b \in T, c \in (queue \ Picked) \ T :
                 IF Flags.DropStale THEN Stream!Before(c, b) ELSE Stream!Before(b, c)
            /\ take' = T
            /\ (queue \ Picked)' =
                 IF Flags.DropStale THEN {} ELSE (queue \ Picked) \ T
        BY <2>2, <2>4, <2>5, <2>6, <3>1
      <3>5. take = {} /\ step < Flags.TotalSteps BY <2>1, <2>7, <3>1
      <3> QED BY <2>3, <3>2, <3>3, <3>4, <3>5, <3>6 DEF Stream!Cut
    <2> QED BY <2>8 DEF Stream!Next
  <1>5. ASSUME NEW i \in Trainers, Load(i) PROVE UNCHANGED (Stream!vars)
    BY <1>5, <1>s DEF Load, files
  <1>6. CASE Barrier BY <1>6, <1>s DEF Barrier, files
  <1>7. CASE DeleteBlocks
    <2>1. (queue \ Picked)' = queue \ Picked BY <1>7 DEF DeleteBlocks, Picked
    <2> QED BY <1>7, <1>k, <2>1 DEF DeleteBlocks, Stream!vars, rollouts
  <1>8. CASE Update
    <2>1. Cardinality(take) = BlocksPerStep /\ Picked \intersect queue = {}
      BY <1>8 DEF Update, BatchWhole
    <2>2. take # {} BY <2>1, FS_EmptySet
    <2>3. (queue \ Picked)' = queue \ Picked
      BY <1>8, <2>1 DEF Update, Picked, files
    <2>4. Stream!Train
      BY <1>8, <1>k, <2>2, <2>3 DEF Update, Stream!Train, files, rollouts
    <2> QED BY <2>4 DEF Stream!Next
  <1>9. CASE Finish
    <2>1. take = {} /\ step >= TotalSteps /\ ~stop
      BY <1>9 DEF Finish, Stage, BatchWhole, Picked
    <2>2. stop' = TRUE /\ UNCHANGED <<queue, take, stale, latest, step, pc, name, clock>>
      BY <1>9 DEF Finish, rollouts
    <2>3. Stream!End BY <1>k, <2>1, <2>2 DEF Stream!End, Picked, Flags
    <2> QED BY <2>3 DEF Stream!Next
  <1> QED BY <1>1, <1>2, <1>3, <1>4, <1>5, <1>6, <1>7, <1>8, <1>9 DEF Trainer

(* For every number of ranks and every value of the flags, the files and   *)
(* locals of the pipeline behave like the abstract stream: each update     *)
(* gets one batch of exactly BlocksPerStep blocks, the oldest (with        *)
(* --drop-stale the newest) there are, and no block comes twice.           *)
THEOREM PipelineImplementsBatches == Spec /\ []Named => ImplementsBatches
  <1>1. Init => Stream!Init BY InitMapsToInit
  <1>2. Init => Stage
    BY TrainersAssumption, FlagsAssumption, NoneIsNoStep DEF Init, Stage
  <1>3. TypeInv /\ LabelInv /\ Stage /\ [Next]_vars => Stage' BY StageStep
  <1>4. TypeInv /\ TypeInv' /\ LabelInv /\ Account /\ Stage /\ Named /\ [Next]_vars
        => [Stream!Next]_(Stream!vars)
    <2> SUFFICES ASSUME TypeInv, TypeInv', LabelInv, Account, Stage, Named,
                        [Next]_vars
                 PROVE  Stream!Next \/ UNCHANGED (Stream!vars)
      OBVIOUS
    <2>1. CASE UNCHANGED vars
      BY <2>1 DEF vars, Stream!vars, Picked, Written, Writing
    <2>2. ASSUME NEW r \in Ranks, Rollout(r)
          PROVE  Stream!Next \/ UNCHANGED (Stream!vars)
      BY <2>2, RolloutMaps DEF Account, Stream!Next
    <2>3. CASE Trainer BY <2>3, TrainerMaps DEF Account
    <2> QED BY <2>1, <2>2, <2>3 DEF Next, Done
  <1>5. Spec => []LabelInv BY LabelInvariant
  <1> QED BY <1>1, <1>2, <1>3, <1>4, <1>5, TypeInvariant, AccountInvariant, PTL
          DEF Spec, ImplementsBatches

(* Without the bound that TLC needs on the names, nothing is left to ask.  *)
THEOREM BatchesForEver == ASSUME Nat \subseteq Ids PROVE Spec => ImplementsBatches
  <1>1. TypeInv => Named
    <2> SUFFICES ASSUME TypeInv PROVE Named OBVIOUS
    <2>1. clock \in Nat BY DEF TypeInv, TypeOK
    <2> QED BY <2>1 DEF Named
  <1> QED BY <1>1, TypeInvariant, PipelineImplementsBatches, PTL

(* The blocks that rank 0 has not picked. *)
Waiting == queue \ Picked

(* A block enters the queue under a name that none had before, and a batch *)
(* takes its blocks away from those that wait.                             *)
OnceEach ==
  /\ Written \subseteq Written'
  /\ \A b \in Waiting' \ Waiting : b.t \in Written' \ Written
  /\ \A b \in take' \ take : b \in Waiting \ Waiting'

LEMMA StepsTakeOnce ==
  ASSUME Stream!Next
  PROVE  OnceEach
  <1>1. CASE Stream!Produce
    <2>1. PICK t \in Ids \ Written, k \in Flags.StepOffset .. latest, r \in Ranks :
            /\ Waiting' = Waiting \union {[step |-> k, t |-> t, rank |-> r]}
            /\ Written' = Written \union {t} /\ take' = take
      BY <1>1 DEF Stream!Produce, Waiting
    <2> QED BY <2>1 DEF OnceEach
  <1>2. CASE Stream!Cut BY <1>2 DEF Stream!Cut, OnceEach, Waiting
  <1>3. CASE Stream!Publish BY <1>3 DEF Stream!Publish, OnceEach, Waiting
  <1>4. CASE Stream!Train BY <1>4 DEF Stream!Train, OnceEach, Waiting
  <1>5. CASE Stream!End BY <1>5 DEF Stream!End, OnceEach, Waiting
  <1> QED BY <1>1, <1>2, <1>3, <1>4, <1>5 DEF Stream!Next

(* No block is trained twice: neither a delete that comes late nor a name  *)
(* used again brings one back, whatever the interleaving.                  *)
THEOREM NoneTrainedTwice == ASSUME Nat \subseteq Ids PROVE Spec => [][OnceEach]_(Stream!vars)
  <1>1. Stream!Next => OnceEach BY StepsTakeOnce
  <1> QED BY <1>1, BatchesForEver, PTL DEF ImplementsBatches

-----------------------------------------------------------------------------
(* One rollout rank.  The queue is then in the order of the policies, and  *)
(* a block waits behind fewer than Cap others: every batch that is cut     *)
(* takes BlocksPerStep of them away, so the age of a block (in batches,    *)
(* times BlocksPerStep) plus the blocks before it never grow.              *)

Sorted ==
  /\ \A r \in Ranks : pc[r] = "wait" => cur[r] = None
  /\ \A b \in queue \union Picked, r \in Ranks : b.step <= cur[r]
  /\ \A r \in Ranks : pc[r] \in {"bootMeta", "meta"} => cur[r] <= want[r]
  /\ \A r \in Writing : /\ name[r].step = cur[r]
                        /\ \A b \in queue \union Picked : b.t < name[r].t
  /\ \A b \in Picked, c \in queue \ Picked : Before(b, c)

(* The batches cut so far, as a step number. *)
CutStep == step + (IF tp[Main] = "train" THEN 1 ELSE 0)

Fresh ==
  latest # None =>
    step - latest <= IF tp[Main] \in {"save", "flip"} THEN PublishEvery
                     ELSE step % PublishEvery

(* The blocks the batches since update k took. *)
Debt(k) == (CutStep - k) * BlocksPerStep

Limit == (MaxLag + PublishEvery) * BlocksPerStep

Ahead(b) == {c \in queue : Before(c, b)}

InLimit ==
  /\ \A b \in queue : Debt(b.step) + Cardinality(Ahead(b)) < Limit
  /\ \A r \in Ranks : pc[r] \in {"bootMeta", "meta"} =>
       Debt(want[r]) + Cardinality(queue) < Limit
  /\ \A r \in Ranks : pc[r] \in {"gen", "write"} =>
       Debt(cur[r]) + Cardinality(queue) < Limit
  /\ tp[Main] = "train" =>
       \A b \in take : step - b.step < MaxLag + PublishEvery

(* Products of the bounds, apart from the rest: the provers are weak at it. *)
LEMMA Products ==
  ASSUME NEW a \in Int, NEW b \in Nat \ {0}, NEW m \in Int, NEW p \in Int
  PROVE  /\ a * b \in Int
         /\ (a + 1) * b = a * b + b
         /\ (m + p) * b = m * b + p * b
         /\ a <= p => a * b <= p * b
         /\ a >= p => a * b >= p * b
  <1>1. a * b \in Int OBVIOUS
  <1>2. (a + 1) * b = a * b + b OBVIOUS
  <1>3. (m + p) * b = m * b + p * b OBVIOUS
  <1>4. \A x, y \in Int : x <= y => x * b <= y * b
    <2> SUFFICES ASSUME NEW x \in Int, NEW y \in Int, x <= y PROVE x * b <= y * b
      OBVIOUS
    <2>1. PICK d \in Nat : y = x + d
      <3>1. y - x \in Nat /\ y = x + (y - x) OBVIOUS
      <3> QED BY <3>1
    <2>2. y * b = x * b + d * b BY <2>1
    <2>3. d * b \in Nat BY <2>1
    <2>4. x * b \in Int OBVIOUS
    <2> QED BY <2>2, <2>3, <2>4
  <1>5. a <= p => a * b <= p * b BY <1>4
  <1>6. a >= p => a * b >= p * b BY <1>4
  <1> QED BY <1>1, <1>2, <1>3, <1>5, <1>6

LEMMA Remainder ==
  ASSUME NEW s \in Nat, NEW p \in Nat \ {0}
  PROVE  \E q \in Int, r \in 0 .. p - 1 : s % p = r /\ r = s - p * q
  <1>1. s % p \in 0 .. p - 1 /\ s \div p \in Int OBVIOUS
  <1>2. s % p = s - p * (s \div p) OBVIOUS
  <1> QED BY <1>1, <1>2, Zenon

LEMMA Modulo ==
  ASSUME NEW s \in Nat, NEW p \in Nat \ {0}
  PROVE  /\ s % p \in 0 .. p - 1
         /\ (s + 1) % p # 0 => (s + 1) % p = (s % p) + 1
  <1>1. PICK q \in Int, r \in 0 .. p - 1 : s % p = r /\ r = s - p * q
    BY Remainder
  <1>2. PICK Q \in Int, R \in 0 .. p - 1 : (s + 1) % p = R /\ R = s + 1 - p * Q
    BY Remainder
  <1>3. \A x, y \in Int : p * (x - y) = p * x - p * y OBVIOUS
  <1>4. PICK d \in Int : d = Q - q OBVIOUS
  <1>5. p * d = 1 - (R - r)
    <2>1. p * d = p * Q - p * q BY <1>3, <1>4
    <2>2. p * Q \in Int /\ p * q \in Int OBVIOUS
    <2> QED BY <1>1, <1>2, <2>1, <2>2
  <1>6. d = 0 \/ d = 1
    <2>1. d >= 2 => p * d >= p * 2 OBVIOUS
    <2>2. d <= -1 => p * d <= p * (-1) OBVIOUS
    <2> QED BY <1>5, <2>1, <2>2
  <1>7. d = 0 => R = r + 1 BY <1>5
  <1>8. d = 1 => R = 0 BY <1>5
  <1> QED BY <1>1, <1>2, <1>6, <1>7, <1>8

LEMMA DebtType ==
  ASSUME TypeInv, OneRollout, NEW k \in Int
  PROVE  /\ CutStep \in Nat /\ Debt(k) \in Int /\ Limit \in Int
         /\ step <= CutStep
         /\ \A n \in Nat : Debt(k) + n < Limit => CutStep - k < MaxLag + PublishEvery
         /\ \A n \in Nat : CutStep - k <= PublishEvery /\ n < MaxLag * BlocksPerStep
                           => Debt(k) + n < Limit
  <1>1. /\ step \in Nat /\ CutStep \in Nat /\ step <= CutStep
        /\ BlocksPerStep \in Nat \ {0}
        /\ MaxLag + PublishEvery \in Nat /\ MaxLag \in Nat /\ PublishEvery \in Nat
    BY FlagsAssumption DEF TypeInv, TypeOK, CutStep
  <1> DEFINE a == CutStep - k
  <1>2. a \in Int BY <1>1
  <1>3. Debt(k) = a * BlocksPerStep BY DEF Debt
  <1> HIDE DEF a
  <1>4. a * BlocksPerStep \in Int /\ Limit \in Int BY <1>1, <1>2, Products DEF Limit
  <1>5. a >= MaxLag + PublishEvery => a * BlocksPerStep >= Limit
    BY <1>1, <1>2, Products DEF Limit
  <1>6. a <= PublishEvery => a * BlocksPerStep <= PublishEvery * BlocksPerStep
    BY <1>1, <1>2, Products
  <1>7. Limit = MaxLag * BlocksPerStep + PublishEvery * BlocksPerStep
    BY <1>1, Products DEF Limit
  <1>8. MaxLag * BlocksPerStep \in Int /\ PublishEvery * BlocksPerStep \in Int
    BY <1>1, Products
  <1>9. ASSUME NEW n \in Nat, Debt(k) + n < Limit PROVE a < MaxLag + PublishEvery
    BY <1>1, <1>2, <1>3, <1>4, <1>5, <1>9
  <1>10. ASSUME NEW n \in Nat, a <= PublishEvery, n < MaxLag * BlocksPerStep
         PROVE Debt(k) + n < Limit
    BY <1>2, <1>3, <1>4, <1>6, <1>7, <1>8, <1>10
  <1> QED BY <1>1, <1>3, <1>4, <1>9, <1>10 DEF a

Lag == Sorted /\ Fresh /\ InLimit

LEMMA LagInit == Init => Lag
  <1> SUFFICES ASSUME Init PROVE Lag OBVIOUS
  <1>1. queue = {} /\ Picked = {} /\ Writing = {} BY DEF Init, Picked, Writing
  <1>2. tp[Main] = "save" BY TrainersAssumption DEF Init
  <1>3. Sorted BY <1>1 DEF Init, Sorted
  <1>4. Fresh BY DEF Init, Fresh
  <1>5. InLimit BY <1>1, <1>2 DEF Init, InLimit
  <1> QED BY <1>3, <1>4, <1>5 DEF Lag

LEMMA SortedRollout ==
  ASSUME TypeInv, LabelInv, Names, BatchWhole, Sorted, OneRollout,
         NEW r \in Ranks, Rollout(r)
  PROVE  Sorted'
  <1> USE DEF Goto, files, trainer, Sorted, Writing, Picked
  <1>0. /\ pc \in [Ranks -> RolloutLocation] /\ Ranks = {r}
        /\ want \in [Ranks -> Nat \union {None}]
        /\ cur \in [Ranks -> Nat \union {None}]
        /\ name \in [Ranks -> Block \union {NoBlock}]
        /\ latest \in Nat \union {None} /\ clock \in Nat
        /\ \A b \in queue \union Picked : b \in Block /\ b.step \in Nat /\ b.t \in Nat
    <2>1. \A b \in queue \union Picked : b \in Block BY DEF TypeInv, TypeOK
    <2> QED BY <2>1 DEF TypeInv, TypeOK, OneRollout, Block
  <1>1. CASE AwaitFirst(r)
    <2>1. latest \in Nat /\ cur[r] = None BY <1>0, <1>1 DEF AwaitFirst
    <2>2. cur[r] <= latest BY <2>1 DEF None
    <2> QED BY <1>0, <1>1, <2>2 DEF AwaitFirst
  <1>2. CASE OpenMeta(r, "bootMeta", "top") \/ OpenMeta(r, "meta", "gen")
    <2>1. want[r] \in Int /\ cur[r] \in Int BY <1>0 DEF None
    <2>2. cur[r] <= want[r] BY <1>2 DEF OpenMeta
    <2>3. UNCHANGED <<queue, take, stale, name, want>> /\ pc[r] \in {"bootMeta", "meta"}
          /\ pc'[r] \in {"top", "gen", "crashed"} /\ cur'[r] \in {cur[r], want[r]}
      BY <1>0, <1>2 DEF OpenMeta
    <2>4. \A b \in queue \union Picked : b.step <= cur'[r]
      BY <1>0, <2>1, <2>2, <2>3
    <2> QED BY <1>0, <2>3, <2>4
  <1>3. CASE Top(r) BY <1>0, <1>3 DEF Top, CountBlocks
  <1>4. CASE Backpressure(r) BY <1>0, <1>4 DEF Backpressure
  <1>5. CASE Recheck(r) BY <1>0, <1>5 DEF Recheck, CountBlocks
  <1>6. CASE RecheckDepth(r) BY <1>0, <1>6 DEF RecheckDepth
  <1>7. CASE Mark(r) BY <1>0, <1>7 DEF Mark
  <1>8. CASE Refresh(r)
    <2>1. latest \in Nat /\ cur[r] \in Nat BY <1>8 DEF Refresh, TypeInv, Served
    <2>2. cur[r] <= latest BY <2>1, NoneIsNoStep DEF LabelInv, Held
    <2> QED BY <1>0, <1>8, <2>2 DEF Refresh
  <1>10. CASE Generate(r)
    <2>1. CASE CanServe(r)
      <3>1. /\ name'[r].step = cur[r] /\ name'[r].t = clock + 1
            /\ UNCHANGED <<queue, take, stale, cur, want>>
        BY <1>10, <2>1, NamesOne DEF Generate
      <3>2. \A b \in queue \union Picked : b.t < clock + 1
        BY <1>0 DEF Names
      <3>3. pc'[r] = "write" BY <1>0, <1>10, <2>1 DEF Generate
      <3> QED BY <1>0, <3>1, <3>2, <3>3
    <2> QED BY <1>0, <1>10, <2>1 DEF Generate
  <1>11. CASE Write(r)
    <2>1. /\ queue' = queue \union {name[r]} /\ UNCHANGED <<take, stale, cur, want, name>>
          /\ pc[r] = "write" /\ pc'[r] = "unmark"
      BY <1>0, <1>11 DEF Write
    <2>2. /\ name[r].step = cur[r] /\ cur[r] \in Int
          /\ \A b \in queue \union Picked : b.t < name[r].t /\ b.step <= cur[r]
      BY <1>0, <2>1 DEF None
    <2>3. \A b \in Picked : Before(b, name[r])
      BY <1>0, <2>2 DEF Before
    <2>4. \A b \in Picked, c \in queue' \ Picked' : Before(b, c)
      BY <2>1, <2>3
    <2> QED BY <1>0, <2>1, <2>2, <2>4 DEF Before
  <1>12. CASE Unmark(r) BY <1>0, <1>12 DEF Unmark
  <1> QED BY <1>1, <1>2, <1>3, <1>4, <1>5, <1>6, <1>7, <1>8, <1>10,
            <1>11, <1>12 DEF Rollout, BootMeta, RefreshMeta

LEMMA SortedTrainer ==
  ASSUME TypeInv, BatchWhole, Sorted, Trainer \/ UNCHANGED vars
  PROVE  Sorted'
  <1> USE TrainersAssumption DEF Sorted, Writing, Picked
  <1>0. tp \in [Trainers -> TrainerLocation] BY DEF TypeInv, TypeOK
  <1>1. CASE Pick
    <2>0. UNCHANGED <<pc, want, cur, name, queue>> /\ take = {} /\ stale = {}
      BY <1>1 DEF Pick, files, rollouts, BatchWhole
    <2>1. PICK T \in SUBSET queue :
            /\ take' = T
            /\ IF DropStale THEN IsNewest(T, queue) /\ stale' = queue \ T
                            ELSE IsOldest(T, queue) /\ stale' = {}
      BY <1>1 DEF Pick
    <2>2. \A b \in take' \union stale', c \in queue' \ (take' \union stale') : Before(b, c)
      BY <2>0, <2>1 DEF IsOldest
    <2>3. queue' \union take' \union stale' \subseteq queue BY <2>0, <2>1
    <2>4. (\A b \in Picked, c \in queue \ Picked : Before(b, c))' BY <2>2 DEF Before
    <2> QED BY <2>0, <2>3, <2>4
  <1>2. CASE ~Pick
    <2>1. /\ UNCHANGED <<pc, want, cur, name>> /\ queue' \subseteq queue
          /\ take' \union stale' \subseteq take \union stale
          /\ \/ take' \union stale' = take \union stale
             \/ take' \union stale' = {}
      BY <1>2 DEF Trainer, SaveAdapter, FlipLatest, PruneAdapters, Load, Barrier,
           DeleteBlocks, Update, Finish, files, rollouts, vars
    <2> QED BY <2>1 DEF Before
  <1> QED BY <1>1, <1>2

LEMMA FreshStep ==
  ASSUME TypeInv, LabelInv, Fresh, OneRollout, [Next]_vars
  PROVE  Fresh'
  <1> USE TrainersAssumption, FlagsAssumption DEF Fresh
  <1>0. /\ tp \in [Trainers -> TrainerLocation] /\ step \in Nat
        /\ latest \in Nat \union {None} /\ PublishEvery \in Nat \ {0}
    BY DEF TypeInv, TypeOK, OneRollout
  <1>m. /\ step % PublishEvery \in 0 .. PublishEvery - 1
        /\ (step + 1) % PublishEvery # 0 =>
             (step + 1) % PublishEvery = (step % PublishEvery) + 1
    BY <1>0, Modulo
  <1>1. CASE FlipLatest
    <2>1. latest' = step /\ step' = step /\ tp'[Main] = "prune"
      BY <1>0, <1>1 DEF FlipLatest, MainGoto
    <2> QED BY <1>0, <1>m, <2>1
  <1>2. CASE Update
    <2>1. /\ tp[Main] = "train" /\ latest' = latest /\ step' = step + 1
          /\ tp'[Main] = IF Publishes(step + 1) THEN "save"
                         ELSE IF step + 1 < TotalSteps THEN "pick" ELSE "final"
      BY <1>0, <1>2 DEF Update, files
    <2>2. CASE latest # None
      <3>1. latest \in Nat /\ step - latest <= step % PublishEvery
        BY <1>0, <2>1, <2>2
      <3>2. CASE Publishes(step + 1)
        BY <1>0, <1>m, <2>1, <3>1, <3>2
      <3>3. CASE ~Publishes(step + 1)
        <4>1. (step + 1) % PublishEvery # 0 BY <1>0, <3>3 DEF Publishes
        <4>2. PICK x \in Int : x = step % PublishEvery BY <1>m
        <4>3. (step + 1) % PublishEvery = x + 1 BY <1>m, <4>1, <4>2
        <4>4. step' - latest <= x + 1 BY <1>0, <2>1, <3>1, <4>2
        <4>5. tp'[Main] \notin {"save", "flip"} BY <2>1, <3>3
        <4>6. step' % PublishEvery = x + 1 BY <2>1, <4>3
        <4> QED BY <2>1, <4>4, <4>5, <4>6
      <3> QED BY <3>2, <3>3
    <2> QED BY <2>1, <2>2
  <1>3. CASE ~FlipLatest /\ ~Update
    <2>1. /\ UNCHANGED <<latest, step>>
          /\ \/ tp'[Main] \in {"save", "flip"} <=> tp[Main] \in {"save", "flip"}
      BY <1>0, <1>3 DEF Next, Done, Rollout, AwaitFirst, BootMeta, Top, Backpressure,
           Recheck, RecheckDepth, Mark, Refresh, RefreshMeta, Generate, Write,
           Unmark, OpenMeta, Trainer, SaveAdapter, PruneAdapters, Pick, Load,
           Barrier, DeleteBlocks, Finish, MainGoto, NextStep, files, trainer,
           rollouts, vars
    <2> QED BY <2>1
  <1> QED BY <1>1, <1>2, <1>3

(* What a rank that reads latest may add: latest lags by a publication. *)
LEMMA FreshEnough ==
  ASSUME TypeInv, Fresh, OneRollout, latest # None
  PROVE  CutStep - latest <= PublishEvery
  <1>0. /\ step \in Nat /\ latest \in Nat /\ PublishEvery \in Nat \ {0}
    BY FlagsAssumption DEF TypeInv, TypeOK, OneRollout
  <1>a. step % PublishEvery \in 0 .. PublishEvery - 1 BY <1>0, Modulo
  <1>m. PICK x \in Int : x = step % PublishEvery /\ x <= PublishEvery - 1
    BY <1>0, <1>a
  <1> QED BY <1>0, <1>m DEF Fresh, CutStep

LEMMA AheadFinite ==
  ASSUME TypeInv, NEW b
  PROVE  /\ IsFiniteSet(Ahead(b)) /\ Cardinality(Ahead(b)) \in Nat
         /\ Cardinality(Ahead(b)) <= Cardinality(queue) /\ Cardinality(queue) \in Nat
  <1>1. Ahead(b) \in SUBSET queue /\ IsFiniteSet(queue) BY DEF Ahead, TypeInv, TypeOK
  <1> QED BY <1>1, FS_Subset, FS_CardinalityType

(* A rank that has just passed the cap, with latest in its hands. *)
LEMMA RoomForLatest ==
  ASSUME TypeInv, DepthInv, Fresh, OneRollout, latest # None,
         \/ queue = {}
         \/ \E r \in Ranks : pc[r] = "refresh"
  PROVE  Debt(latest) + Cardinality(queue) < Limit
  <1>0. /\ latest \in Int /\ Cardinality(queue) \in Nat /\ Cap \in Nat \ {0}
        /\ MaxLag * BlocksPerStep \in Int /\ IsFiniteSet(queue)
    BY CapType, FlagsAssumption, Products, FS_CardinalityType
       DEF TypeInv, TypeOK, None
  <1>1. Cardinality(queue) < Cap
    <2>1. CASE queue = {} BY <1>0, <2>1, FS_EmptySet
    <2>2. ASSUME NEW r \in Ranks, pc[r] = "refresh" PROVE Cardinality(queue) < Cap
      <3>1. Ranks = {r} /\ Committed = {r} BY <2>2 DEF OneRollout, Committed
      <3>2. Cardinality(Ranks) = 1 /\ Cardinality(Committed) = 1
        BY <3>1, FS_Singleton
      <3> QED BY <1>0, <3>2 DEF DepthInv
    <2> QED BY <2>1, <2>2
  <1>2. Cap <= MaxLag * BlocksPerStep BY FlagsAssumption DEF Cap, OneRollout
  <1>3. Cardinality(queue) < MaxLag * BlocksPerStep
    <2>1. MaxLag * BlocksPerStep \in Nat BY FlagsAssumption
    <2> QED BY <1>0, <1>1, <1>2, <2>1
  <1> QED BY <1>0, <1>3, FreshEnough, DebtType

LEMMA LimitRollout ==
  ASSUME TypeInv, LabelInv, DepthInv, Names, BatchWhole, Lag, OneRollout,
         NEW r \in Ranks, Rollout(r)
  PROVE  InLimit'
  <1> USE DEF Goto, files, trainer, InLimit, Lag
  <1>0. /\ pc \in [Ranks -> RolloutLocation] /\ Ranks = {r}
        /\ want \in [Ranks -> Nat \union {None}]
        /\ cur \in [Ranks -> Nat \union {None}]
        /\ latest \in Nat \union {None}
    BY DEF TypeInv, TypeOK, OneRollout
  <1>u. UNCHANGED <<tp, step, take, latest>>
    BY DEF Rollout, AwaitFirst, BootMeta, Top, Backpressure, Recheck,
         RecheckDepth, Mark, Refresh, RefreshMeta, Generate, Write, Unmark,
         OpenMeta
  <1>d. \A k : Debt(k)' = Debt(k) BY <1>u DEF Debt, CutStep
  <1>q. CASE UNCHANGED queue
    <2> USE <1>q
    <2>a. \A b \in queue : Ahead(b)' = Ahead(b) BY DEF Ahead, Before
    <2>b. \A b \in queue' : Debt(b.step)' + Cardinality(Ahead(b)') < Limit
      BY <1>d, <2>a
    <2>1. CASE AwaitFirst(r)
      <3>1. cur[r] = None /\ latest # None BY <2>1 DEF AwaitFirst, Sorted
      <3>2. queue = {}
        <4>1. \A b \in queue : b.step <= -1 /\ b.step \in Nat
          BY <3>1 DEF Sorted, None, TypeInv, TypeOK, Block
        <4> QED BY <4>1
      <3>3. Debt(latest) + Cardinality(queue) < Limit BY <3>1, <3>2, RoomForLatest
      <3>4. pc'[r] = "bootMeta" /\ want'[r] = latest BY <1>0, <2>1 DEF AwaitFirst
      <3> QED BY <1>0, <1>u, <1>d, <2>b, <3>3, <3>4
    <2>2. CASE Refresh(r)
      <3>1. pc[r] = "refresh" /\ latest # None
        BY <2>2, NoneIsNoStep DEF Refresh, TypeInv, Served
      <3>2. Debt(latest) + Cardinality(queue) < Limit BY <3>1, RoomForLatest
      <3>3. \/ pc'[r] = "gen" /\ cur'[r] = latest
            \/ pc'[r] = "meta" /\ want'[r] = latest
        BY <1>0, <2>2 DEF Refresh
      <3> QED BY <1>0, <1>u, <1>d, <2>b, <3>2, <3>3
    <2>3. CASE ~AwaitFirst(r) /\ ~Refresh(r)
      <3>1. /\ pc'[r] \in {"bootMeta", "meta"} =>
                 pc[r] \in {"bootMeta", "meta"} /\ want'[r] = want[r]
            /\ pc'[r] \in {"gen", "write"} =>
                 \/ pc[r] \in {"gen", "write"} /\ cur'[r] = cur[r]
                 \/ pc[r] = "meta" /\ cur'[r] = want[r]
        BY <1>0, <2>3 DEF Rollout, BootMeta, Top, Backpressure, Recheck,
          RecheckDepth, Mark, RefreshMeta, Generate, Write, Unmark,
          OpenMeta, CountBlocks
      <3> QED BY <1>0, <1>u, <1>d, <2>b, <3>1
    <2> QED BY <2>1, <2>2, <2>3
  <1>w. CASE Write(r)
    <2>n. PICK n : n = name[r] OBVIOUS
    <2>1. /\ queue' = queue \union {n} /\ pc[r] = "write" /\ pc'[r] = "unmark"
          /\ r \in Writing
      BY <1>0, <1>w, <2>n, WritesOne DEF Write
    <2>2. /\ n.step = cur[r] /\ cur[r] \in Nat /\ n.t \in Nat
          /\ \A b \in queue : b.t < n.t /\ b.step <= n.step /\ b.step \in Nat /\ b.t \in Nat
      BY <1>0, <1>w, <2>n, <2>1 DEF Sorted, Write, TypeInv, TypeOK, Served, Block
    <2>3. \A b \in queue : ~Before(n, b) /\ ~Before(n, n)
      BY <2>2 DEF Before
    <2>4. \A b \in queue : Ahead(b)' = Ahead(b)
      BY <2>1, <2>3 DEF Ahead, Before
    <2>5. Debt(n.step) + Cardinality(Ahead(n)') < Limit
      <3>1. Ahead(n)' = Ahead(n) BY <2>1, <2>2 DEF Ahead, Before
      <3>2. Debt(cur[r]) + Cardinality(queue) < Limit BY <2>1
      <3>3. Debt(cur[r]) \in Int /\ Limit \in Int BY <2>2, DebtType
      <3> QED BY <2>2, <3>1, <3>2, <3>3, AheadFinite
    <2>6. \A b \in queue' : Debt(b.step)' + Cardinality(Ahead(b)') < Limit
      BY <1>d, <2>1, <2>4, <2>5
    <2> QED BY <1>0, <1>u, <2>1, <2>6
  <1> QED BY <1>q, <1>w DEF Rollout, AwaitFirst, BootMeta, Top, Backpressure,
        Recheck, RecheckDepth, Mark, Refresh, RefreshMeta, Generate, Unmark,
        OpenMeta

LEMMA LimitTrainer ==
  ASSUME TypeInv, TypeInv', BatchWhole, Lag, OneRollout, Trainer \/ UNCHANGED vars
  PROVE  InLimit'
  <1> USE TrainersAssumption DEF InLimit, Lag
  <1>0. tp \in [Trainers -> TrainerLocation] /\ step \in Nat /\ IsFiniteSet(queue)
    BY DEF TypeInv, TypeOK
  <1>1. CASE DeleteBlocks
    <2>1. /\ queue' = queue \ Picked /\ tp[Main] = "delete" /\ tp'[Main] = "train"
          /\ UNCHANGED <<pc, want, cur, step, take, stale>>
      BY <1>0, <1>1 DEF DeleteBlocks, MainGoto, Picked, rollouts
    <2>2. Cardinality(take) = BlocksPerStep /\ Picked \subseteq queue
      BY <2>1 DEF BatchWhole
    <2>3. /\ IsFiniteSet(Picked) /\ Cardinality(Picked) \in Nat
          /\ BlocksPerStep <= Cardinality(Picked) /\ BlocksPerStep \in Nat
      <3>1. IsFiniteSet(Picked) BY <1>0, <2>2, FS_Subset
      <3>2. Cardinality(take) <= Cardinality(Picked)
        BY <3>1, FS_Subset DEF Picked
      <3> QED BY <2>2, <3>1, <3>2, FS_CardinalityType, FlagsAssumption
    <2>4. ASSUME NEW k \in Int, NEW S, S \subseteq queue, Picked \subseteq S,
                 Debt(k) + Cardinality(S) < Limit
          PROVE  Debt(k)' + Cardinality(S \ Picked) < Limit
      <3>1. CutStep \in Nat /\ CutStep' = CutStep + 1 BY <1>0, <2>1 DEF CutStep
      <3>2. Debt(k)' = Debt(k) + BlocksPerStep
        <4>1. PICK a \in Int : a = CutStep - k BY <3>1
        <4>2. CutStep' - k = a + 1 BY <3>1, <4>1
        <4>3. (a + 1) * BlocksPerStep = a * BlocksPerStep + BlocksPerStep
          BY FlagsAssumption, Products
        <4> QED BY <4>1, <4>2, <4>3, Zenon DEF Debt
      <3>3. IsFiniteSet(S) BY <1>0, <2>4, FS_Subset
      <3>4. Cardinality(S \ Picked) = Cardinality(S) - Cardinality(Picked)
        <4>1. S \intersect Picked = Picked BY <2>4
        <4>2. Cardinality(S \ Picked) =
                Cardinality(S) - Cardinality(S \intersect Picked)
          BY <3>3, FS_Difference
        <4> QED BY <4>1, <4>2
      <3>5. Debt(k) \in Int /\ Limit \in Int BY DebtType
      <3>6. Cardinality(S) \in Nat BY <3>3, FS_CardinalityType
      <3> QED BY <2>3, <2>4, <3>2, <3>4, <3>5, <3>6
    <2>5. ASSUME NEW b \in queue' PROVE Debt(b.step)' + Cardinality(Ahead(b)') < Limit
      <3>1. b \in queue /\ b.step \in Int /\ b \in queue \ Picked
        BY <2>1, <2>5 DEF TypeInv, TypeOK, Block
      <3>2. Picked \subseteq Ahead(b) /\ Ahead(b) \subseteq queue
        BY <2>2, <3>1 DEF Sorted, Ahead
      <3>3. Ahead(b)' = Ahead(b) \ Picked BY <2>1 DEF Ahead, Before
      <3>4. Debt(b.step) + Cardinality(Ahead(b)) < Limit BY <3>1
      <3> QED BY <2>4, <3>1, <3>2, <3>3, <3>4
    <2>6. ASSUME NEW k \in Int, Debt(k) + Cardinality(queue) < Limit
          PROVE  Debt(k)' + Cardinality(queue') < Limit
      BY <2>1, <2>2, <2>4, <2>6
    <2>7. ASSUME NEW b \in take' PROVE step' - b.step < MaxLag + PublishEvery
      <3>1. b \in queue /\ b.step \in Int
        BY <2>1, <2>2, <2>7 DEF Picked, TypeInv, TypeOK, Block
      <3>2. Debt(b.step) + Cardinality(Ahead(b)) < Limit BY <3>1
      <3>3. CutStep - b.step < MaxLag + PublishEvery
        BY <3>1, <3>2, AheadFinite, DebtType
      <3>4. CutStep = step BY <1>0, <2>1 DEF CutStep
      <3> QED BY <2>1, <3>3, <3>4
    <2>8. \A r \in Ranks : want[r] \in Int /\ cur[r] \in Int
      BY DEF TypeInv, TypeOK, None
    <2> QED BY <2>1, <2>5, <2>6, <2>7, <2>8
  <1>2. CASE ~DeleteBlocks
    <2>1. UNCHANGED <<queue, pc, want, cur>>
      BY <1>2 DEF Trainer, SaveAdapter, FlipLatest, PruneAdapters, Pick, Load,
         Barrier, Update, Finish, files, rollouts, vars
    <2>2. CutStep' = CutStep
      <3>1. CASE Update
        BY <1>0, <3>1 DEF Update, CutStep
      <3>2. CASE ~Update
        BY <1>0, <1>2, <3>2 DEF Trainer, SaveAdapter, FlipLatest, PruneAdapters,
           Pick, Load, Barrier, Finish, MainGoto, NextStep, vars, CutStep
      <3> QED BY <3>1, <3>2
    <2>3. \A k : Debt(k)' = Debt(k) BY <2>2 DEF Debt
    <2>4. \A b : Ahead(b)' = Ahead(b) BY <2>1 DEF Ahead, Before
    <2>5. tp'[Main] = "train" => tp[Main] = "train" /\ UNCHANGED <<take, step>>
      BY <1>0, <1>2 DEF Trainer, SaveAdapter, FlipLatest, PruneAdapters, Pick,
         Load, Barrier, Update, Finish, MainGoto, NextStep, vars
    <2> QED BY <2>1, <2>3, <2>4, <2>5
  <1> QED BY <1>1, <1>2

LEMMA LagStep ==
  ASSUME TypeInv, TypeInv', LabelInv, DepthInv, Account, Lag, OneRollout, [Next]_vars
  PROVE  Lag'
  BY SortedRollout, SortedTrainer, FreshStep, LimitRollout, LimitTrainer
     DEF Lag, Account, Next, Done

LEMMA LagInvariant == ASSUME OneRollout PROVE Spec => []Lag
  <1>1. TypeInv /\ TypeInv' /\ LabelInv /\ DepthInv /\ Account /\ Lag /\ [Next]_vars
        => Lag'
    BY LagStep
  <1>2. Spec => []LabelInv BY LabelInvariant
  <1> QED BY <1>1, <1>2, LagInit, DepthInvariant, TypeInvariant, AccountInvariant,
             PTL DEF Spec

LEMMA LagTellsAge == ASSUME OneRollout, TypeInv, BatchWhole, Lag PROVE LagBound
  <1> SUFFICES ASSUME NEW b \in take,
                      tp[Main] \in {"load", "barrier", "delete", "train"}
               PROVE  step - b.step < MaxLag + PublishEvery
    BY DEF LagBound
  <1>1. CASE tp[Main] = "train" BY <1>1 DEF Lag, InLimit
  <1>2. CASE tp[Main] # "train"
    <2>1. b \in queue /\ b.step \in Int
      BY <1>2 DEF BatchWhole, Picked, TypeInv, TypeOK, Block
    <2>2. Debt(b.step) + Cardinality(Ahead(b)) < Limit BY <2>1 DEF Lag, InLimit
    <2>3. CutStep - b.step < MaxLag + PublishEvery
      BY <2>1, <2>2, AheadFinite, DebtType
    <2> QED BY <1>2, <2>3 DEF CutStep, TypeInv, TypeOK
  <1> QED BY <1>1, <1>2

(* One rollout rank and no cap above the default: a trained block is at    *)
(* most MaxLag steps old, plus the steps between two publications.         *)
THEOREM LagIsBounded == ASSUME OneRollout PROVE Spec => []LagBound
  <1>1. TypeInv /\ Account /\ Lag => LagBound BY LagTellsAge DEF Account
  <1> QED BY <1>1, LagInvariant, TypeInvariant, AccountInvariant, PTL

-----------------------------------------------------------------------------
(* What a rank holds of an adapter is on disk until its engine has it. *)
Kept ==
  \A r \in Ranks :
    /\ pc[r] # "crashed"
    /\ pc[r] \in {"bootMeta", "meta"} => want[r] \in adapters
    /\ pc[r] = "gen" => cur[r] \in adapters

LEMMA KeptRollout ==
  ASSUME TypeInv, AdapterInv, Kept, NEW r \in Ranks, Rollout(r)
  PROVE  Kept'
  <1> USE DEF Goto, files, Kept
  <1>0. /\ pc \in [Ranks -> RolloutLocation]
        /\ want \in [Ranks -> Nat \union {None}]
        /\ cur \in [Ranks -> Nat \union {None}]
    BY DEF TypeInv, TypeOK
  <1>1. CASE AwaitFirst(r) BY <1>0, <1>1 DEF AwaitFirst, AdapterInv
  <1>2. CASE BootMeta(r) BY <1>0, <1>2 DEF BootMeta, OpenMeta
  <1>3. CASE Top(r) BY <1>0, <1>3 DEF Top, CountBlocks
  <1>4. CASE Backpressure(r) BY <1>0, <1>4 DEF Backpressure
  <1>5. CASE Recheck(r) BY <1>0, <1>5 DEF Recheck, CountBlocks
  <1>6. CASE RecheckDepth(r) BY <1>0, <1>6 DEF RecheckDepth
  <1>7. CASE Mark(r) BY <1>0, <1>7 DEF Mark
  <1>8. CASE Refresh(r)
    <2>1. latest \in adapters
      BY <1>8, NoneIsNoStep DEF Refresh, AdapterInv, TypeInv, Served
    <2> QED BY <1>0, <1>8, <2>1 DEF Refresh
  <1>9. CASE RefreshMeta(r) BY <1>0, <1>9 DEF RefreshMeta, OpenMeta
  <1>10. CASE Generate(r)
    <2>1. CanServe(r) BY <1>10 DEF Generate, CanServe
    <2> QED BY <1>0, <1>10, <2>1 DEF Generate
  <1>11. CASE Write(r) BY <1>0, <1>11 DEF Write
  <1>12. CASE Unmark(r) BY <1>0, <1>12 DEF Unmark
  <1> QED BY <1>1, <1>2, <1>3, <1>4, <1>5, <1>6, <1>7, <1>8, <1>9, <1>10,
            <1>11, <1>12 DEF Rollout

(* An adapter fewer than MaxLag + PublishEvery steps old survives. *)
LEMMA NewestKeepsTheLag ==
  ASSUME TypeInv, AdapterInv, EnoughKept, NEW k \in adapters,
         step - k < MaxLag + PublishEvery
  PROVE  k \in Newest(adapters)
  <1>0. /\ step \in Nat /\ k \in Nat /\ adapters \subseteq Nat /\ k <= step
        /\ KeepLoras \in Nat /\ MaxLag \in Nat /\ PublishEvery \in Nat
    BY FlagsAssumption DEF TypeInv, TypeOK, AdapterInv
  <1>1. CASE KeepLoras = 0 BY <1>1 DEF Newest
  <1>2. CASE KeepLoras # 0
    <2> DEFINE J == {j \in adapters : j > k}
    <2>1. J \subseteq (k + 1) .. step
      <3>1. \A j \in J : j \in Nat /\ j > k /\ j <= step BY <1>0 DEF AdapterInv
      <3>2. \A j \in Nat : j > k /\ j <= step => j \in (k + 1) .. step BY <1>0
      <3> HIDE DEF J
      <3> QED BY <3>1, <3>2
    <2>2. /\ IsFiniteSet((k + 1) .. step)
          /\ Cardinality((k + 1) .. step) = step - k
      <3>1. k + 1 \in Int /\ step \in Int /\ step - (k + 1) + 1 = step - k BY <1>0
      <3>2. /\ IsFiniteSet((k + 1) .. step)
            /\ Cardinality((k + 1) .. step) =
                 IF k + 1 > step THEN 0 ELSE step - (k + 1) + 1
        BY <3>1, FS_Interval
      <3>3. k + 1 > step => step - k = 0 BY <1>0
      <3> QED BY <3>1, <3>2, <3>3
    <2>3. Cardinality(J) <= step - k /\ Cardinality(J) \in Nat
      BY <2>1, <2>2, FS_Subset, FS_CardinalityType
    <2> HIDE DEF J
    <2>4. Cardinality(J) < KeepLoras BY <1>0, <1>2, <2>3 DEF EnoughKept
    <2> QED BY <1>2, <2>4 DEF Newest, J
  <1> QED BY <1>1, <1>2

LEMMA KeptTrainer ==
  ASSUME TypeInv, AdapterInv, Lag, OneRollout, EnoughKept, Kept,
         Trainer \/ UNCHANGED vars
  PROVE  Kept'
  <1>1. CASE PruneAdapters
    <2>1. UNCHANGED <<pc, want, cur>> /\ adapters' = Newest(adapters)
      BY <1>1 DEF PruneAdapters, rollouts
    <2>2. ASSUME NEW k \in adapters, Debt(k) + Cardinality(queue) < Limit
          PROVE  k \in Newest(adapters)
      <3>1. k \in Int /\ Cardinality(queue) \in Nat
        BY FS_CardinalityType DEF TypeInv, TypeOK
      <3>2. CutStep - k < MaxLag + PublishEvery BY <2>2, <3>1, DebtType
      <3>3. CutStep = step
        BY <1>1 DEF PruneAdapters, CutStep, TypeInv, TypeOK
      <3> QED BY <3>2, <3>3, NewestKeepsTheLag
    <2> QED BY <2>1, <2>2 DEF Kept, Lag, InLimit
  <1>2. CASE ~PruneAdapters
    <2>1. UNCHANGED <<pc, want, cur>> /\ adapters \subseteq adapters'
      BY <1>2 DEF Trainer, SaveAdapter, FlipLatest, Pick, Load, Barrier,
         DeleteBlocks, Update, Finish, files, rollouts, vars
    <2> QED BY <2>1 DEF Kept
  <1> QED BY <1>1, <1>2

LEMMA KeptInit == Init => Kept
  BY DEF Init, Kept

LEMMA KeptStep ==
  ASSUME OneRollout, EnoughKept, TypeInv, AdapterInv, Lag, Kept, [Next]_vars
  PROVE  Kept'
  BY KeptRollout, KeptTrainer DEF Next, Done

(* One rollout rank, and as many directories kept as the lag spans: a rank *)
(* never finds the adapter it is about to serve pruned under it.           *)
THEOREM NoAdapterMissing == ASSUME OneRollout, EnoughKept PROVE Spec => []NoRankCrashes
  <1>1. TypeInv /\ AdapterInv /\ Lag /\ Kept /\ [Next]_vars => Kept' BY KeptStep
  <1>2. Kept => NoRankCrashes BY DEF Kept, NoRankCrashes
  <1> QED BY <1>1, <1>2, KeptInit, AdapterInvariant, LagInvariant, TypeInvariant,
             PTL DEF Spec

-----------------------------------------------------------------------------
(* The same beside the other configuration, in which the run checks it:    *)
(* the invariants hold as long as the configuration is the first.          *)
FirstInv ==
  TypeInv /\ LabelInv /\ AdapterInv /\ DepthInv /\ Account /\ Lag

LEMMA FirstInit == Init => FirstInv
  BY TypeInit, LabelInit, AdapterInit, DepthInit, AccountInit, LagInit DEF FirstInv

LEMMA FirstStep == ASSUME OneRollout, FirstInv, [Next]_vars PROVE FirstInv'
  <1>1. TypeInv' BY TypeStep DEF FirstInv
  <1> QED BY <1>1, LabelStep, AdapterStep, DepthStep, AccountStep, LagStep DEF FirstInv

(* A step of the two side by side is one of the first, or the first has    *)
(* not been chosen.                                                        *)
LEMMA FlagsStep ==
  ASSUME [FlagsNext]_FlagsVars
  PROVE  config' = "one rank" => config = "one rank" /\ [Next]_vars
  BY DEF FlagsNext, FlagsVars, In

(* The lag is bounded in the specification that the run checks.            *)
THEOREM LagStaysBounded == ASSUME OneRollout PROVE FlagsSpec => []LagBounded
  <1> DEFINE Inv == config = "one rank" => FirstInv
  <1>1. FlagsInit => Inv BY FirstInit DEF FlagsInit
  <1>2. Inv /\ [FlagsNext]_FlagsVars => Inv' BY FlagsStep, FirstStep
  <1>3. Inv => LagBounded BY LagTellsAge DEF FirstInv, Account, LagBounded
  <1> QED BY <1>1, <1>2, <1>3, PTL DEF FlagsSpec

(* No rank crashes there if enough adapters are kept.                      *)
THEOREM NoneEverCrashes ==
  ASSUME OneRollout, EnoughKept PROVE FlagsSpec => []NoneCrashes
  <1> DEFINE Inv == config = "one rank" => FirstInv /\ Kept
  <1>1. FlagsInit => Inv BY FirstInit, KeptInit DEF FlagsInit
  <1>2. Inv /\ [FlagsNext]_FlagsVars => Inv'
    BY FlagsStep, FirstStep, KeptStep DEF FirstInv
  <1>3. Inv => NoneCrashes BY DEF Kept, NoRankCrashes, NoneCrashes
  <1> QED BY <1>1, <1>2, <1>3, PTL DEF FlagsSpec

=============================================================================
