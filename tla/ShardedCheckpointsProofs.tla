----------------------- MODULE ShardedCheckpointsProofs -----------------------
(***************************************************************************)
(* Proofs about ShardedCheckpoints, for every number of ranks, kills,      *)
(* stops and launches and every --save-every and --keep-ckpts.             *)
(*                                                                         *)
(* The properties speak of the set a relaunch finds; what makes them hold  *)
(* is where the ranks can be with respect to each other (Lockstep) and an  *)
(* anchor: a step c whose set is complete, and which a rank's newer shards *)
(* outnumber by no more than one per kill, plus the one being saved.  The  *)
(* prune counts those as the newest, so that it spares the anchor as long  *)
(* as a kill now would still be one fewer than the shards kept.            *)
(***************************************************************************)
EXTENDS ShardedCheckpoints, TLAPS, FiniteSetTheorems, WellFoundedInduction

SaveLoc == {"save", "prune", "openGen", "writeGen", "barrier"}

Saving == \E r \in Ranks : pc[r] \in SaveLoc

Saved(r) == pc[r] \in SaveLoc \ {"save"}

(* The prune of the save under way may take the anchor: a kill now would   *)
(* be one too many.                                                        *)
AtRisk == Saving /\ KeepCkpts > 0 /\ kills + 1 >= KeepCkpts

Newer(r, c) == {s \in shards[r] : s > c}

(* Which places the ranks can be at together. *)
Lockstep ==
  /\ (\E r \in Ranks : pc[r] = "off") => Off
  /\ (\E r \in Ranks : pc[r] = "train") => step < TotalSteps
  /\ Saving => step > 0 /\ \A r \in Ranks : pc[r] \in SaveLoc
  /\ \A r \in Ranks : pc[r] \in {"latest", "done"} => r = Main
  /\ pc[Main] = "latest" => \A r \in Ranks \ {Main} : pc[r] = AfterSave
  /\ pc[Main] = "done" =>
       step = TotalSteps /\ \A r \in Ranks \ {Main} : pc[r] = "leave"

(* The shards of a common step are of one launch after one kill at most,   *)
(* but for the step being saved.                                           *)
OneLaunch ==
  /\ \A r \in Ranks : Saved(r) => writer[r][step] = launches
  /\ kills < 2 =>
       \A s \in Common : ~(Saving /\ s = step) =>
         \A q, r \in Ranks : writer[q][s] = writer[r][s]

FinalSet == \A r \in Ranks : /\ TotalSteps \in shards[r]
                             /\ writer[r][TotalSteps] = launches

(* From the save of the last step to TRAIN_DONE, and ever after. *)
Final ==
  /\ step = TotalSteps => \A r \in Ranks : Saved(r) => TotalSteps \in shards[r]
  /\ step = TotalSteps /\ pc[Main] \in {"latest", "done"} => FinalSet
  /\ done => FinalSet /\ \A r \in Ranks : pc[r] \in {"leave", "off"}

Anchor(c) ==
  /\ latest <= c
  /\ c = 0 \/ c \in Common \/ AtRisk
  /\ kills = 0 => c = 0 \/ AtRisk \/ \A r \in Ranks : c \in gens[r]
  /\ ~Off => c <= step
  /\ Saving => c < step
  /\ pc[Main] = "latest" => step <= c
  /\ \A r \in Ranks :
       IF Saved(r)
       THEN /\ step \in shards[r]
            /\ Cardinality(Newer(r, c) \ {step}) <= kills
            /\ kills = 0 /\ pc[r] = "barrier" => step \in gens[r]
       ELSE Cardinality(Newer(r, c)) <= kills

Safe == KeepCkpts = 0 \/ kills < KeepCkpts

Anchored == Safe => \E c \in 0 .. TotalSteps : Anchor(c)

IInv == TypeOK /\ Lockstep /\ OneLaunch /\ Final /\ Anchored

-----------------------------------------------------------------------------
(* What the operators on shards return *)

LEMMA StepsAreNumbers ==
  ASSUME NEW S \in SUBSET Steps
  PROVE  IsFiniteSet(S) /\ Cardinality(S) \in Nat
  <1>1. IsFiniteSet(Steps) BY FS_Interval, StepsAssumption DEF Steps
  <1> QED BY <1>1, FS_Subset, FS_CardinalityType

LEMMA CardinalityMonotone ==
  ASSUME NEW T \in SUBSET Steps, NEW S \in SUBSET T
  PROVE  Cardinality(S) <= Cardinality(T)
  BY StepsAreNumbers, FS_Subset

LEMMA LargestStep ==
  ASSUME NEW S \in SUBSET Steps, S # {}
  PROVE  \E s \in S : \A t \in S : t <= s
  <1> DEFINE Less == OpToRel(<, Nat)
             T == {TotalSteps - s : s \in S}
  <1>1. T \subseteq Nat /\ T # {} BY StepsAssumption DEF Steps
  <1>2. PICK x \in T : \A y \in T : ~(<<y, x>> \in Less)
    <2> HIDE DEF T, Less
    <2>1. IsWellFoundedOn(Less, Nat) BY NatLessThanWellFounded DEF Less
    <2> QED BY <1>1, <2>1, WFMin
  <1>3. PICK s \in S : x = TotalSteps - s OBVIOUS
  <1>4. ASSUME NEW t \in S PROVE t <= s
    <2>1. ~(<<TotalSteps - t, x>> \in Less) BY <1>2
    <2>2. ~(TotalSteps - t < x) BY <2>1, <1>1 DEF OpToRel
    <2> QED BY <2>2, <1>3, StepsAssumption DEF Steps
  <1> QED BY <1>4

LEMMA ResumeIsLargest ==
  ASSUME TypeOK
  PROVE  /\ ResumeStep \in 0 .. TotalSteps
         /\ Common = {} => ResumeStep = 0
         /\ Common # {} => ResumeStep \in Common
         /\ \A s \in Common : s <= ResumeStep
  <1>1. Common \in SUBSET Steps BY DEF Common
  <1>2. CASE Common = {} BY <1>2, StepsAssumption DEF ResumeStep
  <1>3. CASE Common # {}
    <2>1. \E s \in Common : \A t \in Common : t <= s BY <1>1, <1>3, LargestStep
    <2>2. ResumeStep \in Common /\ \A t \in Common : t <= ResumeStep
      BY <1>3, <2>1 DEF ResumeStep
    <2> QED BY <1>1, <1>3, <2>2, StepsAssumption DEF Steps
  <1> QED BY <1>2, <1>3

(* A shard outnumbered by fewer than KeepCkpts newer ones stays. *)
LEMMA NewestKeeps ==
  ASSUME NEW S \in SUBSET Steps, NEW s \in S, NEW T \in SUBSET Steps,
         {t \in S : t > s} \subseteq T,
         KeepCkpts = 0 \/ Cardinality(T) < KeepCkpts
  PROVE  s \in Newest(S)
  <1> DEFINE U == {t \in S : t > s}
  <1>1. Cardinality(U) <= Cardinality(T) BY CardinalityMonotone
  <1>2. Cardinality(U) \in Nat /\ Cardinality(T) \in Nat BY StepsAreNumbers
  <1> HIDE DEF U
  <1>3. KeepCkpts = 0 \/ Cardinality(U) < KeepCkpts
    BY <1>1, <1>2, StepsAssumption
  <1> QED BY <1>3 DEF Newest, U

LEMMA NewestIsSubset ==
  ASSUME NEW S PROVE Newest(S) \subseteq S
  BY DEF Newest

-----------------------------------------------------------------------------
(* Types and lockstep *)

LEMMA InvInit == Init => IInv
  <1> SUFFICES ASSUME Init PROVE IInv OBVIOUS
  <1> USE RanksAssumption, StepsAssumption DEF Init
  <1>1. TypeOK
    <2>1. [s \in Steps |-> 0] \in [Steps -> Nat] OBVIOUS
    <2>2. writer \in [Ranks -> [Steps -> Nat]] BY <2>1
    <2>3. /\ shards \in [Ranks -> SUBSET Steps]
          /\ gens \in [Ranks -> SUBSET Steps] /\ torn \in [Ranks -> SUBSET Steps]
      OBVIOUS
    <2>4. pc \in [Ranks -> Location] BY DEF Location
    <2>5. /\ latest \in 0 .. TotalSteps /\ step \in 0 .. TotalSteps
          /\ launches \in Nat /\ stops \in Nat /\ kills \in Nat
      OBVIOUS
    <2>6. /\ asked \in SUBSET Ranks /\ done \in BOOLEAN
          /\ leaving \in BOOLEAN
      BY Zenon
    <2> HIDE DEF Init
    <2> QED BY <2>2, <2>3, <2>4, <2>5, <2>6 DEF TypeOK
  <1>2. Lockstep BY DEF Lockstep, Off, Saving, SaveLoc
  <1>3. OneLaunch BY DEF OneLaunch, Saved, SaveLoc, Common
  <1>4. Final BY DEF Final, Saved, SaveLoc
  <1>5. Anchor(0)
    <2>1. \A r \in Ranks : Newer(r, 0) = {} BY DEF Newer
    <2>2. \A r \in Ranks : Cardinality(Newer(r, 0)) <= kills
      BY <2>1, FS_EmptySet
    <2> QED BY <2>2 DEF Anchor, Off, Saved, Saving, SaveLoc
  <1> QED BY <1>1, <1>2, <1>3, <1>4, <1>5 DEF IInv, Anchored

LEMMA TypeStep ==
  ASSUME TypeOK, Lockstep, [Next]_vars
  PROVE  TypeOK'
  <1> USE RanksAssumption, StepsAssumption
        DEF TypeOK, Location, Goto, All, volume, flags, bounds
  <1>1. CASE Launch
    <2>1. ResumeStep \in 0 .. TotalSteps BY ResumeIsLargest
    <2>2. pc' \in [Ranks -> Location] BY <1>1 DEF Launch
    <2>3. /\ launches' = launches + 1 /\ step' = ResumeStep
          /\ asked' = {} /\ leaving' = FALSE
          /\ UNCHANGED <<volume, stops, kills>>
      BY <1>1 DEF Launch
    <2>4. asked' \in SUBSET Ranks /\ leaving' \in BOOLEAN BY <2>3, Zenon
    <2> QED BY <2>1, <2>2, <2>3, <2>4
  <1>2. CASE Train
    <2>1. step < TotalSteps BY <1>2 DEF Train, Lockstep
    <2> QED BY <1>2, <2>1 DEF Train
  <1>3. CASE Barrier BY <1>3 DEF Barrier, AfterSave
  <1>4. CASE WriteLatest BY <1>4 DEF WriteLatest, AfterSave
  <1>5. CASE WriteDone BY <1>5 DEF WriteDone
  <1>6. CASE Leave BY <1>6 DEF Leave
  <1>7. CASE Kill BY <1>7 DEF Kill
  <1>8. ASSUME NEW r \in Ranks, Save(r) PROVE TypeOK'
    <2>1. CASE SaveShard(r)
      <3>1. step \in Steps
        BY <2>1 DEF SaveShard, Steps, Lockstep, Saving, SaveLoc
      <3> QED BY <2>1, <3>1 DEF SaveShard
    <2>2. CASE PruneShards(r)
      BY <2>2, NewestIsSubset DEF PruneShards
    <2>3. CASE OpenGen(r)
      <3>1. step \in Steps
        BY <2>3 DEF OpenGen, Steps, Lockstep, Saving, SaveLoc
      <3> QED BY <2>3, <3>1 DEF OpenGen
    <2>4. CASE WriteGen(r) BY <2>4 DEF WriteGen
    <2> QED BY <1>8, <2>1, <2>2, <2>3, <2>4 DEF Save
  <1>9. ASSUME NEW r \in Ranks, AskToStop(r) PROVE TypeOK'
    BY <1>9 DEF AskToStop
  <1>10. CASE UNCHANGED vars BY <1>10 DEF vars
  <1> QED BY <1>1, <1>2, <1>3, <1>4, <1>5, <1>6, <1>7, <1>8, <1>9, <1>10
          DEF Next, Together, Done

LEMMA LockstepStep ==
  ASSUME TypeOK, Lockstep, [Next]_vars
  PROVE  Lockstep'
  <1> USE RanksAssumption, StepsAssumption
        DEF Lockstep, Off, Saving, SaveLoc, AfterSave, Goto, All, flags,
            bounds
  <1> HIDE DEF TypeOK
  <1>0. /\ pc \in [Ranks -> Location] /\ step \in 0 .. TotalSteps BY DEF TypeOK
  <1>1. CASE Launch
    <2>1. ResumeStep \in 0 .. TotalSteps BY ResumeIsLargest
    <2> QED BY <1>1, <2>1 DEF Launch
  <1>2. CASE Train BY <1>0, <1>2 DEF Train
  <1>3. CASE Barrier BY <1>0, <1>3 DEF Barrier
  <1>4. CASE WriteLatest BY <1>0, <1>4 DEF WriteLatest
  <1>5. CASE WriteDone BY <1>0, <1>5 DEF WriteDone
  <1>6. CASE Leave BY <1>6 DEF Leave
  <1>7. CASE Kill BY <1>7 DEF Kill
  <1>8. ASSUME NEW r \in Ranks, Save(r) PROVE Lockstep'
    <2>1. /\ pc[r] \in SaveLoc /\ step' = step /\ leaving' = leaving
          /\ \E l \in SaveLoc : pc' = [pc EXCEPT ![r] = l]
      BY <1>8 DEF Save, SaveShard, PruneShards, OpenGen, WriteGen
    <2>2. \A q \in Ranks : pc'[q] \in SaveLoc BY <1>0, <2>1
    <2> QED BY <2>1, <2>2
  <1>9. ASSUME NEW r \in Ranks, AskToStop(r) PROVE Lockstep'
    BY <1>9 DEF AskToStop
  <1>10. CASE UNCHANGED vars BY <1>10 DEF vars
  <1> QED BY <1>1, <1>2, <1>3, <1>4, <1>5, <1>6, <1>7, <1>8, <1>9, <1>10
          DEF Next, Together, Done

-----------------------------------------------------------------------------
(* The shards of one launch *)

(* What a save does to the shards of the others, and to older ones. *)
LEMMA SaveIsLocal ==
  ASSUME TypeOK, NEW r \in Ranks, Save(r)
  PROVE  /\ pc[r] \in SaveLoc
         /\ pc' = [pc EXCEPT ![r] = pc'[r]] /\ pc'[r] \in SaveLoc \ {"save"}
         /\ UNCHANGED <<latest, done, flags, bounds>>
         /\ \A q \in Ranks \ {r} : /\ shards'[q] = shards[q]
                                   /\ writer'[q] = writer[q]
                                   /\ gens'[q] = gens[q]
         /\ shards'[r] \subseteq shards[r] \union {step}
         /\ \A s \in Steps \ {step} : writer'[r][s] = writer[r][s]
  BY NewestIsSubset
     DEF Save, SaveShard, PruneShards, OpenGen, WriteGen, TypeOK, Goto, SaveLoc,
         flags, bounds

LEMMA OneLaunchStep ==
  ASSUME IInv, [Next]_vars
  PROVE  OneLaunch'
  <1> USE RanksAssumption, StepsAssumption DEF OneLaunch
  <1>0. TypeOK /\ Lockstep /\ OneLaunch BY DEF IInv
  <1>1. CASE Launch
    <2>1. /\ ~Saving' /\ \A r \in Ranks : ~Saved(r)'
      BY <1>1 DEF Launch, All, Saving, Saved, SaveLoc
    <2>2. ~Saving BY <1>1 DEF Launch, Off, Saving, SaveLoc
    <2> QED BY <1>0, <1>1, <2>1, <2>2 DEF Launch, Common, volume
  <1>2. CASE Train
    <2>1. ~Saving /\ \A r \in Ranks : ~Saved(r)'
      BY <1>2 DEF Train, All, Saving, Saved, SaveLoc
    <2> QED BY <1>0, <1>2, <2>1 DEF Train, Common, volume, bounds
  <1>3. CASE Barrier
    <2>1. \A r \in Ranks : Saved(r) BY <1>3 DEF Barrier, Saved, SaveLoc
    <2>2. \A r \in Ranks : ~Saved(r)'
      BY <1>0, <1>3 DEF Barrier, AfterSave, Saved, SaveLoc
    <2>3. \A q, r \in Ranks : writer[q][step] = writer[r][step]
      BY <1>0, <2>1
    <2>4. UNCHANGED <<shards, writer, kills>>
      BY <1>3 DEF Barrier, volume, bounds
    <2> QED BY <1>0, <2>2, <2>3, <2>4 DEF Common
  <1>4. CASE WriteLatest \/ WriteDone \/ Leave
    <2>1. /\ UNCHANGED <<shards, writer, step, launches, kills>>
      BY <1>4 DEF WriteLatest, WriteDone, Leave, volume, flags, bounds
    <2>2. ~Saving
      BY <1>0, <1>4 DEF WriteLatest, WriteDone, Leave, Lockstep, Saving, SaveLoc
    <2>3. \A r \in Ranks : ~Saved(r)'
      BY <1>0, <1>4, <2>2 DEF WriteLatest, WriteDone, Leave, All, Goto,
         AfterSave, Saving, Saved, SaveLoc, TypeOK
    <2> QED BY <1>0, <2>1, <2>2, <2>3 DEF Common
  <1>5. CASE Kill
    <2>1. /\ UNCHANGED <<shards, writer, step, launches>> /\ kills' = kills + 1
          /\ \A r \in Ranks : ~Saved(r)'
      BY <1>5 DEF Kill, All, volume, flags, Saved, SaveLoc
    <2> SUFFICES ASSUME kills' < 2, NEW s \in Common, Saving, s = step,
                        NEW q \in Ranks, NEW r \in Ranks
                 PROVE  writer[q][s] = writer[r][s]
      <3>1. kills' < 2 => kills < 2 BY <1>0, <2>1 DEF TypeOK
      <3>2. Common' = Common BY <2>1 DEF Common
      <3> QED BY <1>0, <2>1, <3>1, <3>2
    <2>2. kills = 0 BY <1>0, <2>1 DEF TypeOK
    <2>3. PICK c \in 0 .. TotalSteps : Anchor(c)
      BY <2>2 DEF IInv, Anchored, Safe
    <2>4. ASSUME NEW t \in Ranks PROVE Saved(t)
      <3> SUFFICES ASSUME ~Saved(t) PROVE FALSE OBVIOUS
      <3>1. Newer(t, c) \in SUBSET Steps BY <1>0 DEF Newer, TypeOK
      <3>2. Cardinality(Newer(t, c)) = 0
        <4>1. Cardinality(Newer(t, c)) <= kills BY <2>3 DEF Anchor
        <4>2. Cardinality(Newer(t, c)) \in Nat BY <3>1, StepsAreNumbers
        <4> QED BY <2>2, <4>1, <4>2
      <3>3. Newer(t, c) = {} BY <3>1, <3>2, StepsAreNumbers, FS_EmptySet
      <3>4. step \in Newer(t, c) BY <2>3 DEF Anchor, Newer, Common
      <3> QED BY <3>3, <3>4
    <2> QED BY <1>0, <2>4
  <1>6. ASSUME NEW r \in Ranks, Save(r) PROVE OneLaunch'
    <2>1. Saving /\ Saving'
      BY <1>0, <1>6, SaveIsLocal DEF Saving, TypeOK
    <2>2. Common' \subseteq Common \union {step}
      BY <1>0, <1>6, SaveIsLocal DEF Common
    <2>3. \A s \in Steps \ {step}, q \in Ranks : writer'[q][s] = writer[q][s]
      BY <1>0, <1>6, SaveIsLocal
    <2>4. writer'[r][step] = launches
      <3>1. CASE SaveShard(r)
        <4>1. step \in Steps
          BY <1>0, <2>1 DEF Lockstep, TypeOK, Steps
        <4> QED BY <1>0, <3>1, <4>1 DEF SaveShard, TypeOK
      <3>2. CASE ~SaveShard(r)
        BY <1>0, <1>6, <3>2
           DEF Save, PruneShards, OpenGen, WriteGen, Saved, SaveLoc
      <3> QED BY <3>1, <3>2
    <2>5. \A q \in Ranks : Saved(q)' => writer'[q][step] = launches
      BY <1>0, <1>6, <2>4, SaveIsLocal DEF Saved, TypeOK
    <2>6. UNCHANGED <<step, launches, kills>>
      BY <1>0, <1>6, SaveIsLocal DEF flags, bounds
    <2> QED BY <1>0, <2>1, <2>2, <2>3, <2>5, <2>6 DEF Common
  <1>7. ASSUME NEW r \in Ranks, AskToStop(r) PROVE OneLaunch'
    BY <1>0, <1>7 DEF AskToStop, volume, Saving, Saved, Common
  <1>8. CASE UNCHANGED vars BY <1>0, <1>8 DEF vars, Saving, Saved, Common
  <1> QED BY <1>1, <1>2, <1>3, <1>4, <1>5, <1>6, <1>7, <1>8
          DEF Next, Together, Done

-----------------------------------------------------------------------------
(* The last set *)

LEMMA FinalStep ==
  ASSUME IInv, [Next]_vars
  PROVE  Final'
  <1> USE RanksAssumption, StepsAssumption DEF Final, FinalSet
  <1>0. TypeOK /\ Lockstep /\ OneLaunch /\ Final BY DEF IInv
  <1>1. CASE Launch
    BY <1>0, <1>1 DEF Launch, All, Saved, SaveLoc, volume
  <1>2. CASE Train
    BY <1>0, <1>2 DEF Train, All, Saved, SaveLoc, volume, bounds
  <1>3. CASE Barrier
    <2>1. \A r \in Ranks : Saved(r) BY <1>3 DEF Barrier, Saved, SaveLoc
    <2>2. step = TotalSteps => FinalSet BY <1>0, <2>1 DEF OneLaunch
    <2>3. ~done BY <1>0, <1>3 DEF Barrier
    <2>4. UNCHANGED <<shards, writer, done, step, launches>>
      BY <1>3 DEF Barrier, volume, flags, bounds
    <2>5. \A r \in Ranks : ~Saved(r)'
      BY <1>0, <1>3 DEF Barrier, AfterSave, Saved, SaveLoc
    <2> QED BY <2>2, <2>3, <2>4, <2>5
  <1>4. CASE WriteLatest
    <2>1. UNCHANGED <<shards, writer, done, step, launches>>
      BY <1>4 DEF WriteLatest, flags, bounds
    <2>2. pc[Main] = "latest" /\ ~done BY <1>0, <1>4 DEF WriteLatest
    <2>3. \A r \in Ranks : ~Saved(r)'
      BY <1>0, <1>4 DEF WriteLatest, Goto, Lockstep, AfterSave, Saved, SaveLoc,
         TypeOK
    <2> QED BY <1>0, <2>1, <2>2, <2>3
  <1>5. CASE WriteDone
    <2>1. UNCHANGED <<shards, writer, step, launches>>
      BY <1>5 DEF WriteDone, flags, bounds
    <2>2. FinalSet BY <1>0, <1>5 DEF WriteDone, Lockstep
    <2>3. \A r \in Ranks : pc'[r] = "leave"
      BY <1>0, <1>5 DEF WriteDone, Goto, Lockstep, TypeOK
    <2> QED BY <2>1, <2>2, <2>3 DEF Saved, SaveLoc
  <1>6. CASE Leave
    BY <1>0, <1>6 DEF Leave, All, Saved, SaveLoc, volume, flags, bounds
  <1>7. CASE Kill
    BY <1>0, <1>7 DEF Kill, All, Saved, SaveLoc, volume, flags
  <1>8. ASSUME NEW r \in Ranks, Save(r) PROVE Final'
    <2>1. ~done BY <1>0, <1>8, SaveIsLocal DEF SaveLoc
    <2>2. pc[Main] \in SaveLoc /\ pc'[Main] \in SaveLoc
      BY <1>0, <1>8, SaveIsLocal DEF Lockstep, Saving, TypeOK
    <2>3. ASSUME step = TotalSteps, NEW q \in Ranks, Saved(q)'
          PROVE  TotalSteps \in shards'[q]
      <3>1. CASE q # r
        BY <1>0, <1>8, <2>3, <3>1, SaveIsLocal DEF Saved, TypeOK
      <3>2. CASE q = r /\ SaveShard(r)
        BY <1>0, <2>3, <3>2 DEF SaveShard, TypeOK
      <3>3. CASE q = r /\ PruneShards(r)
        <4>1. TotalSteps \in shards[r]
          BY <1>0, <2>3, <3>3 DEF PruneShards, Saved, SaveLoc
        <4>2. {t \in shards[r] : t > TotalSteps} = {}
          BY <1>0 DEF TypeOK, Steps
        <4>3. Cardinality({}) = 0 BY FS_EmptySet
        <4>4. TotalSteps \in Newest(shards[r])
          <5> HIDE DEF Final, FinalSet
          <5>1. shards[r] \in SUBSET Steps BY <1>0 DEF TypeOK
          <5>2. KeepCkpts = 0 \/ Cardinality({}) < KeepCkpts BY <4>3
          <5> QED BY <4>1, <4>2, <5>1, <5>2, NewestKeeps
        <4> QED BY <1>0, <3>3, <4>4 DEF PruneShards, TypeOK
      <3>4. CASE q = r /\ (OpenGen(r) \/ WriteGen(r))
        BY <1>0, <2>3, <3>4 DEF OpenGen, WriteGen, Saved, SaveLoc
      <3> QED BY <1>8, <3>1, <3>2, <3>3, <3>4 DEF Save
    <2>4. UNCHANGED <<done, step>> BY <1>0, <1>8, SaveIsLocal DEF flags
    <2> QED BY <2>1, <2>2, <2>3, <2>4 DEF SaveLoc
  <1>9. ASSUME NEW r \in Ranks, AskToStop(r) PROVE Final'
    BY <1>0, <1>9 DEF AskToStop, volume, Saved
  <1>10. CASE UNCHANGED vars BY <1>0, <1>10 DEF vars, Saved
  <1> QED BY <1>1, <1>2, <1>3, <1>4, <1>5, <1>6, <1>7, <1>8, <1>9, <1>10
          DEF Next, Together, Done

-----------------------------------------------------------------------------
(* The anchor *)

(* It is kept by a step outside the saves that leaves the files alone. *)
LEMMA AnchorHeld ==
  ASSUME TypeOK, NEW c \in 0 .. TotalSteps, Anchor(c), ~Saving,
         UNCHANGED <<shards, gens, kills>>, \A r \in Ranks : ~Saved(r)',
         latest' <= c, ~Off' => c <= step', Saving' => c < step',
         pc'[Main] = "latest" => step' <= c
  PROVE  Anchor(c)'
  <1>1. \A r \in Ranks : ~Saved(r) BY DEF Saving, Saved
  <1>2. \A r \in Ranks : Newer(r, c)' = Newer(r, c) BY DEF Newer
  <1>3. Common' = Common BY DEF Common
  <1>4. ~AtRisk BY DEF AtRisk
  <1> QED BY <1>1, <1>2, <1>3, <1>4 DEF Anchor

(* A save takes nothing a later launch could still need. *)
LEMMA AnchorSaved ==
  ASSUME IInv, NEW c \in 0 .. TotalSteps, Anchor(c), Safe,
         NEW r \in Ranks, Save(r)
  PROVE  Anchor(c)'
  <1>0. TypeOK /\ Lockstep BY DEF IInv
  <1>1. Saving /\ Saving' /\ ~Off /\ ~Off'
    BY <1>0, SaveIsLocal DEF Saving, SaveLoc, Off, TypeOK
  <1>2. /\ UNCHANGED <<latest, step, kills>>
        /\ \A q \in Ranks \ {r} : /\ shards'[q] = shards[q] /\ gens'[q] = gens[q]
                                  /\ pc'[q] = pc[q]
    BY <1>0, SaveIsLocal DEF flags, bounds, TypeOK
  <1>3. AtRisk' <=> AtRisk BY <1>1, <1>2 DEF AtRisk
  <1>4. c < step /\ pc'[Main] # "latest" /\ latest <= c
    <2>1. pc'[Main] \in SaveLoc
      BY <1>0, <1>1, SaveIsLocal, RanksAssumption DEF Lockstep, TypeOK
    <2> QED BY <1>1, <2>1 DEF Anchor, SaveLoc
  <1>5. step \in Steps BY <1>0, <1>1 DEF Lockstep, TypeOK, Steps
  <1>6. /\ c \in Steps \/ c = 0
        /\ c # step
        /\ kills \in Nat /\ KeepCkpts \in Nat
    BY <1>0, <1>4, <1>5, StepsAssumption DEF TypeOK, Steps
  <1>7. shards[r] \in SUBSET Steps /\ shards'[r] \in SUBSET Steps
    BY <1>0, <1>5, SaveIsLocal DEF TypeOK
  <1> DEFINE old == Newer(r, c) \ {step}
             new == Newer(r, c)' \ {step}
  <1>8. Newer(r, c) \in SUBSET Steps /\ old \in SUBSET Steps BY <1>7 DEF Newer
  <1>9. Cardinality(old) <= kills /\ Cardinality(old) \in Nat
    <2>1. CASE Saved(r) BY <2>1, <1>8, StepsAreNumbers DEF Anchor
    <2>2. CASE ~Saved(r)
      <3>1. Cardinality(Newer(r, c)) <= kills BY <2>2 DEF Anchor
      <3>2. Cardinality(old) <= Cardinality(Newer(r, c))
        BY <1>8, CardinalityMonotone
      <3>3. Cardinality(old) \in Nat /\ Cardinality(Newer(r, c)) \in Nat
        BY <1>8, StepsAreNumbers
      <3> QED BY <3>1, <3>2, <3>3, <1>6
    <2> QED BY <2>1, <2>2
  (* The shards of r *)
  <1>10. Cardinality(new) <= kills
    <2>1. new \subseteq old BY <1>0, SaveIsLocal DEF Newer
    <2>2. Cardinality(new) <= Cardinality(old)
      BY <1>8, <2>1, CardinalityMonotone
    <2>3. new \in SUBSET Steps BY <1>8, <2>1
    <2>4. Cardinality(new) \in Nat BY <2>3, StepsAreNumbers
    <2> HIDE DEF old, new
    <2> QED BY <1>6, <1>9, <2>2, <2>4
  <1>11. step \in shards'[r]
    <2>1. CASE SaveShard(r) BY <1>0, <2>1 DEF SaveShard, TypeOK
    <2>2. CASE PruneShards(r)
      <3>1. step \in shards[r] BY <2>2 DEF PruneShards, Anchor, Saved, SaveLoc
      <3>2. {t \in shards[r] : t > step} \subseteq old
        BY <1>4, <1>5, <1>7 DEF Newer, Steps
      <3>3. KeepCkpts = 0 \/ Cardinality(old) < KeepCkpts
        BY <1>6, <1>9 DEF Safe
      <3>4. step \in Newest(shards[r])
        <4> HIDE DEF old
        <4> QED BY <1>7, <1>8, <3>1, <3>2, <3>3, NewestKeeps
      <3> QED BY <1>0, <2>2, <3>4 DEF PruneShards, TypeOK
    <2>3. CASE OpenGen(r) \/ WriteGen(r)
      BY <2>3 DEF OpenGen, WriteGen, Anchor, Saved, SaveLoc
    <2> QED BY <2>1, <2>2, <2>3 DEF Save
  <1>12. c # 0 /\ ~AtRisk => c \in shards'[r]
    <2> SUFFICES ASSUME c # 0, ~AtRisk PROVE c \in shards'[r] OBVIOUS
    <2>1. c \in shards[r] BY DEF Anchor, Common
    <2>2. CASE PruneShards(r)
      <3> DEFINE T == old \union {step}
      <3>1. IsFiniteSet(old) BY <1>8, StepsAreNumbers
      <3>2. step \notin old OBVIOUS
      <3>3. T \in SUBSET Steps BY <1>5, <1>8
      <3>4. {t \in shards[r] : t > c} \subseteq T BY DEF Newer
      <3>5. KeepCkpts = 0 \/ kills + 1 < KeepCkpts BY <1>1, <1>6 DEF AtRisk
      <3> HIDE DEF old
      <3>6. Cardinality(T) = Cardinality(old) + 1 BY <3>1, <3>2, FS_AddElement
      <3> HIDE DEF T
      <3>7. KeepCkpts = 0 \/ Cardinality(T) < KeepCkpts
        BY <1>6, <1>9, <3>5, <3>6
      <3>8. c \in Newest(shards[r])
        BY <1>7, <2>1, <3>3, <3>4, <3>7, NewestKeeps
      <3> QED BY <1>0, <2>2, <3>8 DEF PruneShards, TypeOK
    <2>3. CASE ~PruneShards(r)
      BY <1>0, <2>1, <2>3 DEF Save, SaveShard, OpenGen, WriteGen, TypeOK
    <2> QED BY <2>2, <2>3
  (* The position in the stream *)
  <1>13. kills = 0 /\ c # 0 /\ ~AtRisk => c \in gens'[r]
    <2> SUFFICES ASSUME kills = 0, c # 0, ~AtRisk PROVE c \in gens'[r] OBVIOUS
    <2>1. c \in gens[r] /\ c \in shards[r] BY DEF Anchor, Common
    <2> QED BY <1>0, <1>6, <2>1
            DEF Save, SaveShard, PruneShards, OpenGen, WriteGen, TypeOK
  <1>14. kills = 0 /\ pc'[r] = "barrier" => step \in gens'[r]
    <2> SUFFICES ASSUME pc'[r] = "barrier" PROVE step \in gens'[r] OBVIOUS
    <2>1. WriteGen(r)
      BY <1>0 DEF Save, SaveShard, PruneShards, OpenGen, TypeOK, Goto
    <2>2. step \in shards[r] BY <2>1 DEF WriteGen, Anchor, Saved, SaveLoc
    <2> QED BY <1>0, <2>1, <2>2 DEF WriteGen, TypeOK
  <1>15. c = 0 \/ c \in Common' \/ AtRisk'
    BY <1>2, <1>3, <1>6, <1>12 DEF Anchor, Common
  <1>16. kills' = 0 => c = 0 \/ AtRisk' \/ \A q \in Ranks : c \in gens'[q]
    BY <1>2, <1>3, <1>13 DEF Anchor
  <1>17. Saved(r)' BY <1>0, SaveIsLocal DEF Saved
  <1>18. \A q \in Ranks \ {r} :
           /\ Newer(q, c)' = Newer(q, c) /\ (Saved(q)' <=> Saved(q))
    BY <1>2 DEF Newer, Saved
  <1>19. \A q \in Ranks :
           IF Saved(q)'
           THEN /\ step' \in shards'[q]
                /\ Cardinality(Newer(q, c)' \ {step'}) <= kills'
                /\ kills' = 0 /\ pc'[q] = "barrier" => step' \in gens'[q]
           ELSE Cardinality(Newer(q, c)') <= kills'
    BY <1>2, <1>10, <1>11, <1>14, <1>17, <1>18 DEF Anchor
  <1> QED BY <1>1, <1>2, <1>4, <1>15, <1>16, <1>19 DEF Anchor

(* When all ranks have saved, the step they saved is the anchor. *)
LEMMA AnchorMoved ==
  ASSUME IInv, NEW c \in 0 .. TotalSteps, Anchor(c), Barrier,
         NEW d \in 0 .. TotalSteps, d = step
  PROVE  Anchor(d)'
  <1> USE RanksAssumption
  <1>0. TypeOK /\ Lockstep BY DEF IInv
  <1>1. /\ \A r \in Ranks : Saved(r) /\ pc[r] = "barrier"
        /\ UNCHANGED <<shards, gens, latest, step, kills>>
    BY DEF Barrier, Saved, SaveLoc, volume, flags, bounds
  <1>2. c < d BY <1>1 DEF Anchor, Saving, Saved
  <1>3. d \in Common /\ Common' = Common
    BY <1>0, <1>1 DEF Anchor, Common, TypeOK, Steps
  <1>4. ~Saving' /\ \A r \in Ranks : ~Saved(r)'
    BY <1>0 DEF Barrier, AfterSave, Saving, Saved, SaveLoc
  <1>5. latest <= d BY <1>0, <1>2 DEF Anchor, TypeOK
  <1>6. kills = 0 => \A r \in Ranks : d \in gens[r] BY <1>1 DEF Anchor
  <1>7. \A r \in Ranks : Cardinality(Newer(r, d)') <= kills
    <2> TAKE r \in Ranks
    <2> DEFINE S == Newer(r, d)
               T == Newer(r, c) \ {d}
    <2>1. S \subseteq T /\ T \in SUBSET Steps
      BY <1>0, <1>2, <1>3 DEF Newer, TypeOK, Steps
    <2>2. Cardinality(T) <= kills BY <1>1 DEF Anchor
    <2>3. Newer(r, d)' = S BY <1>1 DEF Newer
    <2> HIDE DEF S, T
    <2>4. Cardinality(S) <= Cardinality(T) BY <2>1, CardinalityMonotone
    <2>5. Cardinality(S) \in Nat /\ Cardinality(T) \in Nat /\ kills \in Nat
      BY <1>0, <2>1, StepsAreNumbers DEF TypeOK
    <2> QED BY <2>2, <2>3, <2>4, <2>5
  <1>8. d <= step' /\ step' <= d BY <1>1
  <1> QED BY <1>1, <1>3, <1>4, <1>5, <1>6, <1>7, <1>8 DEF Anchor

(* A kill leaves one more shard beyond the anchor at most. *)
LEMMA AnchorKilled ==
  ASSUME IInv, NEW c \in 0 .. TotalSteps, Anchor(c), Kill, Safe'
  PROVE  Anchor(c)'
  <1>0. TypeOK BY DEF IInv
  <1>1. /\ UNCHANGED <<shards, gens, latest>> /\ kills' = kills + 1
        /\ \A r \in Ranks : pc'[r] = "off"
    BY DEF Kill, All, volume
  <1>2. kills \in Nat /\ KeepCkpts \in Nat BY <1>0, StepsAssumption DEF TypeOK
  <1>3. ~AtRisk BY <1>1, <1>2 DEF Safe, AtRisk
  <1>4. Off' /\ ~Saving' /\ pc'[Main] # "latest" /\ \A r \in Ranks : ~Saved(r)'
    BY <1>1, RanksAssumption DEF Off, Saving, Saved, SaveLoc
  <1>5. Common' = Common BY <1>1 DEF Common
  <1>6. \A r \in Ranks : Cardinality(Newer(r, c)') <= kills + 1
    <2> TAKE r \in Ranks
    <2> DEFINE S == Newer(r, c)
    <2>1. S \in SUBSET Steps BY <1>0 DEF Newer, TypeOK
    <2>2. Newer(r, c)' = S BY <1>1 DEF Newer
    <2>3. IsFiniteSet(S) /\ Cardinality(S) \in Nat BY <2>1, StepsAreNumbers
    <2>4. CASE Saved(r)
      <3>1. Cardinality(S \ {step}) <= kills BY <2>4 DEF Anchor
      <3> HIDE DEF S
      <3>2. Cardinality(S \ {step}) =
              IF step \in S THEN Cardinality(S) - 1 ELSE Cardinality(S)
        BY <2>3, FS_RemoveElement
      <3>3. Cardinality(S \ {step}) \in Nat
        BY <2>3, FS_RemoveElement, FS_CardinalityType
      <3> QED BY <1>2, <2>2, <2>3, <3>1, <3>2, <3>3
    <2>5. CASE ~Saved(r)
      <3>1. Cardinality(S) <= kills BY <2>5 DEF Anchor
      <3> HIDE DEF S
      <3> QED BY <1>2, <2>2, <2>3, <3>1
    <2> QED BY <2>4, <2>5
  <1>7. latest' <= c /\ kills' # 0 BY <1>1, <1>2 DEF Anchor
  <1> QED BY <1>1, <1>3, <1>4, <1>5, <1>6, <1>7 DEF Anchor

LEMMA AnchoredStep ==
  ASSUME IInv, [Next]_vars
  PROVE  Anchored'
  <1> SUFFICES ASSUME Safe' PROVE \E c \in 0 .. TotalSteps : Anchor(c)'
    BY DEF Anchored
  <1> USE RanksAssumption, StepsAssumption
  <1>0. TypeOK /\ Lockstep /\ kills \in Nat BY DEF IInv, TypeOK
  <1>1. kills' = kills \/ kills' = kills + 1
    BY <1>0, SaveIsLocal
       DEF Next, Together, Done, Launch, Train, Barrier, WriteLatest, WriteDone,
           Leave, Kill, AskToStop, bounds, vars
  <1>2. Safe BY <1>0, <1>1 DEF Safe
  <1>3. PICK c \in 0 .. TotalSteps : Anchor(c) BY <1>2 DEF IInv, Anchored
  <1>4. CASE Launch
    <2>1. /\ UNCHANGED <<shards, gens, latest, kills>> /\ step' = ResumeStep
          /\ ~Saving /\ ~Saving' /\ pc'[Main] # "latest"
          /\ \A r \in Ranks : ~Saved(r)'
      BY <1>4 DEF Launch, Off, All, Saving, Saved, SaveLoc, volume
    <2>2. c <= ResumeStep
      <3>1. c = 0 \/ c \in Common BY <2>1, <1>3 DEF Anchor, AtRisk
      <3> QED BY <1>0, <3>1, ResumeIsLargest
    <2>3. latest' <= c BY <1>3, <2>1 DEF Anchor
    <2> QED BY <1>0, <1>3, <2>1, <2>2, <2>3, AnchorHeld
  <1>5. CASE Train
    <2>1. /\ UNCHANGED <<shards, gens, latest, kills>> /\ step' = step + 1
          /\ ~Saving /\ pc'[Main] # "latest" /\ ~Off
          /\ \A r \in Ranks : ~Saved(r)'
      BY <1>5 DEF Train, Off, All, Saving, Saved, SaveLoc, volume, bounds
    <2>2. c < step + 1 /\ c <= step + 1 BY <1>0, <1>3, <2>1 DEF Anchor, TypeOK
    <2> QED BY <1>0, <1>3, <2>1, <2>2, AnchorHeld DEF Anchor
  <1>6. CASE Barrier
    <2>1. PICK d \in 0 .. TotalSteps : d = step BY <1>0 DEF TypeOK
    <2>2. Anchor(d)' BY <1>3, <1>6, <2>1, AnchorMoved
    <2> QED BY <2>2
  <1>7. CASE WriteLatest \/ WriteDone \/ Leave
    <2>1. UNCHANGED <<shards, gens, step, kills>>
      BY <1>7 DEF WriteLatest, WriteDone, Leave, volume, flags, bounds
    <2>2. ~Saving /\ ~Off
      BY <1>0, <1>7
         DEF WriteLatest, WriteDone, Leave, Lockstep, Saving, SaveLoc, Off
    <2>3. /\ pc'[Main] # "latest" /\ ~Saving'
          /\ \A r \in Ranks : ~Saved(r)'
      BY <1>0, <1>7, <2>2
         DEF WriteLatest, WriteDone, Leave, All, Goto, AfterSave, Saving, Saved,
             SaveLoc, TypeOK
    <2>4. latest' <= c
      <3>1. CASE WriteLatest BY <1>3, <3>1 DEF WriteLatest, Anchor
      <3>2. CASE WriteDone \/ Leave
        BY <1>3, <3>2 DEF WriteDone, Leave, Anchor, volume
      <3> QED BY <1>7, <3>1, <3>2
    <2>5. c <= step BY <1>3, <2>2 DEF Anchor
    <2> QED BY <1>0, <1>3, <2>1, <2>2, <2>3, <2>4, <2>5, AnchorHeld
  <1>8. CASE Kill BY <1>3, <1>8, AnchorKilled
  <1>9. ASSUME NEW r \in Ranks, Save(r)
        PROVE  \E d \in 0 .. TotalSteps : Anchor(d)'
    BY <1>2, <1>3, <1>9, AnchorSaved
  <1>10. ASSUME NEW r \in Ranks, AskToStop(r) PROVE Anchor(c)'
    BY <1>3, <1>10
       DEF AskToStop, volume, Anchor, Saving, Saved, Newer, Common, AtRisk, Off
  <1>11. CASE UNCHANGED vars
    <2>1. /\ (Saving' <=> Saving) /\ (AtRisk' <=> AtRisk)
          /\ (Off' <=> Off) /\ \A r \in Ranks : (Saved(r)' <=> Saved(r))
      BY <1>11 DEF vars, Saving, Saved, AtRisk, Off
    <2>2. Common' = Common /\ \A r \in Ranks : Newer(r, c)' = Newer(r, c)
      BY <1>11 DEF vars, Newer, Common
    <2>3. UNCHANGED <<shards, gens, latest, pc, step, kills>> BY <1>11 DEF vars
    <2> QED BY <1>3, <2>1, <2>2, <2>3 DEF Anchor
  <1> QED BY <1>4, <1>5, <1>6, <1>7, <1>8, <1>9, <1>10, <1>11
          DEF Next, Together, Done

-----------------------------------------------------------------------------
(* Theorems *)

LEMMA Invariance == Spec => []IInv
  <1>1. IInv /\ [Next]_vars => IInv'
    <2> SUFFICES ASSUME IInv, [Next]_vars PROVE IInv' OBVIOUS
    <2> QED BY TypeStep, LockstepStep, OneLaunchStep, FinalStep, AnchoredStep
            DEF IInv
  <1> QED BY InvInit, <1>1, PTL DEF Spec

(* The files and the locals of main() keep their types; no rank trains     *)
(* past the last step, whatever step a launch resumes from.                *)
THEOREM TypeCorrect == Spec => []TypeOK
  <1>1. IInv => TypeOK BY DEF IInv
  <1> QED BY Invariance, <1>1, PTL

(* As long as there were fewer kills than shards kept, the next launch     *)
(* goes on from a step not older than latest.json: the anchor is complete. *)
THEOREM CompleteSetSurvives == Spec => []Resumable
  <1>1. IInv => Resumable
    <2> SUFFICES ASSUME IInv, Off, latest > 0, Safe PROVE ResumeStep >= latest
      BY DEF Resumable, Safe
    <2>1. TypeOK /\ ~Saving BY DEF IInv, Off, Saving, SaveLoc
    <2>2. PICK c \in 0 .. TotalSteps : Anchor(c) BY DEF IInv, Anchored
    <2>3. c \in Common /\ latest <= c
      BY <2>1, <2>2, StepsAssumption DEF Anchor, AtRisk, TypeOK
    <2>4. c <= ResumeStep /\ ResumeStep \in 0 .. TotalSteps
      BY <2>1, <2>3, ResumeIsLargest
    <2> QED BY <2>1, <2>3, <2>4, StepsAssumption DEF TypeOK
  <1> QED BY Invariance, <1>1, PTL

(* What a launch loads is of one launch after one kill at most, and comes  *)
(* with every rank's position in its stream when there was none.           *)
THEOREM ResumeFitsTogether == Spec => []ResumeWhole
  <1>1. IInv => ResumeWhole
    <2> SUFFICES ASSUME IInv, Off, ResumeStep > 0
                 PROVE  /\ kills < 2 => \A q, r \in Ranks :
                             writer[q][ResumeStep] = writer[r][ResumeStep]
                        /\ kills = 0 => \A r \in Ranks : ResumeStep \in gens[r]
      BY DEF ResumeWhole
    <2>1. TypeOK /\ OneLaunch /\ ~Saving
      BY DEF IInv, Off, Saving, SaveLoc
    <2>2. ResumeStep \in Common /\ ResumeStep \in Nat
      BY <2>1, ResumeIsLargest, StepsAssumption
    <2>3. ASSUME kills = 0, NEW r \in Ranks PROVE ResumeStep \in gens[r]
      <3>1. PICK c \in 0 .. TotalSteps : Anchor(c)
        BY <2>3, StepsAssumption DEF IInv, Anchored, Safe
      <3>2. ~Saved(r) /\ ~AtRisk BY <2>1 DEF Saving, Saved, AtRisk
      <3>3. Newer(r, c) \in SUBSET Steps BY <2>1 DEF Newer, TypeOK
      <3>4. Cardinality(Newer(r, c)) = 0
        <4>1. Cardinality(Newer(r, c)) <= kills BY <3>1, <3>2 DEF Anchor
        <4>2. Cardinality(Newer(r, c)) \in Nat BY <3>3, StepsAreNumbers
        <4> QED BY <2>3, <4>1, <4>2
      <3>5. Newer(r, c) = {} BY <3>3, <3>4, StepsAreNumbers, FS_EmptySet
      <3>6. ResumeStep <= c BY <2>2, <3>5 DEF Newer, Common
      <3>7. c \in Common BY <2>2, <3>1, <3>2, <3>6 DEF Anchor, Common, Steps
      <3>8. ResumeStep = c BY <2>1, <2>2, <3>6, <3>7, ResumeIsLargest
      <3>9. c # 0 BY <3>7 DEF Common, Steps
      <3> QED BY <2>3, <3>1, <3>2, <3>8, <3>9 DEF Anchor
    <2> QED BY <2>1, <2>2, <2>3 DEF OneLaunch
  <1> QED BY Invariance, <1>1, PTL

(* TRAIN_DONE means that the set of the last step is there, of every rank  *)
(* and of one launch, after any number of kills and stops.                 *)
THEOREM DoneMeansFinal == Spec => []DoneIsFinal
  <1>1. IInv => DoneIsFinal
    <2> SUFFICES ASSUME IInv, done
                 PROVE  /\ ResumeStep = TotalSteps
                        /\ \A q, r \in Ranks :
                             writer[q][TotalSteps] = writer[r][TotalSteps]
      BY DEF DoneIsFinal
    <2>1. TypeOK /\ FinalSet BY DEF IInv, Final
    <2>2. TotalSteps \in Common
      BY <2>1, StepsAssumption DEF FinalSet, Common, Steps
    <2>3. ResumeStep \in 0 .. TotalSteps /\ TotalSteps <= ResumeStep
      BY <2>1, <2>2, ResumeIsLargest
    <2>4. ResumeStep = TotalSteps BY <2>3, StepsAssumption
    <2> QED BY <2>1, <2>4 DEF FinalSet
  <1> QED BY Invariance, <1>1, PTL

=============================================================================
