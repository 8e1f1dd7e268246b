---------------------------- MODULE WeightSyncProofs ----------------------------
(***************************************************************************)
(* Theorems about WeightSync and WeightModes: for every number of engines  *)
(* and trainer ranks the broadcast handshake (nccl), and for one engine    *)
(* the shard files (fs).                                                   *)
(***************************************************************************)
EXTENDS WeightModes, FiniteSetTheorems, TLAPS

LEMMA NoneIsNoStep == None \notin Nat
  BY DEF None

LEMMA NewestKeepsTheNewest ==
  ASSUME NEW n \in Nat, NEW S, NEW k \in S, S \subseteq Nat, \A j \in S : j <= k
  PROVE  k \in Newest(n, S)
  <1>1. {j \in S : j > k} = {}
    <2>1. \A j \in S : j \in Nat /\ k \in Nat /\ j <= k OBVIOUS
    <2>2. \A j \in S : ~(j > k) BY <2>1
    <2> QED BY <2>2
  <1>2. Cardinality({j \in S : j > k}) = 0 BY <1>1, FS_EmptySet
  <1> QED BY <1>2 DEF Newest

-----------------------------------------------------------------------------
(* Types.  A rank that waits in wu_recv has been told a step. *)

Told == \A r \in Ranks : pc[r] = "recv" => want[r] \in Nat

TypeInv == TypeOK /\ Told

LEMMA TypeInit == Init => TypeInv
  <1> SUFFICES ASSUME Init PROVE TypeOK /\ Told BY DEF TypeInv
  <1>1. {} \in SUBSET (Ranks \X Nat) /\ {} \in SUBSET (Trainers \X Nat) OBVIOUS
  <1>2. TypeOK
    BY <1>1, SyncFlagsAssumption DEF Init, TypeOK, RankLocation, TrainerLocation
  <1> QED BY <1>2 DEF Init, Told

LEMMA TypeRollout ==
  ASSUME TypeInv, NEW r \in Ranks, Rollout(r)
  PROVE  TypeInv'
  <1> USE NoneIsNoStep DEF TypeInv, TypeOK, Told, Goto, Return, files, trainer,
        RankLocation
  <1>1. CASE AwaitFirst(r) BY <1>1 DEF AwaitFirst
  <1>2. CASE Initial(r) BY <1>2 DEF Initial
  <1>3. CASE Begin(r) BY <1>3 DEF Begin
  <1>4. CASE Attend(r) BY <1>4 DEF Attend
  <1>5. CASE Leave(r) BY <1>5 DEF Leave
  <1>6. CASE PollNccl(r) BY <1>6 DEF PollNccl
  <1>7. CASE Receive(r) BY <1>7 DEF Receive
  <1>8. CASE SeeLatest(r) BY <1>8 DEF SeeLatest
  <1>9. CASE PollFs(r) BY <1>9 DEF PollFs
  <1>10. CASE MetaFs(r) BY <1>10 DEF MetaFs
  <1>11. CASE LoadFs(r)
    <2>1. (\A t \in Trainers : <<t, want[r]>> \in shards) => want[r] \in Nat
      <3>1. <<Main, want[r]>> \in shards => <<Main, want[r]>> \in Trainers \X Nat
        OBVIOUS
      <3> QED BY <3>1, SyncRanksAssumption
    <2> QED BY <1>11, <2>1 DEF LoadFs
  <1>12. CASE Generate(r) BY <1>12 DEF Generate
  <1> QED BY <1>1, <1>2, <1>3, <1>4, <1>5, <1>6, <1>7, <1>8, <1>9, <1>10,
            <1>11, <1>12 DEF Rollout

LEMMA TypeTrainer ==
  ASSUME TypeInv, Trainer
  PROVE  TypeInv'
  <1> USE SyncFlagsAssumption DEF TypeInv, TypeOK, Told, ranks, files, trainer,
        TrainerLocation, Resume
  <1>1. CASE Train BY <1>1 DEF Train
  <1>2. CASE FlagPending BY <1>2 DEF FlagPending
  <1>3. CASE AwaitReady BY <1>3 DEF AwaitReady
  <1>4. CASE Broadcast BY <1>4 DEF Broadcast
  <1>5. CASE ClearFlags BY <1>5 DEF ClearFlags
  <1>6. ASSUME NEW t \in Trainers, WriteShard(t) PROVE TypeInv'
    <2>1. shards \union {<<t, step>>} \in SUBSET (Trainers \X Nat) OBVIOUS
    <2> QED BY <1>6, <2>1 DEF WriteShard
  <1>7. CASE SealShards
    <2>1. shards' \in SUBSET (Trainers \X Nat) BY <1>7 DEF SealShards
    <2> QED BY <1>7, <2>1 DEF SealShards
  <1>8. CASE WriteMeta BY <1>8 DEF WriteMeta
  <1>9. CASE FlipLatest BY <1>9 DEF FlipLatest
  <1>10. CASE PruneSteps
    <2>1. metas' \in SUBSET Nat /\ shards' \in SUBSET (Trainers \X Nat)
      BY <1>10 DEF PruneSteps, Newest
    <2> QED BY <1>10, <2>1 DEF PruneSteps
  <1>11. CASE Finish BY <1>11 DEF Finish
  <1> QED BY <1>1, <1>2, <1>3, <1>4, <1>5, <1>6, <1>7, <1>8, <1>9, <1>10,
            <1>11 DEF Trainer

LEMMA TypeStep == ASSUME TypeInv, [Next]_vars PROVE TypeInv'
  <1>1. TypeInv /\ UNCHANGED vars => TypeInv'
    BY DEF TypeInv, TypeOK, Told, vars
  <1> QED BY <1>1, TypeRollout, TypeTrainer DEF Next, Done

(* Values of the files and locals: a rank past initial() has a label.      *)
THEOREM TypeCorrect == Spec => []TypeOK
  <1>1. TypeInv /\ [Next]_vars => TypeInv' BY TypeStep
  <1>2. TypeInv => TypeOK BY DEF TypeInv
  <1> QED BY <1>1, <1>2, TypeInit, PTL DEF Spec

-----------------------------------------------------------------------------
(* nccl.  Its constants, and the types that count there. *)

LEMMA NcclNone == Nccl!None \notin Nat
  BY DEF Nccl!None

LEMMA NcclFlags ==
  /\ NcclStepOffset \in Nat /\ NcclKeepLoras \in Nat
  /\ NcclBlocksPerStep \in Nat \ {0}
  BY NcclAssumption DEF Nccl!SyncFlagsAssumption

LEMMA SameNewest == ASSUME NEW n, NEW S PROVE Nccl!Newest(n, S) = Newest(n, S)
  BY DEF Nccl!Newest, Newest, Nccl!Cardinality, Cardinality

NcclTypes ==
  /\ pending \in Nat \union {Nccl!None} /\ latest \in Nat \union {Nccl!None}
  /\ sent \in Nat \union {Nccl!None} /\ step \in Nat /\ metas \in SUBSET Nat
  /\ pc \in [NcclRanks -> Nccl!RankLocation \ {"meta", "load"}]
  /\ want \in [NcclRanks -> Nat \union {Nccl!None}]
  /\ cur \in [NcclRanks -> Nat \union {Nccl!None}]
  /\ engine \in [NcclRanks -> Nat]
  /\ \A r \in NcclRanks : pc[r] = "recv" => want[r] \in Nat

LEMMA NcclTypesInit == Nccl!Init => NcclTypes
  BY NcclFlags DEF Nccl!Init, NcclTypes, Nccl!RankLocation

LEMMA NcclTypesRollout ==
  ASSUME NcclTypes, NEW r \in NcclRanks, Nccl!Rollout(r)
  PROVE  NcclTypes'
  <1> USE NcclNone DEF NcclTypes, Nccl!Goto, Nccl!Return, Nccl!files,
          Nccl!trainer, Nccl!RankLocation
  <1>1. CASE Nccl!AwaitFirst(r) BY <1>1 DEF Nccl!AwaitFirst
  <1>2. CASE Nccl!Initial(r) BY <1>2 DEF Nccl!Initial
  <1>3. CASE Nccl!Begin(r) BY <1>3 DEF Nccl!Begin
  <1>4. CASE Nccl!Attend(r) BY <1>4 DEF Nccl!Attend
  <1>5. CASE Nccl!Leave(r) BY <1>5 DEF Nccl!Leave
  <1>6. CASE Nccl!PollNccl(r) BY <1>6 DEF Nccl!PollNccl
  <1>7. CASE Nccl!Receive(r) BY <1>7 DEF Nccl!Receive
  <1>8. CASE Nccl!SeeLatest(r) BY <1>8 DEF Nccl!SeeLatest
  <1>9. CASE Nccl!PollFs(r) \/ Nccl!MetaFs(r) \/ Nccl!LoadFs(r)
    BY <1>9 DEF Nccl!PollFs, Nccl!MetaFs, Nccl!LoadFs
  <1>10. CASE Nccl!Generate(r) BY <1>10 DEF Nccl!Generate
  <1> QED BY <1>1, <1>2, <1>3, <1>4, <1>5, <1>6, <1>7, <1>8, <1>9, <1>10
             DEF Nccl!Rollout

LEMMA NcclTypesTrainer ==
  ASSUME NcclTypes, Nccl!Trainer
  PROVE  NcclTypes'
  <1>1. /\ UNCHANGED <<pc, want, cur, engine>>
        /\ step' \in {step, step + 1}
        /\ pending' \in {pending, step, Nccl!None}
        /\ latest' \in {latest, step} /\ sent' \in {sent, step}
        /\ metas' \subseteq metas \union {step}
    BY DEF Nccl!Trainer, Nccl!Train, Nccl!FlagPending, Nccl!AwaitReady,
       Nccl!Broadcast, Nccl!ClearFlags, Nccl!WriteShard, Nccl!SealShards,
       Nccl!WriteMeta, Nccl!FlipLatest, Nccl!PruneSteps, Nccl!Newest,
       Nccl!Finish, Nccl!files, Nccl!ranks, Nccl!trainer
  <1> QED BY <1>1 DEF NcclTypes

LEMMA NcclTypesStep ==
  ASSUME NcclTypes, [Nccl!Next]_(Nccl!vars)
  PROVE  NcclTypes'
  <1>1. CASE UNCHANGED Nccl!vars BY <1>1 DEF Nccl!vars, NcclTypes
  <1> QED BY <1>1, NcclTypesRollout, NcclTypesTrainer DEF Nccl!Next, Nccl!Done

-----------------------------------------------------------------------------
(* nccl.  One publication at a time: pending names the step from the flag  *)
(* to the clearing, and the ready files are answers to it.                 *)

Announced == tp \in {"await", "bcast", "clear"}

Answers ==
  /\ pending = IF Announced THEN step ELSE Nccl!None
  /\ ~Announced => ready = {}
  /\ \A r \in NcclRanks, k \in Nat : <<r, k>> \in ready =>
       k = step /\ pc[r] \in {"recv", "seeLatest"} /\ want[r] = step

(* The order of the step, the broadcast and latest. *)
Order ==
  /\ NcclStepOffset <= step
  /\ latest # Nccl!None => latest <= step /\ latest \in metas
  /\ sent # Nccl!None => sent <= step
  /\ tp \in {"flag", "await", "bcast", "clear", "meta", "flip"} => latest # step
  /\ tp \in {"flag", "await", "bcast"} => latest # Nccl!None /\ sent # step
  /\ tp \in {"clear", "meta", "flip"} /\ latest # Nccl!None => sent = step
  /\ tp \notin {"meta", "flip"} => latest # Nccl!None
  /\ latest = Nccl!None => step = NcclStepOffset
  /\ \A k \in metas : k <= step
  /\ tp = "flip" => step \in metas
  /\ tp = "prune" => latest = step
  /\ tp # "shard"
  /\ stop => tp = "done"

(* The trainer is past the wait for the engines and short of latest. *)
Swapping == tp \in {"bcast", "clear", "meta", "flip"}

(* Where rank r is in the handshake: not up yet, at work with the policy   *)
(* of latest, or held in the swap until latest names what it received.     *)
Starting(r) ==
  /\ pc[r] \in {"wait", "boot"} /\ latest \in {Nccl!None, NcclStepOffset}
  /\ engine[r] = NcclStepOffset
  /\ pc[r] = "boot" => want[r] = latest /\ latest # Nccl!None
  /\ latest # Nccl!None => ~Swapping

Working(r) ==
  /\ pc[r] \in {"top", "poll", "gen", "exit"}
  /\ engine[r] = cur[r] /\ cur[r] = latest /\ latest # Nccl!None
  /\ ~Swapping

Held(r) ==
  /\ pc[r] \in {"recv", "seeLatest"} /\ latest # Nccl!None
  /\ want[r] = latest => ~Swapping /\ sent = latest
  /\ want[r] # latest =>
       /\ want[r] = step /\ (tp = "await" \/ Swapping)
       /\ tp = "await" => <<r, step>> \in ready
  /\ pc[r] = "seeLatest" => engine[r] = want[r] /\ sent = want[r]

Handshake == \A r \in NcclRanks : Starting(r) \/ Working(r) \/ Held(r)

NcclInv == Answers /\ Order /\ Handshake

LEMMA NcclInit == Nccl!Init => NcclInv
  BY NcclFlags, NcclNone DEF Nccl!Init, NcclInv, Answers, Announced, Order,
     Handshake, Starting, Swapping

LEMMA AnswersRollout ==
  ASSUME NcclTypes, NcclInv, NEW r \in NcclRanks, Nccl!Rollout(r)
  PROVE  Answers' /\ Order'
  <1> USE NcclNone DEF Nccl!Goto, Nccl!Return, Nccl!files, Nccl!trainer,
          Answers, Announced
  <1>0. /\ pc \in [NcclRanks -> Nccl!RankLocation]
        /\ want \in [NcclRanks -> Nat \union {Nccl!None}]
        /\ Answers /\ step \in Nat
    BY DEF NcclTypes, NcclInv
  <1>1. Order'
    <2>1. UNCHANGED <<step, latest, metas, sent, tp, stop>>
      BY DEF Nccl!Rollout, Nccl!AwaitFirst, Nccl!Initial, Nccl!Begin,
         Nccl!Attend, Nccl!Leave, Nccl!PollNccl, Nccl!Receive, Nccl!SeeLatest,
         Nccl!PollFs, Nccl!MetaFs, Nccl!LoadFs, Nccl!Generate
    <2> QED BY <2>1 DEF Order, NcclInv
  <1>2. CASE Nccl!PollNccl(r)
    <2>1. CASE pending \in {Nccl!None, cur[r]}
      BY <1>0, <1>1, <1>2, <2>1 DEF Nccl!PollNccl
    <2>2. CASE pending \notin {Nccl!None, cur[r]}
      BY <1>0, <1>1, <1>2, <2>2 DEF Nccl!PollNccl
    <2> QED BY <1>1, <2>1, <2>2
  <1>3. CASE ~Nccl!PollNccl(r)
    <2>1. /\ UNCHANGED <<pending, ready, step, tp>>
          /\ \A q \in NcclRanks : pc[q] \in {"recv", "seeLatest"} =>
               \/ pc'[q] = pc[q] /\ want'[q] = want[q]
               \/ pc[q] = "recv" /\ pc'[q] = "seeLatest" /\ want'[q] = want[q]
               \/ Nccl!SeeLatest(r) /\ q = r
      BY <1>0, <1>3 DEF Nccl!Rollout, Nccl!AwaitFirst, Nccl!Initial,
         Nccl!Begin, Nccl!Attend, Nccl!Leave, Nccl!Receive, Nccl!SeeLatest,
         Nccl!PollFs, Nccl!MetaFs, Nccl!LoadFs, Nccl!Generate
    <2>2. Nccl!SeeLatest(r) => \A k \in Nat : <<r, k>> \notin ready
      <3> SUFFICES ASSUME Nccl!SeeLatest(r), NEW k \in Nat, <<r, k>> \in ready
                   PROVE  FALSE
        OBVIOUS
      <3>1. Announced /\ want[r] = step BY <1>0
      <3>2. latest = step BY <3>1 DEF Nccl!SeeLatest
      <3> QED BY <3>1, <3>2 DEF Order, NcclInv
    <2> QED BY <1>0, <1>1, <2>1, <2>2
  <1> QED BY <1>1, <1>2, <1>3

LEMMA HandshakeRollout ==
  ASSUME NcclTypes, NcclInv, NEW r \in NcclRanks, Nccl!Rollout(r)
  PROVE  Handshake'
  <1> USE NcclNone DEF Nccl!Goto, Nccl!Return, Nccl!files, Nccl!trainer,
          Swapping
  <1>0. /\ pc \in [NcclRanks -> Nccl!RankLocation]
        /\ want \in [NcclRanks -> Nat \union {Nccl!None}]
        /\ cur \in [NcclRanks -> Nat \union {Nccl!None}]
        /\ engine \in [NcclRanks -> Nat]
        /\ step \in Nat /\ latest \in Nat \union {Nccl!None}
        /\ Starting(r) \/ Working(r) \/ Held(r)
    BY DEF NcclTypes, NcclInv, Handshake
  <1>u. /\ UNCHANGED <<step, latest, sent, tp, metas, pending>>
        /\ ready \subseteq ready'
    BY DEF Nccl!Rollout, Nccl!AwaitFirst, Nccl!Initial, Nccl!Begin,
       Nccl!Attend, Nccl!Leave, Nccl!PollNccl, Nccl!Receive, Nccl!SeeLatest,
       Nccl!PollFs, Nccl!MetaFs, Nccl!LoadFs, Nccl!Generate
  <1>o. ASSUME NEW q \in NcclRanks, q # r
        PROVE  (Starting(q) \/ Working(q) \/ Held(q))'
    <2>1. UNCHANGED <<pc[q], want[q], cur[q], engine[q]>>
      BY <1>0, <1>o DEF Nccl!Rollout, Nccl!AwaitFirst, Nccl!Initial,
         Nccl!Begin, Nccl!Attend, Nccl!Leave, Nccl!PollNccl, Nccl!Receive,
         Nccl!SeeLatest, Nccl!PollFs, Nccl!MetaFs, Nccl!LoadFs, Nccl!Generate
    <2>2. Starting(q) \/ Working(q) \/ Held(q) BY DEF NcclInv, Handshake
    <2>3. Starting(q) => Starting(q)' BY <1>u, <2>1 DEF Starting
    <2>4. Working(q) => Working(q)' BY <1>u, <2>1 DEF Working
    <2>5. Held(q) => Held(q)' BY <1>u, <2>1 DEF Held
    <2> QED BY <2>2, <2>3, <2>4, <2>5
  <1> SUFFICES (Starting(r) \/ Working(r) \/ Held(r))' BY <1>o DEF Handshake
  <1>1. CASE Nccl!AwaitFirst(r)
    <2>1. Starting(r)
      BY <1>0, <1>1 DEF Nccl!AwaitFirst, Starting, Working, Held
    <2>2. tp \notin {"meta", "flip", "bcast", "clear"} BY <1>1,
            <2>1 DEF Starting, Nccl!AwaitFirst
    <2> QED BY <1>0, <1>1, <1>u, <2>1, <2>2 DEF Nccl!AwaitFirst, Starting
  <1>2. CASE Nccl!Initial(r)
    <2>1. Starting(r) /\ want[r] = latest /\ latest \in metas
      BY <1>0, <1>2 DEF Nccl!Initial, Starting, Working, Held, NcclInv, Order
    <2> QED BY <1>0, <1>2, <1>u, <2>1 DEF Nccl!Initial, Starting, Working
  <1>3. CASE Nccl!Begin(r) \/ Nccl!Attend(r) \/ Nccl!Leave(r) \/ Nccl!Generate(r)
    <2>1. /\ pc[r] \in {"top", "gen"} /\ pc'[r] \in {"poll", "exit", "top"}
          /\ UNCHANGED <<want, cur, engine>>
      BY <1>0, <1>3 DEF Nccl!Begin, Nccl!Attend, Nccl!Leave, Nccl!Generate
    <2> QED BY <1>0, <1>u, <2>1 DEF Starting, Working, Held
  <1>4. CASE Nccl!PollNccl(r)
    <2>1. Working(r) BY <1>0, <1>4 DEF Nccl!PollNccl, Starting, Working, Held
    <2>2. CASE pending \in {Nccl!None, cur[r]}
      BY <1>0, <1>4, <1>u, <2>1, <2>2 DEF Nccl!PollNccl, Working
    <2>3. CASE pending \notin {Nccl!None, cur[r]}
      <3>1. pending = step /\ tp = "await" /\ latest # step
        BY <2>1, <2>3 DEF Working, NcclInv, Answers, Announced, Order
      <3>2. pc'[r] = "recv" /\ want'[r] = step /\ <<r, step>> \in ready'
        BY <1>0, <1>4, <2>3, <3>1 DEF Nccl!PollNccl
      <3> QED BY <1>0, <1>u, <2>1, <3>1, <3>2 DEF Held, Working
    <2> QED BY <2>2, <2>3
  <1>5. CASE Nccl!Receive(r)
    <2>1. /\ pc[r] = "recv" /\ pc'[r] = "seeLatest" /\ engine'[r] = want[r]
          /\ sent = want[r] /\ UNCHANGED want
      BY <1>0, <1>5 DEF Nccl!Receive
    <2>2. Held(r) BY <1>0, <2>1 DEF Starting, Working, Held
    <2> QED BY <1>u, <2>1, <2>2 DEF Held
  <1>6. CASE Nccl!SeeLatest(r)
    <2>1. pc[r] = "seeLatest" /\ latest = want[r] BY <1>6 DEF Nccl!SeeLatest
    <2>2. Held(r) BY <1>0, <2>1 DEF Starting, Working, Held
    <2>3. latest \in metas /\ engine[r] = latest /\ ~Swapping
      BY <2>1, <2>2 DEF Held, NcclInv, Order
    <2>4. pc'[r] \in {"top", "gen"} /\ cur'[r] = latest /\ engine' = engine
      BY <1>0, <1>6, <2>3 DEF Nccl!SeeLatest
    <2> QED BY <1>u, <2>2, <2>3, <2>4 DEF Working, Held
  <1>7. CASE Nccl!PollFs(r) \/ Nccl!MetaFs(r) \/ Nccl!LoadFs(r)
    BY <1>0, <1>7 DEF Nccl!PollFs, Nccl!MetaFs, Nccl!LoadFs, Starting,
       Working, Held
  <1> QED BY <1>1, <1>2, <1>3, <1>4, <1>5, <1>6, <1>7 DEF Nccl!Rollout

LEMMA OrderTrainer ==
  ASSUME NcclTypes, NcclInv, Nccl!Trainer
  PROVE  Order'
  <1> USE NcclFlags, NcclNone DEF Nccl!ranks, Nccl!files, Nccl!trainer, Order,
          NcclInv
  <1>0. step \in Nat /\ latest \in Nat \union {Nccl!None} /\ sent \in Nat \union {Nccl!None}
        /\ metas \subseteq Nat
    BY DEF NcclTypes
  <1>1. CASE Nccl!Train
    <2>1. latest \in Nat BY <1>0, <1>1 DEF Nccl!Train
    <2>2. latest # step + 1 BY <1>0, <2>1
    <2>3. sent # step + 1 BY <1>0
    <2>4. step + 1 # Nccl!None BY <1>0
    <2> QED BY <1>0, <1>1, <2>1, <2>2, <2>3, <2>4 DEF Nccl!Train
  <1>2. CASE Nccl!FlagPending BY <1>2 DEF Nccl!FlagPending
  <1>3. CASE Nccl!AwaitReady BY <1>3 DEF Nccl!AwaitReady
  <1>4. CASE Nccl!Broadcast BY <1>0, <1>4 DEF Nccl!Broadcast
  <1>5. CASE Nccl!ClearFlags BY <1>5 DEF Nccl!ClearFlags
  <1>6. CASE (\E t \in Trainers : Nccl!WriteShard(t)) \/ Nccl!SealShards
    BY <1>6 DEF Nccl!WriteShard, Nccl!SealShards
  <1>8. CASE Nccl!WriteMeta BY <1>0, <1>8 DEF Nccl!WriteMeta
  <1>9. CASE Nccl!FlipLatest BY <1>0, <1>9 DEF Nccl!FlipLatest
  <1>10. CASE Nccl!PruneSteps
    <2>1. latest = step /\ latest # Nccl!None BY <1>0,
            <1>10 DEF Nccl!PruneSteps
    <2>2. latest \in Nccl!Newest(NcclKeepLoras, metas)
      BY <1>0, <2>1, NcclFlags, SameNewest, NewestKeepsTheNewest
    <2>3. Nccl!Newest(NcclKeepLoras, metas) \subseteq metas
      BY DEF Nccl!Newest
    <2> QED BY <1>10, <2>1, <2>2, <2>3 DEF Nccl!PruneSteps, Nccl!Resume
  <1>11. CASE Nccl!Finish BY <1>11 DEF Nccl!Finish
  <1> QED BY <1>1, <1>2, <1>3, <1>4, <1>5, <1>6, <1>8, <1>9, <1>10,
            <1>11 DEF Nccl!Trainer

LEMMA AnswersTrainer ==
  ASSUME NcclTypes, NcclInv, Nccl!Trainer
  PROVE  Answers'
  <1> USE NcclNone DEF Nccl!ranks, Nccl!files, Nccl!trainer, Answers, NcclInv,
          Announced
  <1>1. CASE Nccl!Train BY <1>1 DEF Nccl!Train
  <1>2. CASE Nccl!FlagPending BY <1>2 DEF Nccl!FlagPending
  <1>3. CASE Nccl!AwaitReady BY <1>3 DEF Nccl!AwaitReady
  <1>4. CASE Nccl!Broadcast BY <1>4 DEF Nccl!Broadcast
  <1>5. CASE Nccl!ClearFlags BY <1>5 DEF Nccl!ClearFlags
  <1>6. CASE (\E t \in Trainers : Nccl!WriteShard(t)) \/ Nccl!SealShards
    BY <1>6 DEF Nccl!WriteShard, Nccl!SealShards, Order
  <1>8. CASE Nccl!WriteMeta BY <1>8 DEF Nccl!WriteMeta
  <1>9. CASE Nccl!FlipLatest BY <1>9 DEF Nccl!FlipLatest
  <1>10. CASE Nccl!PruneSteps BY <1>10 DEF Nccl!PruneSteps, Nccl!Resume
  <1>11. CASE Nccl!Finish BY <1>11 DEF Nccl!Finish
  <1> QED BY <1>1, <1>2, <1>3, <1>4, <1>5, <1>6, <1>8, <1>9, <1>10,
            <1>11 DEF Nccl!Trainer

LEMMA HandshakeTrainer ==
  ASSUME NcclTypes, NcclInv, Nccl!Trainer
  PROVE  Handshake'
  <1> SUFFICES ASSUME NEW r \in NcclRanks PROVE (Starting(r) \/ Working(r) \/ Held(r))'
    BY DEF Handshake
  <1>0. /\ pc \in [NcclRanks -> Nccl!RankLocation] /\ step \in Nat
        /\ latest \in Nat \union {Nccl!None} /\ sent \in Nat \union {Nccl!None}
        /\ want[r] \in Nat \union {Nccl!None}
        /\ Starting(r) \/ Working(r) \/ Held(r)
    BY DEF NcclTypes, NcclInv, Handshake
  <1>u. UNCHANGED <<pc, want, cur, engine>>
    BY DEF Nccl!Trainer, Nccl!Train, Nccl!FlagPending, Nccl!AwaitReady,
       Nccl!Broadcast, Nccl!ClearFlags, Nccl!WriteShard, Nccl!SealShards,
       Nccl!WriteMeta, Nccl!FlipLatest, Nccl!PruneSteps, Nccl!Finish,
       Nccl!ranks
  <1> USE NcclNone DEF Swapping
  <1>1. CASE Nccl!Train
    <2>1. /\ tp = "train" /\ tp' \notin {"await", "bcast", "clear", "meta",
            "flip"}
          /\ UNCHANGED <<latest, sent, ready>>
      BY <1>1 DEF Nccl!Train, Nccl!Publishes
    <2> QED BY <1>0, <1>u, <2>1 DEF Starting, Working, Held
  <1>2. CASE Nccl!FlagPending
    <2>1. tp = "flag" /\ tp' = "await" /\ UNCHANGED <<latest, sent, ready,
            step>>
      BY <1>2 DEF Nccl!FlagPending
    <2> QED BY <1>0, <1>u, <2>1 DEF Starting, Working, Held
  (* Every rank has answered, so none is starting or at work. *)
  <1>3. CASE Nccl!AwaitReady
    <2>1. tp = "await" /\ tp' = "bcast" /\ UNCHANGED <<latest, sent, ready,
            step>>
          /\ <<r, step>> \in ready
      BY <1>3 DEF Nccl!AwaitReady, Nccl!files
    <2>2. pc[r] \in {"recv", "seeLatest"} /\ want[r] = step /\ latest # step
          /\ sent # step
      BY <1>0, <2>1 DEF NcclInv, Answers, Order
    <2>3. Held(r) BY <1>0, <2>2 DEF Starting, Working
    <2> QED BY <1>u, <2>1, <2>2, <2>3 DEF Held
  <1>4. CASE Nccl!Broadcast
    <2>1. /\ tp = "bcast" /\ tp' = "clear" /\ sent' = step
          /\ UNCHANGED <<latest, ready, step>>
      BY <1>4 DEF Nccl!Broadcast, Nccl!files
    <2>2. latest # Nccl!None /\ sent # step /\ latest # step
      BY <2>1 DEF NcclInv, Order
    <2>3. Held(r) /\ want[r] = step
      BY <1>0, <2>1, <2>2 DEF Starting, Working, Held
    <2> QED BY <1>u, <2>1, <2>2, <2>3 DEF Held
  <1>5. CASE Nccl!ClearFlags
    <2>1. tp = "clear" /\ tp' = "meta" /\ UNCHANGED <<latest, sent, step>>
      BY <1>5 DEF Nccl!ClearFlags
    <2> QED BY <1>0, <1>u, <2>1 DEF Starting, Working, Held
  <1>6. CASE (\E t \in Trainers : Nccl!WriteShard(t)) \/ Nccl!SealShards
    BY <1>6 DEF Nccl!WriteShard, Nccl!SealShards, NcclInv, Order
  <1>8. CASE Nccl!WriteMeta
    <2>1. tp = "meta" /\ tp' = "flip" /\ UNCHANGED <<latest, sent, step,
            ready>>
      BY <1>8 DEF Nccl!WriteMeta
    <2> QED BY <1>0, <1>u, <2>1 DEF Starting, Working, Held
  (* latest catches up with what the held ranks received. *)
  <1>9. CASE Nccl!FlipLatest
    <2>1. tp = "flip" /\ tp' = "prune" /\ latest' = step /\ UNCHANGED <<sent,
            step, ready>>
      BY <1>9 DEF Nccl!FlipLatest
    <2>2. CASE latest = Nccl!None
      <3>1. Starting(r) /\ step = NcclStepOffset
        BY <1>0, <2>2 DEF Working, Held, NcclInv, Order
      <3> QED BY <1>0, <1>u, <2>1, <2>2, <3>1 DEF Starting
    <2>3. CASE latest # Nccl!None
      <3>1. sent = step /\ latest # step BY <2>1, <2>3 DEF NcclInv, Order
      <3>2. Held(r) /\ want[r] = step
        BY <1>0, <2>1, <2>3 DEF Starting, Working, Held
      <3> QED BY <1>0, <1>u, <2>1, <3>1, <3>2 DEF Held
    <2> QED BY <2>2, <2>3
  <1>10. CASE Nccl!PruneSteps
    <2>1. /\ tp = "prune" /\ tp' \in {"train", "final"}
          /\ UNCHANGED <<latest, sent, step, ready>>
      BY <1>10 DEF Nccl!PruneSteps, Nccl!Resume
    <2> QED BY <1>0, <1>u, <2>1 DEF Starting, Working, Held
  <1>11. CASE Nccl!Finish
    <2>1. tp = "final" /\ tp' = "done" /\ UNCHANGED <<latest, sent, step,
            ready>>
      BY <1>11 DEF Nccl!Finish
    <2> QED BY <1>0, <1>u, <2>1 DEF Starting, Working, Held
  <1> QED BY <1>1, <1>2, <1>3, <1>4, <1>5, <1>6, <1>8, <1>9, <1>10,
            <1>11 DEF Nccl!Trainer

LEMMA NcclStep == ASSUME NcclTypes, NcclInv,
  [Nccl!Next]_(Nccl!vars) PROVE NcclInv'
  <1>1. NcclInv /\ UNCHANGED Nccl!vars => NcclInv'
    BY DEF Nccl!vars, NcclInv, Answers, Announced, Order, Handshake, Starting,
       Working, Held, Swapping
  <1>2. (\E r \in NcclRanks : Nccl!Rollout(r)) => NcclInv'
    BY AnswersRollout, HandshakeRollout DEF NcclInv
  <1>3. Nccl!Trainer => NcclInv'
    BY AnswersTrainer, OrderTrainer, HandshakeTrainer DEF NcclInv
  <1> QED BY <1>1, <1>2, <1>3 DEF Nccl!Next, Nccl!Done

(* What it is for.                                                         *)
LEMMA NcclIsSound ==
  ASSUME NcclInv
  PROVE  Nccl!LabelIsServed /\ Nccl!NoMixedVersions /\ Nccl!NoRankCrashes
  BY DEF NcclInv, Handshake, Starting, Working, Held, Nccl!LabelIsServed,
     Nccl!NoMixedVersions, Nccl!NoRankCrashes

-----------------------------------------------------------------------------
(* fs with one rollout rank.  It is up before the first update: there is   *)
(* no block to train on until it has written one.                          *)

Upfront ==
  \A r \in Ranks : pc[r] \in {"wait", "boot"} =>
    /\ queue = 0 /\ step = StepOffset /\ engine[r] = StepOffset
    /\ latest \in {None, StepOffset}
    /\ tp \in {"meta", "flip", "prune", "train", "final", "done"}
    /\ pc[r] = "boot" => want[r] = StepOffset

Labels ==
  \A r \in Ranks : pc[r] \notin {"wait", "boot", "crashed"} => engine[r] = cur[r]

NoReceive == \A r \in Ranks : pc[r] \notin {"recv", "seeLatest"}

FsInv == Upfront /\ Labels /\ NoReceive

LEMMA FsRollout ==
  ASSUME TypeInv, FsInv, OneEngine, NEW r \in Ranks, Rollout(r)
  PROVE  FsInv'
  <1> USE DEF Goto, Return, files, trainer, FsInv, Upfront, Labels, NoReceive
  <1>0. /\ pc \in [Ranks -> RankLocation] /\ want \in [Ranks -> Nat \union {None}]
        /\ cur \in [Ranks -> Nat \union {None}] /\ engine \in [Ranks -> Nat]
        /\ Ranks = {r} /\ step \in Nat
    BY DEF TypeInv, TypeOK, OneEngine
  <1>1. CASE AwaitFirst(r) BY <1>0, <1>1 DEF AwaitFirst
  <1>2. CASE Initial(r) BY <1>0, <1>2 DEF Initial
  <1>3. CASE Begin(r) \/ Attend(r) \/ Leave(r) \/ Generate(r)
    BY <1>0, <1>3 DEF Begin, Attend, Leave, Generate
  <1>4. CASE PollNccl(r) BY <1>4 DEF PollNccl, OneEngine
  <1>5. CASE Receive(r) \/ SeeLatest(r) BY <1>5 DEF Receive, SeeLatest
  <1>6. CASE PollFs(r) BY <1>0, <1>6 DEF PollFs
  <1>7. CASE MetaFs(r) BY <1>0, <1>7 DEF MetaFs
  <1>8. CASE LoadFs(r)
    <2>1. CASE \A t \in Trainers : <<t, want[r]>> \in shards
      BY <1>0, <1>8, <2>1 DEF LoadFs
    <2>2. CASE ~(\A t \in Trainers : <<t, want[r]>> \in shards)
      BY <1>0, <1>8, <2>2 DEF LoadFs
    <2> QED BY <2>1, <2>2
  <1> QED BY <1>1, <1>2, <1>3, <1>4, <1>5, <1>6, <1>7, <1>8 DEF Rollout

LEMMA FsTrainer ==
  ASSUME TypeInv, FsInv, OneEngine, Trainer
  PROVE  FsInv'
  <1> USE SyncFlagsAssumption DEF ranks, files, trainer, FsInv, Upfront, Labels,
        NoReceive
  <1>1. CASE Train
    <2>1. queue # 0 BY <1>1 DEF Train
    <2> QED BY <1>1, <2>1 DEF Train
  <1>2. CASE FlagPending \/ AwaitReady \/ Broadcast \/ ClearFlags
    BY <1>2 DEF FlagPending, AwaitReady, Broadcast, ClearFlags
  <1>6. CASE (\E t \in Trainers : WriteShard(t)) \/ SealShards
    BY <1>6 DEF WriteShard, SealShards
  <1>8. CASE WriteMeta BY <1>8 DEF WriteMeta
  <1>9. CASE FlipLatest BY <1>9 DEF FlipLatest
  <1>10. CASE PruneSteps BY <1>10 DEF PruneSteps, Resume
  <1>11. CASE Finish BY <1>11 DEF Finish
  <1> QED BY <1>1, <1>2, <1>6, <1>8, <1>9, <1>10, <1>11 DEF Trainer

LEMMA FsInit == Init => FsInv
  BY DEF Init, FsInv, Upfront, Labels, NoReceive

LEMMA FsStep == ASSUME TypeInv, FsInv, OneEngine, [Next]_vars PROVE FsInv'
  <1>1. FsInv /\ UNCHANGED vars => FsInv'
    BY DEF vars, FsInv, Upfront, Labels, NoReceive
  <1> QED BY <1>1, FsRollout, FsTrainer DEF Next, Done

LEMMA FsIsLabelled == FsInv => LabelIsServed
  BY DEF FsInv, Labels, LabelIsServed

-----------------------------------------------------------------------------
(* fs with one rollout rank, continued.  Between the poll that reads       *)
(* latest and the load of its shards the trainer can use up what is in the *)
(* queue, and no more: (step - k) * BlocksPerStep plus the queue does not  *)
(* grow.  Keeping as many steps as that takes keeps what the rank loads.   *)

(* The shards of step k are complete. *)
Sealed(k) == \A t \in Trainers : <<t, k>> \in shards

FsOrder ==
  /\ StepOffset <= step
  /\ latest # None => StepOffset <= latest /\ latest <= step /\ latest \in metas
  /\ latest # None /\ latest # StepOffset => Sealed(latest)
  /\ tp \in {"shard", "meta", "flip"} => latest # step
  /\ tp \in {"meta", "flip"} /\ latest # None => Sealed(step)
  /\ tp \notin {"meta", "flip"} => latest # None
  /\ latest = None => step = StepOffset
  /\ \A k \in metas : k <= step
  /\ tp = "flip" => step \in metas
  /\ tp = "prune" => latest = step
  /\ tp \notin {"flag", "await", "bcast", "clear"}

Fresh ==
  latest # None =>
    step - latest <= IF tp \in {"shard", "meta", "flip"} THEN PublishEvery
                     ELSE step % PublishEvery

(* The blocks the updates since k took, and those that are left. *)
Reach(k) == (step - k) * BlocksPerStep + queue

Loadable ==
  \A r \in Ranks :
    /\ pc[r] # "crashed"
    /\ pc[r] \notin {"wait", "boot"} => StepOffset <= cur[r] /\ cur[r] <= latest
    /\ pc[r] = "boot" => want[r] = latest
    /\ pc[r] = "poll" => queue < Cap
    /\ pc[r] \in {"meta", "load"} =>
         /\ cur[r] < want[r] /\ want[r] <= latest
         /\ want[r] \in metas /\ Sealed(want[r])
         /\ Reach(want[r]) < Cap + PublishEvery * BlocksPerStep

LoadInv == FsOrder /\ Fresh /\ Loadable

(* Products with a positive factor keep the order; remainders count up. *)
LEMMA Monotone ==
  ASSUME NEW x \in Int, NEW y \in Int, NEW b \in Nat
  PROVE  x * b \in Int /\ (x <= y => x * b <= y * b)
  <1>1. x * b \in Int OBVIOUS
  <1>2. ASSUME x <= y PROVE x * b <= y * b
    <2>1. PICK d \in Nat : y = x + d
      <3>1. y - x \in Nat /\ y = x + (y - x) BY <1>2
      <3> QED BY <3>1
    <2>2. y * b = x * b + d * b BY <2>1
    <2>3. d * b \in Nat BY <2>1
    <2> QED BY <1>1, <2>2, <2>3
  <1> QED BY <1>1, <1>2

LEMMA Remainder ==
  ASSUME NEW s \in Nat, NEW p \in Nat \ {0}
  PROVE  \E q \in Int, r \in 0 .. p - 1 : s % p = r /\ r = s - p * q
  <1>1. s % p \in 0 .. p - 1 /\ s \div p \in Int OBVIOUS
  <1>2. s % p = s - p * (s \div p) OBVIOUS
  <1> QED BY <1>1, <1>2, Zenon

LEMMA Modulo ==
  ASSUME NEW s \in Nat, NEW p \in Nat \ {0}
  PROVE  /\ s % p \in 0 .. p - 1
         /\ (s + 1) % p # 0 => (s + 1) % p = (s % p) + 1
  <1>1. PICK q \in Int, r \in 0 .. p - 1 : s % p = r /\ r = s - p * q
    BY Remainder
  <1>2. PICK Q \in Int, R \in 0 .. p - 1 : (s + 1) % p = R /\ R = s + 1 - p * Q
    BY Remainder
  <1>3. \A x, y \in Int : p * (x - y) = p * x - p * y OBVIOUS
  <1>4. PICK d \in Int : d = Q - q OBVIOUS
  <1>5. p * d = 1 - (R - r)
    <2>1. p * d = p * Q - p * q BY <1>3, <1>4
    <2>2. p * Q \in Int /\ p * q \in Int OBVIOUS
    <2> QED BY <1>1, <1>2, <2>1, <2>2
  <1>6. d = 0 \/ d = 1
    <2>1. d >= 2 => p * d >= p * 2 OBVIOUS
    <2>2. d <= -1 => p * d <= p * (-1) OBVIOUS
    <2> QED BY <1>5, <2>1, <2>2
  <1>7. d = 0 => R = r + 1 BY <1>5
  <1>8. d = 1 => R = 0 BY <1>5
  <1> QED BY <1>1, <1>2, <1>6, <1>7, <1>8

Span == Cap + PublishEvery * BlocksPerStep

LEMMA SpanType ==
  /\ Span \in Int /\ PublishEvery * BlocksPerStep \in Int
  /\ PublishEvery * BlocksPerStep < Span
  /\ Cap \in Nat \ {0} /\ BlocksPerStep \in Nat /\ PublishEvery \in Nat
  <1>1. /\ PublishEvery \in Int /\ BlocksPerStep \in Nat /\ Cap \in Nat \ {0}
        /\ PublishEvery \in Nat
    BY SyncFlagsAssumption
  <1>2. PICK x \in Int : x = PublishEvery * BlocksPerStep BY <1>1, Monotone
  <1> QED BY <1>1, <1>2 DEF Span

LEMMA ReachType ==
  ASSUME TypeInv, NEW k \in Int
  PROVE  /\ Reach(k) \in Int /\ (step - k) * BlocksPerStep \in Int
         /\ (step - k) * BlocksPerStep <= Reach(k)
         /\ Reach(k) = (step - k) * BlocksPerStep + queue
  <1>1. step - k \in Int /\ BlocksPerStep \in Nat /\ queue \in Nat
    BY SyncFlagsAssumption DEF TypeInv, TypeOK
  <1>2. PICK x \in Int : x = (step - k) * BlocksPerStep BY <1>1, Monotone
  <1> QED BY <1>1, <1>2 DEF Reach

(* A step no further back than the span survives both clean-ups. *)
LEMMA NewestKeepsTheSpan ==
  ASSUME TypeInv, NEW n \in Nat, Enough(n), NEW S, S \subseteq Nat,
         \A j \in S : j <= step, NEW k \in S, (step - k) * BlocksPerStep < Span
  PROVE  k \in Newest(n, S)
  <1>0. step \in Nat /\ k \in Nat /\ k <= step /\ BlocksPerStep \in Nat
    BY SyncFlagsAssumption DEF TypeInv, TypeOK
  <1>1. CASE n = 0 BY <1>1 DEF Newest
  <1>2. CASE n # 0
    <2>1. step - k < n
      <3>1. n * BlocksPerStep >= Span BY <1>2 DEF Enough, Span
      <3>2. PICK d \in Int : d = step - k BY <1>0
      <3>3. n <= d => n * BlocksPerStep <= d * BlocksPerStep BY <1>0, Monotone
      <3>4. d * BlocksPerStep \in Int /\ n * BlocksPerStep \in Int
        BY <1>0, Monotone
      <3>5. d * BlocksPerStep < Span BY <3>2
      <3> QED BY <3>1, <3>2, <3>3, <3>4, <3>5, SpanType
    <2> DEFINE J == {j \in S : j > k}
    <2>2. J \subseteq (k + 1) .. step
      <3>1. \A j \in J : j \in Nat /\ j > k /\ j <= step OBVIOUS
      <3>2. \A j \in Nat : j > k /\ j <= step => j \in (k + 1) .. step BY <1>0
      <3> HIDE DEF J
      <3> QED BY <3>1, <3>2
    <2>3. /\ IsFiniteSet((k + 1) .. step)
          /\ Cardinality((k + 1) .. step) = step - k
      <3>1. k + 1 \in Int /\ step \in Int /\ step - (k + 1) + 1 = step - k BY <1>0
      <3>2. /\ IsFiniteSet((k + 1) .. step)
            /\ Cardinality((k + 1) .. step) =
                 IF k + 1 > step THEN 0 ELSE step - (k + 1) + 1
        BY <3>1, FS_Interval
      <3>3. k + 1 > step => step - k = 0 BY <1>0
      <3> QED BY <3>1, <3>2, <3>3
    <2>4. Cardinality(J) <= step - k /\ Cardinality(J) \in Nat
      BY <2>2, <2>3, FS_Subset, FS_CardinalityType
    <2> HIDE DEF J
    <2>5. Cardinality(J) < n BY <1>0, <2>1, <2>4
    <2> QED BY <1>2, <2>5 DEF Newest, J
  <1> QED BY <1>1, <1>2

(* latest is never more than one publication behind. *)
LEMMA LatestInSpan ==
  ASSUME TypeInv, Fresh, OneEngine, EnoughSets, latest # None
  PROVE  /\ (step - latest) * BlocksPerStep <= PublishEvery * BlocksPerStep
         /\ (step - latest) * BlocksPerStep < Span
  <1>0. step \in Nat /\ latest \in Nat /\ PublishEvery \in Nat \ {0}
        /\ BlocksPerStep \in Nat
    BY SyncFlagsAssumption DEF TypeInv, TypeOK, OneEngine, EnoughSets
  <1>1. step % PublishEvery \in 0 .. PublishEvery - 1 BY <1>0, Modulo
  <1>2. PICK x \in Int : x = step % PublishEvery /\ x <= PublishEvery - 1
    BY <1>0, <1>1
  <1>3. step - latest <= PublishEvery BY <1>0, <1>2 DEF Fresh
  <1>4. PICK d \in Int : d = step - latest BY <1>0
  <1>5. d * BlocksPerStep <= PublishEvery * BlocksPerStep /\ d * BlocksPerStep \in Int
    BY <1>0, <1>3, <1>4, Monotone
  <1>6. d * BlocksPerStep < Span BY <1>5, SpanType
  <1> QED BY <1>4, <1>5, <1>6

LEMMA FreshTrainer ==
  ASSUME TypeInv, FsOrder, Fresh, OneEngine, EnoughSets, Trainer
  PROVE  Fresh'
  <1> USE DEF Fresh
  <1>0. /\ step \in Nat /\ latest \in Nat \union {None} /\ PublishEvery \in Nat \ {0}
    BY SyncFlagsAssumption DEF TypeInv, TypeOK, OneEngine, EnoughSets
  <1>m. /\ step % PublishEvery \in 0 .. PublishEvery - 1
        /\ (step + 1) % PublishEvery # 0 =>
             (step + 1) % PublishEvery = (step % PublishEvery) + 1
    BY <1>0, Modulo
  <1>x. PICK x \in Int : x = step % PublishEvery /\ x <= PublishEvery - 1
    BY <1>0, <1>m
  <1>1. CASE Train
    <2>1. /\ tp = "train" /\ latest' = latest /\ step' = step + 1
          /\ tp' = IF Publishes(step + 1) THEN "shard"
                   ELSE IF step + 1 < TotalSteps THEN "train" ELSE "final"
      BY <1>1 DEF Train, OneEngine, EnoughSets
    <2>2. CASE latest # None
      <3>1. latest \in Nat /\ step - latest <= x
        BY <1>0, <1>x, <2>1, <2>2
      <3>2. CASE Publishes(step + 1)
        BY <1>0, <1>x, <2>1, <3>1, <3>2
      <3>3. CASE ~Publishes(step + 1)
        <4>1. (step + 1) % PublishEvery # 0 BY <1>0, <3>3 DEF Publishes
        <4>2. step' % PublishEvery = x + 1 BY <1>m, <1>x, <2>1, <4>1
        <4>3. step' - latest <= x + 1 BY <1>0, <2>1, <3>1
        <4>4. tp' \notin {"shard", "meta", "flip"} BY <2>1, <3>3
        <4> QED BY <2>1, <4>2, <4>3, <4>4
      <3> QED BY <3>2, <3>3
    <2> QED BY <2>1, <2>2
  <1>2. CASE FlipLatest
    <2>1. latest' = step /\ step' = step /\ tp' = "prune" BY <1>2 DEF FlipLatest
    <2> QED BY <1>0, <1>m, <2>1
  <1>3. CASE ~Train /\ ~FlipLatest
    <2>1. /\ UNCHANGED <<latest, step>>
          /\ tp' \in {"shard", "meta", "flip"} <=> tp \in {"shard", "meta", "flip"}
      BY <1>3 DEF Trainer, FlagPending, AwaitReady, Broadcast, ClearFlags, WriteShard,
         SealShards, WriteMeta, PruneSteps, Finish, Resume, trainer, FsOrder
    <2> QED BY <2>1
  <1> QED BY <1>1, <1>2, <1>3

(* What the two clean-ups leave of the step directories. *)
LEMMA SealKeeps ==
  ASSUME TypeInv, FsOrder, OneEngine, EnoughSets, SealShards, NEW k \in metas \union {step},
         (step - k) * BlocksPerStep < Span, Sealed(k)
  PROVE  Sealed(k)'
  <1>1. /\ Dirs \subseteq Nat /\ \A j \in Dirs : j <= step
        /\ FsKeepSteps \in Nat /\ k \in Dirs
    BY SyncFlagsAssumption DEF TypeInv, TypeOK, Dirs, FsOrder
  <1>2. k \in Newest(FsKeepSteps, Dirs)
    BY <1>1, NewestKeepsTheSpan DEF OneEngine, EnoughSets
  <1> QED BY <1>2 DEF SealShards, Sealed

LEMMA PruneKeeps ==
  ASSUME TypeInv, FsOrder, OneEngine, EnoughSets, PruneSteps, NEW k \in metas,
         (step - k) * BlocksPerStep < Span
  PROVE  k \in metas' /\ (Sealed(k) => Sealed(k)')
  <1>1. /\ metas \subseteq Nat /\ \A j \in metas : j <= step /\ KeepLoras \in Nat
    BY SyncFlagsAssumption DEF TypeInv, TypeOK, FsOrder
  <1>2. k \in Newest(KeepLoras, metas)
    BY <1>1, NewestKeepsTheSpan DEF OneEngine, EnoughSets
  <1> QED BY <1>2 DEF PruneSteps, Sealed

LEMMA StepInSpan == TypeInv => (step - step) * BlocksPerStep < Span
  <1> SUFFICES ASSUME TypeInv PROVE (step - step) * BlocksPerStep < Span OBVIOUS
  <1>1. step - step = 0 /\ 0 * BlocksPerStep = 0
    BY SyncFlagsAssumption DEF TypeInv, TypeOK
  <1>2. 0 * BlocksPerStep <= PublishEvery * BlocksPerStep
    BY SyncFlagsAssumption, Monotone
  <1> QED BY <1>1, <1>2, SpanType

LEMMA FsOrderTrainer ==
  ASSUME TypeInv, FsOrder, Fresh, OneEngine, EnoughSets, Trainer
  PROVE  FsOrder'
  <1>0. /\ step \in Nat /\ latest \in Nat \union {None} /\ metas \subseteq Nat
        /\ StepOffset \in Nat /\ PublishMode = "fs"
    BY SyncFlagsAssumption DEF TypeInv, TypeOK, OneEngine, EnoughSets
  <1> USE NoneIsNoStep DEF ranks, files, trainer
  <1>1. CASE Train
    <2>1. latest # step + 1 BY <1>0 DEF FsOrder, None
    <2> QED BY <1>0, <1>1, <2>1 DEF Train, FsOrder, Sealed
  <1>2. CASE FlagPending \/ AwaitReady \/ Broadcast \/ ClearFlags
    BY <1>2 DEF FlagPending, AwaitReady, Broadcast, ClearFlags, FsOrder
  <1>3. ASSUME NEW t \in Trainers, WriteShard(t) PROVE FsOrder'
    BY <1>3 DEF WriteShard, FsOrder, Sealed
  <1>4. CASE SealShards
    <2>1. tp = "shard" /\ tp' = "meta" /\ UNCHANGED <<latest, metas, step>>
      BY <1>4 DEF SealShards
    <2>2. latest # None /\ Sealed(step) BY <1>4, <2>1 DEF SealShards, Sealed, FsOrder
    <2>3. (latest # StepOffset => Sealed(latest)) /\ latest \in metas
      BY <2>2 DEF FsOrder
    <2>4. (step - latest) * BlocksPerStep < Span BY <2>2, LatestInSpan
    <2>k. PICK k, n : k = latest /\ n = step OBVIOUS
    <2>5. latest # StepOffset => Sealed(k)' BY <1>4, <2>k, <2>3, <2>4, SealKeeps
    <2>6. Sealed(n)' BY <1>4, <2>k, <2>2, StepInSpan, SealKeeps
    <2> QED BY <2>k, <2>1, <2>2, <2>5, <2>6 DEF FsOrder, Sealed
  <1>5. CASE WriteMeta BY <1>0, <1>5 DEF WriteMeta, FsOrder, Sealed
  <1>6. CASE FlipLatest
    <2>1. step # StepOffset => latest # None BY DEF FsOrder
    <2> QED BY <1>0, <1>6, <2>1 DEF FlipLatest, FsOrder, Sealed
  <1>7. CASE PruneSteps
    <2>1. tp = "prune" /\ tp' \in {"train", "final"} /\ UNCHANGED <<latest, step>>
      BY <1>7 DEF PruneSteps, Resume
    <2>2. latest # None /\ latest \in metas BY <2>1 DEF FsOrder
    <2>k. PICK k : k = latest OBVIOUS
    <2>3. k \in metas' /\ (Sealed(k) => Sealed(k)')
      BY <1>7, <2>k, <2>2, LatestInSpan, PruneKeeps
    <2>4. metas' \subseteq metas BY <1>7 DEF PruneSteps, Newest
    <2> QED BY <2>k, <2>1, <2>2, <2>3, <2>4 DEF FsOrder, Sealed
  <1>8. CASE Finish BY <1>8 DEF Finish, FsOrder, Sealed
  <1> QED BY <1>1, <1>2, <1>3, <1>4, <1>5, <1>6, <1>7, <1>8 DEF Trainer

LEMMA LoadableRollout ==
  ASSUME TypeInv, FsInv, LoadInv, OneEngine, EnoughSets, NEW r \in Ranks, Rollout(r)
  PROVE  Loadable'
  <1>0. /\ pc \in [Ranks -> RankLocation] /\ want \in [Ranks -> Nat \union {None}]
        /\ cur \in [Ranks -> Nat \union {None}] /\ engine \in [Ranks -> Nat]
        /\ Ranks = {r} /\ step \in Nat /\ latest \in Nat \union {None}
        /\ PublishMode = "fs" /\ StepOffset \in Nat
    BY SyncFlagsAssumption DEF TypeInv, TypeOK, OneEngine, EnoughSets
  <1>u. UNCHANGED <<step, latest, metas, shards>>
    BY DEF Rollout, AwaitFirst, Initial, Begin, Attend, Leave, PollNccl,
      Receive, SeeLatest, PollFs, MetaFs, LoadFs, Generate, files, trainer
  <1> USE DEF Goto, Return, files, trainer, Loadable, LoadInv
  <1>1. CASE AwaitFirst(r) BY <1>0, <1>1 DEF AwaitFirst
  <1>2. CASE Initial(r)
    <2>1. want[r] = latest /\ latest = StepOffset /\ latest \in metas
      BY <1>0, <1>2, NoneIsNoStep DEF Initial, FsInv, Upfront, FsOrder
    <2> QED BY <1>0, <1>2, <2>1 DEF Initial
  <1>3. CASE Begin(r) \/ Attend(r) \/ Leave(r) \/ Generate(r)
    BY <1>0, <1>3 DEF Begin, Attend, Leave, Generate
  <1>4. CASE PollNccl(r) BY <1>0, <1>4 DEF PollNccl
  <1>5. CASE Receive(r) \/ SeeLatest(r)
    BY <1>5 DEF Receive, SeeLatest, FsInv, NoReceive
  <1>6. CASE PollFs(r)
    <2>1. /\ pc[r] = "poll" /\ queue < Cap /\ StepOffset <= cur[r] /\ cur[r] <= latest
          /\ UNCHANGED <<cur, queue>>
      BY <1>0, <1>6 DEF PollFs
    <2>2. CASE latest = cur[r] BY <1>0, <1>6, <2>1, <2>2 DEF PollFs
    <2>3. CASE latest # cur[r]
      <3>1. pc'[r] = "meta" /\ want'[r] = latest BY <1>0, <1>6, <2>3 DEF PollFs
      <3>2. latest # None /\ cur[r] < latest /\ latest # StepOffset
        BY <1>0, <2>1, <2>3 DEF None
      <3>3. latest \in metas /\ Sealed(latest) BY <3>2 DEF FsOrder
      <3>4. Reach(latest) < Span
        <4>1. PICK a \in Int : a = (step - latest) * BlocksPerStep
          BY <1>0, <3>2, ReachType
        <4>2. PICK b \in Int : b = PublishEvery * BlocksPerStep BY SpanType
        <4>3. a <= b BY <3>2, <4>1, <4>2, LatestInSpan
        <4>4. queue \in Nat /\ Cap \in Nat BY SpanType DEF TypeInv, TypeOK
        <4>5. a + queue < Cap + b BY <2>1, <4>3, <4>4
        <4> QED BY <4>1, <4>2, <4>5 DEF Reach, Span
      <3>5. Reach(latest)' = Reach(latest) /\ Sealed(latest)' = Sealed(latest)
        BY <1>u, <2>1 DEF Reach, Sealed
      <3>6. Reach(want[r])' < Span /\ Sealed(want[r])'
        BY <1>u, <2>1, <3>1, <3>3, <3>4 DEF Reach, Sealed
      <3>7. Reach(want[r])' < Cap + PublishEvery * BlocksPerStep
        BY <3>6 DEF Span
      <3> QED BY <1>0, <1>u, <2>1, <3>1, <3>2, <3>3, <3>6, <3>7
    <2> QED BY <2>2, <2>3
  <1>7. CASE MetaFs(r)
    BY <1>0, <1>7 DEF MetaFs, Reach, Sealed
  <1>8. CASE LoadFs(r)
    <2>1. /\ pc[r] = "load" /\ Sealed(want[r]) /\ StepOffset <= cur[r]
          /\ cur[r] < want[r] /\ want[r] <= latest
      BY <1>0, <1>8 DEF LoadFs
    <2>2. cur'[r] = want[r] /\ pc'[r] \in {"gen", "top"}
      BY <1>0, <1>8, <2>1 DEF LoadFs, Sealed
    <2>3. StepOffset <= cur'[r] BY <1>0, <2>1, <2>2 DEF None
    <2> QED BY <1>0, <1>u, <2>1, <2>2, <2>3
  <1> QED BY <1>1, <1>2, <1>3, <1>4, <1>5, <1>6, <1>7, <1>8 DEF Rollout

LEMMA LoadableTrainer ==
  ASSUME TypeInv, FsInv, LoadInv, OneEngine, EnoughSets, Trainer
  PROVE  Loadable'
  <1>0. /\ want \in [Ranks -> Nat \union {None}] /\ cur \in [Ranks -> Nat \union {None}]
        /\ step \in Nat /\ latest \in Nat \union {None} /\ queue \in Nat
        /\ BlocksPerStep \in Nat /\ Cap \in Nat
    BY SyncFlagsAssumption DEF TypeInv, TypeOK
  <1>u. UNCHANGED <<pc, want, cur>>
    BY DEF Trainer, Train, FlagPending, AwaitReady, Broadcast, ClearFlags,
      WriteShard, SealShards, WriteMeta, FlipLatest, PruneSteps, Finish, ranks
  <1>w. ASSUME NEW r \in Ranks, pc[r] \in {"meta", "load"}
        PROVE  /\ want[r] \in metas /\ Sealed(want[r]) /\ want[r] \in Nat
               /\ (step - want[r]) * BlocksPerStep < Span
    <2>1. /\ want[r] \in metas /\ Sealed(want[r]) /\ want[r] \in Nat
          /\ Reach(want[r]) < Span
      BY <1>w DEF LoadInv, Loadable, Span, TypeInv, TypeOK
    <2>2. PICK k \in Nat : k = want[r] BY <2>1
    <2>3. PICK a \in Int : a = (step - k) * BlocksPerStep BY ReachType
    <2>4. Reach(k) \in Int /\ a <= Reach(k) BY <2>3, ReachType
    <2>5. a < Span BY <2>1, <2>2, <2>4, SpanType
    <2> QED BY <2>1, <2>2, <2>3, <2>5
  (* The batch the update took is off the queue. *)
  <1>1. CASE Train
    <2>1. /\ step' = step + 1 /\ queue' = queue - BlocksPerStep
          /\ UNCHANGED <<latest, metas, shards>>
      BY <1>1 DEF Train
    <2>2. ASSUME NEW k \in Int PROVE Reach(k)' = Reach(k)
      <3>1. PICK d \in Int : d = step - k /\ step' - k = d + 1 BY <1>0, <2>1
      <3>2. (d + 1) * BlocksPerStep = d * BlocksPerStep + BlocksPerStep BY <1>0
      <3>3. PICK a \in Int : a = d * BlocksPerStep BY <1>0, Monotone
      <3>4. (step' - k) * BlocksPerStep = a + BlocksPerStep
        BY <3>1, <3>2, <3>3, Zenon
      <3>5. a + BlocksPerStep + (queue - BlocksPerStep) = a + queue BY <1>0
      <3>6. Reach(k)' = a + BlocksPerStep + (queue - BlocksPerStep)
        BY <2>1, <3>4 DEF Reach
      <3>7. Reach(k) = a + queue BY <3>1, <3>3 DEF Reach
      <3> QED BY <3>5, <3>6, <3>7
    <2>3. ASSUME NEW r \in Ranks, pc[r] \in {"meta", "load"}
          PROVE  Reach(want[r])' < Cap + PublishEvery * BlocksPerStep
      <3>1. PICK k \in Int : k = want[r] BY <1>w, <2>3
      <3>2. Reach(k)' = Reach(k) BY <2>2
      <3>3. Reach(k) < Cap + PublishEvery * BlocksPerStep
        BY <2>3, <3>1 DEF LoadInv, Loadable
      <3>4. Reach(want[r])' = Reach(k)' BY <1>u, <3>1 DEF Reach
      <3> QED BY <3>2, <3>3, <3>4, Zenon
    <2>4. queue < Cap => queue' < Cap BY <1>0, <2>1
    <2> QED BY <1>u, <2>1, <2>3, <2>4 DEF LoadInv, Loadable, Sealed
  <1>2. CASE FlagPending \/ AwaitReady \/ Broadcast \/ ClearFlags
    BY <1>2 DEF FlagPending, AwaitReady, Broadcast, ClearFlags, LoadInv, FsOrder
  <1>3. ASSUME NEW t \in Trainers, WriteShard(t) PROVE Loadable'
    BY <1>3, <1>u DEF WriteShard, trainer, LoadInv, Loadable, Sealed, Reach
  <1>4. CASE SealShards
    <2>1. UNCHANGED <<latest, metas, step, queue>> BY <1>4 DEF SealShards
    <2>2. ASSUME NEW r \in Ranks, pc[r] \in {"meta", "load"} PROVE Sealed(want[r])'
      <3>1. Sealed(want[r]) /\ want[r] \in metas \union {step}
            /\ (step - want[r]) * BlocksPerStep < Span
        BY <1>w, <2>2
      <3>2. PICK k : k = want[r] OBVIOUS
      <3>3. Sealed(k)' BY <1>4, <3>1, <3>2, SealKeeps DEF LoadInv
      <3> QED BY <1>u, <3>2, <3>3 DEF Sealed
    <2> QED BY <1>u, <2>1, <2>2 DEF LoadInv, Loadable, Reach
  <1>5. CASE WriteMeta
    BY <1>5, <1>u DEF WriteMeta, LoadInv, Loadable, Sealed, Reach
  <1>6. CASE FlipLatest
    <2>1. latest' = step /\ UNCHANGED <<metas, shards, step, queue>>
      BY <1>6 DEF FlipLatest
    <2>2. \A r \in Ranks : pc[r] # "boot" \/ latest' = latest \/ latest = None
      BY <1>0, <1>6, NoneIsNoStep DEF FlipLatest, FsInv, Upfront
    <2>3. \A r \in Ranks : pc[r] = "boot" => latest # None /\ latest' = latest
      <3>1. \A r \in Ranks : pc[r] = "boot" => latest = StepOffset /\ step = StepOffset
        BY SyncFlagsAssumption DEF FsInv, Upfront, LoadInv, Loadable
      <3> QED BY <2>1, <3>1, SyncFlagsAssumption, NoneIsNoStep
    <2>4. \A r \in Ranks : latest # None => latest <= step BY DEF LoadInv, FsOrder
    <2>5. \A r \in Ranks : \A k \in Nat \union {None} :
            k <= latest => k <= step
      BY <1>0, <2>4 DEF None
    <2> QED BY <1>0, <1>u, <2>1, <2>3, <2>5 DEF LoadInv, Loadable, Sealed, Reach
  <1>7. CASE PruneSteps
    <2>1. UNCHANGED <<latest, step, queue>> BY <1>7 DEF PruneSteps
    <2>2. ASSUME NEW r \in Ranks, pc[r] \in {"meta", "load"}
          PROVE  want[r] \in metas' /\ Sealed(want[r])'
      <3>1. Sealed(want[r]) /\ want[r] \in metas
            /\ (step - want[r]) * BlocksPerStep < Span
        BY <1>w, <2>2
      <3>2. PICK k : k = want[r] OBVIOUS
      <3>3. k \in metas' /\ Sealed(k)' BY <1>7, <3>1, <3>2, PruneKeeps DEF LoadInv
      <3> QED BY <1>u, <3>2, <3>3 DEF Sealed
    <2> QED BY <1>u, <2>1, <2>2 DEF LoadInv, Loadable, Reach
  <1>8. CASE Finish
    BY <1>8, <1>u DEF Finish, LoadInv, Loadable, Sealed, Reach
  <1> QED BY <1>1, <1>2, <1>3, <1>4, <1>5, <1>6, <1>7, <1>8 DEF Trainer

LEMMA LoadInit == Init => LoadInv
  BY NoneIsNoStep, SyncFlagsAssumption
     DEF Init, LoadInv, FsOrder, Fresh, Loadable, Sealed

LEMMA LoadStep ==
  ASSUME TypeInv, FsInv, LoadInv, OneEngine, EnoughSets, [Next]_vars
  PROVE  LoadInv'
  <1>1. CASE UNCHANGED vars
    BY <1>1 DEF vars, LoadInv, FsOrder, Fresh, Loadable, Sealed, Reach
  <1>2. ASSUME NEW r \in Ranks, Rollout(r) PROVE LoadInv'
    <2>1. UNCHANGED <<step, latest, metas, shards, tp>>
      BY <1>2 DEF Rollout, AwaitFirst, Initial, Begin, Attend, Leave, PollNccl,
        Receive, SeeLatest, PollFs, MetaFs, LoadFs, Generate, files, trainer
    <2>2. FsOrder' /\ Fresh' BY <2>1 DEF LoadInv, FsOrder, Fresh, Sealed
    <2> QED BY <1>2, <2>2, LoadableRollout DEF LoadInv
  <1>3. CASE Trainer
    BY <1>3, FreshTrainer, FsOrderTrainer, LoadableTrainer DEF LoadInv
  <1> QED BY <1>1, <1>2, <1>3 DEF Next, Done

-----------------------------------------------------------------------------
(* Theorems about the two modes side by side. *)

FirstInv == TypeInv /\ FsInv

SecondInv == NcclTypes /\ NcclInv

(* A step of the two side by side is one of the mode chosen.               *)
LEMMA ModesStep ==
  ASSUME [ModesNext]_ModesVars
  PROVE  /\ config' = config
         /\ config = "fs" => [Next]_vars
         /\ config = "nccl" => [Nccl!Next]_(Nccl!vars)
  BY DEF ModesNext, ModesVars, In, vars, Nccl!vars

LEMMA SecondInit == Nccl!Init => SecondInv
  BY NcclTypesInit, NcclInit DEF SecondInv

LEMMA SecondStep == ASSUME SecondInv, [Nccl!Next]_(Nccl!vars) PROVE SecondInv'
  BY NcclTypesStep, NcclStep DEF SecondInv

(* "Every engine serves exactly step k afterwards (no mixed versions)", for *)
(* any number of engines.                                                  *)
THEOREM VersionsNeverMix == ModesSpec => []NoneMixed
  <1> DEFINE Inv == config = "nccl" => SecondInv
  <1>1. ModesInit => Inv BY SecondInit DEF ModesInit
  <1>2. Inv /\ [ModesNext]_ModesVars => Inv' BY ModesStep, SecondStep
  <1>3. Inv => NoneMixed BY NcclIsSound DEF SecondInv, NoneMixed
  <1> QED BY <1>1, <1>2, <1>3, PTL DEF ModesSpec

(* A block is labelled with the model it was sampled from: always with     *)
(* broadcast engines, and in fs mode with a single one.  (With more, one   *)
(* that starts after the first update breaks it.)                          *)
THEOREM LabelsAreServed == ASSUME OneEngine PROVE ModesSpec => []LabelsServed
  <1> DEFINE Inv == /\ config \in {"fs", "nccl"}
                    /\ config = "nccl" => SecondInv
                    /\ config = "fs" => FirstInv
  <1>1. ModesInit => Inv
    BY SecondInit, TypeInit, FsInit DEF ModesInit, FirstInv
  <1>2. Inv /\ [ModesNext]_ModesVars => Inv'
    BY ModesStep, SecondStep, TypeStep, FsStep DEF FirstInv
  <1>3. Inv => LabelsServed
    BY NcclIsSound, FsIsLabelled DEF FirstInv, SecondInv, LabelsServed
  <1> QED BY <1>1, <1>2, <1>3, PTL DEF ModesSpec

(* A broadcast engine never dies of a missing meta.json or of a checksum:  *)
(* it looks for latest only once it has received what latest will name.    *)
(* One engine that loads files never finds a meta.json or a shard gone, if *)
(* the two clean-ups keep as many steps as the full queue and a            *)
(* publication take.                                                       *)
THEOREM EnginesLive ==
  ASSUME OneEngine, EnoughSets PROVE ModesSpec => []NoneCrashes
  <1> DEFINE Inv == /\ config \in {"fs", "nccl"}
                    /\ config = "nccl" => SecondInv
                    /\ config = "fs" => FirstInv /\ LoadInv
  <1>1. ModesInit => Inv
    BY SecondInit, TypeInit, FsInit, LoadInit DEF ModesInit, FirstInv
  <1>2. Inv /\ [ModesNext]_ModesVars => Inv'
    BY ModesStep, SecondStep, TypeStep, FsStep, LoadStep DEF FirstInv
  <1>3. Inv => NoneCrashes
    BY NcclIsSound DEF SecondInv, LoadInv, Loadable, NoRankCrashes, NoneCrashes
  <1> QED BY <1>1, <1>2, <1>3, PTL DEF ModesSpec

-----------------------------------------------------------------------------
(* The engines' models only grow newer. *)

(* The engines of R whose model changes get a newer one, and none of them  *)
(* in the middle of a block.                                               *)
Forward(R) ==
  \A r \in R : engine'[r] # engine[r] =>
    engine[r] < engine'[r] /\ pc[r] \in {"recv", "load"}

(* An engine in wu_recv still holds the model it is to get rid of.         *)
Behind ==
  \A r \in NcclRanks : pc[r] = "recv" => engine[r] < want[r]

LEMMA BehindStep ==
  ASSUME SecondInv, Behind, [Nccl!Next]_(Nccl!vars)
  PROVE  Behind' /\ Forward(NcclRanks)
  <1> USE NcclNone DEF SecondInv
  <1>0. /\ pc \in [NcclRanks -> Nccl!RankLocation]
        /\ want \in [NcclRanks -> Nat \union {Nccl!None}]
        /\ engine \in [NcclRanks -> Nat]
        /\ latest \in Nat \union {Nccl!None} /\ step \in Nat
    BY DEF NcclTypes
  <1>1. ASSUME UNCHANGED <<pc, want, engine>> PROVE Behind' /\ Forward(NcclRanks)
    BY <1>1 DEF Behind, Forward
  <1>2. ASSUME NEW r \in NcclRanks, Nccl!Rollout(r)
        PROVE  Behind' /\ Forward(NcclRanks)
    <2> USE <1>0 DEF Nccl!Goto, Nccl!Return, Nccl!files, Nccl!trainer
    <2>1. CASE Nccl!PollNccl(r)
      <3>1. ASSUME pending \notin {Nccl!None, cur[r]} PROVE engine[r] < pending
        <4>1. Working(r)
          BY <2>1 DEF NcclInv, Handshake, Starting, Held, Nccl!PollNccl
        <4>2. pending = step /\ Announced BY <3>1 DEF NcclInv, Answers
        <4>3. engine[r] = latest /\ latest # Nccl!None /\ latest <= step /\ latest # step
          BY <3>1, <4>1, <4>2 DEF Working, NcclInv, Order
        <4> QED BY <4>2, <4>3
      <3> QED BY <2>1, <3>1 DEF Nccl!PollNccl, Behind, Forward
    <2>2. CASE Nccl!Receive(r) BY <2>2 DEF Nccl!Receive, Behind, Forward
    <2>3. CASE Nccl!AwaitFirst(r) BY <2>3 DEF Nccl!AwaitFirst, Behind, Forward
    <2>4. ASSUME pc'[r] # "recv", UNCHANGED <<want, engine>>,
                 \A q \in NcclRanks : q # r => pc'[q] = pc[q]
          PROVE  Behind' /\ Forward(NcclRanks)
      BY <2>4 DEF Behind, Forward
    <2>5. CASE \/ Nccl!Initial(r) \/ Nccl!Begin(r) \/ Nccl!Attend(r)
               \/ Nccl!Leave(r) \/ Nccl!SeeLatest(r) \/ Nccl!Generate(r)
      BY <2>4, <2>5 DEF Nccl!Initial, Nccl!Begin, Nccl!Attend, Nccl!Leave,
         Nccl!SeeLatest, Nccl!Generate
    <2>6. CASE Nccl!PollFs(r) \/ Nccl!MetaFs(r) \/ Nccl!LoadFs(r)
      BY <2>6 DEF Nccl!PollFs, Nccl!MetaFs, Nccl!LoadFs, NcclTypes
    <2> QED BY <1>2, <2>1, <2>2, <2>3, <2>5, <2>6 DEF Nccl!Rollout
  <1>3. Nccl!Trainer => UNCHANGED <<pc, want, engine>>
    BY DEF Nccl!Trainer, Nccl!Train, Nccl!FlagPending, Nccl!AwaitReady,
       Nccl!Broadcast, Nccl!ClearFlags, Nccl!WriteShard, Nccl!SealShards,
       Nccl!WriteMeta, Nccl!FlipLatest, Nccl!PruneSteps, Nccl!Finish,
       Nccl!files, Nccl!ranks, Nccl!trainer
  <1>4. UNCHANGED Nccl!vars => UNCHANGED <<pc, want, engine>> BY DEF Nccl!vars
  <1> QED BY <1>1, <1>2, <1>3, <1>4 DEF Nccl!Next, Nccl!Done

(* The engine that loads files: what it loads is newer than its label.     *)
LEMMA LoadsForward ==
  ASSUME FirstInv, LoadInv, OneEngine, [Next]_vars
  PROVE  Forward(Ranks)
  <1> USE DEF FirstInv
  <1>0. engine \in [Ranks -> Nat] BY DEF TypeInv, TypeOK
  <1>1. ASSUME engine' = engine PROVE Forward(Ranks) BY <1>1 DEF Forward
  <1>2. ASSUME NEW r \in Ranks, LoadFs(r) PROVE Forward(Ranks)
    <2>1. pc[r] = "load" => engine[r] = cur[r] /\ cur[r] < want[r]
      BY DEF FsInv, Labels, LoadInv, Loadable
    <2> QED BY <1>0, <1>1, <1>2, <2>1 DEF LoadFs, Forward
  <1>3. ASSUME NEW r \in Ranks, Rollout(r), ~LoadFs(r) PROVE engine' = engine
    <2>1. ~Receive(r) BY DEF Receive, FsInv, NoReceive
    <2> QED BY <1>3, <2>1 DEF Rollout, AwaitFirst, Initial, Begin, Attend, Leave,
               PollNccl, SeeLatest, PollFs, MetaFs, Generate
  <1>4. Trainer \/ UNCHANGED vars => engine' = engine
    BY DEF Trainer, Train, FlagPending, AwaitReady, Broadcast, ClearFlags,
       WriteShard, SealShards, WriteMeta, FlipLatest, PruneSteps, Finish,
       files, ranks, trainer, vars
  <1> QED BY <1>1, <1>2, <1>3, <1>4 DEF Next, Done

(* No engine goes back to an older policy, and none changes its weights    *)
(* but at a block boundary: by broadcast for any number of engines.        *)
THEOREM EnginesGoForward ==
  ModesSpec => [][config = "nccl" => Forward(NcclRanks)]_ModesVars
  <1> DEFINE Inv == config = "nccl" => SecondInv /\ Behind
  <1>1. ModesInit => Inv
    BY SecondInit DEF ModesInit, Behind, Nccl!Init
  <1>2. Inv /\ [ModesNext]_ModesVars =>
          Inv' /\ (config = "nccl" => Forward(NcclRanks))
    BY ModesStep, SecondStep, BehindStep
  <1> QED BY <1>1, <1>2, PTL DEF ModesSpec

(* The same of the engine that loads files, on the premises on which what  *)
(* it looks for is there.                                                  *)
THEOREM EngineLoadsForward ==
  ASSUME OneEngine, EnoughSets
  PROVE  ModesSpec => [][config = "fs" => Forward(Ranks)]_ModesVars
  <1> DEFINE Inv == config = "fs" => FirstInv /\ LoadInv
  <1>1. ModesInit => Inv BY TypeInit, FsInit, LoadInit DEF ModesInit, FirstInv
  <1>2. Inv /\ [ModesNext]_ModesVars => Inv' /\ (config = "fs" => Forward(Ranks))
    BY ModesStep, TypeStep, FsStep, LoadStep, LoadsForward DEF FirstInv
  <1> QED BY <1>1, <1>2, PTL DEF ModesSpec

=================================================================================
