--------------------------- MODULE TrainerStepProofs ---------------------------
(***************************************************************************)
(* Proofs about TrainerBoot and TrainerStep for every number of ranks, set *)
(* of candidates, peaks, batch, filter and aggregation: the ranks hold a   *)
(* micro-batch that fits all of them, enter the loop with the same         *)
(* evaluations, average their gradients into that of the whole batch where *)
(* every share keeps a group, and take one decision at the end of the step. *)
(***************************************************************************)
EXTENDS TrainerStep, SumLemmas, SequenceTheorems

-----------------------------------------------------------------------------
(* The micro-batch. *)

(* The ranks have tried the same micro-batches ...                         *)
SameTries ==
  /\ \A s, t \in Trainers : Tried(s) = Tried(t)
  /\ \A t \in Trainers :
       /\ IsFiniteSet(Tried(t)) /\ Tried(t) \subseteq Nat \ {0}
       /\ \A mb \in Tried(t) : peak[t][mb] \in Nat

(* ... and one that has chosen holds one that fits, for no peak is taken   *)
(* from then on until all have chosen.                                     *)
ProbeInv ==
  /\ full \in BOOLEAN /\ DOMAIN micro = Trainers /\ DOMAIN bp = Trainers
  /\ DOMAIN peak = Trainers
  /\ SameTries
  /\ full => \A t \in Trainers : bp[t] = "min" => micro[t] \in Fitting(t)

LEMMA MeasuredIsLargest ==
  ASSUME SameTries, NEW t \in Trainers, NEW mb \in Tried(t)
  PROVE  /\ Measured(t, mb) \in Nat
         /\ \A s \in Trainers : peak[s][mb] <= Measured(t, mb)
  <1> DEFINE S == {peak[s][mb] : s \in Trainers}
  <1>1. S \in SUBSET Nat /\ S # {} BY DEF SameTries
  <1>2. IsFiniteSet(S)
    <2> DEFINE f == [s \in Trainers |-> peak[s][mb]]
    <2>1. f \in Surjection(Trainers, S) BY DEF Surjection
    <2>2. IsFiniteSet(Trainers) BY FS_Interval, BootAssumption DEF Trainers
    <2> HIDE DEF f, S
    <2> QED BY <2>1, <2>2, FS_Surjection
  <1>3. Measured(t, mb) = Max(S) BY DEF Measured
  <1>4. Max(S) \in Nat /\ \A m \in S : m <= Max(S)
    <2> HIDE DEF S
    <2> QED BY <1>1, <1>2, MaxIsLargest
  <1> QED BY <1>3, <1>4

LEMMA PlansAgree ==
  ASSUME SameTries, NEW s \in Trainers, NEW t \in Trainers
  PROVE  Fitting(s) = Fitting(t) /\ Plan(s) = Plan(t)
  <1>1. Tried(s) = Tried(t) BY DEF SameTries
  <1>2. \A mb : Measured(s, mb) = Measured(t, mb) BY DEF Measured
  <1>3. Fitting(s) = Fitting(t) BY <1>1, <1>2 DEF Fitting
  <1> QED BY <1>1, <1>2, <1>3 DEF Plan

LEMMA PlanIsCandidate ==
  ASSUME NEW t \in Trainers, Plan(t) # 0
  PROVE  Plan(t) \in Nat \ {0}
  <1> DEFINE todo == {c \in Cands : \A mb \in Fitting(t) : c > mb}
  <1>1. todo # {} /\ Plan(t) = Min(todo) BY DEF Plan
  <1>2. todo \in SUBSET Nat BY BootAssumption
  <1>3. Min(todo) \in todo BY <1>1, <1>2, MinIsLeast
  <1> QED BY <1>1, <1>3, BootAssumption

LEMMA ProbeInit == Init => ProbeInv
  <1> SUFFICES ASSUME Init PROVE ProbeInv OBVIOUS
  <1> USE BootAssumption DEF Init, BootInit
  <1>1. /\ full \in BOOLEAN /\ DOMAIN micro = Trainers /\ DOMAIN bp = Trainers
        /\ DOMAIN peak = Trainers /\ \A t \in Trainers : bp[t] # "min"
    BY DEF Untried
  <1>2. \A t \in Trainers : Tried(t) = {} BY DEF Untried, Tried
  <1> QED BY <1>1, <1>2, FS_EmptySet DEF ProbeInv, SameTries

LEMMA ProbeStep ==
  ASSUME ProbeInv, [Next]_vars
  PROVE  ProbeInv'
  <1> USE DEF evals
  <1>0. SameTries BY DEF ProbeInv
  <1>1. CASE Attempt
    <2>1. PICK p \in [Trainers -> Peaks] :
            peak' = [t \in Trainers |-> [mb \in Tried(t) \union {Plan(t)} |->
                                         IF mb = Plan(t) THEN p[t] ELSE peak[t][mb]]]
      BY <1>1 DEF Attempt
    <2>2. UNCHANGED <<full, bp, micro>> /\ \A t \in Trainers : bp[t] = "probe" /\ Plan(t) # 0
      BY <1>1 DEF Attempt
    <2>3. ASSUME NEW t \in Trainers
          PROVE  /\ Tried(t)' = Tried(t) \cup {Plan(t)}
                 /\ \A mb \in Tried(t)' : peak'[t][mb] \in Nat
      <3>1. p[t] \in Nat BY BootAssumption
      <3>2. peak'[t] = [mb \in Tried(t) \union {Plan(t)} |->
                          IF mb = Plan(t) THEN p[t] ELSE peak[t][mb]]
        BY <2>1
      <3> QED BY <1>0, <3>1, <3>2 DEF SameTries, Tried
    <2>4. \A t \in Trainers : IsFiniteSet(Tried(t) \cup {Plan(t)})
      BY <1>0, FS_AddElement DEF SameTries
    <2>5. \A t \in Trainers : Plan(t) \in Nat \ {0} BY <2>2, PlanIsCandidate
    <2>6. \A s, t \in Trainers : Plan(s) = Plan(t) BY <1>0, PlansAgree
    <2>7. SameTries' BY <1>0, <2>3, <2>4, <2>5, <2>6 DEF SameTries
    <2> QED BY <2>1, <2>2, <2>7 DEF ProbeInv
  <1>2. ASSUME NEW t \in Trainers, Choose(t) PROVE ProbeInv'
    <2>1. UNCHANGED <<full, peak>> /\ bp[t] = "probe" BY <1>2 DEF Choose
    <2>2. \A s \in Trainers : Fitting(s)' = Fitting(s) /\ Tried(s)' = Tried(s)
      BY <2>1 DEF Fitting, Tried, Measured
    <2>3. SameTries' BY <1>0, <2>1, <2>2 DEF SameTries
    <2>4. CASE Fitting(t) = {}
      BY <1>2, <2>1, <2>2, <2>3, <2>4 DEF Choose, ProbeInv
    <2>5. CASE Fitting(t) # {}
      <3>1. Fitting(t) \in SUBSET Nat /\ IsFiniteSet(Fitting(t))
        BY <1>0, FS_Subset DEF SameTries, Fitting
      <3>2. Max(Fitting(t)) \in Fitting(t) BY <2>5, <3>1, MaxIsLargest
      <3>3. micro' = [micro EXCEPT ![t] = Max(Fitting(t))] /\ bp' = [bp EXCEPT ![t] = "min"]
        BY <1>2, <2>5 DEF Choose
      <3> QED BY <2>1, <2>2, <2>3, <3>2, <3>3 DEF ProbeInv
    <2> QED BY <2>4, <2>5
  <1>3. ASSUME NEW t \in Trainers, ChooseAlone(t) \/ LoadEval(t) PROVE ProbeInv'
    <2>1. UNCHANGED <<full, peak>> /\ DOMAIN bp' = Trainers /\ DOMAIN micro' = Trainers
      BY <1>3 DEF ChooseAlone, LoadEval, probe, ProbeInv
    <2>2. \A s \in Trainers : Fitting(s)' = Fitting(s) /\ Tried(s)' = Tried(s)
      BY <2>1 DEF Fitting, Tried, Measured
    <2>3. SameTries' BY <1>0, <2>1, <2>2 DEF SameTries
    <2>4. full => \A s \in Trainers : bp'[s] = "min" => bp[s] = "min" /\ micro'[s] = micro[s]
      BY <1>3 DEF ChooseAlone, LoadEval, probe, ProbeInv
    <2> QED BY <2>1, <2>2, <2>3, <2>4 DEF ProbeInv
  <1>4. CASE AgreeMicro
    <2>1. /\ UNCHANGED full /\ DOMAIN micro' = Trainers /\ peak' = Untried
          /\ bp' = [t \in Trainers |-> "eval"]
      BY <1>4 DEF AgreeMicro
    <2>2. \A t \in Trainers : Tried(t)' = {} BY <2>1 DEF Untried, Tried
    <2>3. SameTries' BY <2>2, FS_EmptySet DEF SameTries
    <2> QED BY <2>1, <2>3 DEF ProbeInv, Untried
  <1>5. CASE AllReduceMin
    <2>1. /\ UNCHANGED <<full, peak, micro>>
          /\ bp' = [t \in Trainers |-> IF bp[t] = "prepare" THEN "agree" ELSE "loop"]
      BY <1>5 DEF AllReduceMin, probe
    <2>2. \A s \in Trainers : Tried(s)' = Tried(s) BY <2>1 DEF Tried
    <2>3. SameTries' BY <1>0, <2>1, <2>2 DEF SameTries
    <2> QED BY <2>1, <2>3 DEF ProbeInv
  <1>6. CASE UNCHANGED <<full, bp, micro, peak>>
    <2>1. \A s \in Trainers : Fitting(s)' = Fitting(s) /\ Tried(s)' = Tried(s)
      BY <1>6 DEF Fitting, Tried, Measured
    <2> QED BY <1>6, <2>1 DEF ProbeInv, SameTries
  <1>7. (\A t \in Trainers : ~BootLocal(t)) /\ ~BootCollective
          => UNCHANGED <<full, bp, micro, peak>>
    BY DEF Next, Local, Collective, EndLoop, Weigh, Decide, Pick, Forward,
       AllReduceMax, AllReduceSum, Clip, Done, inputs, bootVars, vars
  <1> QED BY <1>1, <1>2, <1>3, <1>4, <1>5, <1>6, <1>7 DEF BootLocal, BootCollective

(* The ranks of a full-parameter policy never hold a micro-batch that one  *)
(* of them did not try or whose peak on one of them was over the budget,   *)
(* for any number of ranks, candidates and peaks.                          *)
THEOREM MicroBatchAlwaysFits == Spec => []MicroBatchFits
  <1>1. ProbeInv /\ [Next]_vars => ProbeInv' BY ProbeStep
  <1>2. ASSUME ProbeInv PROVE MicroBatchFits
    <2> SUFFICES ASSUME NEW s \in Trainers, NEW t \in Trainers, full, bp[t] = "min"
                 PROVE  micro[t] \in Tried(s) /\ peak[s][micro[t]] <= Budget
      BY DEF MicroBatchFits
    <2>1. micro[t] \in Tried(t) /\ Measured(t, micro[t]) <= Budget
      BY <1>2 DEF ProbeInv, Fitting
    <2>2. SameTries BY <1>2 DEF ProbeInv
    <2>3. micro[t] \in Tried(s) /\ peak[s][micro[t]] \in Nat
      BY <2>1, <2>2 DEF SameTries
    <2>4. Measured(t, micro[t]) \in Nat /\ peak[s][micro[t]] <= Measured(t, micro[t])
      BY <2>1, <2>2, MeasuredIsLargest
    <2> QED BY <2>1, <2>3, <2>4, BootAssumption
  <1> QED BY <1>1, <1>2, ProbeInit, PTL DEF Spec

-----------------------------------------------------------------------------
(* The evaluations. *)

Early(t) == bp[t] \notin {"agree", "loop"}

(* A rank that skips prepare_extra_eval_assets brings FALSE into the       *)
(* reduction it is paired with, so the two cannot end up apart.            *)
EvalInv ==
  /\ ev \in [Trainers -> BOOLEAN] /\ ex \in [Trainers -> BOOLEAN]
  /\ \A t \in Trainers : Early(t) => ~ex[t]
  /\ \A t \in Trainers : bp[t] = "prepare" => ExtraEvals
  /\ \A s, t \in Trainers : bp[t] = "agree" /\ Early(s) =>
       ~ex[t] /\ (ExtraEvals => ~ev[t])
  /\ \A s, t \in Trainers :
       bp[s] = "agree" /\ bp[t] = "agree" /\ ev[s] /\ ev[t] => ex[s] = ex[t]
  /\ \A s, t \in Trainers : bp[s] = "loop" => bp[t] \in {"agree", "loop"}
  /\ EvalsAgree

BpType ==
  /\ bp \in [Trainers -> {"probe", "min", "eval", "prepare", "agree", "loop", "dead"}]
  /\ loaded \in [Trainers -> BOOLEAN]

LEMMA EvalInit == Init => EvalInv /\ BpType
  BY DEF Init, BootInit, EvalInv, BpType, Early, EvalsAgree

LEMMA EvalStep ==
  ASSUME BpType, EvalInv, [Next]_vars
  PROVE  EvalInv' /\ BpType'
  <1> USE DEF probe, evals, BpType
  <1>1. ASSUME NEW t \in Trainers, LoadEval(t) PROVE EvalInv' /\ BpType'
    <2>1. /\ bp[t] = "eval" /\ Early(t) /\ UNCHANGED <<ex, loaded>>
          /\ ev' = [ev EXCEPT ![t] = loaded[t]]
          /\ bp' = [bp EXCEPT ![t] = IF loaded[t] /\ ExtraEvals THEN "prepare"
                                     ELSE "agree"]
      BY <1>1 DEF LoadEval, Early
    <2>2. \A s \in Trainers : bp[s] # "loop" BY <2>1 DEF EvalInv
    <2>3. CASE loaded[t] /\ ExtraEvals
      BY <2>1, <2>2, <2>3 DEF EvalInv, Early, EvalsAgree
    <2>4. CASE ~(loaded[t] /\ ExtraEvals)
      BY <2>1, <2>2, <2>4 DEF EvalInv, Early, EvalsAgree
    <2> QED BY <2>3, <2>4
  <1>2. CASE AllReduceMin
    <2>1. PICK ok \in [Trainers -> BOOLEAN], all \in BOOLEAN :
            /\ all <=> \A t \in Trainers : IF bp[t] = "prepare" THEN ok[t] ELSE ev[t]
            /\ ev' = [t \in Trainers |-> IF bp[t] = "agree" THEN all ELSE ev[t]]
            /\ ex' = [t \in Trainers |-> IF bp[t] = "agree" THEN ex[t] /\ all ELSE all]
      BY <1>2 DEF AllReduceMin
    <2>2. /\ \A t \in Trainers : bp[t] \in {"prepare", "agree"}
          /\ bp' = [t \in Trainers |-> IF bp[t] = "prepare" THEN "agree" ELSE "loop"]
          /\ loaded' = loaded
      BY <1>2 DEF AllReduceMin
    <2>3. \A s, t \in Trainers : bp[s] = "prepare" /\ bp[t] = "agree" => ~all
      BY <2>1 DEF EvalInv, Early
    <2>4. \A s, t \in Trainers : bp[s] = "agree" /\ bp[t] = "agree" /\ all => ex[s] = ex[t]
      BY <2>1 DEF EvalInv
    <2>5. EvalsAgree' BY <2>1, <2>2, <2>4 DEF EvalsAgree, EvalInv
    <2>6. \A t \in Trainers : ~Early(t)' BY <2>2 DEF Early
    <2>7. (\A s, t \in Trainers :
             bp[s] = "agree" /\ bp[t] = "agree" /\ ev[s] /\ ev[t] => ex[s] = ex[t])'
      BY <2>1, <2>2
    <2> QED BY <2>1, <2>2, <2>5, <2>6, <2>7 DEF EvalInv
  <1>3. ASSUME NEW t \in Trainers, Choose(t) \/ ChooseAlone(t)
        PROVE  EvalInv' /\ BpType'
    <2>1. /\ UNCHANGED <<ev, ex, loaded>> /\ bp[t] = "probe"
          /\ \/ bp' = [bp EXCEPT ![t] = "dead"] \/ bp' = [bp EXCEPT ![t] = "min"]
      BY <1>3 DEF Choose, ChooseAlone
    <2> QED BY <2>1 DEF EvalInv, Early, EvalsAgree
  <1>4. CASE AgreeMicro
    <2>1. /\ UNCHANGED <<ev, ex, loaded>> /\ \A t \in Trainers : bp[t] = "min"
          /\ bp' = [t \in Trainers |-> "eval"]
      BY <1>4 DEF AgreeMicro
    <2> QED BY <2>1 DEF EvalInv, Early, EvalsAgree
  <1>5. CASE UNCHANGED <<bp, loaded, ev, ex>>
    BY <1>5 DEF EvalInv, Early, EvalsAgree
  <1>6. CASE Attempt BY <1>5, <1>6 DEF Attempt
  <1>7. (\A t \in Trainers : ~BootLocal(t)) /\ ~BootCollective
          => UNCHANGED <<bp, loaded, ev, ex>>
    BY DEF Next, Local, Collective, EndLoop, Weigh, Decide, Pick, Forward,
       AllReduceMax, AllReduceSum, Clip, Done, inputs, bootVars, vars
  <1> QED BY <1>1, <1>2, <1>3, <1>4, <1>5, <1>6, <1>7 DEF BootLocal, BootCollective

(* Ranks in the loop agree on which evaluations there are, for any number  *)
(* of ranks and whatever each of them can load.                            *)
THEOREM EvalsAlwaysAgree == Spec => []EvalsAgree
  <1>1. BpType /\ EvalInv /\ [Next]_vars => EvalInv' /\ BpType' BY EvalStep
  <1>2. EvalInv => EvalsAgree BY DEF EvalInv
  <1> QED BY <1>1, <1>2, EvalInit, PTL DEF Spec

-----------------------------------------------------------------------------
(* The parts of a step. *)

Parts == {Program[i] : i \in DOMAIN Program}

(* The parts before opt.step() or the skip.                                *)
Undecided == Parts \ {"clip", "stepped", "skipped"}

LEMMA Appended ==
  ASSUME NEW S, NEW a \in Seq(S), NEW b \in Seq(S), NEW c \in Seq(S),
         Len(c) = Len(a) + Len(b),
         \A i \in 1 .. Len(a) : c[i] = a[i],
         \A i \in 1 .. Len(b) : c[Len(a) + i] = b[i]
  PROVE  a \o b = c
  <1>1. a \o b \in Seq(S) /\ Len(a \o b) = Len(c) BY ConcatProperties
  <1>2. ASSUME NEW i \in 1 .. Len(c) PROVE (a \o b)[i] = c[i]
    <2>1. CASE i <= Len(a) BY <2>1, ConcatProperties
    <2>2. CASE ~(i <= Len(a))
      <3>1. (a \o b)[i] = b[i - Len(a)] BY <2>2, ConcatProperties
      <3>2. i - Len(a) \in 1 .. Len(b) /\ i = Len(a) + (i - Len(a)) BY <2>2
      <3> QED BY <3>1, <3>2
    <2> QED BY <2>1, <2>2
  <1> QED BY <1>1, <1>2, SeqEqual

LEMMA ProgramIs ==
  ASSUME full \in BOOLEAN
  PROVE  \/ ~full /\ Program = <<"pick", "weigh", "sum", "decide", "stepped">>
         \/ full /\ Program =
              <<"pick", "score", "maxScore", "moreScore", "weigh", "sum", "maxPolicy",
                "policy", "morePolicy", "decide", "clip", "stepped">>
         \/ full /\ Program =
              <<"pick", "score", "maxScore", "moreScore", "weigh", "sum", "maxPolicy",
                "maxRef", "ref", "moreRef",
                "policy", "morePolicy", "decide", "clip", "stepped">>
  <1> DEFINE S == {"pick", "score", "maxScore", "moreScore", "weigh", "sum", "maxPolicy",
                   "maxRef", "ref", "moreRef",
                   "policy", "morePolicy", "decide", "clip", "stepped"}
             head == <<"pick", "score", "maxScore", "moreScore", "weigh", "sum", "maxPolicy">>
             kl   == <<"maxRef", "ref", "moreRef">>
             tail == <<"policy", "morePolicy", "decide", "clip", "stepped">>
             both == <<"pick", "score", "maxScore", "moreScore", "weigh", "sum", "maxPolicy",
                       "maxRef", "ref", "moreRef">>
             none == <<"pick", "score", "maxScore", "moreScore", "weigh", "sum", "maxPolicy",
                       "policy", "morePolicy", "decide", "clip", "stepped">>
             all  == <<"pick", "score", "maxScore", "moreScore", "weigh", "sum", "maxPolicy",
                       "maxRef", "ref", "moreRef",
                       "policy", "morePolicy", "decide", "clip", "stepped">>
  <1>1. head \o <<>> = head
    <2>1. head \in Seq(S) OBVIOUS
    <2> HIDE DEF head, S
    <2> QED BY <2>1, ConcatEmptySeq
  <1>2. head \o kl = both
    <2>1. /\ head \in Seq(S) /\ kl \in Seq(S) /\ both \in Seq(S)
          /\ Len(head) = 7 /\ Len(kl) = 3 /\ Len(both) = 10
          /\ \A i \in 1 .. 7 : both[i] = head[i]
          /\ \A i \in 1 .. 3 : both[7 + i] = kl[i]
      OBVIOUS
    <2> HIDE DEF head, kl, both, S
    <2>2. /\ Len(both) = Len(head) + Len(kl)
          /\ \A i \in 1 .. Len(head) : both[i] = head[i]
          /\ \A i \in 1 .. Len(kl) : both[Len(head) + i] = kl[i]
      BY <2>1
    <2> QED BY <2>1, <2>2, Appended
  <1>3. head \o tail = none
    <2>1. /\ head \in Seq(S) /\ tail \in Seq(S) /\ none \in Seq(S)
          /\ Len(head) = 7 /\ Len(tail) = 5 /\ Len(none) = 12
          /\ \A i \in 1 .. 7 : none[i] = head[i]
          /\ \A i \in 1 .. 5 : none[7 + i] = tail[i]
      OBVIOUS
    <2> HIDE DEF head, tail, none, S
    <2>2. /\ Len(none) = Len(head) + Len(tail)
          /\ \A i \in 1 .. Len(head) : none[i] = head[i]
          /\ \A i \in 1 .. Len(tail) : none[Len(head) + i] = tail[i]
      BY <2>1
    <2> QED BY <2>1, <2>2, Appended
  <1>4. both \o tail = all
    <2>1. /\ both \in Seq(S) /\ tail \in Seq(S) /\ all \in Seq(S)
          /\ Len(both) = 10 /\ Len(tail) = 5 /\ Len(all) = 15
          /\ \A i \in 1 .. 10 : all[i] = both[i]
          /\ \A i \in 1 .. 5 : all[10 + i] = tail[i]
      OBVIOUS
    <2> HIDE DEF both, tail, all, S
    <2>2. /\ Len(all) = Len(both) + Len(tail)
          /\ \A i \in 1 .. Len(both) : all[i] = both[i]
          /\ \A i \in 1 .. Len(tail) : all[Len(both) + i] = tail[i]
      BY <2>1
    <2> QED BY <2>1, <2>2, Appended
  <1>5. CASE ~full BY <1>5 DEF Program
  <1>6. CASE full /\ KL
    <2>1. Program = (head \o kl) \o tail BY <1>6 DEF Program
    <2>2. Program = all
      <3> HIDE DEF head, kl, tail, both, all
      <3> QED BY <2>1, <1>2, <1>4
    <2> QED BY <1>6, <2>2
  <1>7. CASE full /\ ~KL
    <2>1. Program = (head \o <<>>) \o tail BY <1>7 DEF Program
    <2>2. Program = none
      <3> HIDE DEF head, tail, none
      <3> QED BY <2>1, <1>1, <1>3
    <2> QED BY <1>7, <2>2
  <1> QED BY <1>5, <1>6, <1>7

(* Only a decided rank comes to the clipping or the optimizer step, and    *)
(* only the last collective or the last micro-batch comes to the decision. *)
LEMMA AfterParts ==
  ASSUME full \in BOOLEAN, NEW o \in Parts, o # "stepped"
  PROVE  /\ After(o) \in Parts \ {"skipped"}
         /\ o \notin {"decide", "clip"} => After(o) \in Undecided
         /\ ~full /\ o \notin {"sum", "decide"} => After(o) # "decide"
         /\ o = "decide" => After(o) = IF full THEN "clip" ELSE "stepped"
         /\ o = "clip" => After(o) = "stepped"
  <1>1. \A i \in DOMAIN Program : Program[i] = o =>
          i = CHOOSE j \in DOMAIN Program : Program[j] = o
    BY ProgramIs
  <1>2. PICK i \in DOMAIN Program : Program[i] = o BY DEF Parts
  <1>3. After(o) = Program[1 + i] BY <1>1, <1>2 DEF After
  <1>4. 1 + i \in DOMAIN Program /\ Program[1 + i] # "skipped"
    BY <1>2, ProgramIs
  <1>5. o \notin {"decide", "clip"} => Program[1 + i] \notin {"clip", "stepped"}
    BY <1>2, ProgramIs
  <1>6. ~full /\ o \notin {"sum", "decide"} => Program[1 + i] # "decide"
    BY <1>2, ProgramIs
  <1>7. o = "decide" => Program[1 + i] = IF full THEN "clip" ELSE "stepped"
    BY <1>2, ProgramIs
  <1>8. o = "clip" => Program[1 + i] = "stepped" BY <1>2, ProgramIs
  <1> QED BY <1>3, <1>4, <1>5, <1>6, <1>7, <1>8 DEF Parts, Undecided

(* The parts in which the ranks share what they know of the gradient.      *)
Settled == IF full THEN {"stepped", "skipped"} ELSE {"decide", "stepped", "skipped"}

(* A rank has skipped for want of weight or of a finite gradient and only  *)
(* then; unless there is no weight, all ranks are settled together and     *)
(* know the same.                                                          *)
DecideInv ==
  /\ full \in BOOLEAN
  /\ DOMAIN most = {"score", "policy", "ref"}
  /\ pc \in [Trainers -> Parts \union {"skipped"}]
  /\ finite \in [Trainers -> BOOLEAN]
  /\ \A t \in Trainers :
       /\ pc[t] = "skipped" => tot <= 0 \/ ~finite[t]
       /\ pc[t] \in {"clip", "stepped"} => ~(tot <= 0)
       /\ pc[t] = "stepped" => finite[t]
       /\ ~(tot <= 0) /\ pc[t] \in Settled =>
            \A s \in Trainers : pc[s] \in Settled /\ finite[s] = finite[t]

LEMMA DecideInit == Init => DecideInv
  <1> SUFFICES ASSUME Init PROVE DecideInv OBVIOUS
  <1>1. full \in BOOLEAN BY BootAssumption DEF Init, BootInit
  <1>2. "pick" \in Parts
    <2>1. 1 \in DOMAIN Program /\ Program[1] = "pick" BY <1>1, ProgramIs
    <2> QED BY <2>1 DEF Parts
  <1> QED BY <1>1, <1>2 DEF Init, DecideInv, Settled

LEMMA DecideStep ==
  ASSUME DecideInv, [Next]_vars
  PROVE  DecideInv'
  <1> USE DEF inputs, bootVars
  <1>1. full' = full /\ Parts' = Parts /\ Settled' = Settled /\ full \in BOOLEAN
    <2>1. full' = full
      BY DEF Next, Local, BootLocal, Choose, ChooseAlone, LoadEval, EndLoop, Weigh, Decide,
             Collective, BootCollective, Attempt, AgreeMicro, AllReduceMin, Pick, Forward,
             AllReduceMax, AllReduceSum, Clip, Done, vars
    <2> QED BY <2>1 DEF Parts, Program, Settled, DecideInv
  <1>2. Trainers # {}
    <2>1. 0 \in Trainers BY BootAssumption DEF Trainers
    <2> QED BY <2>1
  <1>3. ASSUME NEW t \in Trainers, pc[t] \in Parts, pc[t] \notin Settled,
               pc[t] \notin {"sum", "decide", "clip"},
               pc' = [pc EXCEPT ![t] = After(@)], UNCHANGED <<most, tot>>,
               finite' = finite \/ Backward(t)
        PROVE  DecideInv'
    <2>1. After(pc[t]) \in Undecided /\ After(pc[t]) \notin Settled
      BY <1>1, <1>3, AfterParts DEF Settled, Undecided
    <2>2. \A s \in Trainers : pc'[s] = IF s = t THEN After(pc[t]) ELSE pc[s]
      BY <1>3 DEF DecideInv
    <2>3. /\ finite' \in [Trainers -> BOOLEAN]
          /\ \A s \in Trainers \ {t} : finite'[s] = finite[s]
      BY <1>3 DEF Backward, DecideInv
    <2>4. pc' \in [Trainers -> Parts' \union {"skipped"}]
      BY <1>1, <1>3, <2>1 DEF DecideInv, Undecided
    <2>5. ~(tot <= 0) => \A s \in Trainers : pc[s] \notin Settled
      BY <1>3 DEF DecideInv
    <2> QED BY <1>1, <1>3, <2>1, <2>2, <2>3, <2>4, <2>5 DEF DecideInv, Undecided, Settled
  <1>4. ASSUME NEW o, \A t \in Trainers : pc[t] = o, pc' = [t \in Trainers |-> After(o)],
               o \notin {"decide", "clip", "stepped", "skipped"},
               DOMAIN most' = DOMAIN most,
               \/ finite' = finite /\ (o # "sum" \/ full)
               \/ Combine
        PROVE  DecideInv'
    <2>1. o \in Parts BY <1>2, <1>4 DEF DecideInv
    <2>2. After(o) \in Undecided BY <1>1, <1>4, <2>1, AfterParts
    <2>3. finite' \in [Trainers -> BOOLEAN] BY <1>4 DEF Combine, DecideInv
    <2>4. \A t \in Trainers : pc'[t] = After(o) BY <1>4
    <2>5. pc' \in [Trainers -> Parts' \union {"skipped"}]
      BY <1>1, <1>4, <2>2 DEF Undecided
    <2>6. CASE Combine
      <3>1. \A s, t \in Trainers : finite'[s] = finite'[t] BY <2>6 DEF Combine
      <3> QED BY <1>1, <1>4, <2>2, <2>3, <2>4, <2>5, <3>1 DEF DecideInv, Undecided
    <2>7. CASE o # "sum" \/ full
      <3>1. After(o) \notin Settled
        BY <1>1, <1>4, <2>1, <2>2, <2>7, AfterParts DEF Settled, Undecided
      <3> QED BY <1>1, <1>4, <2>2, <2>3, <2>4, <2>5, <3>1 DEF DecideInv, Undecided
    <2> QED BY <1>4, <2>6, <2>7
  <1>5. ASSUME NEW t \in Trainers, EndLoop(t) PROVE DecideInv'
    <2>1. pc[t] \in {"score", "moreScore", "policy", "morePolicy", "ref", "moreRef"}
      BY <1>5 DEF EndLoop, Looping, Loop
    <2>2. pc[t] \in Parts /\ pc[t] \notin Settled BY <2>1 DEF DecideInv, Settled
    <2>3. pc' = [pc EXCEPT ![t] = After(@)] /\ UNCHANGED <<most, tot>>
      BY <1>5 DEF EndLoop, Advance
    <2>4. finite' = finite \/ Backward(t) BY <1>5 DEF EndLoop
    <2> QED BY <1>3, <2>1, <2>2, <2>3, <2>4
  <1>6. ASSUME NEW t \in Trainers, Weigh(t) PROVE DecideInv'
    <2>1. pc[t] = "weigh" BY <1>6 DEF Weigh
    <2>2. pc[t] \in Parts /\ pc[t] \notin Settled BY <2>1 DEF DecideInv, Settled
    <2>3. pc' = [pc EXCEPT ![t] = After(@)] /\ UNCHANGED <<most, tot>>
      BY <1>6 DEF Weigh, Advance
    <2>4. finite' = finite \/ Backward(t) BY <1>6 DEF Weigh
    <2> QED BY <1>3, <2>1, <2>2, <2>3, <2>4
  <1>7. ASSUME NEW t \in Trainers, Decide(t) PROVE DecideInv'
    <2> DEFINE new == IF tot <= 0 \/ (~full /\ ~finite[t]) THEN "skipped" ELSE After(pc[t])
    <2>1. /\ pc[t] = "decide" /\ UNCHANGED <<most, tot, finite>>
          /\ pc' = [pc EXCEPT ![t] = new]
      BY <1>7 DEF Decide
    <2>2. pc[t] \in Parts BY <2>1 DEF DecideInv
    <2>3. After(pc[t]) \in Parts /\ After(pc[t]) = IF full THEN "clip" ELSE "stepped"
      BY <1>1, <2>1, <2>2, AfterParts
    <2>4. /\ new \in Parts \union {"skipped"}
          /\ new = "skipped" => tot <= 0 \/ (~full /\ ~finite[t])
          /\ new # "skipped" => ~(tot <= 0) /\ new = IF full THEN "clip" ELSE "stepped"
          /\ new = "stepped" => finite[t]
      BY <1>1, <2>3 DEF DecideInv
    <2> HIDE DEF new
    <2>5. \A s \in Trainers : pc'[s] = IF s = t THEN new ELSE pc[s] BY <2>1 DEF DecideInv
    <2>6. pc' \in [Trainers -> Parts' \union {"skipped"}] BY <1>1, <2>1, <2>4 DEF DecideInv
    <2>7. ~(tot <= 0) /\ ~full =>
            \A s \in Trainers : pc'[s] \in Settled /\ finite[s] = finite[t]
      BY <1>1, <2>1, <2>4, <2>5 DEF DecideInv, Settled
    <2>8. ~(tot <= 0) /\ full => \A s \in Trainers : pc[s] \notin Settled /\ new \notin Settled
      BY <1>1, <2>1, <2>4 DEF DecideInv, Settled
    <2> QED BY <1>1, <2>1, <2>4, <2>5, <2>6, <2>7, <2>8 DEF DecideInv
  <1>8. CASE Pick
    <2>1. /\ \A t \in Trainers : pc[t] = "pick"
          /\ pc' = [t \in Trainers |-> After("pick")] /\ UNCHANGED <<most, finite>>
      BY <1>8 DEF Pick
    <2>2. /\ finite' = finite /\ ("pick" # "sum" \/ full) /\ DOMAIN most' = DOMAIN most
          /\ "pick" \notin {"decide", "clip", "stepped", "skipped"}
      BY <2>1
    <2> QED BY ONLY <1>4, <2>1, <2>2
  <1>9. CASE AllReduceMax
    <2>1. PICK l \in {"score", "policy", "ref"} :
            /\ AdvanceAll([score |-> "maxScore", policy |-> "maxPolicy", ref |-> "maxRef"][l])
            /\ most' = [most EXCEPT ![l] = Max({Own(t, l) : t \in Trainers})]
            /\ UNCHANGED finite
      BY <1>9 DEF AllReduceMax, DecideInv
    <2>2. [score |-> "maxScore", policy |-> "maxPolicy", ref |-> "maxRef"][l]
            \in {"maxScore", "maxPolicy", "maxRef"}
      OBVIOUS
    <2>3. DOMAIN most' = DOMAIN most BY <2>1
    <2> QED BY <1>4, <2>1, <2>2, <2>3 DEF AdvanceAll
  <1>10. CASE AllReduceSum
    <2>1. /\ \A t \in Trainers : pc[t] = "sum"
          /\ pc' = [t \in Trainers |-> After("sum")] /\ UNCHANGED most
          /\ (finite' = finite /\ full) \/ Combine
      BY <1>10 DEF AllReduceSum, AdvanceAll
    <2> QED BY <1>4, <2>1
  <1>11. CASE Clip
    <2>1. /\ \A t \in Trainers : pc[t] = "clip"
          /\ pc' = [t \in Trainers |-> IF finite'[t] THEN After("clip") ELSE "skipped"]
          /\ UNCHANGED <<most, tot>>
      BY <1>11 DEF Clip
    <2>2. "clip" \in Parts /\ ~(tot <= 0) BY <1>2, <2>1 DEF DecideInv
    <2>3. After("clip") = "stepped" /\ "stepped" \in Parts
      BY <1>1, <2>2, AfterParts
    <2>4. PICK b \in BOOLEAN : finite' = [t \in Trainers |-> b] BY <1>11 DEF Clip, Combine
    <2>5. \A t \in Trainers :
            finite'[t] = b /\ pc'[t] = IF b THEN "stepped" ELSE "skipped"
      BY <2>1, <2>3, <2>4
    <2>6. pc' \in [Trainers -> Parts' \union {"skipped"}] BY <1>1, <2>1, <2>3
    <2>7. finite' \in [Trainers -> BOOLEAN] BY <2>4
    <2> QED BY <1>1, <2>1, <2>2, <2>5, <2>6, <2>7 DEF DecideInv, Settled
  <1>12. CASE UNCHANGED <<pc, most, tot, finite>> BY <1>1, <1>12 DEF DecideInv
  <1>13. CASE Forward BY <1>12, <1>13 DEF Forward
  <1>14. \/ UNCHANGED <<pc, most, tot, finite>> \/ Pick \/ Forward \/ AllReduceMax
         \/ AllReduceSum \/ Clip \/ \E t \in Trainers : EndLoop(t) \/ Weigh(t) \/ Decide(t)
    BY DEF Next, Local, Collective, Done, stepVars, vars
  <1> QED BY <1>5, <1>6, <1>7, <1>8, <1>9, <1>10, <1>11, <1>12, <1>13, <1>14

(* The ranks all step or all skip, wherever an inf or a NaN comes up, and  *)
(* none steps while some rank's part is not finite, for any number of      *)
(* ranks and any batch and filter.                                         *)
THEOREM OneDecisionOnly == Spec => []OneDecision
  <1>1. DecideInv /\ [Next]_vars => DecideInv' BY DecideStep
  <1>2. DecideInv => OneDecision BY DEF DecideInv, OneDecision, Settled
  <1> QED BY <1>1, <1>2, DecideInit, PTL DEF Spec

-----------------------------------------------------------------------------
(* The split of the batch. *)

LEMMA ProductMonotone ==
  ASSUME NEW q \in Nat, NEW a \in Nat, NEW b \in Nat, a <= b
  PROVE  q * a <= q * b
  <1>1. q * b - q * a = q * (b - a) OBVIOUS
  <1>2. q * (b - a) >= 0 OBVIOUS
  <1> QED BY <1>1, <1>2

(* The first group of rank t; of rank World, the end of the batch.         *)
FirstOf(t) ==
  (Batch \div World) * t + (IF t < Batch % World THEN t ELSE Batch % World)

LEMMA SharesAbut ==
  /\ FirstOf(0) = 0 /\ FirstOf(World) = Batch
  /\ \A t \in 0 .. World : FirstOf(t) \in Nat
  /\ \A t \in Trainers : Share(t) = FirstOf(t) .. FirstOf(t + 1) - 1
  /\ \A s, t \in 0 .. World : s <= t => FirstOf(s) <= FirstOf(t)
  <1>1. PICK q \in Nat : q = Batch \div World BY BootAssumption, StepAssumption
  <1>2. PICK more \in 0 .. World - 1 : more = Batch % World BY BootAssumption, StepAssumption
  <1>3. q * World + more = Batch BY <1>1, <1>2, BootAssumption, StepAssumption
  <1>4. \A t : FirstOf(t) = q * t + (IF t < more THEN t ELSE more)
    BY <1>1, <1>2 DEF FirstOf
  <1>5. FirstOf(0) = 0 /\ FirstOf(World) = Batch BY <1>2, <1>3, <1>4, BootAssumption
  <1>6. ASSUME NEW s \in 0 .. World, NEW t \in 0 .. World, s <= t
        PROVE  FirstOf(s) \in Nat /\ FirstOf(s) <= FirstOf(t)
    <2>1. PICK a \in Nat, b \in Nat : a = q * s /\ b = q * t BY BootAssumption
    <2>2. a <= b BY <1>6, <2>1, ProductMonotone, BootAssumption
    <2>3. /\ FirstOf(s) = a + (IF s < more THEN s ELSE more)
          /\ FirstOf(t) = b + (IF t < more THEN t ELSE more)
      BY <1>4, <2>1
    <2> QED BY <1>6, <2>2, <2>3, BootAssumption
  <1>7. ASSUME NEW t \in Trainers
        PROVE  Share(t) = FirstOf(t) .. FirstOf(t + 1) - 1
    <2>1. PICK a \in Nat : a = q * t BY BootAssumption DEF Trainers
    <2>2. q * (t + 1) = a + q BY <2>1, BootAssumption DEF Trainers
    <2>3. /\ FirstOf(t) = a + (IF t < more THEN t ELSE more)
          /\ FirstOf(t + 1) = a + q + (IF t + 1 < more THEN t + 1 ELSE more)
      BY <1>4, <2>1, <2>2
    <2>4. Share(t) = FirstOf(t) .. FirstOf(t) + q - 1 + (IF t < more THEN 1 ELSE 0)
      BY <1>1, <1>2, <1>4 DEF Share
    <2>5. FirstOf(t) + q - 1 + (IF t < more THEN 1 ELSE 0) = FirstOf(t + 1) - 1
      BY <2>3, BootAssumption DEF Trainers
    <2> QED BY <2>4, <2>5
  <1> QED BY <1>5, <1>6, <1>7

(* np.array_split gives every group of the batch to exactly one rank.      *)
THEOREM SharesPartition ==
  /\ UNION {Share(t) : t \in Trainers} = Groups
  /\ \A s, t \in Trainers : s # t => Share(s) \intersect Share(t) = {}
  <1>1. ASSUME NEW t \in Trainers PROVE Share(t) \subseteq Groups
    <2>1. t \in 0 .. World /\ t + 1 \in 0 .. World BY BootAssumption DEF Trainers
    <2>2. FirstOf(t) \in Nat /\ FirstOf(t + 1) \in Nat /\ FirstOf(t + 1) <= Batch
      BY <2>1, SharesAbut, BootAssumption
    <2> QED BY <2>2, SharesAbut, StepAssumption DEF Groups
  <1>2. ASSUME NEW g \in Groups PROVE \E t \in Trainers : g \in Share(t)
    <2> DEFINE S == {t \in 0 .. World : FirstOf(t) > g}
    <2>1. S \in SUBSET Nat /\ World \in S
      BY SharesAbut, BootAssumption, StepAssumption DEF Groups
    <2>2. PICK u \in S : \A t \in S : u <= t
      <3> HIDE DEF S
      <3> QED BY <2>1, LeastNumber
    <2>3. u # 0 BY <2>2, SharesAbut DEF Groups
    <2>4. u - 1 \in Trainers /\ u - 1 \in 0 .. World /\ ~(u <= u - 1)
      BY <2>2, <2>3, BootAssumption DEF Trainers
    <2>5. FirstOf(u - 1) <= g /\ g <= FirstOf(u) - 1
      BY <2>2, <2>4, SharesAbut, StepAssumption DEF Groups
    <2>6. Share(u - 1) = FirstOf(u - 1) .. FirstOf(u) - 1
      <3>1. u - 1 + 1 = u BY <2>2, BootAssumption
      <3> QED BY <2>4, <3>1, SharesAbut
    <2> QED BY <2>4, <2>5, <2>6, SharesAbut, StepAssumption DEF Groups
  <1>3. ASSUME NEW s \in Trainers, NEW t \in Trainers, s < t
        PROVE  Share(s) \intersect Share(t) = {}
    <2>1. s + 1 \in 0 .. World /\ t \in 0 .. World /\ s + 1 <= t
          /\ s \in 0 .. World /\ t + 1 \in 0 .. World
      BY <1>3, BootAssumption DEF Trainers
    <2>2. FirstOf(s + 1) <= FirstOf(t) BY <2>1, SharesAbut
    <2> QED BY <2>1, <2>2, SharesAbut
  <1>4. \A s, t \in Trainers : s # t => s < t \/ t < s BY BootAssumption DEF Trainers
  <1> QED BY <1>1, <1>2, <1>3, <1>4

-----------------------------------------------------------------------------
(* The weights of the gradient. *)

(* What a kept group counts for. *)
Worth ==
  [g \in Groups |-> CASE agg = "token" -> Tokens[g] [] agg = "seq" -> GroupSize [] OTHER -> 1]

(* The parts a rank is in before it has weighed its share.                 *)
Before == {"pick", "score", "maxScore", "moreScore", "weigh"}

(* No sum is taken before all ranks have weighed, a rank that has keeps    *)
(* the weight of its share, and the sum is the one of these weights.       *)
GradInv ==
  /\ agg \in {"token", "seq", "prompt"}
  /\ DOMAIN sync = Trainers
  /\ \/ \A t \in Trainers : pc[t] = "pick"
     \/ len \in [Groups -> [Members -> 1 .. MaxLen]] /\ kept \subseteq Groups
  /\ \A t \in Trainers : pc[t] \in Before => tot = 0
  /\ \A t \in Trainers : pc[t] \notin Before => sync[t] = SyncWeight(Share(t))
  /\ tot # 0 => tot = SumOver(sync, Trainers)

TokenSums == Tokens = [g \in Groups |-> SumOver(len[g], Members)]

EffectiveSums ==
  \A S : Effective(S) = CASE agg = "token"  -> SumOver(Tokens, S \intersect kept)
                          [] agg = "seq"    -> GroupSize * Cardinality(S \intersect kept)
                          [] agg = "prompt" -> Cardinality(S \intersect kept)

LEMMA TokensAre == TokenSums
  BY DEF TokenSums, Tokens, SumOver

LEMMA EffectiveIs == EffectiveSums
  BY DEF EffectiveSums, Effective, SumOver

LEMMA SumsNext == TokenSums' /\ EffectiveSums'
  BY TokensAre, EffectiveIs, PTL

(* The weight of a share depends on nothing that changes after the pick.   *)
LEMMA WeightsStay ==
  ASSUME UNCHANGED <<agg, len, kept>>
  PROVE  \A S : SyncWeight(S)' = SyncWeight(S)
  <1>1. Tokens' = Tokens BY SumsNext, TokensAre DEF TokenSums
  <1>2. \A S : Effective(S)' = Effective(S) BY <1>1, SumsNext, EffectiveIs DEF EffectiveSums
  <1> QED BY <1>2 DEF SyncWeight, Max1

LEMMA AfterBefore ==
  ASSUME full \in BOOLEAN, NEW o \in Parts, o # "stepped"
  PROVE  /\ After(o) \in Before <=> o \in Before \ {"weigh"}
         /\ After(o) # "pick"
  <1>1. \A i \in DOMAIN Program : Program[i] = o =>
          i = CHOOSE j \in DOMAIN Program : Program[j] = o
    BY ProgramIs
  <1>2. PICK i \in DOMAIN Program : Program[i] = o BY DEF Parts
  <1>3. After(o) = Program[1 + i] BY <1>1, <1>2 DEF After
  <1>4. Program[1 + i] # "pick" BY <1>2, ProgramIs
  <1>5. o \in Before \ {"weigh"} => Program[1 + i] \in Before BY <1>2, ProgramIs DEF Before
  <1>6. o \notin Before \ {"weigh"} => Program[1 + i] \notin Before
    BY <1>2, ProgramIs DEF Before
  <1> QED BY <1>3, <1>4, <1>5, <1>6

LEMMA GradInit == Init => GradInv
  BY BootAssumption, StepAssumption DEF Init, GradInv, Before

LEMMA GradStep ==
  ASSUME DecideInv, GradInv, [Next]_vars
  PROVE  GradInv'
  <1> USE DEF inputs, bootVars
  <1>1. full \in BOOLEAN /\ pc \in [Trainers -> Parts \union {"skipped"}] BY DEF DecideInv
  <1>2. Trainers # {}
    <2>1. 0 \in Trainers BY BootAssumption DEF Trainers
    <2> QED BY <2>1
  <1>3. ASSUME UNCHANGED <<agg, len, kept, sync, tot>>,
               \A t \in Trainers : pc'[t] \in Before <=> pc[t] \in Before,
               (\A t \in Trainers : pc[t] = "pick") => \A t \in Trainers : pc'[t] = "pick"
        PROVE  GradInv'
    <2>1. \A S : SyncWeight(S)' = SyncWeight(S) BY <1>3, WeightsStay
    <2>2. \A t \in Trainers : SyncWeight(Share(t))' = SyncWeight(Share(t)) BY <2>1
    <2> QED BY <1>3, <2>2 DEF GradInv
  <1>4. ASSUME NEW o, AdvanceAll(o), o \notin {"pick", "weigh", "stepped", "skipped"},
               UNCHANGED <<agg, len, kept, sync, tot>>
        PROVE  GradInv'
    <2>1. PICK t \in Trainers : pc[t] = o BY <1>2, <1>4 DEF AdvanceAll
    <2>2. o \in Parts BY <1>1, <1>4, <2>1
    <2>3. After(o) \in Before <=> o \in Before BY <1>1, <1>4, <2>2, AfterBefore
    <2>4. \A s \in Trainers : pc[s] = o /\ pc'[s] = After(o) BY <1>4 DEF AdvanceAll
    <2> QED BY <1>3, <1>4, <2>1, <2>3, <2>4
  <1>5. ASSUME NEW t \in Trainers, pc[t] \in Parts, pc[t] \notin {"pick", "weigh", "stepped"},
               NEW o, o = After(pc[t]) \/ (o = "skipped" /\ pc[t] = "decide"),
               pc' = [pc EXCEPT ![t] = o], UNCHANGED <<agg, len, kept, sync, tot>>
        PROVE  GradInv'
    <2>1. o \in Before <=> pc[t] \in Before
      <3>1. CASE o = After(pc[t]) BY <1>1, <1>5, <3>1, AfterBefore
      <3>2. CASE o = "skipped" /\ pc[t] = "decide" BY <3>2 DEF Before
      <3> QED BY <1>5, <3>1, <3>2
    <2>2. \A s \in Trainers : pc'[s] = IF s = t THEN o ELSE pc[s] BY <1>1, <1>5
    <2> QED BY <1>3, <1>5, <2>1, <2>2
  <1>6. ASSUME NEW t \in Trainers, EndLoop(t) PROVE GradInv'
    <2>1. pc[t] \in {"score", "moreScore", "policy", "morePolicy", "ref", "moreRef"}
      BY <1>6 DEF EndLoop, Looping, Loop
    <2>2. pc[t] \in Parts BY <1>1, <2>1
    <2>3. pc' = [pc EXCEPT ![t] = After(pc[t])] /\ UNCHANGED <<agg, len, kept, sync, tot>>
      BY <1>6 DEF EndLoop, Advance
    <2> QED BY <1>5, <2>1, <2>2, <2>3
  <1>7. ASSUME NEW t \in Trainers, Decide(t) PROVE GradInv'
    <2>1. PICK o : o = IF tot <= 0 \/ (~full /\ ~finite[t]) THEN "skipped" ELSE After(pc[t])
      OBVIOUS
    <2>2. pc[t] = "decide" /\ pc' = [pc EXCEPT ![t] = o] /\ UNCHANGED <<agg, len, kept, sync, tot>>
      BY <1>7, <2>1 DEF Decide
    <2>3. pc[t] \in Parts BY <1>1, <2>2
    <2>4. o = After(pc[t]) \/ o = "skipped" BY <2>1
    <2> QED BY <1>5, <2>2, <2>3, <2>4
  <1>8. ASSUME NEW t \in Trainers, Weigh(t) PROVE GradInv'
    <2>1. /\ pc[t] = "weigh" /\ pc' = [pc EXCEPT ![t] = After(pc[t])]
          /\ sync' = [sync EXCEPT ![t] = SyncWeight(Share(t))]
          /\ UNCHANGED <<agg, len, kept, tot>>
      BY <1>8 DEF Weigh, Advance
    <2>2. pc[t] \in Parts BY <1>1, <2>1
    <2>3. After(pc[t]) \notin Before /\ After(pc[t]) # "pick" BY <1>1, <2>1, <2>2, AfterBefore
    <2>4. tot = 0 /\ tot' = 0 BY <2>1 DEF GradInv, Before
    <2>5. \A S : SyncWeight(S)' = SyncWeight(S) BY <2>1, WeightsStay
    <2>6. \A s \in Trainers : SyncWeight(Share(s))' = SyncWeight(Share(s)) BY <2>5
    <2>7. \A s \in Trainers : pc'[s] = IF s = t THEN After(pc[t]) ELSE pc[s] BY <1>1, <2>1
    <2>8. DOMAIN sync' = Trainers
          /\ \A s \in Trainers : sync'[s] = IF s = t THEN SyncWeight(Share(t)) ELSE sync[s]
      BY <2>1 DEF GradInv
    <2>9. \A s \in Trainers : pc'[s] \notin Before => sync'[s] = SyncWeight(Share(s))'
      BY <2>6, <2>7, <2>8 DEF GradInv
    <2> QED BY <2>1, <2>3, <2>4, <2>7, <2>8, <2>9 DEF GradInv
  <1>9. CASE Pick
    <2>1. /\ \A t \in Trainers : pc[t] = "pick"
          /\ len' \in [Groups -> [Members -> 1 .. MaxLen]] /\ kept' \in KeptSets(len')
          /\ pc' = [t \in Trainers |-> After("pick")] /\ UNCHANGED <<agg, sync, tot>>
      BY <1>9 DEF Pick
    <2>2. kept' \subseteq Groups BY <2>1 DEF KeptSets
    <2>3. "pick" \in Parts BY <1>1, <1>2, <2>1
    <2>4. PICK o : o = After("pick") OBVIOUS
    <2>5. o \in Before BY <1>1, <2>3, <2>4, AfterBefore DEF Before
    <2>6. tot' = 0 BY <1>2, <2>1 DEF GradInv, Before
    <2>7. \A t \in Trainers : pc'[t] \in Before BY <2>1, <2>4, <2>5
    <2> QED BY <2>1, <2>2, <2>6, <2>7 DEF GradInv
  <1>10. CASE AllReduceSum
    <2>1. /\ \A t \in Trainers : pc[t] = "sum"
          /\ pc' = [t \in Trainers |-> After("sum")] /\ UNCHANGED <<agg, len, kept, sync>>
      BY <1>10 DEF AllReduceSum, AdvanceAll
    <2>2. tot' = SumOver(sync, Trainers) BY <1>10 DEF AllReduceSum, SumOver
    <2>3. "sum" \in Parts BY <1>1, <1>2, <2>1
    <2>4. PICK o : o = After("sum") OBVIOUS
    <2>5. o \notin Before /\ "sum" \notin Before /\ o # "pick"
      BY <1>1, <2>3, <2>4, AfterBefore DEF Before
    <2>6. \A S : SyncWeight(S)' = SyncWeight(S) BY <2>1, WeightsStay
    <2>7. \A s \in Trainers : SyncWeight(Share(s))' = SyncWeight(Share(s)) BY <2>6
    <2>8. \A t \in Trainers : pc'[t] = o /\ sync'[t] = SyncWeight(Share(t))'
      BY <2>1, <2>4, <2>5, <2>7 DEF GradInv
    <2>9. tot' = SumOver(sync', Trainers) BY <2>1, <2>2
    <2>10. len' \in [Groups -> [Members -> 1 .. MaxLen]] /\ kept' \subseteq Groups
      BY <1>2, <2>1 DEF GradInv
    <2> QED BY <2>1, <2>5, <2>8, <2>9, <2>10 DEF GradInv
  <1>11. CASE AllReduceMax
    <2>1. PICK l \in {"score", "policy", "ref"} :
            AdvanceAll([score |-> "maxScore", policy |-> "maxPolicy", ref |-> "maxRef"][l])
      BY <1>11 DEF AllReduceMax, DecideInv
    <2>2. [score |-> "maxScore", policy |-> "maxPolicy", ref |-> "maxRef"][l]
            \in {"maxScore", "maxPolicy", "maxRef"}
      OBVIOUS
    <2>3. UNCHANGED <<agg, len, kept, sync, tot>> BY <1>11 DEF AllReduceMax
    <2> QED BY <1>4, <2>1, <2>2, <2>3
  <1>12. CASE Clip
    <2>1. /\ \A t \in Trainers : pc[t] = "clip"
          /\ pc' = [t \in Trainers |-> IF finite'[t] THEN After("clip") ELSE "skipped"]
          /\ UNCHANGED <<agg, len, kept, sync, tot>>
      BY <1>12 DEF Clip
    <2>2. After("clip") \notin Before
      BY <1>1, <1>2, <2>1, AfterBefore DEF Before
    <2>3. \A t \in Trainers : pc'[t] \notin Before BY <2>1, <2>2 DEF Before
    <2> QED BY <1>2, <1>3, <2>1, <2>3 DEF Before
  <1>13. CASE UNCHANGED <<agg, len, kept, sync, tot, pc>> BY <1>3, <1>13
  <1>14. CASE Forward BY <1>13, <1>14 DEF Forward
  <1>15. \/ UNCHANGED <<agg, len, kept, sync, tot, pc>> \/ Pick \/ Forward \/ AllReduceMax
         \/ AllReduceSum \/ Clip \/ \E t \in Trainers : EndLoop(t) \/ Weigh(t) \/ Decide(t)
    BY DEF Next, Local, Collective, Done, stepVars, vars
  <1> QED BY <1>6, <1>7, <1>8, <1>9, <1>10, <1>11, <1>12, <1>13, <1>14, <1>15

(* A kept group counts for one or more, and the groups of a share for what *)
(* each of them counts.                                                    *)
LEMMA WorthIs ==
  ASSUME agg \in {"token", "seq", "prompt"}, kept \subseteq Groups,
         len \in [Groups -> [Members -> 1 .. MaxLen]]
  PROVE  /\ \A g \in Groups : Tokens[g] \in Nat /\ Worth[g] \in Nat \ {0}
         /\ \A S \in SUBSET Groups : Effective(S) = SumOver(Worth, S \intersect kept)
  <1>1. IsFiniteSet(Members) /\ IsFiniteSet(Groups) /\ 1 \in Members
    BY FS_Interval, StepAssumption DEF Members, Groups
  <1>2. ASSUME NEW g \in Groups PROVE Tokens[g] \in Nat \ {0}
    <2>1. PICK f : f = len[g] OBVIOUS
    <2>2. \A i \in Members : f[i] \in Nat /\ f[i] >= 1 BY <2>1, StepAssumption
    <2>3. SumOver(f, Members) \in Nat /\ f[1] <= SumOver(f, Members)
      BY <1>1, <2>2, SumIsNat, SumAtLeast
    <2>4. Tokens[g] = SumOver(f, Members) BY <2>1, TokensAre DEF TokenSums
    <2> QED BY <1>1, <2>2, <2>3, <2>4
  <1>3. ASSUME NEW g \in Groups PROVE Worth[g] \in Nat \ {0}
    BY <1>2, StepAssumption DEF Worth
  <1>4. ASSUME NEW S \in SUBSET Groups
        PROVE  Effective(S) = SumOver(Worth, S \intersect kept)
    <2>1. PICK R \in SUBSET Groups : R = S \intersect kept OBVIOUS
    <2>2. IsFiniteSet(R) /\ Cardinality(R) \in Nat BY <1>1, FS_Subset, FS_CardinalityType
    <2>3. CASE agg = "token"
      <3>1. Effective(S) = SumOver(Tokens, R) BY <2>1, <2>3, EffectiveIs DEF EffectiveSums
      <3>2. \A x \in R : Tokens[x] = Worth[x] BY <2>3 DEF Worth
      <3> QED BY <2>1, <2>2, <3>1, <3>2, SumSame
    <2>4. CASE agg = "seq"
      <3>1. Effective(S) = GroupSize * Cardinality(R) BY <2>1, <2>4, EffectiveIs DEF EffectiveSums
      <3>2. \A x \in R : Worth[x] = GroupSize BY <2>4 DEF Worth
      <3> QED BY <2>1, <2>2, <3>1, <3>2, SumOfConstant, StepAssumption
    <2>5. CASE agg = "prompt"
      <3>1. Effective(S) = Cardinality(R) BY <2>1, <2>5, EffectiveIs DEF EffectiveSums
      <3>2. \A x \in R : Worth[x] = 1 BY <2>5 DEF Worth
      <3>3. SumOver(Worth, R) = 1 * Cardinality(R) BY <2>2, <3>2, SumOfConstant
      <3> QED BY <2>1, <2>2, <3>1, <3>3
    <2> QED BY <2>3, <2>4, <2>5
  <1> QED BY <1>2, <1>3, <1>4

(* A share with a kept group is weighed with what it counts for.           *)
LEMMA WeightIs ==
  ASSUME agg \in {"token", "seq", "prompt"}, kept \subseteq Groups,
         len \in [Groups -> [Members -> 1 .. MaxLen]],
         NEW S \in SUBSET Groups, S \intersect kept # {}
  PROVE  SyncWeight(S) = SumOver(Worth, S \intersect kept) /\ SyncWeight(S) \in Nat
  <1>1. PICK R \in SUBSET Groups : R = S \intersect kept OBVIOUS
  <1>2. PICK g \in R : TRUE BY <1>1
  <1>3. \A x \in R : Worth[x] \in Nat \ {0} BY WorthIs
  <1>4. IsFiniteSet(R)
    <2>1. IsFiniteSet(Groups) BY FS_Interval, StepAssumption DEF Groups
    <2> QED BY <2>1, FS_Subset
  <1>5. SumOver(Worth, R) \in Nat /\ Worth[g] <= SumOver(Worth, R)
    BY <1>3, <1>4, SumIsNat, SumAtLeast
  <1>6. Effective(S) = SumOver(Worth, R) BY <1>1, WorthIs
  <1> QED BY <1>1, <1>3, <1>5, <1>6 DEF SyncWeight, Max1

(* The sum of the ranks' weights is the weight of the whole batch.         *)
LEMMA WeightsAddUp ==
  ASSUME agg \in {"token", "seq", "prompt"}, kept \subseteq Groups,
         len \in [Groups -> [Members -> 1 .. MaxLen]],
         \A t \in Trainers : Share(t) \intersect kept # {},
         NEW g, \A t \in Trainers : g[t] = SyncWeight(Share(t))
  PROVE  SumOver(g, Trainers) = SyncWeight(Groups) /\ SyncWeight(Groups) \in Nat
  <1> DEFINE A == [t \in Trainers |-> Share(t) \intersect kept]
  <1>1. \A t \in Trainers : Share(t) \in SUBSET Groups BY SharesPartition
  <1>2. IsFiniteSet(Trainers) /\ IsFiniteSet(Groups)
    BY FS_Interval, BootAssumption, StepAssumption DEF Trainers, Groups
  <1>3. \A t \in Trainers : A[t] \in SUBSET Groups /\ IsFiniteSet(A[t])
    BY <1>1, <1>2, FS_Subset
  <1>4. \A x \in Groups : Worth[x] \in Nat BY WorthIs
  <1>5. \A s, t \in Trainers : s # t => A[s] \intersect A[t] = {} BY SharesPartition
  <1>6. \A t \in Trainers : g[t] = SumOver(Worth, A[t]) BY <1>1, WeightIs
  <1>7. UNION {A[t] : t \in Trainers} = Groups \intersect kept
    <2>1. \A x \in Groups : \E t \in Trainers : x \in Share(t) BY SharesPartition
    <2> QED BY <1>1, <2>1
  <1>8. Groups \intersect kept # {}
    <2>1. 0 \in Trainers BY BootAssumption DEF Trainers
    <2> QED BY <1>1, <2>1
  <1>9. /\ SyncWeight(Groups) = SumOver(Worth, Groups \intersect kept)
        /\ SyncWeight(Groups) \in Nat
    <2>1. Groups \in SUBSET Groups OBVIOUS
    <2> QED BY <1>8, <2>1, WeightIs
  <1>10. SumOver(g, Trainers) = SumOver(Worth, UNION {A[t] : t \in Trainers})
    <2>1. \A t \in Trainers : IsFiniteSet(A[t]) /\ \A x \in A[t] : Worth[x] \in Nat
      BY <1>3, <1>4
    <2>2. PICK B, w : B = A /\ w = Worth OBVIOUS
    <2>3. \A t \in Trainers : IsFiniteSet(B[t]) /\ \A x \in B[t] : w[x] \in Nat
      BY <2>1, <2>2
    <2>4. \A s, t \in Trainers : s # t => B[s] \intersect B[t] = {} BY <1>5, <2>2
    <2>5. \A t \in Trainers : g[t] = SumOver(w, B[t]) BY <1>6, <2>2
    <2> HIDE DEF A
    <2>6. SumOver(g, Trainers) = SumOver(w, UNION {B[t] : t \in Trainers})
      BY ONLY <1>2, <2>3, <2>4, <2>5, SumUnion
    <2> QED BY <2>2, <2>6
  <1> QED BY <1>7, <1>9, <1>10

(* With a kept group in every share, the averaged gradient is that of a    *)
(* single GPU over the whole batch, for every number of ranks, batch, group *)
(* size, filter and aggregation.                                           *)
THEOREM GradientIsUnion == Spec => []UnionGradientNonEmpty
  <1>1. DecideInv /\ GradInv /\ [Next]_vars => DecideInv' /\ GradInv'
    BY DecideStep, GradStep
  <1>2. ASSUME GradInv PROVE UnionGradientNonEmpty
    <2> SUFFICES ASSUME tot # 0, \A t \in Trainers : Share(t) \intersect kept # {}
                 PROVE  SameCoefficients
      BY SharesPartition DEF UnionGradientNonEmpty
    <2>1. /\ agg \in {"token", "seq", "prompt"} /\ tot = SumOver(sync, Trainers)
          /\ \A t \in Trainers : pc[t] \notin Before /\ sync[t] = SyncWeight(Share(t))
      BY <1>2 DEF GradInv
    <2>2. len \in [Groups -> [Members -> 1 .. MaxLen]] /\ kept \subseteq Groups
      <3>1. 0 \in Trainers /\ "pick" \in Before BY BootAssumption DEF Trainers, Before
      <3> QED BY <1>2, <2>1, <3>1 DEF GradInv
    <2>3. tot = SyncWeight(Groups) /\ SyncWeight(Groups) \in Nat
      BY <2>1, <2>2, WeightsAddUp
    <2> SUFFICES ASSUME NEW t \in Trainers, NEW g \in Share(t) \intersect kept,
                        NEW i \in Members
                 PROVE  sync[t] * Denominator(Groups, g, i) = Denominator(Share(t), g, i) * tot
      BY DEF SameCoefficients
    <2>4. Share(t) \in SUBSET Groups /\ g \in Groups BY SharesPartition
    <2>5. SyncWeight(Share(t)) \in Nat BY <2>1, <2>2, <2>4, WeightIs
    <2>6. PICK c \in Nat : c = CASE agg = "token"  -> 1
                                 [] agg = "seq"    -> len[g][i]
                                 [] agg = "prompt" -> Tokens[g]
      <3>1. Tokens[g] \in Nat BY <2>1, <2>2, <2>4, WorthIs
      <3>2. len[g][i] \in Nat BY <2>2, <2>4
      <3> QED BY <2>1, <3>1, <3>2
    <2>7. \A S : Denominator(S, g, i) = SyncWeight(S) * c BY <2>6 DEF Denominator
    <2>8. PICK a \in Nat, b \in Nat : a = SyncWeight(Share(t)) /\ b = SyncWeight(Groups)
      BY <2>3, <2>5
    <2>9. a * (b * c) = (a * c) * b OBVIOUS
    <2> QED BY <2>1, <2>3, <2>7, <2>8, <2>9
  <1> QED BY <1>1, <1>2, DecideInit, GradInit, PTL DEF Spec

=============================================================================
