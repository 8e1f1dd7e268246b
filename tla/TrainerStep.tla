------------------------------ MODULE TrainerStep ------------------------------
(***************************************************************************)
(* The first optimizer step of rl/rl_disagg.py over the trainer ranks that *)
(* TrainerBoot has brought up, from the pick to opt.step(): run_trainer    *)
(* splits the batch of groups and scores the rollouts, loss_weights weighs *)
(* tokens and ranks, and update_disagg accumulates gradients, averages     *)
(* them and steps or skips.                                                *)
(*                                                                         *)
(* With a LoRA policy the one collective is _sync_grads.  With --full-param *)
(* policy, scorer and KL reference are sharded by FSDP2: every forward is  *)
(* a collective, and ranks with fewer of them make dummy forwards.         *)
(*                                                                         *)
(* Abstracted: rewards (a group has zero variance or not), tokens (their   *)
(* number), gradients (the coefficient each token's gradient gets, and     *)
(* whether there is an inf or a NaN), and the passes over the shared       *)
(* prompt prefix and the logging, which every rank makes alike.            *)
(***************************************************************************)
EXTENDS TrainerBoot, Sequences, SequencesExt

CONSTANTS
  Batch,          (* --groups-per-step                                     *)
  GroupSize,      (* --group-size                                          *)
  MaxLen,         (* bound: completion tokens of a rollout                 *)
  ZeroVarFilter,  (* --zero-var-filter                                     *)
  KL,             (* --kl-coef > 0                                         *)
  ScoreBatch,     (* --score-batch                                         *)
  RefMicroBatch,  (* --ref-micro-batch                                     *)
  Aggs            (* the --loss-agg values tried                           *)

ASSUME StepAssumption ==
  /\ Batch \in Nat /\ Batch >= World
  /\ GroupSize \in Nat \ {0} /\ MaxLen \in Nat \ {0}
  /\ ScoreBatch \in Nat \ {0} /\ RefMicroBatch \in Nat \ {0}
  /\ ZeroVarFilter \in BOOLEAN /\ KL \in BOOLEAN
  /\ Aggs \subseteq {"token", "seq", "prompt"}

Groups == 0 .. Batch - 1
Members == 1 .. GroupSize

VARIABLES
  agg,   (* --loss-agg                                                     *)
  len,   (* the completion tokens of each rollout of each group; <<>>      *)
         (* before the pick                                                *)
  kept,  (* the groups in the effective batch                              *)
  pc,    (* the part of the step a rank is in                              *)
  did,   (* the forwards a rank has made in the loop it is in              *)
  most,  (* what the all_reduce_max over the ranks returned, by loop       *)
  sync,  (* sync_w of each rank, 0 before loss_weights                     *)
  tot,   (* the sum of the sync_w, 0 before the all-reduce                 *)
  finite (* whether all is finite in the gradient a rank has: LoRA, that   *)
         (* of its own rollouts, then the averaged one; full, its part of  *)
         (* the averaged one, then all of it by the common norm            *)

inputs == <<bootVars, agg, len, kept>>
vars == <<full, bp, micro, peak, loaded, ev, ex, agg, len, kept, pc, did, most,
          sync, tot, finite>>

(* The parts of a step in their order; before "weigh", a LoRA step has     *)
(* nothing but local work. *)
Program ==
  IF full
  THEN <<"pick", "score", "maxScore", "moreScore", "weigh", "sum", "maxPolicy">>
       \o (IF KL THEN <<"maxRef", "ref", "moreRef">> ELSE <<>>)
       \o <<"policy", "morePolicy", "decide", "clip", "stepped">>
  ELSE <<"pick", "weigh", "sum", "decide", "stepped">>

(* The part behind part o. *)
After(o) == Program[1 + CHOOSE i \in DOMAIN Program : Program[i] = o]

(* A rollout of one token is the stop token: its text is empty. *)
Blank(g, i) == len[g][i] = 1

Init ==
  /\ BootInit
  /\ agg \in Aggs /\ len = <<>> /\ kept = {}
  /\ pc = [t \in Trainers |-> "pick"] /\ did = [t \in Trainers |-> 0]
  /\ most = [score |-> 0, policy |-> 0, ref |-> 0]
  /\ sync = [t \in Trainers |-> 0] /\ tot = 0
  /\ finite = [t \in Trainers |-> TRUE]

(* np.array_split(np.arange(B), world)[rank]: the first ranks get one more. *)
Share(t) ==
  LET q == Batch \div World   more == Batch % World
      first == q * t + (IF t < more THEN t ELSE more)
  IN first .. first + q - 1 + (IF t < more THEN 1 ELSE 0)

(* The effective batches compute_advantages_disagg may leave of a batch l: *)
(* with the filter, the groups whose rewards differ.  Equal texts have     *)
(* equal rewards, so a group of empty texts is never kept.                 *)
KeptSets(l) ==
  IF ZeroVarFilter
  THEN SUBSET {g \in Groups : \E i \in Members : l[g][i] > 1}
  ELSE {Groups}

(* Rank 0 broadcasts the pick, and every rank loads the same batch.        *)
Pick ==
  /\ \A t \in Trainers : bp[t] = "loop" /\ pc[t] = "pick"
  /\ len' \in [Groups -> [Members -> 1 .. MaxLen]]
  /\ kept' \in KeptSets(len')
  /\ pc' = [t \in Trainers |-> After("pick")]
  /\ UNCHANGED <<bootVars, agg, did, most, sync, tot, finite>>

-----------------------------------------------------------------------------
(* The loss weights *)

Max1(n) == IF n > 0 THEN n ELSE 1

Tokens == [g \in Groups |-> MapThenSumSet(LAMBDA i : len[g][i], Members)]

(* How much of the groups S is left: tokens, rollouts or groups. *)
Effective(S) ==
  CASE agg = "token"  -> MapThenSumSet(LAMBDA g : Tokens[g], S \intersect kept)
    [] agg = "seq"    -> GroupSize * Cardinality(S \intersect kept)
    [] agg = "prompt" -> Cardinality(S \intersect kept)

(* loss_weights over the groups S: the sync weight, never below 1 ... *)
SyncWeight(S) == Max1(Effective(S))

(* ... and one over the weight of a token of rollout i of a kept group g.  *)
Denominator(S, g, i) ==
  SyncWeight(S) * CASE agg = "token"  -> 1
                    [] agg = "seq"    -> len[g][i]
                    [] agg = "prompt" -> Tokens[g]

-----------------------------------------------------------------------------
(* The forwards *)

CeilDiv(n, k) == (n + k - 1) \div k

(* The forwards rank t needs for its own rollouts: score() leaves empty    *)
(* texts out. *)
Own(t, l) ==
  CASE l = "score"  -> CeilDiv(Cardinality({p \in Share(t) \X Members : ~Blank(p[1], p[2])}),
                               ScoreBatch)
    [] l = "policy" -> CeilDiv(GroupSize * Cardinality(Share(t)), micro[t])
    [] l = "ref"    -> CeilDiv(GroupSize * Cardinality(Share(t)), RefMicroBatch)

Loop == [score |-> "score", moreScore |-> "score", policy |-> "policy",
         morePolicy |-> "policy", ref |-> "ref", moreRef |-> "ref"]

(* Mutant: no dummies for the policy. *)
LengthMutant(t, o) ==
  IF o = "morePolicy" THEN 0
  ELSE IF o \in {"moreScore", "moreRef"} THEN most[Loop[o]] - Own(t, Loop[o]) ELSE Own(t, o)

(* A loop over the rank's own rollouts, then one of dummies. *)
Length(t, o) ==
  IF o \in {"moreScore", "morePolicy", "moreRef"}
  THEN most[Loop[o]] - Own(t, Loop[o]) ELSE Own(t, o)

Looping(t) == pc[t] \in DOMAIN Loop
InLoop(t) == Looping(t) /\ did[t] < Length(t, pc[t])

Advance(t) ==
  /\ pc' = [pc EXCEPT ![t] = After(@)] /\ did' = [did EXCEPT ![t] = 0]

AdvanceAll(o) ==
  /\ \A t \in Trainers : pc[t] = o
  /\ pc' = [t \in Trainers |-> After(o)] /\ did' = [t \in Trainers |-> 0]

(* An FSDP2 forward of one of the three models: the all-gathers of its     *)
(* parameters need all ranks; score() and the update wait for its result.  *)
Forward ==
  /\ \A t \in Trainers : InLoop(t)
  /\ Cardinality({Loop[pc[t]] : t \in Trainers}) = 1
  /\ did' = [t \in Trainers |-> did[t] + 1]
  /\ UNCHANGED <<inputs, pc, most, sync, tot, finite>>

(* The gradient rank t holds after its backwards. *)
Backward(t) == \E b \in BOOLEAN : finite' = [finite EXCEPT ![t] = b]

EndLoop(t) ==
  /\ Looping(t) /\ ~InLoop(t)
  /\ IF pc[t] = "morePolicy" THEN Backward(t) ELSE finite' = finite
  /\ Advance(t)
  /\ UNCHANGED <<inputs, most, sync, tot>>

(* all_reduce_max of the number of forwards. *)
AllReduceMax ==
  \E l \in DOMAIN most :
    /\ AdvanceAll([score |-> "maxScore", policy |-> "maxPolicy", ref |-> "maxRef"][l])
    /\ most' = [most EXCEPT ![l] = Max({Own(t, l) : t \in Trainers})]
    /\ UNCHANGED <<inputs, sync, tot, finite>>

(* Mutant: a rank counts for its rollouts, whatever the aggregation. *)
WeighMutant(t) ==
  /\ pc[t] = "weigh"
  /\ sync' = [sync EXCEPT ![t] = GroupSize * Cardinality(Share(t))]
  /\ IF full THEN finite' = finite ELSE Backward(t)
  /\ Advance(t)
  /\ UNCHANGED <<inputs, most, tot>>

(* With a LoRA policy the micro-batches follow without any collective.     *)
Weigh(t) ==
  /\ pc[t] = "weigh"
  /\ sync' = [sync EXCEPT ![t] = SyncWeight(Share(t))]
  /\ IF full THEN finite' = finite ELSE Backward(t)
  /\ Advance(t)
  /\ UNCHANGED <<inputs, most, tot>>

(* What the ranks make of their gradients together is the same for all of  *)
(* them, and finite only if all of these are; it may overflow.             *)
Combine == \E b \in BOOLEAN :
  (b => \A t \in Trainers : finite[t]) /\ finite' = [t \in Trainers |-> b]

(* LoRA: the flat gradient buffer of _sync_grads, scaled by sync_w and     *)
(* divided by the sum of the weights.  Full: the sum is taken before the   *)
(* micro-batches, and loss_scale does the same to every loss.              *)
AllReduceSum ==
  /\ AdvanceAll("sum")
  /\ tot' = MapThenSumSet(LAMBDA t : sync[t], Trainers)
  /\ IF full THEN finite' = finite ELSE Combine
  /\ UNCHANGED <<inputs, most, sync>>

(* Mutant: the norm of a rank's own part decides, sharded or not. *)
DecideMutant(t) ==
  /\ pc[t] = "decide"
  /\ pc' = [pc EXCEPT ![t] = IF tot <= 0 \/ ~finite[t] THEN "skipped" ELSE After(@)]
  /\ UNCHANGED <<inputs, did, most, sync, tot, finite>>

(* No weight at all, or a norm that is not finite, skips the step.  LoRA:  *)
(* every rank takes the norm of the averaged gradient it holds.            *)
Decide(t) ==
  /\ pc[t] = "decide"
  /\ pc' = [pc EXCEPT ![t] = IF tot <= 0 \/ (~full /\ ~finite[t])
                             THEN "skipped" ELSE After(@)]
  /\ UNCHANGED <<inputs, did, most, sync, tot, finite>>

(* Full: clip_grad_norm takes the norm over the parts of all ranks.  Then  *)
(* opt.step() or not.                                                      *)
Clip ==
  /\ \A t \in Trainers : pc[t] = "clip"
  /\ Combine
  /\ pc' = [t \in Trainers |-> IF finite'[t] THEN After("clip") ELSE "skipped"]
  /\ UNCHANGED <<inputs, did, most, sync, tot>>

stepVars == <<agg, len, kept, pc, did, most, sync, tot, finite>>

Local(t) ==
  \/ BootLocal(t) /\ UNCHANGED stepVars
  \/ EndLoop(t) \/ Weigh(t) \/ Decide(t)

Collective ==
  \/ BootCollective /\ UNCHANGED stepVars
  \/ Pick \/ Forward \/ AllReduceMax \/ AllReduceSum \/ Clip

Ended ==
  \A t \in Trainers : bp[t] = "dead" \/ pc[t] \in {"stepped", "skipped"}

Done == Ended /\ UNCHANGED vars

Next == (\E t \in Trainers : Local(t)) \/ Collective \/ Done

(* A rank goes on by itself; a collective is made once all ranks are in it. *)
Fairness == (\A t \in Trainers : WF_vars(Local(t))) /\ WF_vars(Collective)

Spec == Init /\ [][Next]_vars /\ Fairness

-----------------------------------------------------------------------------
(* Properties *)

(* A token's coefficient in the averaged gradient, sync/(den * tot), is    *)
(* the one a single GPU gives it over the whole batch.                     *)
SameCoefficients ==
  \A t \in Trainers : \A g \in Share(t) \intersect kept, i \in Members :
    sync[t] * Denominator(Groups, g, i) = Denominator(Share(t), g, i) * tot

(* "equals the single-GPU gradient over the union batch even with UNEVEN   *)
(* shards": the promise of _sync_grads.                                    *)
UnionGradient == tot # 0 => SameCoefficients

(* It is kept, for every aggregation and every split, as long as the       *)
(* filter leaves each rank a group; the groups all belong to some rank.    *)
UnionGradientNonEmpty ==
  /\ UNION {Share(t) : t \in Trainers} = Groups
  /\ tot # 0 /\ (\A t \in Trainers : Share(t) \intersect kept # {}) => SameCoefficients

(* The ranks never part: all step or all skip, whatever each one's share   *)
(* kept and wherever an inf or a NaN comes up; otherwise their weights     *)
(* diverge without a sign.  None steps while some rank's part is not       *)
(* finite.                                                                 *)
OneDecision ==
  \A s, t \in Trainers :
    /\ ~(pc[s] \in {"clip", "stepped"} /\ pc[t] = "skipped")
    /\ pc[s] = "stepped" => finite[t]

(* No rank waits in a collective the others do not come to: "ranks whose   *)
(* reward shard needed fewer score() batches run this until every rank has *)
(* issued the same number of forwards".                                    *)
StepEnds == <>Ended

(* The ranks of which the code expects that they find the same assets, and *)
(* a batch all ranks need equally many forwards to score.                  *)
AlikeLoads == \A s, t \in Trainers : ExtraEvals => loaded[s] = loaded[t]

EvenScoring ==
  \A s, t \in Trainers :
    pc[s] # "pick" /\ pc[t] # "pick" => Own(s, "score") = Own(t, "score")

(* So far the promise is kept: from the probe to opt.step() no rank waits  *)
(* forever, whatever the peaks, the micro-batch and the split; the dummies *)
(* of policy and reference make up for uneven shares.                      *)
StepEndsEven == AlikeLoads /\ []EvenScoring => <>Ended

=============================================================================
