------------------------------ MODULE TrainerBoot ------------------------------
(***************************************************************************)
(* The trainer ranks of rl/rl_disagg.py between the publication of the     *)
(* initial policy and their first step: the ranks choose a micro-batch,    *)
(* load the assets of the inline evaluation and agree on whether they all  *)
(* have them.  Everything they agree on goes through collectives, which    *)
(* torch.distributed pairs by the order of the calls, not by their name.   *)
(*                                                                         *)
(* Abstracted: memory (a peak is a small number, the reserve for AdamW is  *)
(* taken off the budget all ranks compute alike), the forward and backward *)
(* of an attempt (one collective), wandb and the files rank 0 writes.  No  *)
(* attempt runs out of memory: that ends the run by design.                *)
(***************************************************************************)
EXTENDS Integers, FiniteSets, FiniteSetsExt

CONSTANTS
  World,         (* trainer ranks                                          *)
  Policies,      (* the values of --full-param tried                       *)
  MicroBatches,  (* the values of --micro-batch tried, 0 = probe           *)
  Cands,         (* --mb-candidates                                        *)
  Peaks,         (* bound: what an attempt may measure                     *)
  Budget,        (* the part of a GPU the peak may take                    *)
  ExtraEvals     (* not --no-extra-evals                                   *)

ASSUME BootAssumption ==
  /\ World \in Nat \ {0} /\ Policies \subseteq BOOLEAN
  /\ MicroBatches \subseteq Nat /\ Cands \subseteq {n \in Nat : n >= 4}
  /\ IsFiniteSet(Cands) /\ Cands # {}
  /\ Peaks \subseteq Nat /\ Budget \in Nat /\ ExtraEvals \in BOOLEAN

Trainers == 0 .. World - 1

VARIABLES
  full,    (* --full-param                                                 *)
  bp,      (* where the boot of a rank is                                  *)
  micro,   (* mb of each rank, 0 before the probe                          *)
  peak,    (* the peak each rank saw at each micro-batch it tried          *)
  loaded,  (* load_eval_assets finds everything on the rank                *)
  ev, ex   (* EV and EX of the rank are not None                           *)

probe == <<micro, peak>>
evals == <<loaded, ev, ex>>
bootVars == <<full, bp, micro, peak, loaded, ev, ex>>

Untried == [t \in Trainers |-> <<>>]

BootInit ==
  /\ full \in Policies
  /\ \E flag \in MicroBatches :
       /\ micro = [t \in Trainers |-> flag]
       /\ bp = [t \in Trainers |-> IF flag = 0 THEN "probe" ELSE "eval"]
  /\ peak = Untried
  /\ loaded \in [Trainers -> BOOLEAN]
  /\ ev = [t \in Trainers |-> FALSE] /\ ex = [t \in Trainers |-> FALSE]

-----------------------------------------------------------------------------
(* The micro-batch *)

(* Mutant: a rank goes by its own peak. *)
MeasuredMutant(t, mb) == peak[t][mb]

(* sync_max: the largest peak over the ranks. *)
Measured(t, mb) == Max({peak[s][mb] : s \in Trainers})

Tried(t) == DOMAIN peak[t]
Fitting(t) == {mb \in Tried(t) : Measured(t, mb) <= Budget}

(* plan_probe_step: the next candidate, or 0.  From the third on it is at  *)
(* most twice the largest that fits, and the line through the two largest  *)
(* stays in the budget.                                                    *)
Plan(t) ==
  LET fit == Fitting(t)
      todo == {c \in Cands : \A mb \in fit : c > mb}
      c == Min(todo)
      b == Max(fit)
      a == Max(fit \ {b})
      rise == Max({Measured(t, b) - Measured(t, a), 0})
  IN IF \/ todo = {} \/ fit # Tried(t)
        \/ /\ Cardinality(fit) >= 2
           /\ \/ c > 2 * b
              \/ rise * (c - b) > (Budget - Measured(t, b)) * (b - a)
     THEN 0 ELSE c

(* An attempt of find_micro_batch_fullparam: a collective.                 *)
Attempt ==
  /\ full /\ \A t \in Trainers : bp[t] = "probe" /\ Plan(t) # 0
  /\ \E p \in [Trainers -> Peaks] :
       peak' = [t \in Trainers |-> [mb \in Tried(t) \union {Plan(t)} |->
                                    IF mb = Plan(t) THEN p[t] ELSE peak[t][mb]]]
  /\ UNCHANGED <<full, bp, micro, evals>>

(* Nothing more to try; if nothing fits, the assertion ends the rank.      *)
Choose(t) ==
  /\ full /\ bp[t] = "probe" /\ Plan(t) = 0
  /\ IF Fitting(t) = {}
     THEN micro' = micro /\ bp' = [bp EXCEPT ![t] = "dead"]
     ELSE /\ micro' = [micro EXCEPT ![t] = Max(Fitting(t))]
          /\ bp' = [bp EXCEPT ![t] = "min"]
  /\ UNCHANGED <<full, peak, evals>>

(* LoRA: find_micro_batch looks at the rank's own GPU only.  What it finds *)
(* is up to the memory; one or two rollouts always fit.                    *)
ChooseAlone(t) ==
  /\ ~full /\ bp[t] = "probe"
  /\ \E mb \in Cands \union {1, 2} : micro' = [micro EXCEPT ![t] = mb]
  /\ bp' = [bp EXCEPT ![t] = "min"]
  /\ UNCHANGED <<full, peak, evals>>

(* all_reduce(MIN) of mb. *)
AgreeMicro ==
  /\ \A t \in Trainers : bp[t] = "min"
  /\ micro' = [t \in Trainers |-> Min({micro[s] : s \in Trainers})]
  /\ peak' = Untried
  /\ bp' = [t \in Trainers |-> "eval"]
  /\ UNCHANGED <<full, evals>>

-----------------------------------------------------------------------------
(* The inline evaluation *)

LoadEval(t) ==
  /\ bp[t] = "eval"
  /\ ev' = [ev EXCEPT ![t] = loaded[t]]
  /\ bp' = [bp EXCEPT ![t] = IF loaded[t] /\ ExtraEvals THEN "prepare" ELSE "agree"]
  /\ UNCHANGED <<full, probe, loaded, ex>>

(* Mutant: each rank keeps the extra assets it could load. *)
AllReduceMinMutant ==
  /\ \A t \in Trainers : bp[t] \in {"prepare", "agree"}
  /\ \E ok \in [Trainers -> BOOLEAN] :
       LET mine(t) == IF bp[t] = "prepare" THEN ok[t] ELSE ev[t]
           all == \A t \in Trainers : mine(t)
       IN /\ ev' = [t \in Trainers |-> IF bp[t] = "agree" THEN all ELSE ev[t]]
          /\ ex' = [t \in Trainers |-> IF bp[t] = "agree" THEN ex[t] /\ all ELSE ok[t]]
  /\ bp' = [t \in Trainers |-> IF bp[t] = "prepare" THEN "agree" ELSE "loop"]
  /\ UNCHANGED <<full, probe, loaded>>

(* The all_reduce(MIN) at the end of prepare_extra_eval_assets, over       *)
(* whether the rank could load the extra assets, and the one in run_trainer *)
(* over whether it has EV.  Both reduce one CPU integer: a rank in one is  *)
(* paired with a rank in the other.                                        *)
AllReduceMin ==
  /\ \A t \in Trainers : bp[t] \in {"prepare", "agree"}
  /\ \E ok \in [Trainers -> BOOLEAN] :
       LET mine(t) == IF bp[t] = "prepare" THEN ok[t] ELSE ev[t]
           all == \A t \in Trainers : mine(t)
       IN /\ ev' = [t \in Trainers |-> IF bp[t] = "agree" THEN all ELSE ev[t]]
          /\ ex' = [t \in Trainers |-> IF bp[t] = "agree" THEN ex[t] /\ all ELSE all]
  /\ bp' = [t \in Trainers |-> IF bp[t] = "prepare" THEN "agree" ELSE "loop"]
  /\ UNCHANGED <<full, probe, loaded>>

BootLocal(t) == Choose(t) \/ ChooseAlone(t) \/ LoadEval(t)
BootCollective == Attempt \/ AgreeMicro \/ AllReduceMin

-----------------------------------------------------------------------------
(* Properties *)

(* The ranks of a full-parameter policy choose the same micro-batch, and   *)
(* on none of them its peak is over the budget, however the peaks differ:  *)
(* "every rank runs the same attempts ... and uses the MAX peak".          *)
MicroBatchFits ==
  \A s, t \in Trainers :
    full /\ bp[t] = "min" => micro[t] \in Tried(s) /\ peak[s][micro[t]] <= Budget

(* Ranks in the loop agree on EV and EX: both decide which collectives an  *)
(* evaluation makes.                                                       *)
EvalsAgree ==
  \A s, t \in Trainers :
    bp[s] = "loop" /\ bp[t] = "loop" => ev[s] = ev[t] /\ ex[s] = ex[t]

(* "every rank must agree on whether EV exists (a failed load on one rank  *)
(* would otherwise desync the collectives)": all ranks come to the loop.   *)
BootEnds == <>(\A t \in Trainers : bp[t] \in {"loop", "dead"})

=============================================================================
