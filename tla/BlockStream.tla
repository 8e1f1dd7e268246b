----------------------------- MODULE BlockStream -----------------------------
(***************************************************************************)
(* What the queue directory of rl/rl_disagg.py promises, whatever the      *)
(* files and the processes do: a stream of batches cut from a pool of      *)
(* blocks.  A block enters the pool once, labelled with a published        *)
(* policy.  Every update takes exactly BlocksPerStep blocks, the oldest    *)
(* ones (the newest, the rest discarded, with DropStale), in one step.     *)
(* RolloutPipeline implements it.                                          *)
(***************************************************************************)
EXTENDS Integers, FiniteSets

CONSTANTS
  Ranks,
  Ids  (* the times a block can be named at *)

VARIABLES
  flags,   (* BlocksPerStep, DropStale, StepOffset and TotalSteps of the  *)
           (* run: only read here, and the same in all its states         *)
  pool,    (* the blocks that wait                             *)
  batch,   (* the batch of the update being made, {} if none   *)
  known,   (* the names of all blocks that ever entered        *)
  policy,  (* the policy the rollout side may sample from      *)
  step,    (* updates made                                     *)
  ended

vars == <<pool, batch, known, policy, step, ended>>

Before(b, c) == \/ b.step < c.step
                \/ b.step = c.step /\ b.t < c.t

Init ==
  /\ pool = {} /\ batch = {} /\ known = {}
  /\ policy = -1 /\ step = flags.StepOffset /\ ended = FALSE

Publish ==
  /\ policy # step
  /\ policy' = step
  /\ UNCHANGED <<pool, batch, known, step, ended>>

Produce ==
  \E t \in Ids \ known, k \in flags.StepOffset .. policy, r \in Ranks :
    /\ pool' = pool \union {[step |-> k, t |-> t, rank |-> r]}
    /\ known' = known \union {t}
    /\ UNCHANGED <<batch, policy, step, ended>>

Cut ==
  /\ batch = {} /\ step < flags.TotalSteps
  /\ \E T \in SUBSET pool :
       /\ Cardinality(T) = flags.BlocksPerStep
       /\ \A b \in T, c \in pool \ T :
            IF flags.DropStale THEN Before(c, b) ELSE Before(b, c)
       /\ batch' = T
       /\ pool' = IF flags.DropStale THEN {} ELSE pool \ T
  /\ UNCHANGED <<known, policy, step, ended>>

Train ==
  /\ batch # {}
  /\ step' = step + 1 /\ batch' = {}
  /\ UNCHANGED <<pool, known, policy, ended>>

End ==
  /\ batch = {} /\ step >= flags.TotalSteps /\ ~ended
  /\ ended' = TRUE
  /\ UNCHANGED <<pool, batch, known, policy, step>>

Next == Publish \/ Produce \/ Cut \/ Train \/ End

(* The rollout side owes a block only while less than a batch waits.  A    *)
(* publication is owed only before the first block.                        *)
Demand ==
  policy # -1 /\ Cardinality(pool) < flags.BlocksPerStep /\ ~ended /\ Produce

Fairness ==
  /\ WF_vars(policy = -1 /\ Publish) /\ WF_vars(Demand)
  /\ WF_vars(Cut) /\ WF_vars(Train) /\ WF_vars(End)

Spec == Init /\ [][Next]_vars /\ Fairness

=============================================================================
