------------------------------- MODULE Launcher -------------------------------
(***************************************************************************)
(* run_launch of rl/rl_disagg.py: it starts the trainer and rollout ranks, *)
(* polls their return codes every two seconds, tells a finished run from a *)
(* broken one, and takes everything down.                                  *)
(*                                                                         *)
(* Abstracted: what the ranks compute.  A trainer step takes a block and   *)
(* all trainer ranks together, so the death of one leaves the others in a  *)
(* collective.  A rank dies with an error at any step, at most MaxDeaths   *)
(* of them; none hangs by itself.  The benches are left out.               *)
(***************************************************************************)
EXTENDS Integers, FiniteSets

CONSTANTS
  Ranks, Trainers, Main,
  TotalSteps, Cap,
  MaxDeaths    (* bound: ranks that die of themselves                      *)

(* Checked where a run gives the constants their values. *)
LauncherAssumption ==
  /\ Main \in Trainers /\ Ranks # {} /\ Ranks \intersect Trainers = {}
  /\ TotalSteps \in Nat /\ Cap \in Nat \ {0} /\ MaxDeaths \in Nat

Procs == Ranks \union Trainers

VARIABLES
  proc,    (* "run", "barrier", "ok" = returncode 0, "failed" = another    *)
  queue, step,
  saved,   (* <save_dir>/final is complete                                 *)
  stop,    (* STOP exists                                                  *)
  deaths,
  lp,      (* where run_launch is                                          *)
  alive,   (* its list of live processes                                   *)
  rc

vars == <<proc, queue, step, saved, stop, deaths, lp, alive, rc>>
launcher == <<lp, alive, rc>>

Live(p) == proc[p] \in {"run", "barrier"}

(* A clean work directory, every process spawned. *)
Init ==
  /\ proc = [p \in Procs |-> "run"]
  /\ queue = 0 /\ step = 0 /\ saved = FALSE /\ stop = FALSE /\ deaths = 0
  /\ lp = "alive" /\ alive = {} /\ rc = 0

Become(p, s) == proc' = [proc EXCEPT ![p] = s]

-----------------------------------------------------------------------------
(* The ranks *)

(* RolloutPipeline tells how far the cap is exceeded. *)
Block(r) ==
  /\ r \in Ranks /\ proc[r] = "run" /\ ~stop /\ queue < Cap
  /\ queue' = queue + 1
  /\ UNCHANGED <<proc, step, saved, stop, deaths, launcher>>

(* STOP seen: main() returns. *)
Leave(r) ==
  /\ r \in Ranks /\ proc[r] = "run" /\ stop
  /\ Become(r, "ok")
  /\ UNCHANGED <<queue, step, saved, stop, deaths, launcher>>

Step ==
  /\ \A t \in Trainers : proc[t] = "run"
  /\ step < TotalSteps /\ queue > 0
  /\ step' = step + 1 /\ queue' = queue - 1
  /\ UNCHANGED <<proc, saved, stop, deaths, launcher>>

SaveFinal ==
  /\ proc[Main] = "run" /\ step = TotalSteps
  /\ saved' = TRUE
  /\ UNCHANGED <<proc, queue, step, stop, deaths, launcher>>

(* Rank 0 writes STOP after the final checkpoint, then the last barrier. *)
WriteStop ==
  /\ proc[Main] = "run" /\ saved
  /\ stop' = TRUE /\ Become(Main, "barrier")
  /\ UNCHANGED <<queue, step, saved, deaths, launcher>>

Await(t) ==
  /\ t \in Trainers \ {Main} /\ proc[t] = "run" /\ step = TotalSteps
  /\ Become(t, "barrier")
  /\ UNCHANGED <<queue, step, saved, stop, deaths, launcher>>

(* The barrier lets a rank go once all have come to it. *)
Return(t) ==
  /\ t \in Trainers /\ proc[t] = "barrier"
  /\ \A s \in Trainers : proc[s] \in {"barrier", "ok"}
  /\ Become(t, "ok")
  /\ UNCHANGED <<queue, step, saved, stop, deaths, launcher>>

Die(p) ==
  /\ Live(p) /\ deaths < MaxDeaths
  /\ Become(p, "failed") /\ deaths' = deaths + 1
  /\ UNCHANGED <<queue, step, saved, stop, launcher>>

Work(p) == Block(p) \/ Leave(p) \/ Await(p) \/ Return(p)

-----------------------------------------------------------------------------
(* The launcher *)

ListAlive ==
  /\ lp = "alive"
  /\ alive' = {p \in Procs : Live(p)} /\ lp' = "dead"
  /\ UNCHANGED <<proc, queue, step, saved, stop, deaths, rc>>

(* Mutant: nobody counts after STOP. *)
BrokenMutant(p) == proc[p] = "failed" /\ ~stop

(* A failure that ends the run: after STOP a rollout rank may die. *)
Broken(p) == proc[p] = "failed" /\ (p \in Trainers \/ ~stop)

(* Mutant: the run is over when rank 0 is gone. *)
CheckDeadMutant ==
  /\ lp = "dead"
  /\ rc' = 0
  /\ lp' = IF Main \notin alive THEN "stop" ELSE "alive"
  /\ UNCHANGED <<proc, queue, step, saved, stop, deaths, alive>>

(* The return codes are read after the list of the living was made. *)
CheckDead ==
  /\ lp = "dead"
  /\ rc' = IF \E p \in Procs : Broken(p) THEN 1 ELSE 0
  /\ lp' = IF rc' # 0 THEN "terminate"
           ELSE IF alive \intersect Trainers = {} THEN "stop" ELSE "alive"
  /\ UNCHANGED <<proc, queue, step, saved, stop, deaths, alive>>

ForceStop ==
  /\ lp = "stop"
  /\ stop' = TRUE /\ lp' = "drain"
  /\ UNCHANGED <<proc, queue, step, saved, deaths, alive, rc>>

(* Until all are gone, or sixty seconds have passed. *)
Drain ==
  /\ lp = "drain"
  /\ lp' = "terminate"
  /\ UNCHANGED <<proc, queue, step, saved, stop, deaths, alive, rc>>

(* SIGTERM; a rank deep in native code may not heed it in five seconds.    *)
Terminate ==
  /\ lp = "terminate"
  /\ \E S \in SUBSET {p \in Procs : Live(p)} :
       proc' = [p \in Procs |-> IF p \in S THEN "failed" ELSE proc[p]]
  /\ lp' = "kill"
  /\ UNCHANGED <<queue, step, saved, stop, deaths, alive, rc>>

Kill ==
  /\ lp = "kill"
  /\ proc' = [p \in Procs |-> IF Live(p) THEN "failed" ELSE proc[p]]
  /\ lp' = "end"
  /\ UNCHANGED <<queue, step, saved, stop, deaths, alive, rc>>

Launch == ListAlive \/ CheckDead \/ ForceStop \/ Drain \/ Terminate \/ Kill

-----------------------------------------------------------------------------
Ended == lp = "end" /\ UNCHANGED vars

Next ==
  \/ \E p \in Procs : Work(p) \/ Die(p)
  \/ Step \/ SaveFinal \/ WriteStop \/ Launch \/ Ended

(* Processes of their own; nothing obliges one to die. *)
Fairness ==
  /\ \A p \in Procs : WF_vars(Work(p))
  /\ WF_vars(Step) /\ WF_vars(SaveFinal) /\ WF_vars(WriteStop) /\ WF_vars(Launch)

Spec == Init /\ [][Next]_vars /\ Fairness

-----------------------------------------------------------------------------
(* Properties *)

(* Values of the processes and of the launcher's locals. *)
TypeOK ==
  /\ proc \in [Procs -> {"run", "barrier", "ok", "failed"}]
  /\ queue \in Nat /\ step \in 0 .. TotalSteps /\ deaths \in 0 .. MaxDeaths
  /\ saved \in BOOLEAN /\ stop \in BOOLEAN /\ rc \in {0, 1}
  /\ lp \in {"alive", "dead", "stop", "drain", "terminate", "kill", "end"}
  /\ alive \subseteq Procs

(* Return code 0 is the truth: every trainer rank returned and the final   *)
(* checkpoint is there, whoever died when, between two polls or during     *)
(* the shutdown.                                                           *)
SuccessIsReal ==
  lp = "end" /\ rc = 0 => saved /\ \A t \in Trainers : proc[t] = "ok"

=============================================================================
