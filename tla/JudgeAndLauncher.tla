-------------------------- MODULE JudgeAndLauncher --------------------------
(***************************************************************************)
(* JudgeStages and Launcher side by side: what happens behind the training *)
(* loop inside rank 0's process, and around all processes.  The two share  *)
(* no state; part is chosen at the start, and the other stays where it is. *)
(***************************************************************************)
EXTENDS JudgeStages

(* Those of Launcher. *)
CONSTANTS Ranks, Trainers, Main, TotalSteps, Cap, MaxDeaths

VARIABLES part, proc, queue, step, saved, stop, deaths, lp, alive, rc

Run == INSTANCE Launcher

ASSUME RunAssumption == Run!LauncherAssumption

PartsInit == part \in {"judge", "launcher"} /\ Init /\ Run!Init

runVars == <<proc, queue, step, saved, stop, deaths, lp, alive, rc>>

PartsVars == <<part, vars, runVars>>

(* A step of the part. *)
InJudge(A) == part = "judge" /\ A /\ UNCHANGED <<part, runVars>>
InLauncher(A) == part = "launcher" /\ A /\ UNCHANGED <<part, vars>>

PartsNext == InJudge(Next) \/ InLauncher(Run!Next)

(* The fairness of either part. *)
PartsSpec ==
  /\ PartsInit /\ [][PartsNext]_PartsVars
  /\ WF_PartsVars(InJudge(Trainer))
  /\ WF_PartsVars(InJudge(\E t \in Threads : Judge(t)))
  /\ WF_PartsVars(InJudge(\E t \in Threads : Pass(t)))
  /\ \A p \in Run!Procs : WF_PartsVars(InLauncher(Run!Work(p)))
  /\ WF_PartsVars(InLauncher(Run!Step)) /\ WF_PartsVars(InLauncher(Run!SaveFinal))
  /\ WF_PartsVars(InLauncher(Run!WriteStop)) /\ WF_PartsVars(InLauncher(Run!Launch))

(* Return code 0 of run_launch is the truth (Launcher). *)
SuccessIsReal == Run!SuccessIsReal

(* Both parts come to an end.  The judge: the loop and every judge thread, *)
(* even if no call ever returns, the calls of other stages fill the        *)
(* executor, and another thread holds naive_lock, for which there is no    *)
(* deadline.  The launcher, whoever dies: the survivors of a dead trainer  *)
(* rank never come out of their collective, and rank 0 waits for ever for  *)
(* blocks of dead rollout ranks.                                           *)
PartsEnd == <>IF part = "judge" THEN Over ELSE lp = "end"

=============================================================================
