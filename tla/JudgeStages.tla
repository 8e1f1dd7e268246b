----------------------------- MODULE JudgeStages -----------------------------
(***************************************************************************)
(* The judge of the inline evaluation, eval/inline_extra_evals.py, on      *)
(* trainer rank 0: behind the training loop a thread per evaluated         *)
(* checkpoint asks a language model about the rollouts.  The threads share *)
(* one executor, the queue of results and the queue of adversarial texts,  *)
(* and, under naive_lock, the naive descriptions, which are made once for  *)
(* all checkpoints.                                                        *)
(*                                                                         *)
(* Abstracted: rollouts, texts and scores; a call answers or fails (its    *)
(* retries are inside it), a feature has one scoring call.  Time is        *)
(* abstract: a thread's deadline may pass whenever it is under way.  The   *)
(* executor runs what it was given in any order, and a thread hands it     *)
(* its calls in one step.  What precedes the scoring of an evaluation is   *)
(* in InlineEval.                                                          *)
(***************************************************************************)
EXTENDS Integers, FiniteSets

CONSTANTS
  Features,    (* of the testbed                                           *)
  NEvals,      (* evaluations of the run                                   *)
  MaxStages,   (* MAX_CONCURRENT_STAGES                                    *)
  Workers,     (* EXTRA_EVAL_JUDGE_CONCURRENCY                             *)
  JudgeEvery   (* EXTRA_EVAL_JUDGE_EVERY                                   *)

ASSUME StagesAssumption ==
  /\ IsFiniteSet(Features) /\ NEvals \in Nat
  /\ MaxStages \in Nat \ {0} /\ Workers \in Nat \ {0}
  /\ JudgeEvery \in Nat \ {0}

Evals == 1 .. NEvals     (* an evaluation is its checkpoint *)
Warm == 0                (* the thread extra-naive-warm     *)
Threads == Evals \union {Warm}

NaiveKinds == {"naive desc", "naive texts"}
Calls == [of : Threads, f : Features,
          kind : NaiveKinds \union {"score", "describe", "texts"}]

Nobody == -1    (* no holder of the lock, no author of a description *)
Cached == -2    (* read from the cache file at the start             *)

VARIABLES
  (* the training loop *)
  tp,         (* where it is                                               *)
  evals,      (* the evaluations scored so far                             *)
  launches,   (* n_launch                                                  *)
  taken,      (* the items _broadcast_pending drained, by their checkpoint *)
  logged,     (* the entries sent to wandb                                 *)
  (* shared by the threads *)
  permits,    (* _STAGE_SEM                                                *)
  lock,       (* naive_lock: who holds it                                  *)
  naive,      (* per feature, which thread's call made desc and texts      *)
  pending,    (* pending_adv, by checkpoint                                *)
  results,    (* _RESULTS_Q                                                *)
  (* the judge threads *)
  pc,
  late,       (* the threads whose deadline has passed                     *)
  awaited,    (* the calls some _run_futures still waits for               *)
  advTrue,    (* per thread, the features with adversarial texts           *)
  (* the executor *)
  queued, running,
  good, bad,  (* the awaited calls that answered, and that failed          *)
  (* bookkeeping *)
  due,        (* the evaluations that are owed a judge entry               *)
  spoilt      (* the items in the hands of an evaluation that failed       *)

loop == <<tp, evals, launches, taken, logged>>
calls == <<awaited, queued, running, good, bad>>
history == <<due, spoilt>>
vars == <<tp, evals, launches, taken, logged, permits, lock, naive, pending,
          results, pc, late, awaited, advTrue, queued, running, good, bad,
          due, spoilt>>

Entry(k, what) == [src |-> k, what |-> what]

Ready(f, n) == n[f].desc # Nobody /\ n[f].texts # Nobody

(* prepare_extra_eval_assets: what an earlier run left in the cache; the   *)
(* warm thread starts if something is missing.                             *)
Init ==
  /\ naive \in [Features -> [desc : {Nobody, Cached}, texts : {Nobody, Cached}]]
  /\ \A f \in Features : naive[f].desc = Nobody => naive[f].texts = Nobody
  /\ pc = [t \in Threads |->
             IF t = Warm /\ \E f \in Features : ~Ready(f, naive) THEN "lock"
             ELSE IF t = Warm THEN "done" ELSE "off"]
  /\ tp = "top" /\ evals = 0 /\ launches = 0 /\ taken = {} /\ logged = {}
  /\ permits = MaxStages /\ lock = Nobody /\ pending = {} /\ results = {}
  /\ late = {} /\ awaited = {} /\ advTrue = [t \in Threads |-> {}]
  /\ queued = {} /\ running = {} /\ good = {} /\ bad = {}
  /\ due = {} /\ spoilt = {}

-----------------------------------------------------------------------------
(* The training loop *)

(* A step that has an evaluation to score begins with the texts the judge  *)
(* wrote so far, which every rank gets.                                    *)
BroadcastPending ==
  /\ tp = "top" /\ evals < NEvals
  /\ evals' = evals + 1
  /\ taken' = pending /\ pending' = {}
  /\ tp' = "score"
  /\ UNCHANGED <<launches, logged, permits, lock, naive, results, pc, late,
                 advTrue, calls, history>>

(* Mutant: the texts' scores go under the checkpoint being evaluated.      *)
ScoreMutant ==
  /\ tp = "score"
  /\ results' = results \union {Entry(evals, "adversarial") : k \in taken}
  /\ taken' = {} /\ tp' = "launch"
  /\ UNCHANGED <<evals, launches, logged, permits, lock, naive, pending, pc,
                 late, advTrue, calls, history>>

(* The ranks score the rollouts and these texts, and gather; the scores of *)
(* the texts are results of the checkpoint they were written for.          *)
Score ==
  /\ tp = "score"
  /\ results' = results \union {Entry(k, "adversarial") : k \in taken}
  /\ taken' = {} /\ tp' = "launch"
  /\ UNCHANGED <<evals, launches, logged, permits, lock, naive, pending, pc,
                 late, advTrue, calls, history>>

(* An error of any rank or shard: the evaluation has no scores, and the    *)
(* texts are gone with it.                                                 *)
ScoreFails ==
  /\ tp = "score"
  /\ spoilt' = spoilt \union taken
  /\ taken' = {} /\ tp' = "poll"
  /\ UNCHANGED <<evals, launches, logged, permits, lock, naive, pending,
                 results, pc, late, advTrue, calls, due>>

(* launch_judge_stage: a thread if a permit is free, or else the entry     *)
(* that tells the checkpoint was skipped.                                  *)
Launch ==
  /\ tp = "launch"
  /\ launches' = launches + 1
  /\ IF launches % JudgeEvery # 0
     THEN UNCHANGED <<permits, pc, results, due>>
     ELSE /\ due' = due \union {evals}
          /\ IF permits = 0
             THEN /\ results' = results \union {Entry(evals, "skipped")}
                  /\ UNCHANGED <<permits, pc>>
             ELSE /\ permits' = permits - 1
                  /\ pc' = [pc EXCEPT ![evals] = "lock"]
                  /\ results' = results
  /\ tp' = "poll"
  /\ UNCHANGED <<evals, taken, logged, lock, naive, pending, late, advTrue,
                 calls, spoilt>>

Polled ==
  /\ logged' = logged \union results /\ results' = {}
  /\ UNCHANGED <<evals, launches, taken, permits, lock, naive, pending, pc,
                 late, advTrue, calls, history>>

(* poll_judge_results, in every step, with an evaluation or without.       *)
Poll ==
  /\ tp = "poll" \/ (tp = "top" /\ results # {})
  /\ tp' = "top"
  /\ Polled

(* After the last step: wait_for_judge_stages, until all have ended or 900 *)
(* seconds are over, ...                                                   *)
EndWait ==
  /\ tp = "top" /\ evals = NEvals
  /\ tp' = "last poll"
  /\ UNCHANGED <<evals, launches, taken, logged, permits, lock, naive,
                 pending, results, pc, late, advTrue, calls, history>>

(* ... and the last results.  STOP is written; from here on the            *)
(* interpreter shuts down and takes no new call.                           *)
LastPoll ==
  /\ tp = "last poll"
  /\ tp' = "exit"
  /\ Polled

(* The workers are joined after they have run all there is; the threads of *)
(* the stages are daemons and end with the process.                        *)
Exit ==
  /\ tp = "exit" /\ queued = {} /\ running = {}
  /\ tp' = "gone"
  /\ UNCHANGED <<evals, launches, taken, logged, permits, lock, naive,
                 pending, results, pc, late, advTrue, calls, history>>

Trainer ==
  \/ BroadcastPending \/ Score \/ ScoreFails \/ Launch \/ Poll
  \/ EndWait \/ LastPoll \/ Exit

-----------------------------------------------------------------------------
(* A judge thread *)

Up == tp # "gone"

Mine(t) == {c \in awaited : c.of = t}

Goto(t, l) == pc' = [pc EXCEPT ![t] = l]

Submit(S) == queued' = queued \union S /\ awaited' = awaited \union S

NaiveCall(t, f) ==
  [of |-> t, f |-> f,
   kind |-> IF naive[f].desc = Nobody THEN "naive desc" ELSE "naive texts"]

(* Where a thread goes from _ensure_naive. *)
AfterNaive(t) == IF t = Warm THEN "done" ELSE "submit"

(* What raises in a stage is an "error" entry, in the warm thread the end. *)
AfterError(t) == IF t = Warm THEN "done" ELSE "error"

(* Mutant: a thread does not wait for the lock. *)
EnsureNaiveMutant(t) ==
  LET todo == {f \in Features : ~Ready(f, naive)} IN
  /\ Up /\ pc[t] = "lock"
  /\ IF todo = {} THEN Goto(t, AfterNaive(t)) /\ UNCHANGED <<lock, calls>>
     ELSE IF tp = "exit" THEN Goto(t, AfterError(t)) /\ UNCHANGED <<lock, calls>>
     ELSE /\ lock' = t /\ Goto(t, "naive")
          /\ Submit({NaiveCall(t, f) : f \in todo})
          /\ UNCHANGED <<running, good, bad>>
  /\ UNCHANGED <<loop, permits, naive, pending, results, late, advTrue, history>>

(* _ensure_naive, once it has the lock (for which there is no deadline):   *)
(* the calls for what is still missing.                                    *)
EnsureNaive(t) ==
  LET todo == {f \in Features : ~Ready(f, naive)} IN
  /\ Up /\ pc[t] = "lock" /\ lock = Nobody
  /\ IF todo = {} THEN Goto(t, AfterNaive(t)) /\ UNCHANGED <<lock, calls>>
     ELSE IF tp = "exit" THEN Goto(t, AfterError(t)) /\ UNCHANGED <<lock, calls>>
     ELSE /\ lock' = t /\ Goto(t, "naive")
          /\ Submit({NaiveCall(t, f) : f \in todo})
          /\ UNCHANGED <<running, good, bad>>
  /\ UNCHANGED <<loop, permits, naive, pending, results, late, advTrue, history>>

(* The calls about the rollouts, for every feature. *)
StageCalls(t) == [of : {t}, f : Features, kind : {"score", "describe"}]

SubmitStage(t) ==
  /\ Up /\ pc[t] = "submit"
  /\ IF tp = "exit" THEN Goto(t, "error") /\ UNCHANGED calls
     ELSE /\ Submit(StageCalls(t)) /\ Goto(t, "judge")
          /\ UNCHANGED <<running, good, bad>>
  /\ UNCHANGED <<loop, permits, lock, naive, pending, results, late, advTrue,
                 history>>

(* The call that an answer to c brings about (chain). *)
FollowUp(c) ==
  IF c.kind = "naive desc" THEN {[c EXCEPT !.kind = "naive texts"]}
  ELSE IF c.kind = "describe" THEN {[c EXCEPT !.kind = "texts"]}
  ELSE {}

(* _run_futures hands an answer to chain.  A call that chain cannot submit *)
(* raises out of _run_futures: the thread's other calls stay where they    *)
(* are, and nobody will look at them.                                      *)
Collect(t, c) ==
  /\ Up /\ c \in Mine(t) \intersect (good \union bad) /\ t \notin late
  /\ naive' = IF c \in bad \/ c.kind \notin NaiveKinds THEN naive
              ELSE IF c.kind = "naive desc" THEN [naive EXCEPT ![c.f].desc = t]
              ELSE [naive EXCEPT ![c.f].texts = t]
  /\ advTrue' = IF c \in good /\ c.kind = "texts"
                THEN [advTrue EXCEPT ![t] = @ \union {c.f}] ELSE advTrue
  /\ IF c \in good /\ FollowUp(c) # {} /\ tp = "exit"
     THEN /\ awaited' = awaited \ Mine(t)
          /\ good' = good \ Mine(t) /\ bad' = bad \ Mine(t)
          /\ Goto(t, AfterError(t)) /\ queued' = queued
          /\ lock' = IF lock = t THEN Nobody ELSE lock
     ELSE /\ LET more == IF c \in good THEN FollowUp(c) ELSE {}
             IN /\ awaited' = (awaited \ {c}) \union more
                /\ queued' = queued \union more
          /\ good' = good \ {c} /\ bad' = bad \ {c}
          /\ UNCHANGED <<pc, lock>>
  /\ UNCHANGED <<loop, permits, pending, results, late, running, history>>

Pass(t) ==
  /\ Up /\ pc[t] \in {"lock", "naive", "submit", "judge"} /\ t \notin late
  /\ late' = late \union {t}
  /\ UNCHANGED <<loop, permits, lock, naive, pending, results, pc, calls,
                 advTrue, history>>

(* Mutant: the calls not begun are not cancelled. *)
TimeOutMutant(t) ==
  /\ Up /\ t \in late /\ Mine(t) # {}
  /\ awaited' = awaited \ Mine(t)
  /\ good' = good \ Mine(t) /\ bad' = bad \ Mine(t)
  /\ UNCHANGED <<loop, permits, lock, naive, pending, results, pc, late,
                 advTrue, queued, running, history>>

(* Mutant: the wait looks at the clock only when a call has ended. *)
TimeOutHangsMutant(t) ==
  /\ Up /\ t \in late /\ Mine(t) \intersect (good \union bad) # {}
  /\ awaited' = awaited \ Mine(t) /\ queued' = queued \ Mine(t)
  /\ good' = good \ Mine(t) /\ bad' = bad \ Mine(t)
  /\ UNCHANGED <<loop, permits, lock, naive, pending, results, pc, late,
                 advTrue, running, history>>

(* Past its deadline _run_futures cancels what has not begun and gives the *)
(* rest up; the answers that have come and those to come are lost.         *)
TimeOut(t) ==
  /\ Up /\ t \in late /\ Mine(t) # {}
  /\ awaited' = awaited \ Mine(t) /\ queued' = queued \ Mine(t)
  /\ good' = good \ Mine(t) /\ bad' = bad \ Mine(t)
  /\ UNCHANGED <<loop, permits, lock, naive, pending, results, pc, late,
                 advTrue, running, history>>

(* The end of _ensure_naive: the cache is written, the lock released.      *)
EndNaive(t) ==
  /\ Up /\ pc[t] = "naive" /\ Mine(t) = {}
  /\ lock' = Nobody /\ Goto(t, AfterNaive(t))
  /\ UNCHANGED <<loop, permits, naive, pending, results, late, advTrue, calls,
                 history>>

(* All calls of the stage are in, or given up: its adversarial texts wait  *)
(* for the next evaluation, ...                                            *)
PutTexts(t) ==
  /\ Up /\ pc[t] = "judge" /\ Mine(t) = {}
  /\ pending' = IF advTrue[t] = {} THEN pending ELSE pending \union {t}
  /\ Goto(t, "put")
  /\ UNCHANGED <<loop, permits, lock, naive, results, late, advTrue, calls,
                 history>>

(* ... its metrics are a result, as is the error of one that raised, ...   *)
PutResult(t) ==
  /\ Up /\ pc[t] \in {"put", "error"}
  /\ results' = results \union
                  {Entry(t, IF pc[t] = "put" THEN "judge" ELSE "error")}
  /\ Goto(t, "release")
  /\ UNCHANGED <<loop, permits, lock, naive, pending, late, advTrue, calls,
                 history>>

(* ... and the permit goes back. *)
Release(t) ==
  /\ Up /\ pc[t] = "release"
  /\ permits' = permits + 1 /\ Goto(t, "done")
  /\ UNCHANGED <<loop, lock, naive, pending, results, late, advTrue, calls,
                 history>>

Judge(t) ==
  \/ EnsureNaive(t) \/ SubmitStage(t) \/ (\E c \in Calls : Collect(t, c))
  \/ TimeOut(t) \/ EndNaive(t) \/ PutTexts(t) \/ PutResult(t) \/ Release(t)

-----------------------------------------------------------------------------
(* The executor's threads *)

Begin(c) ==
  /\ c \in queued /\ Cardinality(running) < Workers
  /\ queued' = queued \ {c} /\ running' = running \union {c}
  /\ UNCHANGED <<loop, permits, lock, naive, pending, results, pc, late,
                 awaited, advTrue, good, bad, history>>

(* A call ends; only what is awaited is looked at.                         *)
Answer(c) ==
  /\ c \in running
  /\ running' = running \ {c}
  /\ IF c \notin awaited THEN UNCHANGED <<good, bad>>
     ELSE \/ good' = good \union {c} /\ bad' = bad
          \/ bad' = bad \union {c} /\ good' = good
  /\ UNCHANGED <<loop, permits, lock, naive, pending, results, pc, late,
                 awaited, advTrue, queued, history>>

Work == \E c \in Calls : Begin(c) \/ Answer(c)

-----------------------------------------------------------------------------
Gone == tp = "gone" /\ UNCHANGED vars

Next ==
  \/ Trainer
  \/ \E t \in Threads : Judge(t) \/ Pass(t)
  \/ Work \/ Gone

(* The loop goes on, and so does some judge thread that can, and deadlines *)
(* pass; nothing is assumed of the calls, which may hang.                  *)
Fairness ==
  /\ WF_vars(Trainer)
  /\ WF_vars(\E t \in Threads : Judge(t))
  /\ WF_vars(\E t \in Threads : Pass(t))

Spec == Init /\ [][Next]_vars /\ Fairness

-----------------------------------------------------------------------------
(* Properties *)

(* The values of the variables. *)
TypeOK ==
  /\ tp \in {"top", "score", "launch", "poll", "last poll", "exit", "gone"}
  /\ evals \in 0 .. NEvals /\ launches \in 0 .. NEvals
  /\ taken \subseteq Evals /\ pending \subseteq Evals
  /\ permits \in 0 .. MaxStages /\ lock \in Threads \union {Nobody}
  /\ naive \in [Features -> [desc : Threads \union {Nobody, Cached},
                             texts : Threads \union {Nobody, Cached}]]
  /\ pc \in [Threads -> {"off", "lock", "naive", "submit", "judge", "put",
                         "error", "release", "done"}]
  /\ late \subseteq Threads /\ advTrue \in [Threads -> SUBSET Features]
  /\ awaited \subseteq Calls /\ queued \subseteq Calls
  /\ running \subseteq Calls /\ good \subseteq awaited /\ bad \subseteq awaited
  /\ \A e \in results \union logged : e.src \in Evals

(* A naive description or text, once there, stays: every checkpoint is     *)
(* compared with the same naive arm, although threads run side by side,    *)
(* give up at their deadlines and leave their calls running ("computed     *)
(* ONCE and cached on disk").                                              *)
NaiveArmFixed ==
  [][\A f \in Features :
       /\ naive[f].desc # Nobody => naive'[f].desc = naive[f].desc
       /\ naive[f].texts # Nobody => naive'[f].texts = naive[f].texts]_vars

JudgeEntries(k) == {e \in results \union logged :
                      e.src = k /\ e.what # "adversarial"}

UnderWay(k) == pc[k] \in {"lock", "naive", "submit", "judge", "put", "error"}

(* The checkpoints whose stage has handed over adversarial texts, and      *)
(* those whose texts have been scored.                                     *)
Wrote == {k \in Evals : /\ advTrue[k] # {}
                        /\ pc[k] = "put" \/ Entry(k, "judge") \in JudgeEntries(k)}
Scored == {k \in Evals : Entry(k, "adversarial") \in results \union logged}

(* What the judge was asked for arrives, once and under its own            *)
(* checkpoint, however late: every launched evaluation ends in one entry,  *)
(* be it skipped, judged or in error; and the texts a stage wrote are      *)
(* waiting, being scored, scored, or lost with an evaluation that failed.  *)
NothingLost ==
  /\ \A k \in due : Cardinality(JudgeEntries(k)) = IF UnderWay(k) THEN 0 ELSE 1
  /\ Wrote = pending \union taken \union spoilt \union Scored
  /\ Cardinality(Wrote) = Cardinality(pending) + Cardinality(taken)
                            + Cardinality(spoilt) + Cardinality(Scored)

(* A stage that is over leaves nothing in the executor's queue in the way  *)
(* of the next one: what is queued is awaited.  Only at exit, when a       *)
(* stage's chain finds the interpreter shutting down, its calls stay, and  *)
(* the process runs and pays them all before it ends.                      *)
NoOrphans ==
  /\ tp \notin {"exit", "gone"} => queued \subseteq awaited
  /\ \A c \in queued \ awaited : pc[c.of] \in {"error", "release", "done"}

(* The loop has come to its end, and every judge thread to its own or to   *)
(* that of the process.                                                    *)
Over == tp = "gone" \/ (tp = "exit" /\ \A t \in Threads : pc[t] \in {"off", "done"})

=============================================================================
