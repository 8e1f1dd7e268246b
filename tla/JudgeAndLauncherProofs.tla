----------------------- MODULE JudgeAndLauncherProofs -----------------------
(***************************************************************************)
(* Theorems about JudgeStages and Launcher, and about the two side by      *)
(* side, for any features, evaluations, permits, executor threads, ranks,  *)
(* steps and deaths.  The argument for the judge: whatever is awaited is   *)
(* awaited by a thread inside _run_futures, what concerns the naive arm by *)
(* the holder of naive_lock, and for something that is not there yet; and  *)
(* a call is handed to the executor once; and the entry and the texts of   *)
(* an evaluation are in one place each.  For the launcher: a process       *)
(* that is gone stays gone, so the list of the living errs on one side     *)
(* only; and no trainer rank leaves the last barrier before rank 0 has     *)
(* saved.                                                                  *)
(***************************************************************************)
EXTENDS JudgeAndLauncher, FiniteSetTheorems, TLAPS

-----------------------------------------------------------------------------
(* The invariant *)

PCs == {"off", "lock", "naive", "submit", "judge", "put", "error", "release",
        "done"}

Authors == Threads \union {Nobody, Cached}

Arms == [desc : Authors, texts : Authors]

(* The calls that are somewhere. *)
Known == awaited \union queued \union running

Follower(c) ==
  [c EXCEPT !.kind = IF c.kind = "naive desc" THEN "naive texts" ELSE "texts"]

(* What the properties need of the types. *)
Typed ==
  /\ evals \in 0 .. NEvals
  /\ naive \in [Features -> Arms]
  /\ pc \in [Threads -> PCs]
  /\ awaited \subseteq Calls /\ queued \subseteq Calls /\ running \subseteq Calls
  /\ good \subseteq awaited /\ bad \subseteq awaited

(* A stage's thread starts once, with its evaluation. *)
NotBegun ==
  /\ tp \in {"score", "launch"} => evals \in Evals
  /\ \A k \in Evals :
       k > evals \/ (k = evals /\ tp \in {"score", "launch"}) => pc[k] = "off"

(* The holder of naive_lock is in _ensure_naive. *)
Held == \A t \in Threads : lock = t <=> pc[t] = "naive"

(* What is awaited is awaited by a thread in _run_futures. *)
Waiting ==
  \A c \in awaited : pc[c.of] = IF c.kind \in NaiveKinds THEN "naive" ELSE "judge"

(* A naive call is for what is not there yet, texts after the description. *)
Missing ==
  /\ \A c \in awaited :
       /\ c.kind = "naive desc" => naive[c.f].desc = Nobody
       /\ c.kind = "naive texts" =>
            naive[c.f].texts = Nobody /\ naive[c.f].desc # Nobody
  /\ \A f \in Features : naive[f].desc = Nobody => naive[f].texts = Nobody

(* A call is in one place of the executor, ... *)
Apart ==
  /\ queued \intersect running = {}
  /\ (good \union bad) \intersect (queued \union running) = {}
  /\ good \intersect bad = {}

(* ... and not there before its thread, or the call it follows, gives it.  *)
Fresh ==
  /\ \A c \in Known :
       /\ pc[c.of] \notin {"off", "lock"}
       /\ pc[c.of] \in {"naive", "submit"} => c.kind \in NaiveKinds
  /\ \A c \in awaited : c.kind \in {"naive desc", "describe"} =>
       Follower(c) \notin Known

(* What is queued is awaited, until the interpreter shuts down. *)
Left ==
  \A c \in queued \ awaited :
    /\ tp \in {"exit", "gone"}
    /\ pc[c.of] \in {"done", "error", "release"}

SInv == Typed /\ NotBegun /\ Held /\ Waiting /\ Missing /\ Apart /\ Fresh /\ Left

-----------------------------------------------------------------------------
(* Two calls that agree in everything are one. *)
LEMMA SameCall ==
  \A c, d \in Calls : c.of = d.of /\ c.f = d.f /\ c.kind = d.kind => c = d
BY DEF Calls

(* The call that follows another. *)
LEMMA Following ==
  ASSUME NEW c \in Calls, c.kind \in {"naive desc", "describe"}
  PROVE  /\ FollowUp(c) = {Follower(c)}
         /\ Follower(c) \in Calls
         /\ Follower(c).of = c.of /\ Follower(c).f = c.f
         /\ Follower(c).kind =
              IF c.kind = "naive desc" THEN "naive texts" ELSE "texts"
BY DEF FollowUp, Follower, Calls, NaiveKinds

LEMMA NoFollowing ==
  ASSUME NEW c \in Calls, c.kind \notin {"naive desc", "describe"}
  PROVE  FollowUp(c) = {}
BY DEF FollowUp

(* An author is a thread, or one of two that are none. *)
LEMMA ThreadsAre == Threads \subseteq Nat /\ Warm \in Threads /\ Evals \subseteq Threads
                    /\ Nobody \notin Threads /\ Evals \subseteq Nat \ {Warm}
BY StagesAssumption DEF Threads, Evals, Warm, Nobody

(* The invariant holds at the start. *)
LEMMA StartInv == Init => SInv
<1> SUFFICES ASSUME Init PROVE SInv
  OBVIOUS
<1> USE ThreadsAre
<1>1. Typed
  <2>1. [desc : {Nobody, Cached}, texts : {Nobody, Cached}] \subseteq Arms
    BY DEF Arms, Authors
  <2>2. naive \in [Features -> Arms]
    BY <2>1 DEF Init
  <2>3. pc \in [Threads -> PCs]
    BY DEF Init, PCs
  <2> QED
    BY <2>2, <2>3, StagesAssumption DEF Init, Typed
<1>2. NotBegun
  BY DEF Init, NotBegun, Warm
<1>3. Held
  BY DEF Init, Held
<1>4. Missing
  BY DEF Init, Missing
<1>5. Waiting /\ Apart /\ Fresh /\ Left
  BY DEF Init, Waiting, Apart, Fresh, Left, Known
<1> QED
  BY <1>1, <1>2, <1>3, <1>4, <1>5 DEF SInv

(* The loop goes on: no call and no judge thread but a new one changes.    *)
LEMMA TrainerInv == SInv /\ Trainer => SInv'
<1> SUFFICES ASSUME SInv, Trainer PROVE SInv'
  OBVIOUS
<1> USE ThreadsAre
<1>1. CASE UNCHANGED <<pc, evals>> /\ UNCHANGED <<lock, naive, calls>>
           /\ (tp' \in {"exit", "gone"} \/ tp \notin {"exit", "gone"})
           /\ (tp' \in {"score", "launch"} => tp \in {"score", "launch"})
  <2>1. (Typed /\ Held /\ Waiting /\ Missing /\ Apart /\ Fresh)'
    BY <1>1 DEF SInv, Typed, Held, Waiting, Missing, Apart, Fresh, Known, calls
  <2>2. NotBegun' /\ Left'
    BY <1>1 DEF SInv, NotBegun, Left, calls
  <2> QED
    BY <2>1, <2>2 DEF SInv
<1>2. CASE BroadcastPending
  <2>1. /\ tp = "top" /\ tp' = "score" /\ UNCHANGED <<pc, lock, naive, calls>>
        /\ evals \in 0 .. NEvals /\ evals < NEvals /\ evals' = evals + 1
    BY <1>2 DEF BroadcastPending, SInv, Typed
  <2>2. evals' \in 0 .. NEvals /\ evals' \in Evals /\ evals \in Nat
    BY <2>1, StagesAssumption DEF Evals
  <2>3. (Typed /\ Held /\ Waiting /\ Missing /\ Apart /\ Fresh)'
    BY <2>1, <2>2 DEF SInv, Typed, Held, Waiting, Missing, Apart, Fresh, Known, calls
  <2>4. \A k \in Evals : k > evals' \/ k = evals' => k > evals
    BY <2>1, <2>2 DEF Evals
  <2>5. NotBegun'
    BY <2>1, <2>2, <2>4 DEF SInv, NotBegun
  <2>6. Left'
    BY <2>1 DEF SInv, Left, calls
  <2> QED
    BY <2>3, <2>5, <2>6 DEF SInv
<1>3. CASE Launch
  <2>1. UNCHANGED <<evals, lock, naive, calls>> /\ tp = "launch" /\ tp' = "poll"
    BY <1>3 DEF Launch
  <2>2. CASE UNCHANGED pc
    <3>1. (Typed /\ Held /\ Waiting /\ Missing /\ Apart /\ Fresh)'
      BY <2>1, <2>2 DEF SInv, Typed, Held, Waiting, Missing, Apart, Fresh, Known, calls
    <3>2. NotBegun' /\ Left'
      BY <2>1, <2>2 DEF SInv, NotBegun, Left, calls
    <3> QED
      BY <3>1, <3>2 DEF SInv
  <2>3. CASE pc' = [pc EXCEPT ![evals] = "lock"]
    <3>1. evals \in Threads /\ evals \in Evals /\ pc[evals] = "off"
      BY <2>1 DEF SInv, NotBegun
    <3>2. pc' \in [Threads -> PCs]
          /\ \A t \in Threads : pc'[t] = IF t = evals THEN "lock" ELSE pc[t]
      BY <2>3, <3>1 DEF SInv, Typed, PCs
    <3>3. \A c \in Known : c \in Calls /\ c.of \in Threads /\ c.of # evals
      BY <3>1 DEF SInv, Typed, Fresh, Known, Calls
    <3>4. (Typed /\ Missing /\ Apart)'
      BY <2>1, <3>2 DEF SInv, Typed, Missing, Apart, calls
    <3>5. Held'
      BY <2>1, <3>1, <3>2 DEF SInv, Held
    <3>6. (Waiting /\ Fresh /\ Left)'
      BY <2>1, <3>2, <3>3 DEF SInv, Waiting, Fresh, Left, Known, calls
    <3>7. NotBegun'
      BY <2>1, <3>2 DEF SInv, Typed, NotBegun, Evals
    <3> QED
      BY <3>4, <3>5, <3>6, <3>7 DEF SInv
  <2> QED
    BY <1>3, <2>2, <2>3 DEF Launch
<1>4. CASE Score \/ ScoreFails \/ Poll \/ EndWait \/ LastPoll \/ Exit
  BY <1>1, <1>4 DEF Score, ScoreFails, Poll, EndWait, LastPoll, Polled, Exit
<1> QED
  BY <1>2, <1>3, <1>4 DEF Trainer

-----------------------------------------------------------------------------
(* The judge threads *)

(* What a step of a judge thread t that has begun leaves of NotBegun.      *)
LEMMA StaysBegun ==
  ASSUME SInv, NEW t \in Threads, pc[t] # "off", UNCHANGED <<evals, tp>>,
         \A s \in Threads \ {t} : pc'[s] = pc[s]
  PROVE  NotBegun'
BY ThreadsAre DEF SInv, NotBegun

(* EnsureNaive hands over calls that are not known, for what is missing.   *)
LEMMA EnsureNaiveInv ==
  ASSUME SInv, NEW t \in Threads, EnsureNaive(t)
  PROVE  SInv'
<1> DEFINE todo == {f \in Features : ~Ready(f, naive)}
           new  == {NaiveCall(t, f) : f \in todo}
<1>1. /\ Up /\ pc[t] = "lock" /\ lock = Nobody
      /\ UNCHANGED <<loop, naive, running, good, bad>>
  BY DEF EnsureNaive, calls
<1>2. NotBegun' /\ UNCHANGED <<evals, tp>>
  BY <1>1, StaysBegun, ThreadsAre DEF EnsureNaive, Goto, loop, SInv, Typed
<1>3. CASE UNCHANGED <<lock, calls>> /\ \E l \in {"done", "submit", "error"} : Goto(t, l)
  <2>1. PICK l \in {"done", "submit", "error"} : pc' = [pc EXCEPT ![t] = l]
    BY <1>3 DEF Goto
  <2>2. pc' \in [Threads -> PCs]
        /\ \A s \in Threads : pc'[s] = IF s = t THEN l ELSE pc[s]
    BY <2>1 DEF SInv, Typed, PCs
  <2>3. \A c \in Known : c \in Calls /\ c.of \in Threads /\ c.of # t
    BY <1>1 DEF SInv, Typed, Fresh, Known, Calls
  <2>4. (Typed /\ Missing /\ Apart)'
    BY <1>1, <1>2, <1>3, <2>2 DEF SInv, Typed, Missing, Apart, calls
  <2>5. Held'
    BY <1>1, <1>3, <2>2, ThreadsAre DEF SInv, Held
  <2>6. (Waiting /\ Fresh /\ Left)'
    BY <1>2, <1>3, <2>2, <2>3 DEF SInv, Waiting, Fresh, Left, Known, calls
  <2> QED
    BY <1>2, <2>4, <2>5, <2>6 DEF SInv
<1>4. CASE /\ lock' = t /\ Goto(t, "naive")
           /\ queued' = queued \union new /\ awaited' = awaited \union new
  <2>1. pc' \in [Threads -> PCs]
        /\ \A s \in Threads : pc'[s] = IF s = t THEN "naive" ELSE pc[s]
    BY <1>4 DEF Goto, SInv, Typed, PCs
  <2>2. \A c \in Known : c \in Calls /\ c.of \in Threads /\ c.of # t
    BY <1>1 DEF SInv, Typed, Fresh, Known, Calls
  <2>3. ASSUME NEW c \in new
        PROVE  /\ c \in Calls /\ c.of = t /\ c.f \in todo
               /\ c.kind = IF naive[c.f].desc = Nobody
                           THEN "naive desc" ELSE "naive texts"
               /\ c.kind \in NaiveKinds
    <3>1. ASSUME NEW f \in Features
          PROVE  /\ NaiveCall(t, f) \in Calls
                 /\ NaiveCall(t, f).of = t /\ NaiveCall(t, f).f = f
                 /\ NaiveCall(t, f).kind = IF naive[f].desc = Nobody
                                          THEN "naive desc" ELSE "naive texts"
                 /\ NaiveCall(t, f).kind \in NaiveKinds
      BY DEF NaiveCall, Calls, NaiveKinds
    <3>2. PICK f \in todo : c = NaiveCall(t, f)
      OBVIOUS
    <3>3. f \in Features
      OBVIOUS
    <3> HIDE DEF todo
    <3> QED
      BY <3>1, <3>2, <3>3
  <2>4. new \intersect Known = {}
    BY <2>2, <2>3
  <2>5. Typed'
    BY <1>1, <1>2, <1>4, <2>1, <2>3 DEF SInv, Typed
  <2>6. Held'
    BY <1>1, <1>4, <2>1, ThreadsAre DEF SInv, Held
  <2>7. Waiting'
    BY <1>4, <2>1, <2>2, <2>3 DEF SInv, Waiting, Known
  <2>8. Missing'
    <3>1. ASSUME NEW c \in new
          PROVE  /\ c.kind = "naive desc" => naive[c.f].desc = Nobody
                 /\ c.kind = "naive texts" =>
                      naive[c.f].texts = Nobody /\ naive[c.f].desc # Nobody
      <4>1. ~Ready(c.f, naive)
        BY <2>3
      <4>2. naive[c.f].desc = Nobody \/ naive[c.f].texts = Nobody
        BY <4>1 DEF Ready
      <4>3. c.kind = IF naive[c.f].desc = Nobody THEN "naive desc" ELSE "naive texts"
        BY <2>3
      <4> QED
        BY <4>2, <4>3
    <3> QED
      BY <1>1, <1>4, <3>1 DEF SInv, Missing
  <2>9. Apart'
    BY <1>1, <1>4, <2>4 DEF SInv, Apart, Typed, Known
  <2>10. Fresh'
    <3>1. Known' = Known \union new
      BY <1>1, <1>4 DEF Known
    <3>2. \A c \in Known' : /\ pc'[c.of] \notin {"off", "lock"}
                            /\ pc'[c.of] \in {"naive", "submit"} => c.kind \in NaiveKinds
      BY <3>1, <2>1, <2>2, <2>3 DEF SInv, Fresh
    <3>3. ASSUME NEW c \in awaited, c.kind \in {"naive desc", "describe"}
          PROVE  Follower(c) \notin Known'
      <4>1. c \in Calls /\ c.of # t /\ Follower(c).of = c.of
        BY <3>3, <2>2, Following DEF Known
      <4> QED
        BY <3>1, <3>3, <4>1, <2>3 DEF SInv, Fresh
    <3>4. ASSUME NEW c \in new, c.kind \in {"naive desc", "describe"}
          PROVE  Follower(c) \notin Known'
      <4>1. c.kind = "naive desc" /\ naive[c.f].desc = Nobody
        BY <3>4, <2>3
      <4>2. Follower(c).of = t /\ Follower(c).f = c.f /\ Follower(c).kind = "naive texts"
        BY <3>4, <4>1, <2>3, Following
      <4> QED
        BY <3>1, <4>1, <4>2, <2>2, <2>3
    <3> QED
      BY <1>4, <3>2, <3>3, <3>4 DEF Fresh
  <2>11. Left'
    BY <1>2, <1>4, <2>1, <2>2 DEF SInv, Left, Known
  <2> QED
    BY <1>2, <2>5, <2>6, <2>7, <2>8, <2>9, <2>10, <2>11 DEF SInv
<1> QED
  BY <1>3, <1>4 DEF EnsureNaive, AfterNaive, AfterError, Submit

(* SubmitStage hands over the calls of a stage, of kinds not known before. *)
LEMMA SubmitStageInv ==
  ASSUME SInv, NEW t \in Threads, SubmitStage(t)
  PROVE  SInv'
<1> DEFINE new == StageCalls(t)
<1>1. /\ Up /\ pc[t] = "submit" /\ UNCHANGED <<loop, lock, naive, running, good, bad>>
  BY DEF SubmitStage, calls
<1>2. NotBegun' /\ UNCHANGED <<evals, tp>>
  BY <1>1, StaysBegun, ThreadsAre DEF SubmitStage, Goto, loop, SInv, Typed
<1>3. \A c \in Known : /\ c \in Calls /\ c.of \in Threads
                       /\ c.of = t => c.kind \in NaiveKinds /\ c \notin awaited
  BY <1>1 DEF SInv, Typed, Fresh, Waiting, Known, Calls
<1>4. CASE Goto(t, "error") /\ UNCHANGED calls
  <2>1. pc' \in [Threads -> PCs]
        /\ \A s \in Threads : pc'[s] = IF s = t THEN "error" ELSE pc[s]
    BY <1>4 DEF Goto, SInv, Typed, PCs
  <2>2. (Typed /\ Missing /\ Apart)'
    BY <1>1, <1>2, <1>4, <2>1 DEF SInv, Typed, Missing, Apart, calls
  <2>3. Held'
    BY <1>1, <2>1 DEF SInv, Held
  <2>4. (Waiting /\ Fresh /\ Left)'
    BY <1>2, <1>3, <1>4, <2>1 DEF SInv, Waiting, Fresh, Left, Known, calls
  <2> QED
    BY <1>2, <2>2, <2>3, <2>4 DEF SInv
<1>5. CASE /\ queued' = queued \union new /\ awaited' = awaited \union new
           /\ Goto(t, "judge")
  <2>1. pc' \in [Threads -> PCs]
        /\ \A s \in Threads : pc'[s] = IF s = t THEN "judge" ELSE pc[s]
    BY <1>5 DEF Goto, SInv, Typed, PCs
  <2>2. \A c \in new : /\ c \in Calls /\ c.of = t /\ c.kind \in {"score", "describe"}
                       /\ c.kind \notin NaiveKinds
    BY DEF StageCalls, Calls, NaiveKinds
  <2>3. new \intersect Known = {}
    BY <1>3, <2>2
  <2>4. Typed'
    BY <1>1, <1>2, <1>5, <2>1, <2>2 DEF SInv, Typed
  <2>5. Held'
    BY <1>1, <2>1 DEF SInv, Held
  <2>6. Waiting'
    BY <1>3, <1>5, <2>1, <2>2 DEF SInv, Waiting, Known
  <2>7. Missing'
    BY <1>1, <1>5, <2>2 DEF SInv, Missing
  <2>8. Apart'
    BY <1>1, <1>5, <2>3 DEF SInv, Apart, Typed, Known
  <2>9. Fresh'
    <3>1. Known' = Known \union new
      BY <1>1, <1>5 DEF Known
    <3>2. \A c \in Known' : /\ pc'[c.of] \notin {"off", "lock"}
                            /\ pc'[c.of] \in {"naive", "submit"} => c.kind \in NaiveKinds
      BY <3>1, <2>1, <1>3, <2>2 DEF SInv, Fresh
    <3>3. ASSUME NEW c \in awaited, c.kind \in {"naive desc", "describe"}
          PROVE  Follower(c) \notin Known'
      <4>1. c \in Calls /\ c.of # t /\ Follower(c).of = c.of
        BY <3>3, <1>3, Following DEF Known
      <4> QED
        BY <3>1, <3>3, <4>1, <2>2 DEF SInv, Fresh
    <3>4. ASSUME NEW c \in new, c.kind \in {"naive desc", "describe"}
          PROVE  Follower(c) \notin Known'
      <4>1. c.kind = "describe" /\ c \in Calls /\ c.of = t
        BY <3>4, <2>2
      <4>2. Follower(c).of = t /\ Follower(c).kind = "texts"
        BY <4>1, Following
      <4> QED
        BY <3>1, <4>2, <1>3, <2>2 DEF NaiveKinds
    <3> QED
      BY <1>5, <3>2, <3>3, <3>4 DEF Fresh
  <2>10. Left'
    <3> SUFFICES ASSUME NEW c \in queued \ awaited
                 PROVE  tp' \in {"exit", "gone"} /\ pc'[c.of] \in {"done", "error", "release"}
      BY <1>5 DEF Left
    <3>1. tp \in {"exit", "gone"} /\ pc[c.of] \in {"done", "error", "release"}
      BY DEF SInv, Left
    <3>2. c.of \in Threads \ {t}
      BY <3>1, <1>1, <1>3 DEF Known
    <3> QED
      BY <1>2, <2>1, <3>1, <3>2
  <2> QED
    BY <1>2, <2>4, <2>5, <2>6, <2>7, <2>8, <2>9, <2>10 DEF SInv
<1> QED
  BY <1>4, <1>5 DEF SubmitStage, Submit

(* TimeOut forgets the calls of a thread and takes them from the queue.    *)
LEMMA TimeOutInv ==
  ASSUME SInv, NEW t \in Threads, TimeOut(t)
  PROVE  SInv'
<1>1. /\ UNCHANGED <<evals, tp, lock, naive, pc, running>>
      /\ awaited' = awaited \ Mine(t) /\ queued' = queued \ Mine(t)
      /\ good' = good \ Mine(t) /\ bad' = bad \ Mine(t)
  BY DEF TimeOut, loop
<1>2. Typed' /\ NotBegun' /\ Held'
  BY <1>1 DEF SInv, Typed, NotBegun, Held
<1>3. Waiting' /\ Missing' /\ Apart' /\ Left'
  BY <1>1 DEF SInv, Waiting, Missing, Apart, Left
<1>4. Fresh'
  BY <1>1 DEF SInv, Fresh, Known
<1> QED
  BY <1>2, <1>3, <1>4 DEF SInv

(* The steps of a thread that has nothing to wait for and asks for nothing.*)
LEMMA PlainInv ==
  ASSUME SInv, NEW t \in Threads,
         EndNaive(t) \/ PutTexts(t) \/ PutResult(t) \/ Release(t)
  PROVE  SInv'
<1>1. /\ UNCHANGED <<evals, tp, naive, calls>>
      /\ \/ /\ pc[t] = "naive" /\ Mine(t) = {} /\ lock' = Nobody
            /\ pc' = [pc EXCEPT ![t] = AfterNaive(t)]
         \/ /\ pc[t] = "judge" /\ Mine(t) = {} /\ lock' = lock
            /\ pc' = [pc EXCEPT ![t] = "put"]
         \/ /\ pc[t] \in {"put", "error"} /\ lock' = lock
            /\ pc' = [pc EXCEPT ![t] = "release"]
         \/ /\ pc[t] = "release" /\ lock' = lock
            /\ pc' = [pc EXCEPT ![t] = "done"]
  BY DEF EndNaive, PutTexts, PutResult, Release, Goto, loop
<1>2. /\ pc' \in [Threads -> PCs] /\ pc[t] # "off"
      /\ \A s \in Threads \ {t} : pc'[s] = pc[s]
      /\ pc'[t] \in {"done", "submit", "put", "release"}
      /\ pc'[t] = "submit" => pc[t] = "naive"
      /\ pc[t] \in {"error", "release", "done"} => pc'[t] \in {"release", "done"}
      /\ lock' = IF pc[t] = "naive" THEN Nobody ELSE lock
  BY <1>1 DEF SInv, Typed, PCs, AfterNaive
<1>3. \A c \in awaited : c \in Calls /\ c.of \in Threads \ {t}
  BY <1>1 DEF SInv, Typed, Waiting, Mine, Calls, NaiveKinds
<1>4. \A c \in Known : c \in Calls /\ c.of \in Threads
  BY DEF SInv, Typed, Known, Calls
<1>5. NotBegun'
  BY <1>1, <1>2, StaysBegun
<1>6. (Typed /\ Missing /\ Apart)'
  BY <1>1, <1>2 DEF SInv, Typed, Missing, Apart, calls
<1>7. Held'
  BY <1>1, <1>2, ThreadsAre DEF SInv, Held
<1>8. Waiting'
  BY <1>1, <1>2, <1>3 DEF SInv, Waiting, calls
<1>9. Fresh'
  BY <1>1, <1>2, <1>4 DEF SInv, Fresh, Known, calls
<1>10. Left'
  BY <1>1, <1>2, <1>4 DEF SInv, Left, Known, calls
<1> QED
  BY <1>5, <1>6, <1>7, <1>8, <1>9, <1>10 DEF SInv

(* What an answer changes of the naive arm was not there.                  *)
LEMMA CollectFills ==
  ASSUME SInv, NEW t \in Threads, NEW c \in Calls, Collect(t, c)
  PROVE  /\ naive' \in [Features -> Arms]
         /\ \A f \in Features :
              /\ naive'[f].desc # naive[f].desc =>
                   f = c.f /\ c.kind = "naive desc" /\ naive[f].desc = Nobody
              /\ naive'[f].texts # naive[f].texts =>
                   /\ f = c.f /\ c.kind = "naive texts"
                   /\ naive[f].texts = Nobody /\ naive[f].desc # Nobody
         /\ c \in good /\ c.kind = "naive desc" => c \in bad \/ naive'[c.f].desc # Nobody
<1>1. c \in awaited /\ c.f \in Features /\ t \in Authors /\ t # Nobody
  BY ThreadsAre DEF Collect, Mine, Calls, Authors
<1>2. naive \in [Features -> Arms]
  BY DEF SInv, Typed
<1>3. CASE naive' = naive /\ (c \in bad \/ c.kind # "naive desc")
  BY <1>2, <1>3
<1>4. CASE c.kind = "naive desc" /\ naive' = [naive EXCEPT ![c.f].desc = t]
  <2>1. naive[c.f].desc = Nobody
    BY <1>1, <1>4 DEF SInv, Missing
  <2>2. \A a \in Arms : /\ [a EXCEPT !.desc = t] \in Arms
                        /\ [a EXCEPT !.desc = t].desc = t
                        /\ [a EXCEPT !.desc = t].texts = a.texts
    BY <1>1 DEF Arms
  <2>3. \A f \in Features :
          naive'[f] = IF f = c.f THEN [naive[f] EXCEPT !.desc = t] ELSE naive[f]
    BY <1>2, <1>4
  <2>4. naive' \in [Features -> Arms]
    BY <1>1, <1>2, <1>4, <2>2
  <2> QED
    BY <1>1, <1>2, <1>4, <2>1, <2>2, <2>3, <2>4
<1>5. CASE c.kind = "naive texts" /\ naive' = [naive EXCEPT ![c.f].texts = t]
  <2>1. naive[c.f].texts = Nobody /\ naive[c.f].desc # Nobody
    BY <1>1, <1>5 DEF SInv, Missing
  <2>2. \A a \in Arms : /\ [a EXCEPT !.texts = t] \in Arms
                        /\ [a EXCEPT !.texts = t].texts = t
                        /\ [a EXCEPT !.texts = t].desc = a.desc
    BY <1>1 DEF Arms
  <2>3. \A f \in Features :
          naive'[f] = IF f = c.f THEN [naive[f] EXCEPT !.texts = t] ELSE naive[f]
    BY <1>2, <1>5
  <2>4. naive' \in [Features -> Arms]
    BY <1>1, <1>2, <1>5, <2>2
  <2> QED
    BY <1>1, <1>2, <1>5, <2>1, <2>2, <2>3, <2>4
<1> QED
  BY <1>3, <1>4, <1>5 DEF Collect, NaiveKinds

(* Collect looks at an answer, and hands over the call that follows.       *)
LEMMA CollectInv ==
  ASSUME SInv, NEW t \in Threads, NEW c \in Calls, Collect(t, c)
  PROVE  SInv'
<1> DEFINE more == IF c \in good THEN FollowUp(c) ELSE {}
<1>1. /\ c \in awaited /\ c.of = t /\ c \in good \union bad
      /\ UNCHANGED <<evals, tp, running>>
  BY DEF Collect, Mine, loop
<1>2. /\ c.kind \in NaiveKinds => pc[t] = "naive" /\ lock = t
      /\ c.kind \notin NaiveKinds => pc[t] = "judge"
      /\ pc[t] \in {"naive", "judge"}
      /\ c \notin queued /\ c \notin running
  BY <1>1 DEF SInv, Waiting, Held, Apart
<1>3. \A d \in Known : d \in Calls /\ d.of \in Threads /\ d.f \in Features
  BY DEF SInv, Typed, Known, Calls
<1>4. ASSUME NEW d \in awaited, c.kind \in NaiveKinds, d.kind \in NaiveKinds
      PROVE  d.of = t
  BY <1>2, <1>3, <1>4 DEF SInv, Waiting, Held, Known
<1>5. ASSUME NEW d \in awaited, d # c, d.f = c.f, d.kind = c.kind
      PROVE  c.kind \notin NaiveKinds
  BY <1>1, <1>3, <1>4, <1>5, SameCall DEF Known
<1>6. \A f \in Features : /\ naive[f].desc # Nobody => naive'[f].desc # Nobody
                          /\ naive'[f].desc = Nobody => naive'[f].texts = Nobody
  BY CollectFills DEF SInv, Missing
<1>7. CASE /\ awaited' = awaited \ Mine(t) /\ tp = "exit"
           /\ good' = good \ Mine(t) /\ bad' = bad \ Mine(t)
           /\ Goto(t, AfterError(t)) /\ queued' = queued
           /\ lock' = IF lock = t THEN Nobody ELSE lock
  <2>1. /\ pc' \in [Threads -> PCs] /\ pc'[t] \in {"done", "error"}
        /\ \A s \in Threads \ {t} : pc'[s] = pc[s]
    BY <1>7 DEF Goto, AfterError, SInv, Typed, PCs
  <2>2. \A d \in awaited' : d \in awaited /\ d.of # t
    BY <1>7 DEF Mine
  <2>3. Typed'
    BY <1>1, <1>7, <2>1, CollectFills DEF SInv, Typed
  <2>4. NotBegun'
    BY <1>1, <1>2, <2>1, StaysBegun
  <2>5. Held'
    BY <1>7, <2>1, ThreadsAre DEF SInv, Held
  <2>6. Waiting'
    BY <1>3, <2>1, <2>2 DEF SInv, Waiting, Known
  <2>7. Missing'
    <3>1. ASSUME NEW d \in awaited', d.kind \in NaiveKinds
          PROVE  naive'[d.f] = naive[d.f] \/ c.kind \notin NaiveKinds
      BY <2>2, <1>4, <3>1
    <3>2. ASSUME NEW d \in awaited', d.kind \in NaiveKinds
          PROVE  naive'[d.f].desc = naive[d.f].desc /\ naive'[d.f].texts = naive[d.f].texts
      BY <3>2, <2>2, <1>3, <1>4, CollectFills DEF Known, NaiveKinds
    <3> QED
      BY <1>6, <2>2, <3>2 DEF SInv, Missing, NaiveKinds
  <2>8. Apart'
    BY <1>1, <1>7 DEF SInv, Apart
  <2>9. Fresh'
    BY <1>1, <1>3, <1>7, <2>1 DEF SInv, Fresh, Known
  <2>10. Left'
    BY <1>1, <1>3, <1>7, <2>1 DEF SInv, Left, Mine, Known
  <2> QED
    BY <2>3, <2>4, <2>5, <2>6, <2>7, <2>8, <2>9, <2>10 DEF SInv
<1>8. CASE /\ awaited' = (awaited \ {c}) \union more /\ queued' = queued \union more
           /\ good' = good \ {c} /\ bad' = bad \ {c} /\ UNCHANGED <<pc, lock>>
  <2>1. ASSUME NEW m \in more
        PROVE  /\ m = Follower(c) /\ m \in Calls /\ m.of = t /\ m.f = c.f
               /\ m \notin Known /\ c \in good
               /\ \/ c.kind = "naive desc" /\ m.kind = "naive texts"
                  \/ c.kind = "describe" /\ m.kind = "texts"
    <3>1. c \in good /\ m \in FollowUp(c) /\ c.kind \in {"naive desc", "describe"}
      BY NoFollowing
    <3>2. m = Follower(c)
      BY <3>1, Following
    <3>3. m \notin Known
      BY <1>1, <3>1, <3>2 DEF SInv, Fresh
    <3> QED
      BY <1>1, <3>1, <3>2, <3>3, Following
  <2>2. Typed'
    BY <1>1, <1>8, <2>1, CollectFills DEF SInv, Typed
  <2>3. NotBegun' /\ Held'
    BY <1>1, <1>8 DEF SInv, NotBegun, Held
  <2>4. Waiting'
    BY <1>2, <1>8, <2>1 DEF SInv, Waiting, NaiveKinds
  <2>5. Missing'
    <3>1. ASSUME NEW d \in awaited \ {c}
          PROVE  /\ d.kind = "naive desc" => naive'[d.f].desc = Nobody
                 /\ d.kind = "naive texts" =>
                      naive'[d.f].texts = Nobody /\ naive'[d.f].desc # Nobody
      <4>1. d.f \in Features
        BY <1>3 DEF Known
      <4>2. CASE d.kind = "naive desc"
        BY <4>1, <4>2, <1>5, CollectFills DEF SInv, Missing, NaiveKinds
      <4>3. CASE d.kind = "naive texts"
        BY <4>1, <4>3, <1>5, <1>6, CollectFills DEF SInv, Missing, NaiveKinds
      <4> QED
        BY <4>2, <4>3
    <3>2. ASSUME NEW d \in more, d.kind = "naive texts"
          PROVE  naive'[d.f].texts = Nobody /\ naive'[d.f].desc # Nobody
      <4>1. c.kind = "naive desc" /\ d.f = c.f /\ c.f \in Features /\ c \in good
        BY <2>1, <3>2 DEF Calls
      <4>2. naive[c.f].texts = Nobody /\ c \notin bad
        BY <4>1, <1>1 DEF SInv, Missing, Apart
      <4> QED
        BY <4>1, <4>2, CollectFills
    <3>3. \A d \in more : d.kind # "naive desc"
      BY <2>1
    <3> QED
      BY <1>6, <1>8, <3>1, <3>2, <3>3 DEF Missing
  <2>6. Apart'
    BY <1>1, <1>8, <2>1 DEF SInv, Typed, Apart, Known
  <2>7. Fresh'
    <3>1. Known' \subseteq Known \union more
      BY <1>1, <1>8 DEF Known
    <3>2. \A d \in Known' : /\ pc'[d.of] \notin {"off", "lock"}
                            /\ pc'[d.of] \in {"naive", "submit"} => d.kind \in NaiveKinds
      BY <3>1, <1>2, <1>8, <2>1 DEF SInv, Fresh, NaiveKinds
    <3>3. ASSUME NEW d \in awaited \ {c}, d.kind \in {"naive desc", "describe"}
          PROVE  Follower(d) \notin Known'
      <4>1. Follower(d) \notin Known
        BY <3>3 DEF SInv, Fresh
      <4>2. d \in Calls
        BY <1>3 DEF Known
      <4>3. ASSUME NEW m \in more, m = Follower(d) PROVE FALSE
        <5>1. m.of = t /\ m.f = c.f /\ (c.kind = "naive desc" <=> m.kind = "naive texts")
              /\ c.kind \in {"naive desc", "describe"} /\ c \in Calls
          BY <2>1, <1>1, <1>3 DEF Known
        <5>2. m.of = d.of /\ m.f = d.f /\ (d.kind = "naive desc" <=> m.kind = "naive texts")
          BY <3>3, <4>2, <4>3, Following
        <5>3. d.kind = c.kind
          BY <3>3, <5>1, <5>2
        <5> QED
          BY <1>1, <3>3, <4>2, <5>1, <5>2, <5>3, SameCall
      <4> QED
        BY <3>1, <4>1, <4>3
    <3>4. \A d \in more : d.kind \notin {"naive desc", "describe"}
      BY <2>1
    <3> QED
      BY <1>8, <3>2, <3>3, <3>4 DEF Fresh
  <2>8. Left'
    BY <1>1, <1>2, <1>8 DEF SInv, Left
  <2> QED
    BY <2>2, <2>3, <2>4, <2>5, <2>6, <2>7, <2>8 DEF SInv
<1> QED
  BY <1>7, <1>8 DEF Collect

(* The executor's threads. *)
LEMMA WorkInv == SInv /\ Work => SInv'
<1> SUFFICES ASSUME SInv, NEW c \in Calls, Begin(c) \/ Answer(c)
             PROVE  SInv'
  BY DEF Work
<1>1. UNCHANGED <<evals, tp, lock, naive, pc, awaited>>
  BY DEF Begin, Answer, loop
<1>2. \/ /\ c \in queued /\ queued' = queued \ {c} /\ running' = running \union {c}
         /\ UNCHANGED <<good, bad>>
      \/ /\ c \in running /\ running' = running \ {c} /\ UNCHANGED queued
         /\ \/ UNCHANGED <<good, bad>>
            \/ c \in awaited /\ good' = good \union {c} /\ bad' = bad
            \/ c \in awaited /\ bad' = bad \union {c} /\ good' = good
  BY DEF Begin, Answer
<1>3. Typed' /\ NotBegun' /\ Held'
  BY <1>1, <1>2 DEF SInv, Typed, NotBegun, Held
<1>4. Waiting' /\ Missing' /\ Left'
  BY <1>1, <1>2 DEF SInv, Waiting, Missing, Left
<1>5. Apart'
  BY <1>1, <1>2 DEF SInv, Apart
<1>6. Fresh'
  BY <1>1, <1>2 DEF SInv, Fresh, Known
<1> QED
  BY <1>3, <1>4, <1>5, <1>6 DEF SInv

(* Every step keeps the invariant. *)
LEMMA StepInv == SInv /\ [Next]_vars => SInv'
<1> SUFFICES ASSUME SInv, [Next]_vars PROVE SInv'
  OBVIOUS
<1>1. CASE Trainer
  BY <1>1, TrainerInv
<1>2. ASSUME NEW t \in Threads, Judge(t) PROVE SInv'
  BY <1>2, EnsureNaiveInv, SubmitStageInv, CollectInv, TimeOutInv, PlainInv DEF Judge
<1>3. CASE (\E t \in Threads : Pass(t)) \/ UNCHANGED vars
  <2>1. UNCHANGED <<evals, tp, lock, naive, pc, awaited, queued, running, good, bad>>
    BY <1>3 DEF Pass, loop, calls, vars
  <2>2. (Typed /\ NotBegun /\ Held /\ Waiting)'
    BY <2>1 DEF SInv, Typed, NotBegun, Held, Waiting
  <2>3. (Missing /\ Apart /\ Fresh /\ Left)'
    BY <2>1 DEF SInv, Missing, Apart, Fresh, Left, Known
  <2> QED
    BY <2>2, <2>3 DEF SInv
<1>4. CASE Work
  BY <1>4, WorkInv
<1> QED
  BY <1>1, <1>2, <1>3, <1>4 DEF Next, Gone

-----------------------------------------------------------------------------
(* The theorems *)

LEMMA Invariant == Spec => []SInv
<1>1. Init => SInv
  BY StartInv
<1>2. SInv /\ [Next]_vars => SInv'
  BY StepInv
<1> QED
  BY <1>1, <1>2, PTL DEF Spec

(* What is in the executor's queue is awaited by a stage, until the        *)
(* interpreter shuts down (_run_futures, fu.cancel).                       *)
THEOREM NothingOrphaned == Spec => []NoOrphans
<1>1. SInv => NoOrphans
  BY DEF SInv, Left, NoOrphans
<1> QED
  BY <1>1, Invariant, PTL

(* A step changes the naive arm only where it fills it.                    *)
LEMMA FillsOnly ==
  SInv /\ [Next]_vars =>
    [\A f \in Features :
       /\ naive[f].desc # Nobody => naive'[f].desc = naive[f].desc
       /\ naive[f].texts # Nobody => naive'[f].texts = naive[f].texts]_vars
<1> SUFFICES ASSUME SInv, Next, NEW f \in Features
             PROVE  /\ naive[f].desc # Nobody => naive'[f].desc = naive[f].desc
                    /\ naive[f].texts # Nobody => naive'[f].texts = naive[f].texts
  OBVIOUS
<1>1. ASSUME NEW t \in Threads, NEW c \in Calls, Collect(t, c)
      PROVE  /\ naive[f].desc # Nobody => naive'[f].desc = naive[f].desc
             /\ naive[f].texts # Nobody => naive'[f].texts = naive[f].texts
  BY <1>1, CollectFills
<1>2. (\E t \in Threads, c \in Calls : Collect(t, c)) \/ UNCHANGED naive
  <2>1. CASE Trainer
    BY <2>1 DEF Trainer, BroadcastPending, Score, ScoreFails, Launch, Poll,
                Polled, EndWait, LastPoll, Exit
  <2>2. CASE Work \/ Gone
    BY <2>2 DEF Work, Begin, Answer, Gone, vars
  <2>3. ASSUME NEW t \in Threads, Judge(t) \/ Pass(t)
        PROVE  (\E c \in Calls : Collect(t, c)) \/ UNCHANGED naive
    BY <2>3 DEF Judge, Pass, EnsureNaive, SubmitStage, TimeOut, EndNaive,
                PutTexts, PutResult, Release
  <2> QED
    BY <2>1, <2>2, <2>3 DEF Next
<1> QED
  BY <1>1, <1>2

(* The naive arm, once there, is the same for every checkpoint             *)
(* (_ensure_naive, naive_lock).                                            *)
THEOREM NaiveArmIsFixed == Spec => NaiveArmFixed
<1>1. SInv /\ [Next]_vars =>
        [\A f \in Features :
           /\ naive[f].desc # Nobody => naive'[f].desc = naive[f].desc
           /\ naive[f].texts # Nobody => naive'[f].texts = naive[f].texts]_vars
  BY FillsOnly
<1> QED
  BY <1>1, Invariant, PTL DEF Spec, NaiveArmFixed

-----------------------------------------------------------------------------
(* What the judge was asked for arrives *)

(* There is an entry of evaluation k, in the queue or sent. *)
Has(k, what) == Entry(k, what) \in results \union logged

(* Entries are of evaluations; the evaluations that are owed one are past, *)
(* and the warm thread makes none.                                         *)
Owed ==
  /\ results \union logged \subseteq
       [src : Evals, what : {"adversarial", "skipped", "judge", "error"}]
  /\ due \subseteq Evals
  /\ \A k \in due : k <= evals /\ (tp \in {"score", "launch"} => k # evals)
  /\ pc[Warm] \in {"lock", "naive", "done"}
  /\ DOMAIN advTrue = Threads

(* The entry of k that is owed: of a stage that was skipped, or one by the *)
(* stage when it is over.                                                  *)
Told(k) ==
  /\ k \in due <=> pc[k] # "off" \/ Has(k, "skipped")
  /\ Has(k, "skipped") => pc[k] = "off"
  /\ Has(k, "judge") \/ Has(k, "error") <=> pc[k] \in {"release", "done"}
  /\ ~(Has(k, "judge") /\ Has(k, "error"))

(* The texts of k are in one place, from the moment they are handed over.  *)
Placed(k) ==
  /\ advTrue[k] # {} /\ (pc[k] = "put" \/ Has(k, "judge")) <=>
       k \in pending \/ k \in taken \/ k \in spoilt \/ Has(k, "adversarial")
  /\ ~(k \in pending /\ k \in taken) /\ ~(k \in pending /\ k \in spoilt)
  /\ ~(k \in pending /\ Has(k, "adversarial")) /\ ~(k \in taken /\ k \in spoilt)
  /\ ~(k \in taken /\ Has(k, "adversarial")) /\ ~(k \in spoilt /\ Has(k, "adversarial"))

NInv ==
  /\ Owed
  /\ pending \subseteq Evals /\ taken \subseteq Evals /\ spoilt \subseteq Evals
  /\ tp # "score" => taken = {}
  /\ \A k \in Evals : Told(k) /\ Placed(k)

LEMMA EntryIs ==
  \A j, k, v, w : Entry(j, v) = Entry(k, w) <=> j = k /\ v = w
BY DEF Entry

(* Where a thread can be while it has nothing to hand over yet. *)
Busy == {"lock", "naive", "submit", "judge", "error"}

LEMMA NStart == Init => NInv
BY ThreadsAre DEF Init, NInv, Owed, Told, Placed, Has, Threads

(* A step that leaves the entries and texts where they are, and moves only *)
(* threads that have nothing to hand over or have handed it over.          *)
LEMMA QuietInv ==
  ASSUME SInv, NInv,
         UNCHANGED <<taken, pending, spoilt, due, evals>>,
         results' \union logged' = results \union logged,
         tp' \in {"score", "launch"} => tp' = tp, tp = "score" => tp' = "score",
         pc'[Warm] \in {"lock", "naive", "done"}, DOMAIN advTrue' = DOMAIN advTrue,
         \A k \in Evals : \/ pc'[k] = pc[k]
                          \/ pc[k] \in Busy /\ pc'[k] \in Busy
                          \/ pc[k] = "release" /\ pc'[k] = "done",
         \A k \in Evals : advTrue'[k] = advTrue[k] \/ (pc[k] \in Busy /\ pc'[k] \in Busy)
  PROVE  NInv'
<1>1. \A k, w : Has(k, w)' <=> Has(k, w)
  BY DEF Has, Entry
<1>2. ASSUME NEW k \in Evals PROVE Told(k)'
  <2>1. Told(k) BY DEF NInv
  <2> QED
    BY <1>1, <2>1 DEF Told, Busy
<1>3. ASSUME NEW k \in Evals PROVE Placed(k)'
  <2>1. Told(k) /\ Placed(k) BY DEF NInv
  <2>2. pc[k] \in Busy /\ pc'[k] \in Busy =>
          pc[k] # "put" /\ pc'[k] # "put" /\ ~Has(k, "judge")
    BY <2>1 DEF Told, Busy
  <2>3. (pc[k] = "put" <=> pc'[k] = "put")
    BY DEF Busy
  <2> QED
    BY <1>1, <2>1, <2>2, <2>3 DEF Placed
<1>4. Owed'
  BY DEF NInv, Owed
<1> QED
  BY <1>2, <1>3, <1>4 DEF NInv

LEMMA TrainerTold == SInv /\ NInv /\ Trainer => NInv'
<1> SUFFICES ASSUME SInv, NInv, Trainer PROVE NInv'
  OBVIOUS
<1> USE DEF loop, calls, history
<1>0. /\ pc \in [Threads -> PCs] /\ Owed /\ evals \in Nat
      /\ \A k \in Evals : Told(k) /\ Placed(k)
  BY StagesAssumption DEF SInv, Typed, NInv
<1>1. CASE BroadcastPending
  <2>1. /\ tp = "top" /\ tp' = "score" /\ evals' = evals + 1 /\ taken = {}
        /\ taken' = pending /\ pending' = {}
        /\ UNCHANGED <<logged, results, pc, advTrue, due, spoilt>>
    BY <1>1 DEF BroadcastPending, NInv
  <2>2. \A k, w : Has(k, w)' <=> Has(k, w)
    BY <2>1 DEF Has, Entry
  <2>3. Owed'
    BY <1>0, <2>1, StagesAssumption DEF Owed, Evals
  <2>4. ASSUME NEW k \in Evals PROVE Told(k)' /\ Placed(k)'
    BY <1>0, <2>1, <2>2 DEF Told, Placed
  <2> QED
    BY <2>1, <2>3, <2>4 DEF NInv
<1>2. CASE Score
  <2>1. /\ tp = "score" /\ tp' = "launch" /\ taken' = {}
        /\ results' = results \union {Entry(k, "adversarial") : k \in taken}
        /\ UNCHANGED <<evals, logged, pending, pc, advTrue, due, spoilt>>
    BY <1>2 DEF Score
  <2>2. \A k, w : Has(k, w)' <=> Has(k, w) \/ (k \in taken /\ w = "adversarial")
    <3>1. \A k, w : Entry(k, w)' = Entry(k, w)
      BY DEF Entry
    <3> QED
      BY <2>1, <3>1, EntryIs DEF Has
  <2>3. \A k \in taken : Entry(k, "adversarial") \in
          [src : Evals, what : {"adversarial", "skipped", "judge", "error"}]
    BY DEF Entry, NInv
  <2>4. Owed'
    BY <1>0, <2>1, <2>3 DEF Owed
  <2>5. ASSUME NEW k \in Evals PROVE Told(k)' /\ Placed(k)'
    BY <1>0, <2>1, <2>2 DEF Told, Placed
  <2> QED
    BY <2>1, <2>4, <2>5 DEF NInv
<1>3. CASE ScoreFails
  <2>1. /\ tp = "score" /\ tp' = "poll" /\ taken' = {} /\ spoilt' = spoilt \union taken
        /\ UNCHANGED <<evals, logged, results, pending, pc, advTrue, due>>
    BY <1>3 DEF ScoreFails
  <2>2. \A k, w : Has(k, w)' <=> Has(k, w)
    BY <2>1 DEF Has, Entry
  <2>3. Owed'
    BY <1>0, <2>1 DEF Owed
  <2>4. ASSUME NEW k \in Evals PROVE Told(k)' /\ Placed(k)'
    BY <1>0, <2>1, <2>2 DEF Told, Placed
  <2> QED
    BY <2>1, <2>3, <2>4 DEF NInv
<1>4. CASE Launch
  <2>1. /\ tp = "launch" /\ tp' = "poll" /\ evals \in Evals /\ pc[evals] = "off"
        /\ UNCHANGED <<evals, taken, logged, pending, advTrue, spoilt>>
    BY <1>4 DEF Launch, SInv, NotBegun
  <2>2. evals \notin due /\ evals # Warm
    BY <1>0, <2>1, ThreadsAre DEF Owed, Evals, Warm
  <2>3. CASE UNCHANGED <<pc, results, due>>
    <3>1. pc'[Warm] \in {"lock", "naive", "done"}
      BY <1>0, <2>3 DEF Owed
    <3> QED
      BY <2>1, <2>3, <3>1, QuietInv
  <2>4. CASE due' = due \union {evals} /\ UNCHANGED pc
             /\ results' = results \union {Entry(evals, "skipped")}
    <3>1. \A k, w : Has(k, w)' <=> Has(k, w) \/ (k = evals /\ w = "skipped")
      <4>1. \A k, w : Entry(k, w)' = Entry(k, w)
        BY DEF Entry
      <4> QED
        BY <2>1, <2>4, <4>1, EntryIs DEF Has
    <3>2. Entry(evals, "skipped") \in
            [src : Evals, what : {"adversarial", "skipped", "judge", "error"}]
      BY <2>1 DEF Entry
    <3>3. Owed'
      BY <1>0, <2>1, <2>4, <3>2 DEF Owed
    <3>4. ASSUME NEW k \in Evals PROVE Told(k)' /\ Placed(k)'
      BY <1>0, <2>1, <2>2, <2>4, <3>1 DEF Told, Placed
    <3> QED
      BY <2>1, <3>3, <3>4 DEF NInv
  <2>5. CASE due' = due \union {evals} /\ pc' = [pc EXCEPT ![evals] = "lock"]
             /\ UNCHANGED results
    <3>1. \A k, w : Has(k, w)' <=> Has(k, w)
      BY <2>1, <2>5 DEF Has, Entry
    <3>2. \A k \in Threads : pc'[k] = IF k = evals THEN "lock" ELSE pc[k]
      BY <1>0, <2>5
    <3>3. Owed'
      BY <1>0, <2>1, <2>2, <2>5, <3>2, ThreadsAre DEF Owed
    <3>4. ASSUME NEW k \in Evals PROVE Told(k)' /\ Placed(k)'
      <4>1. k \in Threads
        BY ThreadsAre
      <4> QED
        BY <1>0, <2>1, <2>2, <2>5, <3>1, <3>2, <4>1 DEF Told, Placed
    <3> QED
      BY <2>1, <3>3, <3>4 DEF NInv
  <2> QED
    BY <1>4, <2>3, <2>4, <2>5 DEF Launch
<1>5. CASE Poll \/ EndWait \/ LastPoll \/ Exit
  <2>1. /\ UNCHANGED <<evals, taken, pending, spoilt, due, pc, advTrue>>
        /\ results' \union logged' = results \union logged
        /\ tp # "score" /\ tp' \notin {"score", "launch"}
    BY <1>5 DEF Poll, Polled, EndWait, LastPoll, Exit
  <2>2. pc'[Warm] \in {"lock", "naive", "done"}
    BY <1>0, <2>1 DEF Owed
  <2> QED
    BY <2>1, <2>2, QuietInv
<1> QED
  BY <1>1, <1>2, <1>3, <1>4, <1>5 DEF Trainer

(* A step of a judge thread that hands nothing over.                       *)
LEMMA GotoQuiet ==
  ASSUME SInv, NInv, NEW t \in Threads, NEW l,
         UNCHANGED <<tp, evals, taken, logged, results, pending, spoilt, due>>,
         pc' = [pc EXCEPT ![t] = l],
         t = Warm => l \in {"lock", "naive", "done"},
         t # Warm => (pc[t] \in Busy /\ l \in Busy) \/ l = pc[t]
                       \/ (pc[t] = "release" /\ l = "done"),
         DOMAIN advTrue' = DOMAIN advTrue,
         \A k \in Evals : advTrue'[k] = advTrue[k]
                            \/ (k = t /\ pc[k] \in Busy /\ l \in Busy)
  PROVE  NInv'
<1>1. pc \in [Threads -> PCs] /\ pc[Warm] \in {"lock", "naive", "done"}
  BY DEF SInv, Typed, NInv, Owed
<1>2. \A k \in Threads : pc'[k] = IF k = t THEN l ELSE pc[k]
  BY <1>1
<1>3. \A k \in Evals : k \in Threads /\ k # Warm
  BY ThreadsAre, StagesAssumption DEF Evals, Warm
<1>4. Warm \in Threads
  BY ThreadsAre
<1> QED
  BY <1>1, <1>2, <1>3, <1>4, QuietInv

LEMMA JudgeTold ==
  ASSUME SInv, NInv, NEW t \in Threads, Judge(t) \/ Pass(t)
  PROVE  NInv'
<1> USE DEF loop, calls, history
<1>0. /\ pc \in [Threads -> PCs] /\ Owed
      /\ \A k \in Evals : Told(k) /\ Placed(k)
      /\ pc[Warm] \in {"lock", "naive", "done"}
  BY DEF SInv, Typed, NInv, Owed
<1>1. \A k \in Evals : k \in Threads /\ k # Warm
  BY ThreadsAre, StagesAssumption DEF Evals, Warm
<1>2. t # Warm => t \in Evals
  BY DEF Threads
<1>3. ASSUME UNCHANGED <<tp, evals, taken, logged, results, pending, spoilt, due, pc, advTrue>>
      PROVE  NInv'
  BY <1>0, <1>3, QuietInv
<1>4. CASE EnsureNaive(t)
  <2>1. PICK l : pc' = [pc EXCEPT ![t] = l] /\ l \in {AfterNaive(t), AfterError(t), "naive"}
    BY <1>4 DEF EnsureNaive, Goto
  <2>2. pc[t] = "lock" /\ UNCHANGED <<tp, evals, taken, logged, results, pending, spoilt, due, advTrue>>
    BY <1>4 DEF EnsureNaive
  <2>3. t = Warm => l \in {"lock", "naive", "done"}
    BY <2>1 DEF AfterNaive, AfterError
  <2>4. t # Warm => pc[t] \in Busy /\ l \in Busy
    BY <2>1, <2>2 DEF AfterNaive, AfterError, Busy
  <2> QED
    BY <2>1, <2>2, <2>3, <2>4, GotoQuiet
<1>5. CASE SubmitStage(t)
  <2>1. PICK l : pc' = [pc EXCEPT ![t] = l] /\ l \in {"judge", "error"}
    BY <1>5 DEF SubmitStage, Goto
  <2>2. pc[t] = "submit" /\ UNCHANGED <<tp, evals, taken, logged, results, pending, spoilt, due, advTrue>>
    BY <1>5 DEF SubmitStage
  <2>3. t # Warm
    BY <1>0, <2>2
  <2>4. pc[t] \in Busy /\ l \in Busy
    BY <2>1, <2>2 DEF Busy
  <2> QED
    BY <2>1, <2>2, <2>3, <2>4, GotoQuiet
<1>6. ASSUME NEW c \in Calls, Collect(t, c) PROVE NInv'
  <2>1. /\ c \in awaited /\ c.of = t
        /\ UNCHANGED <<tp, evals, taken, logged, results, pending, spoilt, due>>
    BY <1>6 DEF Collect, Mine
  <2>2. pc[t] = IF c.kind \in NaiveKinds THEN "naive" ELSE "judge"
    BY <2>1 DEF SInv, Waiting
  <2>3. pc[t] \in {"naive", "judge"} /\ pc[t] \in Busy
    BY <2>2 DEF Busy
  <2>4. PICK l : pc' = [pc EXCEPT ![t] = l] /\ (l = AfterError(t) \/ l = pc[t])
    <3>1. pc' = [pc EXCEPT ![t] = AfterError(t)] \/ pc' = pc
      BY <1>6 DEF Collect, Goto
    <3>2. CASE pc' = pc
      <4>1. pc' = [pc EXCEPT ![t] = pc[t]]
        BY <1>0, <3>2
      <4> QED BY <4>1
    <3> QED BY <3>1, <3>2
  <2>5. t = Warm => l \in {"lock", "naive", "done"}
    BY <1>0, <2>4 DEF AfterError
  <2>6. t # Warm => l \in Busy
    BY <2>3, <2>4 DEF AfterError, Busy
  <2>7. /\ DOMAIN advTrue' = DOMAIN advTrue
        /\ \A k \in Evals : advTrue'[k] = advTrue[k] \/ k = t
    <3>1. advTrue' = advTrue \/ advTrue' = [advTrue EXCEPT ![t] = @ \union {c.f}]
      BY <1>6 DEF Collect
    <3> QED BY <1>0, <1>1, <3>1 DEF Owed
  <2> QED
    BY <1>1, <2>1, <2>3, <2>4, <2>5, <2>6, <2>7, GotoQuiet
<1>7. CASE TimeOut(t)
  BY <1>3, <1>7 DEF TimeOut
<1>8. CASE EndNaive(t)
  <2>1. /\ pc[t] = "naive" /\ pc' = [pc EXCEPT ![t] = AfterNaive(t)]
        /\ UNCHANGED <<tp, evals, taken, logged, results, pending, spoilt, due, advTrue>>
    BY <1>8 DEF EndNaive, Goto
  <2>2. PICK l : l = AfterNaive(t)
    OBVIOUS
  <2>3. t = Warm => l \in {"lock", "naive", "done"}
    BY <2>2 DEF AfterNaive
  <2>4. t # Warm => pc[t] \in Busy /\ l \in Busy
    BY <2>1, <2>2 DEF AfterNaive, Busy
  <2> QED
    BY <2>1, <2>2, <2>3, <2>4, GotoQuiet
<1>9. CASE PutTexts(t)
  <2>1. /\ pc[t] = "judge" /\ pc' = [pc EXCEPT ![t] = "put"]
        /\ pending' = IF advTrue[t] = {} THEN pending ELSE pending \union {t}
        /\ UNCHANGED <<tp, evals, taken, logged, results, spoilt, due, advTrue>>
    BY <1>9 DEF PutTexts, Goto
  <2>2. t \in Evals
    BY <1>0, <1>2, <2>1
  <2>3. \A k, w : Has(k, w)' <=> Has(k, w)
    BY <2>1 DEF Has, Entry
  <2>4. \A k \in Threads : pc'[k] = IF k = t THEN "put" ELSE pc[k]
    BY <1>0, <2>1
  <2>5. Owed'
    BY <1>0, <1>1, <2>1, <2>2, <2>4, ThreadsAre DEF Owed
  <2>6. ASSUME NEW k \in Evals PROVE Told(k)' /\ Placed(k)'
    <3>1. Told(k) /\ Placed(k) /\ k \in Threads /\ advTrue'[k] = advTrue[k]
      BY <1>0, <1>1, <2>1
    <3>2. k \in pending' <=> k \in pending \/ (k = t /\ advTrue[t] # {})
      BY <2>1
    <3>3. UNCHANGED <<taken, spoilt, due>>
      BY <2>1
    <3>4. pc'[k] = IF k = t THEN "put" ELSE pc[k]
      BY <2>4, <3>1
    <3> QED
      BY <2>1, <2>3, <3>1, <3>2, <3>3, <3>4 DEF Told, Placed
  <2> QED
    BY <2>1, <2>2, <2>5, <2>6 DEF NInv
<1>10. CASE PutResult(t)
  <2>1. PICK w : w = IF pc[t] = "put" THEN "judge" ELSE "error"
    OBVIOUS
  <2>2. /\ pc[t] \in {"put", "error"} /\ pc' = [pc EXCEPT ![t] = "release"]
        /\ results' = results \union {Entry(t, w)}
        /\ UNCHANGED <<tp, evals, taken, logged, pending, spoilt, due, advTrue>>
    BY <1>10, <2>1 DEF PutResult, Goto
  <2>3. t \in Evals
    BY <1>0, <1>2, <2>2
  <2>4. \A k, v : Has(k, v)' <=> Has(k, v) \/ (k = t /\ v = w)
    <3>1. \A k, v : Entry(k, v)' = Entry(k, v)
      BY DEF Entry
    <3> QED
      BY <2>2, <3>1, EntryIs DEF Has
  <2>5. \A k \in Threads : pc'[k] = IF k = t THEN "release" ELSE pc[k]
    BY <1>0, <2>2
  <2>6. Entry(t, w) \in [src : Evals, what : {"adversarial", "skipped", "judge", "error"}]
    BY <2>1, <2>3 DEF Entry
  <2>7. Owed'
    BY <1>0, <1>1, <2>2, <2>3, <2>5, <2>6, ThreadsAre DEF Owed
  <2>8. ASSUME NEW k \in Evals PROVE Told(k)' /\ Placed(k)'
    <3>1. Told(k) /\ Placed(k) /\ k \in Threads /\ advTrue'[k] = advTrue[k]
      BY <1>0, <1>1, <2>2
    <3>2. pc'[k] = IF k = t THEN "release" ELSE pc[k]
      BY <2>5, <3>1
    <3>3. UNCHANGED <<pending, taken, spoilt, due>>
      BY <2>2
    <3> QED
      BY <2>1, <2>2, <2>4, <3>1, <3>2, <3>3 DEF Told, Placed
  <2> QED
    BY <2>2, <2>7, <2>8 DEF NInv
<1>11. CASE Release(t)
  <2>1. /\ pc[t] = "release" /\ pc' = [pc EXCEPT ![t] = "done"]
        /\ UNCHANGED <<tp, evals, taken, logged, results, pending, spoilt, due, advTrue>>
    BY <1>11 DEF Release, Goto
  <2>2. t # Warm
    BY <1>0, <2>1
  <2> QED
    BY <2>1, <2>2, GotoQuiet
<1>12. CASE Pass(t)
  BY <1>3, <1>12 DEF Pass
<1> QED
  BY <1>4, <1>5, <1>6, <1>7, <1>8, <1>9, <1>10, <1>11, <1>12 DEF Judge

LEMMA NStep == SInv /\ NInv /\ [Next]_vars => NInv'
<1> SUFFICES ASSUME SInv, NInv, [Next]_vars PROVE NInv'
  OBVIOUS
<1>1. CASE Work \/ Gone \/ UNCHANGED vars
  <2>1. UNCHANGED <<tp, evals, taken, logged, results, pending, spoilt, due, pc, advTrue>>
    BY <1>1 DEF Work, Begin, Answer, Gone, vars, loop, history
  <2>2. pc'[Warm] \in {"lock", "naive", "done"}
    BY <2>1 DEF NInv, Owed
  <2> QED
    BY <2>1, <2>2, QuietInv
<1> QED
  BY <1>1, TrainerTold, JudgeTold DEF Next

(* From the places of each evaluation to the counts of NothingLost. *)
LEMMA CountsAdd == SInv /\ NInv => NothingLost
<1> SUFFICES ASSUME SInv, NInv PROVE NothingLost
  OBVIOUS
<1>1. ASSUME NEW k \in due
      PROVE  Cardinality(JudgeEntries(k)) = IF UnderWay(k) THEN 0 ELSE 1
  <2>1. k \in Evals /\ Told(k)
    BY DEF NInv, Owed
  <2>2. \A e \in JudgeEntries(k) : \E w \in {"skipped", "judge", "error"} :
          e = Entry(k, w) /\ Has(k, w)
    <3> SUFFICES ASSUME NEW e \in JudgeEntries(k)
                 PROVE  \E w \in {"skipped", "judge", "error"} :
                          e = Entry(k, w) /\ Has(k, w)
      OBVIOUS
    <3>1. /\ e \in [src : Evals, what : {"adversarial", "skipped", "judge", "error"}]
          /\ e \in results \union logged /\ e.src = k /\ e.what # "adversarial"
      BY DEF JudgeEntries, NInv, Owed
    <3>2. e = Entry(k, e.what)
      BY <3>1 DEF Entry
    <3> QED
      BY <3>1, <3>2 DEF Has
  <2>3. \A w \in {"skipped", "judge", "error"} : Has(k, w) => Entry(k, w) \in JudgeEntries(k)
    BY DEF Has, Entry, JudgeEntries
  <2>4. CASE UnderWay(k)
    <3>1. JudgeEntries(k) = {}
      BY <2>1, <2>2, <2>4 DEF Told, UnderWay
    <3> QED
      BY <2>4, <3>1, FS_EmptySet
  <2>5. CASE ~UnderWay(k)
    <3>1. PICK w \in {"skipped", "judge", "error"} :
            Has(k, w) /\ \A v \in {"skipped", "judge", "error"} : Has(k, v) => v = w
      <4>1. pc[k] \in {"off", "release", "done"}
        BY <2>1, <2>5, ThreadsAre DEF UnderWay, SInv, Typed, PCs
      <4> QED
        BY <2>1, <4>1 DEF Told
    <3>2. JudgeEntries(k) = {Entry(k, w)}
      BY <2>2, <2>3, <3>1
    <3> QED
      BY <2>5, <3>2, FS_Singleton
  <2> QED
    BY <2>4, <2>5
<1>2. Scored = {k \in Evals : Has(k, "adversarial")}
  BY DEF Scored, Has
<1>3. Wrote = {k \in Evals : advTrue[k] # {} /\ (pc[k] = "put" \/ Has(k, "judge"))}
  BY DEF Wrote, Has, JudgeEntries, Entry
<1>4. pending \subseteq Evals /\ taken \subseteq Evals /\ spoilt \subseteq Evals /\ Scored \subseteq Evals
  BY <1>2 DEF NInv
<1>5. Wrote = pending \union taken \union spoilt \union Scored
  BY <1>2, <1>3, <1>4 DEF NInv, Placed
<1>6. /\ pending \intersect taken = {} /\ (pending \union taken) \intersect spoilt = {}
      /\ (pending \union taken \union spoilt) \intersect Scored = {}
  BY <1>2, <1>4 DEF NInv, Placed
<1>7. IsFiniteSet(pending) /\ IsFiniteSet(taken) /\ IsFiniteSet(spoilt) /\ IsFiniteSet(Scored)
  <2>1. IsFiniteSet(Evals)
    BY FS_Interval, StagesAssumption DEF Evals
  <2> QED
    BY <1>4, <2>1, FS_Subset
<1>8. Cardinality(Wrote) = Cardinality(pending) + Cardinality(taken)
                             + Cardinality(spoilt) + Cardinality(Scored)
  <2>1. PICK A, B, C, D : A = pending /\ B = taken /\ C = spoilt /\ D = Scored
    OBVIOUS
  <2>2. /\ IsFiniteSet(A \union B)
        /\ Cardinality(A \union B) = Cardinality(A) + Cardinality(B) - Cardinality(A \intersect B)
    BY <1>7, <2>1, FS_Union
  <2>3. /\ IsFiniteSet(A \union B \union C)
        /\ Cardinality(A \union B \union C) =
             Cardinality(A \union B) + Cardinality(C) - Cardinality((A \union B) \intersect C)
    BY <1>7, <2>1, <2>2, FS_Union
  <2>4. Cardinality(A \union B \union C \union D) =
          Cardinality(A \union B \union C) + Cardinality(D)
            - Cardinality((A \union B \union C) \intersect D)
    BY <1>7, <2>1, <2>3, FS_Union
  <2>5. /\ Cardinality(A) \in Nat /\ Cardinality(B) \in Nat
        /\ Cardinality(C) \in Nat /\ Cardinality(D) \in Nat /\ Cardinality({}) = 0
    BY <1>7, <2>1, FS_CardinalityType, FS_EmptySet
  <2>6. A \intersect B = {} /\ (A \union B) \intersect C = {} /\ (A \union B \union C) \intersect D = {}
    BY <1>6, <2>1
  <2>7. /\ Cardinality(A \intersect B) = 0 /\ Cardinality((A \union B) \intersect C) = 0
        /\ Cardinality((A \union B \union C) \intersect D) = 0
    BY <2>5, <2>6
  <2>8. Wrote = A \union B \union C \union D
    BY <1>5, <2>1
  <2>9. Cardinality(A \union B \union C \union D) =
          Cardinality(A) + Cardinality(B) + Cardinality(C) + Cardinality(D)
    <3>1. PICK a \in Nat, b \in Nat, c \in Nat, d \in Nat :
            /\ a = Cardinality(A) /\ b = Cardinality(B)
            /\ c = Cardinality(C) /\ d = Cardinality(D)
      BY <2>5
    <3>2. Cardinality(A \union B) = a + b
      BY <2>2, <2>7, <3>1
    <3>3. Cardinality(A \union B \union C) = a + b + c
      BY <2>3, <2>7, <3>1, <3>2
    <3>4. Cardinality(A \union B \union C \union D) = a + b + c + d
      BY <2>4, <2>7, <3>1, <3>3
    <3> QED
      BY <3>1, <3>4
  <2> QED
    BY <2>1, <2>8, <2>9
<1> QED
  BY <1>1, <1>5, <1>8 DEF NothingLost

(* Every evaluation that is owed a judge entry gets one, and no texts a    *)
(* stage wrote are lost but with an evaluation that failed, for any number *)
(* of evaluations, threads and deadlines.                                  *)
THEOREM AllArrives == Spec => []NothingLost
<1>1. SInv /\ NInv => NothingLost
  BY CountsAdd
<1> QED
  BY <1>1, NStart, NStep, Invariant, PTL DEF Spec

-----------------------------------------------------------------------------
(* The launcher *)

AllBack == \A t \in Trainers : proc[t] = "ok"

(* The invariant: who lives is on the list; the barrier follows the save;  *)
(* and past the last poll a zero stands for trainers that all returned.    *)
LInv ==
  /\ proc \in [Run!Procs -> {"run", "barrier", "ok", "failed"}]
  /\ lp = "dead" => \A p \in Run!Procs : Run!Live(p) => p \in alive
  /\ proc[Main] \in {"barrier", "ok"} => saved
  /\ \A t \in Trainers : proc[t] = "ok" => saved
  /\ lp \in {"stop", "drain", "terminate", "kill", "end"} /\ rc = 0 => AllBack

(* It holds at the start. *)
LEMMA LStart == Run!Init => LInv
BY RunAssumption DEF Run!LauncherAssumption, Run!Init, LInv, Run!Live, Run!Procs, AllBack

(* A step of the ranks. *)
LEMMA LRanks ==
  ASSUME LInv,
         \/ \E p \in Run!Procs : Run!Work(p) \/ Run!Die(p)
         \/ Run!Step \/ Run!SaveFinal \/ Run!WriteStop
  PROVE  LInv'
<1>1. Main \in Trainers /\ Trainers \subseteq Run!Procs
  BY RunAssumption DEF Run!LauncherAssumption, Run!Procs
<1>2. ASSUME NEW p \in Run!Procs, Run!Block(p) PROVE LInv'
  BY <1>2 DEF Run!Block, LInv, Run!Live, AllBack, Run!launcher
<1>3. ASSUME NEW p \in Run!Procs, Run!Leave(p) PROVE LInv'
  <2>1. p \notin Trainers
    BY <1>3, RunAssumption DEF Run!Leave, Run!LauncherAssumption
  <2> QED
    BY <1>1, <1>3, <2>1 DEF Run!Leave, Run!Become, LInv, Run!Live, AllBack, Run!launcher
<1>4. ASSUME NEW p \in Run!Procs, Run!Await(p) PROVE LInv'
  BY <1>1, <1>4 DEF Run!Await, Run!Become, LInv, Run!Live, AllBack, Run!launcher
<1>5. ASSUME NEW p \in Run!Procs, Run!Return(p) PROVE LInv'
  <2>1. saved
    BY <1>1, <1>5 DEF Run!Return, LInv
  <2> QED
    BY <1>1, <1>5, <2>1 DEF Run!Return, Run!Become, LInv, Run!Live, AllBack, Run!launcher
<1>6. ASSUME NEW p \in Run!Procs, Run!Die(p) PROVE LInv'
  BY <1>1, <1>6 DEF Run!Die, Run!Become, LInv, Run!Live, AllBack, Run!launcher
<1>7. CASE Run!Step
  BY <1>7 DEF Run!Step, LInv, Run!Live, AllBack, Run!launcher
<1>8. CASE Run!SaveFinal
  BY <1>8 DEF Run!SaveFinal, LInv, Run!Live, AllBack, Run!launcher
<1>9. CASE Run!WriteStop
  BY <1>1, <1>9 DEF Run!WriteStop, Run!Become, LInv, Run!Live, AllBack, Run!launcher
<1> QED
  BY <1>2, <1>3, <1>4, <1>5, <1>6, <1>7, <1>8, <1>9 DEF Run!Work

(* A step of the launcher. *)
LEMMA LLaunch ==
  ASSUME LInv, Run!Launch
  PROVE  LInv'
<1>1. Main \in Trainers /\ Trainers \subseteq Run!Procs
  BY RunAssumption DEF Run!LauncherAssumption, Run!Procs
<1>2. CASE Run!ListAlive
  BY <1>2 DEF Run!ListAlive, LInv, Run!Live, AllBack
<1>3. CASE Run!CheckDead
  <2>1. lp' \in {"stop", "drain", "terminate", "kill", "end"} /\ rc' = 0 => AllBack
    <3> SUFFICES ASSUME lp' # "alive", rc' = 0, NEW t \in Trainers
                 PROVE  proc[t] = "ok"
      BY DEF AllBack
    <3>1. ~\E p \in Run!Procs : Run!Broken(p)
      BY <1>3 DEF Run!CheckDead
    <3>2. proc[t] # "failed"
      BY <1>1, <3>1 DEF Run!Broken
    <3>3. t \notin alive
      BY <1>3 DEF Run!CheckDead
    <3> QED
      BY <1>1, <1>3, <3>2, <3>3 DEF Run!CheckDead, LInv, Run!Live
  <2> QED
    BY <1>3, <2>1 DEF Run!CheckDead, LInv, Run!Live, AllBack
<1>4. CASE Run!ForceStop \/ Run!Drain
  BY <1>4 DEF Run!ForceStop, Run!Drain, LInv, Run!Live, AllBack
<1>5. CASE Run!Terminate \/ Run!Kill
  <2>1. /\ lp \in {"terminate", "kill"} /\ lp' \in {"kill", "end"}
        /\ UNCHANGED <<saved, alive, rc>>
        /\ \A p \in Run!Procs : proc'[p] = proc[p] \/ (proc'[p] = "failed" /\ Run!Live(p))
        /\ proc' \in [Run!Procs -> {"run", "barrier", "ok", "failed"}]
    BY <1>5 DEF Run!Terminate, Run!Kill, LInv
  <2> QED
    BY <1>1, <2>1 DEF LInv, Run!Live, AllBack
<1> QED
  BY <1>2, <1>3, <1>4, <1>5 DEF Run!Launch

LEMMA LStep == LInv /\ [Run!Next]_(Run!vars) => LInv'
<1> SUFFICES ASSUME LInv, [Run!Next]_(Run!vars) PROVE LInv'
  OBVIOUS
<1>1. CASE UNCHANGED Run!vars
  BY <1>1 DEF Run!vars, LInv, Run!Live, AllBack
<1> QED
  BY <1>1, LRanks, LLaunch DEF Run!Next, Run!Ended

(* run_launch returns 0 only for a run all of whose trainer ranks returned *)
(* with the final checkpoint saved, whoever died and whenever.             *)
THEOREM ZeroIsSuccess == Run!Spec => []SuccessIsReal
<1>1. LInv => SuccessIsReal
  BY RunAssumption DEF LInv, SuccessIsReal, Run!SuccessIsReal, AllBack,
                       Run!LauncherAssumption
<1> QED
  BY <1>1, LStart, LStep, PTL DEF Run!Spec

-----------------------------------------------------------------------------
(* The two side by side *)

(* What holds of each part holds of the composition the run checks: the    *)
(* judge loses no entry and no texts, leaves nothing behind in the         *)
(* executor and keeps the naive arm, and the return code is the truth.     *)
THEOREM PartsAreSound ==
  PartsSpec => [](NothingLost /\ NoOrphans /\ SuccessIsReal) /\ NaiveArmFixed
<1>1. PartsInit => SInv /\ NInv /\ LInv
  BY StartInv, NStart, LStart DEF PartsInit
<1>2. [PartsNext]_PartsVars => [Next]_vars /\ [Run!Next]_(Run!vars)
  BY DEF PartsNext, PartsVars, InJudge, InLauncher, runVars, vars, Run!vars
<1>3. SInv /\ NInv /\ LInv /\ [PartsNext]_PartsVars => SInv' /\ NInv' /\ LInv'
  BY <1>2, StepInv, NStep, LStep
<1>4. LInv => SuccessIsReal
  BY RunAssumption DEF LInv, SuccessIsReal, Run!SuccessIsReal, AllBack,
                       Run!LauncherAssumption
<1>5. SInv /\ NInv => NothingLost /\ NoOrphans
  BY CountsAdd DEF SInv, Left, NoOrphans
<1>6. SInv /\ [PartsNext]_PartsVars =>
        [\A f \in Features :
           /\ naive[f].desc # Nobody => naive'[f].desc = naive[f].desc
           /\ naive[f].texts # Nobody => naive'[f].texts = naive[f].texts]_vars
  BY <1>2, FillsOnly
<1> QED
  BY <1>1, <1>3, <1>4, <1>5, <1>6, PTL DEF PartsSpec, NaiveArmFixed

=============================================================================
