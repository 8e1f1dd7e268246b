---------------------------- MODULE JudgePassProofs ----------------------------
(***************************************************************************)
(* Proofs about JudgePass, for every set of requests, any number of        *)
(* workers, passes and kills, both packages and every cap and price: no    *)
(* answer is asked for twice, recorded twice, or missing from a stage that *)
(* is marked complete; and the ledger passes its cap by no more than the   *)
(* calls under way may overrun, hands on every cent, and knows the cost of *)
(* every answer on disk.                                                   *)
(***************************************************************************)
EXTENDS JudgePass, SumLemmas

Pending == {"queued", "ready", "sent", "finished", "raised"}

(* The types the rest needs; the ledger's are not among them. *)
Typed ==
  /\ package \in {"shared", "coherence"}
  /\ log \in [Requests -> Seq(Record)]
  /\ phase \in {"off", "copy", "run", "drain", "check"}
  /\ task \in [Keys -> Task] /\ left \in SUBSET Requests
  /\ \A k \in Keys : task[k].at \in {"none", "queued", "ready"} => task[k].tries < 2
  /\ marked => phase = "off"
  /\ phase \in {"off", "copy"} => \A k \in Keys : task[k].at = "none"
  /\ phase = "check" => \A k \in Keys : task[k].at \in {"none", "logged"}

(* A key whose call is not being written down has no answer in the log; of *)
(* the one that is, those still owed the record have none.                 *)
Unanswered ==
  \A k \in Keys :
    /\ task[k].at \in Pending => ~Answered(k)
    /\ task[k].at = "logging" =>
         left # {} /\ left \subseteq Of(k) /\ \A r \in left : Settled(r) = {}

Has(r, kind) == \E n \in DOMAIN log[r] : log[r][n].kind = kind

(* A key without a task is answered for each of its requesters, and one    *)
(* that has been collected is in the log of each, or about to be.          *)
WrittenDown ==
  \A k \in Keys : \A r \in Of(k) :
    /\ phase \in {"run", "drain", "check"} /\ task[k].at = "none"
         => Settled(r) # {}
    /\ task[k].at = "logging" => r \in left \/ Has(r, task[k].kind)
    /\ task[k].at = "logged" => Has(r, task[k].kind)

JInv == Typed /\ Unanswered /\ NoDuplicates /\ WrittenDown /\ StageHonest

-----------------------------------------------------------------------------
(* The log *)

(* What one append does to the log, and to what is settled. *)
LEMMA Appended ==
  ASSUME log \in [Requests -> Seq(Record)], package' = package,
         NEW r \in Requests, NEW rec \in Record, Append1(r, rec)
  PROVE  /\ log' \in [Requests -> Seq(Record)]
         /\ \A q \in Requests \ {r} : Settled(q)' = Settled(q)
         /\ \A q \in Requests : Settled(q) \subseteq Settled(q)'
         /\ Settled(r) = {} => \A m, n \in Settled(r)' : m = n
         /\ \A q \in Requests, kind \in Kinds : Has(q, kind) => Has(q, kind)'
         /\ Has(r, rec.kind)'
  <1> DEFINE end == Len(log[r]) + 1
  <1>1. /\ log' \in [Requests -> Seq(Record)] /\ log'[r] = Append(log[r], rec)
        /\ \A q \in Requests \ {r} : log'[q] = log[q]
    BY DEF Append1
  <1>2. log[r] \in Seq(Record) OBVIOUS
  <1>3. /\ DOMAIN log[r] = 1 .. Len(log[r]) /\ DOMAIN log'[r] = 1 .. end
        /\ Len(log[r]) \in Nat
        /\ log'[r][end] = rec /\ \A n \in DOMAIN log[r] : log'[r][n] = log[r][n]
    BY <1>1, <1>2
  <1>4. \A x : Retryable(x)' = Retryable(x) BY DEF Retryable
  <1>5. \A q \in Requests \ {r} : Settled(q)' = Settled(q)
    BY <1>1 DEF Settled, Retryable
  <1>6. /\ Settled(r) \subseteq Settled(r)'
        /\ Settled(r)' \subseteq Settled(r) \union {end}
    BY <1>3 DEF Settled, Retryable
  <1>7. \A q \in Requests, kind \in Kinds : Has(q, kind) => Has(q, kind)'
    <2> TAKE q \in Requests, kind \in Kinds
    <2> HAVE Has(q, kind)
    <2>1. PICK n \in DOMAIN log[q] : log[q][n].kind = kind BY DEF Has
    <2>2. n \in DOMAIN log'[q] /\ log'[q][n] = log[q][n]
      <3>1. CASE q = r BY <1>3, <2>1, <3>1
      <3>2. CASE q # r BY <1>1, <2>1, <3>2
      <3> QED BY <3>1, <3>2
    <2> QED BY <2>1, <2>2 DEF Has
  <1>8. Has(r, rec.kind)' BY <1>3 DEF Has
  <1> QED BY <1>1, <1>5, <1>6, <1>7, <1>8

LEMMA FirstIsOne ==
  ASSUME NEW S \in SUBSET Requests, S # {}
  PROVE  First(S) \in S
  <1>1. S \in SUBSET Nat BY DEF Requests
  <1> QED BY <1>1, LeastNumber DEF First

(* The copy a requester gets is a record of the log. *)
LEMMA AnswerIsRecord ==
  ASSUME log \in [Requests -> Seq(Record)], NEW k \in Keys, Answered(k)
  PROVE  AnswerOf(k) \in Record
  <1> DEFINE S == UNION {{log[r][n] : n \in Settled(r)} : r \in Of(k)}
  <1>1. ASSUME NEW r \in Of(k), NEW n \in Settled(r) PROVE log[r][n] \in Record
    <2>1. log[r] \in Seq(Record) BY DEF Of
    <2> QED BY <2>1 DEF Settled
  <1>3. S # {}
    <2>1. PICK r \in Of(k) : Settled(r) # {} BY DEF Answered
    <2>2. PICK n \in Settled(r) : TRUE BY <2>1
    <2>3. log[r][n] \in {log[r][m] : m \in Settled(r)} BY <2>2
    <2>4. log[r][n] \in S BY <2>1, <2>3
    <2> QED BY <2>4
  <1>2. AnswerOf(k) \in S
    <2>1. AnswerOf(k) = CHOOSE rec \in S : TRUE BY DEF AnswerOf
    <2> HIDE DEF S
    <2> QED BY <1>3, <2>1
  <1>4. PICK r \in Of(k) : AnswerOf(k) \in {log[r][n] : n \in Settled(r)}
    BY <1>2
  <1>5. PICK n \in Settled(r) : AnswerOf(k) = log[r][n] BY <1>4
  <1> QED BY <1>1, <1>5

LEMMA KeysAreApart ==
  ASSUME NEW j \in Keys, NEW k \in Keys, NEW r \in Of(j), r \in Of(k)
  PROVE  j = k
  BY DEF Of

(* Records are about their request alone. *)
LEMMA AnsweredBySettled ==
  ASSUME NEW k \in Keys, \A r \in Of(k) : Settled(r)' = Settled(r)
  PROVE  Answered(k)' <=> Answered(k)
  BY DEF Answered, Of

-----------------------------------------------------------------------------
(* The invariant *)

LEMMA JInit == Init => JInv
  <1> SUFFICES ASSUME Init PROVE JInv OBVIOUS
  <1> USE DEF Init, Idle
  <1>1. Typed BY DEF Typed, Task, Kinds, Replies, Errors, Unasked
  <1>2. Unanswered BY DEF Unanswered, Pending
  <1>3. NoDuplicates BY DEF NoDuplicates, Settled
  <1>4. WrittenDown BY DEF WrittenDown
  <1>5. StageHonest BY DEF StageHonest
  <1> QED BY <1>1, <1>2, <1>3, <1>4, <1>5 DEF JInv

(* A step that only moves tasks among those not yet collected. *)
LEMMA WorkKeeps ==
  ASSUME JInv, NEW k \in Keys, Work(k)
  PROVE  JInv'
  <1> USE DEF JInv
  <1>1. /\ UNCHANGED <<package, log, left, marked, phase>>
        /\ phase \in {"run", "drain"}
        /\ task[k].at \in Pending
    BY DEF Work, Take, Reserve, Reply, Fail, Raise, IsNext, Pending, disk,
           bounds
  <1>2. /\ \A j \in Keys \ {k} : task'[j] = task[j]
        /\ task' \in [Keys -> Task] /\ task'[k].at \in Pending \ {"queued"}
        /\ task'[k].at = "ready" => task'[k].tries < 2
    <2> USE DEF Typed, Task, Kinds, Replies, Errors, Unasked, Pending
    <2>1. CASE Take(k) BY <2>1 DEF Take, IsNext, Idle
    <2>2. CASE Reserve(k)
      <3> task[k] \in Task /\ task[k].at = "ready" /\ task[k].tries < 2
        BY <2>2 DEF Reserve
      <3>1. CASE OverCap /\ task[k].tries = 0
        <4>1. task' = [task EXCEPT ![k] = [at |-> "finished", tries |-> 1,
                                           kind |-> "budget", cost |-> 0]]
          BY <2>2, <3>1 DEF Reserve
        <4> QED BY <4>1
      <3>2. CASE OverCap /\ task[k].tries # 0
        <4>1. task' = [task EXCEPT ![k] = [@ EXCEPT !.at = "finished"]]
          BY <2>2, <3>2 DEF Reserve
        <4> QED BY <4>1
      <3>3. CASE ~OverCap
        <4>1. task' = [task EXCEPT ![k].at = "sent", ![k].tries = @ + 1]
          BY <2>2, <3>3 DEF Reserve
        <4> QED BY <4>1
      <3> QED BY <3>1, <3>2, <3>3
    <2>3. CASE Reply(k) BY <2>3, LedgerAssumption DEF Reply
    <2>4. CASE Fail(k) BY <2>4 DEF Fail
    <2>5. CASE Raise(k) BY <2>5 DEF Raise
    <2> QED BY <2>1, <2>2, <2>3, <2>4, <2>5 DEF Work
  <1>3. \A r : Settled(r)' = Settled(r) BY <1>1 DEF Settled, Retryable
  <1>4. \A j \in Keys : Answered(j)' <=> Answered(j)
    BY <1>3 DEF Answered
  <1>5. Typed' BY <1>1, <1>2 DEF Typed, Pending
  <1>6. Unanswered' BY <1>1, <1>2, <1>3, <1>4 DEF Unanswered, Pending
  <1>7. NoDuplicates' BY <1>3 DEF NoDuplicates
  <1>8. WrittenDown' BY <1>1, <1>2, <1>3 DEF WrittenDown, Has, Pending
  <1>9. StageHonest' BY <1>1 DEF StageHonest, Typed
  <1> QED BY <1>5, <1>6, <1>7, <1>8, <1>9

(* The process ends, by itself or not; only the log and the mark stay. *)
LEMMA GoneKeeps ==
  ASSUME JInv, Gone, UNCHANGED <<package, log>>, StageHonest'
  PROVE  JInv'
  <1> USE DEF JInv
  <1>1. phase' = "off" /\ left' = {} /\ task' = [k \in Keys |-> Idle]
    BY DEF Gone
  <1>2. \A k \in Keys : task'[k] = Idle BY <1>1
  <1>3. Idle \in Task /\ Idle.at = "none" /\ Idle.tries < 2
    BY DEF Idle, Task, Kinds, Replies, Errors, Unasked
  <1>4. Typed' BY <1>1, <1>2, <1>3 DEF Typed
  <1>5. Unanswered' BY <1>2, <1>3 DEF Unanswered, Pending
  <1>6. NoDuplicates' BY DEF NoDuplicates, Settled, Retryable
  <1>7. WrittenDown' BY <1>1, <1>2, <1>3 DEF WrittenDown
  <1> QED BY <1>4, <1>5, <1>6, <1>7

(* The steps of the main thread that leave the log alone. *)
LEMMA MainKeeps ==
  ASSUME JInv, \/ Start \/ Submit \/ Checkpoint \/ Return \/ GiveUp
               \/ \E k \in Keys : Collect(k)
  PROVE  JInv'
  <1> USE DEF JInv
  <1>1. UNCHANGED <<package, log, marked>>
    BY DEF Start, Submit, Checkpoint, Return, GiveUp, Collect, disk, bounds
  <1>2. \A r : Settled(r)' = Settled(r) BY <1>1 DEF Settled, Retryable
  <1>3. \A j \in Keys : Answered(j)' <=> Answered(j)
    BY <1>2 DEF Answered
  <1>4. NoDuplicates' /\ StageHonest'
    BY <1>1, <1>2 DEF NoDuplicates, StageHonest
  <1>5. /\ \A k \in Keys : /\ task[k] \in Task
                          /\ [Idle EXCEPT !.at = "queued"] \in Task
        /\ Idle \in Task /\ Idle.at = "none" /\ Idle.tries = 0
        /\ [Idle EXCEPT !.at = "queued"].at = "queued"
        /\ [Idle EXCEPT !.at = "queued"].tries = 0
    BY DEF Typed, Task, Idle, Kinds, Replies, Errors, Unasked
  <1>6. CASE Start
    <2>1. /\ phase' = "copy" /\ left' = {} /\ ~marked
          /\ \A k \in Keys : task'[k] = Idle
          /\ task' \in [Keys -> Task]
      BY <1>5, <1>6 DEF Start
    <2>2. Typed' BY <1>1, <1>5, <2>1 DEF Typed
    <2>3. Unanswered' BY <1>5, <2>1 DEF Unanswered, Pending
    <2>4. WrittenDown' BY <1>5, <2>1 DEF WrittenDown
    <2> QED BY <1>4, <2>2, <2>3, <2>4
  <1>7. CASE Submit
    <2>1. /\ phase = "copy" /\ phase' = "run" /\ left' = left /\ Owed = {}
          /\ task' = [k \in Keys |-> IF Answered(k) THEN Idle
                                     ELSE [Idle EXCEPT !.at = "queued"]]
      BY <1>7 DEF Submit
    <2> DEFINE queued == [Idle EXCEPT !.at = "queued"]
    <2>2. \A k \in Keys : task'[k] = IF Answered(k) THEN Idle ELSE queued
      BY <2>1
    <2>3. task' \in [Keys -> Task] BY <1>5, <2>1
    <2>4. ~marked BY <2>1 DEF Typed
    <2> HIDE DEF queued
    <2>5. queued.at = "queued" /\ queued.tries = 0 BY <1>5 DEF queued
    <2>6. Typed' BY <1>1, <1>5, <2>1, <2>2, <2>3, <2>4, <2>5 DEF Typed
    <2>7. Unanswered' BY <1>3, <1>5, <2>2, <2>5 DEF Unanswered, Pending
    <2>8. \A k \in Keys : Answered(k) => \A r \in Of(k) : Settled(r) # {}
      BY <2>1 DEF Owed, Of
    <2>9. WrittenDown' BY <1>2, <1>5, <2>1, <2>2, <2>5, <2>8 DEF WrittenDown
    <2> QED BY <1>4, <2>6, <2>7, <2>9
  <1>8. CASE Checkpoint
    <2>1. UNCHANGED <<task, left, phase>> BY <1>8 DEF Checkpoint, pool
    <2>2. Typed' BY <1>1, <2>1 DEF Typed
    <2>3. Unanswered' BY <1>2, <1>3, <2>1 DEF Unanswered
    <2>4. WrittenDown' BY <1>1, <1>2, <2>1 DEF WrittenDown, Has
    <2> QED BY <1>4, <2>2, <2>3, <2>4
  <1>9. CASE Gone
    BY <1>1, <1>4, <1>9, GoneKeeps
  <1>10. CASE Return /\ ~Gone
    <2>1. /\ UNCHANGED <<task, left>> /\ phase = "run" /\ phase' = "check"
          /\ \A k \in Keys : task[k].at \in {"none", "logged"}
      BY <1>10 DEF Return
    <2>2. Typed' BY <1>1, <2>1 DEF Typed
    <2>3. Unanswered' BY <1>2, <1>3, <2>1 DEF Unanswered
    <2>4. WrittenDown' BY <1>1, <1>2, <2>1 DEF WrittenDown, Has
    <2> QED BY <1>4, <2>2, <2>3, <2>4
  <1>11. ASSUME NEW k \in Keys, Collect(k) PROVE JInv'
    <2>1. /\ phase = "run" /\ left = {} /\ ~marked
          /\ \A j \in Keys : task[j].at # "logging"
      BY <1>11 DEF Collect, Typed, Unanswered
    <2>2. CASE task[k].at = "finished" /\ phase' = phase
      <3>1. /\ left' = Of(k) /\ task' = [task EXCEPT ![k].at = "logging"]
        BY <1>11, <2>2 DEF Collect
      <3>2. /\ \A j \in Keys \ {k} : task'[j] = task[j]
            /\ task' \in [Keys -> Task] /\ task'[k].at = "logging"
        BY <3>1 DEF Typed, Task
      <3>3. \E r \in Requests : r \in Of(k) BY RequestsAssumption DEF Of
      <3>4. Of(k) \in SUBSET Requests BY DEF Of
      <3>5. \A r \in Of(k) : Settled(r) = {}
        BY <2>2 DEF Unanswered, Pending, Answered
      <3>6. Typed' BY <1>1, <2>1, <2>2, <3>1, <3>2, <3>4 DEF Typed
      <3>7. Unanswered'
        BY <1>2, <1>3, <2>1, <3>1, <3>2, <3>3, <3>5 DEF Unanswered, Pending
      <3>8. WrittenDown'
        BY <1>1, <1>2, <2>1, <2>2, <3>1, <3>2 DEF WrittenDown, Has
      <3> QED BY <1>4, <3>6, <3>7, <3>8
    <2>3. CASE task[k].at = "raised" /\ phase' = "drain"
      <3>1. UNCHANGED <<task, left>> BY <1>11, <2>3 DEF Collect
      <3>2. Typed' BY <1>1, <2>1, <2>3, <3>1 DEF Typed
      <3>3. Unanswered' BY <1>2, <1>3, <3>1 DEF Unanswered
      <3>4. WrittenDown' BY <1>1, <1>2, <2>1, <2>3, <3>1 DEF WrittenDown, Has
      <3> QED BY <1>4, <3>2, <3>3, <3>4
    <2> QED BY <1>11, <2>2, <2>3 DEF Collect
  <1> QED BY <1>6, <1>7, <1>8, <1>9, <1>10, <1>11 DEF GiveUp

(* One more requester gets the answer the log has. *)
LEMMA CopyKeeps ==
  ASSUME JInv, CopyAnswer
  PROVE  JInv'
  <1> USE DEF JInv
  <1>1. /\ phase = "copy" /\ Owed # {}
        /\ Append1(First(Owed), AnswerOf(KeyOf[First(Owed)]))
        /\ UNCHANGED <<package, task, left, phase, marked>>
    BY DEF CopyAnswer, pool, bounds
  <1>2. First(Owed) \in Owed BY <1>1, FirstIsOne DEF Owed
  <1>3. PICK r \in Owed : r = First(Owed) BY <1>2
  <1>4. /\ log \in [Requests -> Seq(Record)] /\ r \in Requests /\ Settled(r) = {}
        /\ KeyOf[r] \in Keys /\ Answered(KeyOf[r])
    BY RequestsAssumption DEF Owed, Typed
  <1>5. AnswerOf(KeyOf[r]) \in Record BY <1>4, AnswerIsRecord
  <1>6. PICK rec \in Record : rec = AnswerOf(KeyOf[r]) BY <1>5
  <1>7. Append1(r, rec) BY <1>1, <1>3, <1>6
  <1>8. /\ log' \in [Requests -> Seq(Record)]
        /\ \A q \in Requests \ {r} : Settled(q)' = Settled(q)
        /\ \A m, n \in Settled(r)' : m = n
    BY <1>1, <1>4, <1>7, Appended
  <1>9. Typed' BY <1>1, <1>8 DEF Typed
  <1>10. Unanswered' /\ WrittenDown'
    BY <1>1 DEF Typed, Unanswered, WrittenDown, Pending
  <1>11. NoDuplicates' BY <1>8 DEF NoDuplicates
  <1>12. StageHonest' BY <1>1 DEF StageHonest, Typed
  <1> QED BY <1>9, <1>10, <1>11, <1>12

(* The record of a finished call reaches the next of its requesters. *)
LEMMA RecordKeeps ==
  ASSUME JInv, NEW k \in Keys, LogRecord(k)
  PROVE  JInv'
  <1> USE DEF JInv
  <1>1. /\ task[k].at = "logging" /\ left # {} /\ left \subseteq Of(k)
        /\ left \in SUBSET Requests
        /\ UNCHANGED <<package, phase, marked>>
    BY DEF LogRecord, Unanswered, Typed, bounds
  <1>2. First(left) \in left BY <1>1, FirstIsOne
  <1>3. PICK r \in left : r = First(left) BY <1>2
  <1>4. PICK rec \in Record :
          rec = [kind |-> task[k].kind, tries |-> task[k].tries,
                 cost |-> task[k].cost]
    <2>1. task[k] \in Task BY DEF Typed
    <2> QED BY <2>1 DEF Task, Record
  <1>5. /\ r \in Requests /\ r \in Of(k) /\ Settled(r) = {}
        /\ rec.kind = task[k].kind
        /\ log \in [Requests -> Seq(Record)]
    BY <1>1, <1>4 DEF Typed, Unanswered
  <1>6. /\ Append1(r, rec) /\ left' = left \ {r}
        /\ left = {r} => task' = [task EXCEPT ![k].at = "logged"]
        /\ left # {r} => task' = task
    <2>1. Append1(First(left),
                  [kind |-> task[k].kind, tries |-> task[k].tries,
                   cost |-> task[k].cost])
      BY Zenon DEF LogRecord
    <2>2. /\ left' = left \ {First(left)}
          /\ left = {First(left)} => task' = [task EXCEPT ![k].at = "logged"]
          /\ left # {First(left)} => task' = task
      BY Zenon DEF LogRecord
    <2> QED BY <1>3, <1>4, <2>1, <2>2, Zenon
  <1>7. /\ log' \in [Requests -> Seq(Record)]
        /\ \A q \in Requests \ {r} : Settled(q)' = Settled(q)
        /\ \A q \in Requests : Settled(q) \subseteq Settled(q)'
        /\ \A m, n \in Settled(r)' : m = n
        /\ \A q \in Requests, kind \in Kinds : Has(q, kind) => Has(q, kind)'
        /\ Has(r, rec.kind)'
    BY <1>1, <1>5, <1>6, Appended
  <1>8. /\ task' \in [Keys -> Task]
        /\ \A j \in Keys \ {k} : task'[j] = task[j]
        /\ task'[k].at = (IF left = {r} THEN "logged" ELSE "logging")
        /\ task'[k].kind = task[k].kind
    <2>1. task \in [Keys -> Task] /\ task[k] \in Task BY DEF Typed
    <2>2. CASE left = {r}
      <3>1. task' = [task EXCEPT ![k].at = "logged"] BY <1>6, <2>2
      <3>2. [task[k] EXCEPT !.at = "logged"] \in Task BY <2>1 DEF Task
      <3>3. task' = [task EXCEPT ![k] = [task[k] EXCEPT !.at = "logged"]] BY <3>1
      <3> QED BY <2>1, <2>2, <3>2, <3>3 DEF Task
    <2>3. CASE left # {r} BY <1>1, <1>6, <2>1, <2>3
    <2> QED BY <2>2, <2>3
  <1>9. Typed'
    BY <1>1, <1>6, <1>7, <1>8 DEF Typed
  <1>10. \A j \in Keys \ {k} : \A q \in Of(j) :
           q \in Requests /\ q # r /\ q \notin left
    BY <1>1, <1>5, KeysAreApart DEF Of
  <1>11. \A j \in Keys \ {k} : task[j].at # "logging"
    BY <1>1, <1>10 DEF Unanswered
  <1>12. Unanswered'
    <2>1. ASSUME NEW j \in Keys, task'[j].at \in Pending PROVE ~Answered(j)'
      <3>1. j # k BY <1>8, <2>1 DEF Pending
      <3>2. task[j].at \in Pending BY <1>8, <2>1, <3>1
      <3>3. \A q \in Of(j) : Settled(q)' = Settled(q) BY <1>7, <1>10, <3>1
      <3> QED BY <3>2, <3>3, AnsweredBySettled DEF Unanswered
    <2>2. ASSUME NEW j \in Keys, task'[j].at = "logging"
          PROVE  /\ left' # {} /\ left' \subseteq Of(j)
                 /\ \A q \in left' : Settled(q)' = {}
      <3>1. j = k BY <1>8, <1>11, <2>2
      <3>2. left # {r} BY <1>8, <2>2, <3>1
      <3>3. \A q \in left : Settled(q) = {} BY <1>1 DEF Unanswered
      <3> QED BY <1>1, <1>6, <1>7, <3>1, <3>2, <3>3
    <2> QED BY <2>1, <2>2 DEF Unanswered
  <1>13. NoDuplicates' BY <1>7 DEF NoDuplicates
  <1>14. WrittenDown'
    <2>1. ASSUME NEW j \in Keys \ {k}, NEW q \in Of(j)
          PROVE  /\ phase' \in {"run", "drain", "check"} /\ task'[j].at = "none"
                      => Settled(q)' # {}
                 /\ task'[j].at # "logging"
                 /\ task'[j].at = "logged" => Has(q, task[j].kind)'
      <3>1. task'[j] = task[j] /\ q \in Requests BY <1>8 DEF Of
      <3>2. task[j].kind \in Kinds BY DEF Typed, Task
      <3>3. PICK kind \in Kinds : kind = task[j].kind BY <3>2
      <3>4. task'[j].at = "logged" => Has(q, kind)'
        BY <1>7, <3>1, <3>3 DEF WrittenDown
      <3> QED BY <1>1, <1>7, <1>11, <3>1, <3>3, <3>4 DEF WrittenDown, Has
    <2>2. ASSUME NEW q \in Of(k)
          PROVE  /\ task'[k].at \in {"logging", "logged"}
                 /\ q \in left' \/ Has(q, task[k].kind)'
                 /\ left = {r} => Has(q, task[k].kind)'
      <3>1. q \in Requests /\ task[k].kind \in Kinds BY DEF Of, Typed, Task
      <3>2. PICK kind \in Kinds : kind = task[k].kind BY <3>1
      <3>3. q \in left \/ Has(q, kind) BY <1>1, <3>2 DEF WrittenDown
      <3>4. q \in left' \/ Has(q, kind)'
        BY <1>5, <1>6, <1>7, <3>1, <3>2, <3>3 DEF Has
      <3>5. left = {r} => left' = {} BY <1>6
      <3>6. task'[k].kind = kind BY <1>8, <3>2
      <3> QED BY <1>8, <3>4, <3>5, <3>6 DEF Has
    <2> QED BY <1>8, <2>1, <2>2 DEF WrittenDown
  <1>15. StageHonest' BY <1>1 DEF StageHonest, Typed, LogRecord
  <1> QED BY <1>9, <1>12, <1>13, <1>14, <1>15

(* The stage is marked only when every requester has its record. *)
LEMMA MarkKeeps ==
  ASSUME JInv, Mark
  PROVE  JInv'
  <1> USE DEF JInv
  <1>1. phase = "check" /\ marked' = Complete /\ Gone /\ UNCHANGED <<package, log>>
    BY DEF Mark, bounds, Gone
  <1>2. ASSUME Complete, NEW r \in Requests
        PROVE  \E n \in DOMAIN log[r] : log[r][n].kind \notin Unasked
    <2>1. PICK k \in Keys : KeyOf[r] = k BY RequestsAssumption
    <2>2. r \in Of(k) /\ task[k].at \in {"none", "logged"}
      BY <1>1, <2>1 DEF Of, Typed
    <2>3. CASE task[k].at = "none"
      <3>1. PICK n \in Settled(r) : TRUE BY <1>1, <2>2, <2>3 DEF WrittenDown
      <3> QED BY <3>1 DEF Settled, Retryable
    <2>4. CASE task[k].at = "logged"
      <3>1. task[k].kind \notin Unasked BY <1>2, <2>4 DEF Complete
      <3> QED BY <2>2, <2>4, <3>1 DEF WrittenDown, Has
    <2> QED BY <2>2, <2>3, <2>4
  <1>3. StageHonest' BY <1>1, <1>2 DEF StageHonest
  <1> QED BY <1>1, <1>3, GoneKeeps

LEMMA KillKeeps ==
  ASSUME JInv, Kill
  PROVE  JInv'
  <1>1. StageHonest' BY DEF Kill, JInv, StageHonest
  <1>2. Gone /\ UNCHANGED <<package, log>> BY DEF Kill
  <1> QED BY <1>1, <1>2, GoneKeeps

LEMMA StutterKeeps ==
  ASSUME JInv, UNCHANGED vars
  PROVE  JInv'
  <1> USE DEF JInv, vars
  <1>1. \A r : Settled(r)' = Settled(r) BY DEF Settled, Retryable
  <1>2. \A k : Answered(k)' <=> Answered(k) BY <1>1 DEF Answered
  <1>3. Typed' BY DEF Typed
  <1>4. Unanswered' BY <1>1, <1>2 DEF Unanswered
  <1>5. NoDuplicates' BY <1>1 DEF NoDuplicates
  <1>6. WrittenDown' BY <1>1 DEF WrittenDown, Has
  <1>7. StageHonest' BY DEF StageHonest
  <1> QED BY <1>3, <1>4, <1>5, <1>6, <1>7

LEMMA JInvariance == Spec => []JInv
  <1>1. JInv /\ [Next]_vars => JInv'
    <2> SUFFICES ASSUME JInv, [Next]_vars PROVE JInv' OBVIOUS
    <2> QED BY WorkKeeps, MainKeeps, CopyKeeps, RecordKeeps, MarkKeeps,
               KillKeeps, StutterKeeps
            DEF Next, Main, Done
  <1> QED BY JInit, <1>1, PTL DEF Spec

-----------------------------------------------------------------------------
(* Theorems *)

(* A key with an answer under any of its requesters is never asked again,  *)
(* whatever kills and retries the log has been through.                    *)
THEOREM NeverAskedTwice == Spec => []AnsweredOnce
  <1>1. JInv => AnsweredOnce
    BY DEF JInv, Unanswered, Pending, AnsweredOnce
  <1> QED BY JInvariance, <1>1, PTL

(* No requester gets a second settled record: not by a copy of an answer,  *)
(* nor by the passes after one that died while it wrote them.              *)
THEOREM NeverRecordedTwice == Spec => []NoDuplicates
  <1>1. JInv => NoDuplicates BY DEF JInv
  <1> QED BY JInvariance, <1>1, PTL

(* A stage marked complete has a reply, or a failure that counts as one,   *)
(* for every requester, over any number of passes.                         *)
THEOREM MarkedIsComplete == Spec => []StageHonest
  <1>1. JInv => StageHonest BY DEF JInv
  <1> QED BY JInvariance, <1>1, PTL

-----------------------------------------------------------------------------
(* The ledger *)

Answers(k) == UNION {{log[r][n] : n \in Settled(r)} : r \in Of(k)}

RecordOf(t) == [kind |-> t.kind, tries |-> t.tries, cost |-> t.cost]

(* What a key weighs: its answer in the log, or else the last reply.       *)
Weights ==
  [k \in Keys |-> IF Answered(k) THEN AnswerOf(k).cost ELSE task[k].cost]

(* What each call has reserved; one that raised never gives it back.       *)
Held == [k \in Keys |-> IF task[k].at \in {"sent", "raised"} THEN Est ELSE 0]

Weight == SumOver(Weights, Keys)
HeldUp == SumOver(Held, Keys)

(* A key that is not sent costs nothing, and one that is written down has  *)
(* no other answer than the record on its way.                             *)
OneRecord ==
  \A k \in Keys :
    /\ task[k].at \in {"none", "queued"} => task[k].cost = 0
    /\ task[k].at = "logging" => Answers(k) \subseteq {RecordOf(task[k])}

Limit == Cap + Workers * Over

(* What the calls under way may still cost beyond their estimates.         *)
InFlight == {k \in Keys : task[k].at = "sent"}
Risk     == Cardinality(InFlight) * Over

(* The limit holds even if every call under way overruns.                  *)
UnderLimit ==
  /\ spent \in Nat /\ reserved \in Nat /\ saved \in Nat /\ saved <= Limit
  /\ phase # "off" => reserved = HeldUp /\ spent + reserved + Risk <= Limit

(* rollout_coherence, which loads the larger of the file and the log, has  *)
(* spent what all its keys weigh.                                          *)
Covered ==
  package = "coherence" =>
    /\ Weight <= Limit
    /\ phase # "off" => Weight <= spent
    /\ kills = 0 /\ phase \in {"off", "check"} => Weight <= saved

Money ==
  kills \in Nat /\ charged \in Nat /\ OneRecord /\ UnderLimit /\ Covered /\ LedgerExact

LEMMA FiniteKeys == IsFiniteSet(Keys) BY RequestsAssumption

LEMMA LimitIsNat == Over \in Nat /\ Limit \in Nat /\ Cap \in Nat /\ Cap <= Limit
  <1>1. Over \in Nat /\ Workers \in Nat /\ Cap \in Nat
    BY LedgerAssumption, PoolAssumption DEF Over
  <1>2. Workers * Over \in Nat BY <1>1
  <1> QED BY <1>1, <1>2 DEF Limit

(* The more calls are under way, the more they may overrun.                *)
LEMMA TimesGrows ==
  ASSUME NEW m \in Nat, NEW n \in Nat, NEW o \in Nat, m <= n
  PROVE  m * o \in Nat /\ m * o <= n * o
  <1>1. PICK d \in Nat : n = m + d
    <2>1. n - m \in Nat /\ n = m + (n - m) OBVIOUS
    <2> QED BY <2>1
  <1>2. n * o = m * o + d * o BY <1>1
  <1>3. m * o \in Nat /\ d * o \in Nat OBVIOUS
  <1> QED BY <1>2, <1>3

(* The executor runs no more calls than it has threads. *)
PoolHolds == Cardinality(Busy) <= Workers

LEMMA PoolInvariance == Spec => []PoolHolds
  <1>1. Init => PoolHolds
    <2> SUFFICES ASSUME Init PROVE PoolHolds OBVIOUS
    <2>1. Busy = {} BY DEF Init, Busy, Idle
    <2> QED BY <2>1, FS_EmptySet, PoolAssumption DEF PoolHolds
  <1>2. JInv /\ PoolHolds /\ [Next]_vars => PoolHolds'
    <2> SUFFICES ASSUME JInv, PoolHolds, [Next]_vars PROVE PoolHolds'
      OBVIOUS
    <2> USE DEF JInv
    <2>1. IsFiniteSet(Busy) /\ Cardinality(Busy) \in Nat /\ Workers \in Nat
      <3>1. Busy \subseteq Keys BY DEF Busy
      <3> QED BY <3>1, FiniteKeys, FS_Subset, FS_CardinalityType, PoolAssumption
    <2>2. CASE Busy' \subseteq Busy
      <3>1. PICK B : B = Busy' OBVIOUS
      <3>2. Cardinality(B) <= Cardinality(Busy) /\ Cardinality(B) \in Nat
        BY <2>1, <2>2, <3>1, FS_Subset, FS_CardinalityType
      <3> QED BY <2>1, <3>1, <3>2 DEF PoolHolds
    <2>3. ASSUME NEW k \in Keys, Take(k) PROVE PoolHolds'
      <3>1. Cardinality(Busy) < Workers BY <2>3 DEF Take, IsNext
      <3>2. Busy' \subseteq Busy \union {k} BY <2>3 DEF Take, Busy, Typed
      <3>3. PICK B : B = Busy' OBVIOUS
      <3>4. /\ IsFiniteSet(Busy \union {k})
            /\ Cardinality(Busy \union {k}) <= Cardinality(Busy) + 1
            /\ Cardinality(Busy \union {k}) \in Nat
        <4>1. /\ IsFiniteSet(Busy \union {k})
              /\ Cardinality(Busy \union {k}) =
                   IF k \in Busy THEN Cardinality(Busy) ELSE Cardinality(Busy) + 1
          BY <2>1, FS_AddElement
        <4> QED BY <2>1, <4>1
      <3>5. Cardinality(B) <= Cardinality(Busy \union {k}) /\ Cardinality(B) \in Nat
        BY <3>2, <3>3, <3>4, FS_Subset, FS_CardinalityType
      <3> QED BY <2>1, <3>1, <3>3, <3>4, <3>5 DEF PoolHolds
    <2>4. ASSUME NEW k \in Keys, Reserve(k) \/ Reply(k) \/ Fail(k) \/ Raise(k)
          PROVE  Busy' \subseteq Busy
      BY <2>4 DEF Reserve, Reply, Fail, Raise, Busy, Typed
    <2>5. ASSUME Gone \/ Start \/ Submit PROVE Busy' \subseteq Busy
      <3>1. \A k \in Keys : task'[k].at \in {"none", "queued"}
        BY <2>5 DEF Gone, Start, Submit, Idle
      <3> QED BY <3>1 DEF Busy
    <2>6. ASSUME UNCHANGED task PROVE Busy' \subseteq Busy BY <2>6 DEF Busy
    <2>7. ASSUME NEW k \in Keys, Collect(k) \/ LogRecord(k)
          PROVE  Busy' \subseteq Busy
      <3>1. CASE task' = task BY <3>1 DEF Busy
      <3>2. CASE \E at \in {"logging", "logged"} : task' = [task EXCEPT ![k].at = at]
        BY <3>2 DEF Busy, Typed, Task
      <3> QED BY <2>7, <3>1, <3>2, Zenon DEF Collect, LogRecord
    <2>8. \/ Gone \/ Start \/ Submit \/ UNCHANGED task
          \/ \E k \in Keys : \/ Take(k) \/ Collect(k) \/ LogRecord(k)
                            \/ Reserve(k) \/ Reply(k) \/ Fail(k) \/ Raise(k)
      BY DEF Next, Main, Done, Work, CopyAnswer, Checkpoint, Return, GiveUp,
             Mark, Kill, pool, vars
    <2> QED BY <2>2, <2>3, <2>4, <2>5, <2>6, <2>7, <2>8
  <1> QED BY JInvariance, <1>1, <1>2, PTL DEF Spec

LEMMA RiskIsNat == Risk \in Nat
  <1>1. IsFiniteSet(InFlight) BY FiniteKeys, FS_Subset DEF InFlight
  <1>2. Cardinality(InFlight) \in Nat BY <1>1, FS_CardinalityType
  <1> QED BY <1>2, LimitIsNat DEF Risk

(* A step that sends no call and ends none. *)
LEMMA SameRisk ==
  ASSUME \A k \in Keys : task'[k].at = "sent" <=> task[k].at = "sent"
  PROVE  Risk' = Risk
  <1>1. InFlight' = InFlight BY DEF InFlight
  <1> QED BY <1>1 DEF Risk

LEMMA NoRisk ==
  ASSUME \A k \in Keys : task'[k].at # "sent"
  PROVE  Risk' = 0
  <1>1. InFlight' = {} BY DEF InFlight
  <1>2. Risk' = 0 * Over BY <1>1, FS_EmptySet DEF Risk
  <1> QED BY <1>2, LimitIsNat

(* Numbers, and in numbers. *)
Numbers ==
  /\ \A k \in Keys : Weights[k] \in Nat
  /\ \A k \in Keys : Held[k] \in Nat
  /\ Weight \in Nat /\ HeldUp \in Nat

LEMMA WeightIsNat == Typed => Numbers
  <1> SUFFICES ASSUME Typed PROVE Numbers OBVIOUS
  <1>1. ASSUME NEW k \in Keys PROVE Weights[k] \in Nat
    <2>1. CASE Answered(k)
      <3>1. AnswerOf(k) \in Record BY <2>1, AnswerIsRecord DEF Typed
      <3> QED BY <2>1, <3>1 DEF Weights, Record
    <2>2. CASE ~Answered(k) BY <2>2 DEF Weights, Typed, Task
    <2> QED BY <2>1, <2>2
  <1>2. \A k \in Keys : Held[k] \in Nat BY LedgerAssumption DEF Held
  <1>3. Weight \in Nat
    <2>1. PICK w : w = Weights OBVIOUS
    <2>2. SumOver(w, Keys) \in Nat BY <1>1, <2>1, SumIsNat, FiniteKeys
    <2> QED BY <2>1, <2>2 DEF Weight
  <1>4. HeldUp \in Nat
    <2>1. PICK w : w = Held OBVIOUS
    <2>2. SumOver(w, Keys) \in Nat BY <1>2, <2>1, SumIsNat, FiniteKeys
    <2> QED BY <2>1, <2>2 DEF HeldUp
  <1> QED BY <1>1, <1>2, <1>3, <1>4 DEF Numbers

(* And after a step. *)
LEMMA WeightStaysNat == Typed' => Numbers'
  BY WeightIsNat, PTL

(* A step on which no key gains weight. *)
LEMMA WeightFalls ==
  ASSUME Typed, Typed', \A k \in Keys : Weights'[k] <= Weights[k]
  PROVE  Weight' <= Weight
  <1>1. PICK w : w = Weights OBVIOUS
  <1>2. PICK v : v = Weights' OBVIOUS
  <1>3. \A k \in Keys : w[k] \in Nat BY <1>1, WeightIsNat DEF Numbers
  <1>4. \A k \in Keys : Weights'[k] \in Nat BY WeightStaysNat DEF Numbers
  <1>5. SumOver(v, Keys) <= SumOver(w, Keys)
    BY <1>1, <1>2, <1>3, <1>4, SumAtMost, FiniteKeys
  <1> QED BY <1>1, <1>2, <1>5 DEF Weight

(* A step of one key. *)
LEMMA WeightMoves ==
  ASSUME Typed, Typed', NEW k \in Keys,
         \A j \in Keys \ {k} : Weights'[j] = Weights[j]
  PROVE  Weight' + Weights[k] = Weight + Weights'[k]
  <1>1. PICK w : w = Weights OBVIOUS
  <1>2. PICK v : v = Weights' OBVIOUS
  <1>3. \A j \in Keys : w[j] \in Nat BY <1>1, WeightIsNat DEF Numbers
  <1>4. \A j \in Keys : Weights'[j] \in Nat BY WeightStaysNat DEF Numbers
  <1>5. SumOver(v, Keys) + w[k] = SumOver(w, Keys) + v[k]
    BY <1>1, <1>2, <1>3, <1>4, SumUpdate, FiniteKeys
  <1> QED BY <1>1, <1>2, <1>5 DEF Weight

LEMMA HeldMoves ==
  ASSUME Typed, Typed', NEW k \in Keys,
         \A j \in Keys \ {k} : Held'[j] = Held[j]
  PROVE  HeldUp' + Held[k] = HeldUp + Held'[k]
  <1>1. PICK w : w = Held OBVIOUS
  <1>2. PICK v : v = Held' OBVIOUS
  <1>3. \A j \in Keys : w[j] \in Nat BY <1>1, WeightIsNat DEF Numbers
  <1>4. \A j \in Keys : Held'[j] \in Nat BY WeightStaysNat DEF Numbers
  <1>5. SumOver(v, Keys) + w[k] = SumOver(w, Keys) + v[k]
    BY <1>1, <1>2, <1>3, <1>4, SumUpdate, FiniteKeys
  <1> QED BY <1>1, <1>2, <1>5 DEF HeldUp

(* A step that leaves the log alone, and a key with it. *)
LEMMA SameLog ==
  ASSUME UNCHANGED <<log, package>>
  PROVE  \A k \in Keys : /\ Answers(k)' = Answers(k)
                         /\ Answered(k)' <=> Answered(k)
                         /\ AnswerOf(k)' = AnswerOf(k)
  BY DEF Answers, Answered, AnswerOf, Settled, Retryable

(* What a step of one key does to the risk.                                *)
LEMMA RiskMoves ==
  ASSUME Typed, Typed', NEW k \in Keys,
         \A j \in Keys \ {k} : task'[j] = task[j]
  PROVE  /\ Risk \in Nat /\ Risk' \in Nat
         /\ (task'[k].at = "sent" <=> task[k].at = "sent") => Risk' = Risk
         /\ task[k].at = "sent" /\ task'[k].at # "sent" => Risk' + Over = Risk
         /\ PoolHolds' => Cap + Risk' <= Limit
  <1>1. PICK S \in SUBSET Keys : S = InFlight BY DEF InFlight
  <1>2. PICK T \in SUBSET Keys : T = InFlight' BY DEF InFlight
  <1>3. PICK B \in SUBSET Keys : B = Busy' BY DEF Busy
  <1>4. /\ IsFiniteSet(S) /\ Cardinality(S) \in Nat
        /\ IsFiniteSet(T) /\ Cardinality(T) \in Nat
        /\ IsFiniteSet(B) /\ Cardinality(B) \in Nat
    BY FiniteKeys, FS_Subset, FS_CardinalityType
  <1>5. Risk = Cardinality(S) * Over /\ Risk' = Cardinality(T) * Over
    BY <1>1, <1>2 DEF Risk
  <1>6. Risk \in Nat /\ Risk' \in Nat BY <1>4, <1>5, LimitIsNat
  <1>7. ASSUME task'[k].at = "sent" <=> task[k].at = "sent" PROVE Risk' = Risk
    <2>1. \A j \in Keys : task'[j].at = "sent" <=> task[j].at = "sent" BY <1>7
    <2> QED BY <2>1, SameRisk
  <1>8. ASSUME task[k].at = "sent", task'[k].at # "sent" PROVE Risk' + Over = Risk
    <2>1. k \in S /\ T = S \ {k} BY <1>1, <1>2, <1>8 DEF InFlight
    <2>2. Cardinality(T) = Cardinality(S) - 1 BY <1>4, <2>1, FS_RemoveElement
    <2> QED BY <1>4, <1>5, <2>2, LimitIsNat
  <1>9. ASSUME PoolHolds' PROVE Cap + Risk' <= Limit
    <2>1. T \subseteq B BY <1>2, <1>3 DEF InFlight, Busy
    <2>2. Cardinality(T) <= Cardinality(B) BY <1>4, <2>1, FS_Subset
    <2>3. Cardinality(B) <= Workers /\ Workers \in Nat
      BY <1>3, <1>9, PoolAssumption DEF PoolHolds
    <2>4. Cardinality(T) <= Workers BY <1>4, <2>2, <2>3
    <2>5. Risk' <= Workers * Over /\ Workers * Over \in Nat
      BY <1>4, <1>5, <2>3, <2>4, TimesGrows, LimitIsNat
    <2> QED BY <1>6, <2>5, LimitIsNat DEF Limit
  <1> QED BY <1>6, <1>7, <1>8, <1>9

(* A worker spends what the key's weight gains, within its reservation and *)
(* its overrun.                                                            *)
LEMMA WorkPays ==
  ASSUME JInv, JInv', Money, PoolHolds', NEW k \in Keys, Work(k)
  PROVE  Money'
  <1> USE DEF JInv
  <1>1. /\ UNCHANGED <<package, log, phase, saved, kills>>
        /\ phase \in {"run", "drain"}
        /\ task[k].at \in Pending /\ ~Answered(k)
    BY DEF Work, Take, Reserve, Reply, Fail, Raise, IsNext, Pending, disk,
           bounds, Unanswered
  <1>2. /\ \A j \in Keys \ {k} : task'[j] = task[j]
        /\ task[k] \in Task /\ task'[k] \in Task /\ task'[k].at \in Pending \ {"queued"}
    <2>1. task \in [Keys -> Task] /\ task' \in [Keys -> Task] BY DEF Typed
    <2>2. \A j \in Keys \ {k} : task'[j] = task[j]
      BY <2>1 DEF Work, Take, Reserve, Reply, Fail, Raise
    <2>3. task'[k].at \in Pending \ {"queued"}
      BY <1>1, <2>1 DEF Work, Take, Reserve, Reply, Fail, Raise, Pending, Idle, Task
    <2> QED BY <2>1, <2>2, <2>3
  <1>3. PICK risk \in Nat, rest \in Nat :
           /\ risk = Risk /\ rest = Risk' /\ Cap + rest <= Limit
           /\ (task'[k].at = "sent" <=> task[k].at = "sent") => rest = risk
           /\ task[k].at = "sent" /\ task'[k].at # "sent" => rest + Over = risk
    BY <1>2, RiskMoves
  <1>4. /\ spent \in Nat /\ reserved \in Nat /\ charged \in Nat
        /\ Est \in Nat /\ Costs \subseteq 0 .. Est + Over
        /\ Over \in Nat /\ Limit \in Nat /\ Cap \in Nat
        /\ reserved = HeldUp /\ spent + reserved + risk <= Limit
        /\ Held[k] = IF task[k].at \in {"sent", "raised"} THEN Est ELSE 0
        /\ Held'[k] = IF task'[k].at \in {"sent", "raised"} THEN Est ELSE 0
        /\ Held[k] <= reserved
    <2>1. Held[k] <= HeldUp
      <3>1. PICK w : w = Held OBVIOUS
      <3>2. \A j \in Keys : w[j] \in Nat BY <3>1, WeightIsNat DEF Numbers
      <3>3. w[k] <= SumOver(w, Keys) BY <3>2, SumAtLeast, FiniteKeys
      <3> QED BY <3>1, <3>3 DEF HeldUp
    <2>2. MaxCost <= Est + Over BY LedgerAssumption DEF Over
    <2>3. Est \in Nat /\ Costs \subseteq 0 .. Est + Over
      BY <2>2, LimitIsNat, LedgerAssumption
    <2> QED BY <1>1, <1>3, <2>1, <2>3, LimitIsNat DEF Money, UnderLimit, Held
  <1>5. /\ spent \in Nat /\ reserved \in Nat /\ Over \in Nat /\ Est \in Nat
        /\ risk \in Nat /\ rest \in Nat /\ Cap \in Nat /\ Limit \in Nat
        /\ spent + reserved + risk <= Limit /\ Cap + rest <= Limit
    BY <1>3, <1>4
  <1>6. \E d \in Nat :
          /\ spent' = spent + d /\ charged' = charged + d
          /\ task'[k].cost <= task[k].cost + d
          /\ reserved' \in Nat /\ reserved' + Held[k] = reserved + Held'[k]
          /\ spent' + reserved' + rest <= Limit
    <2>1. CASE Take(k)
      <3>1. /\ task[k].at = "queued" /\ task'[k].at \in {"finished", "ready"}
            /\ task'[k].cost = 0 /\ spent' = spent
            /\ charged' = charged /\ reserved' = reserved
        BY <2>1 DEF Take, IsNext, Idle, Typed
      <3>2. 0 \in Nat /\ task[k].cost \in Nat BY <1>2 DEF Task
      <3>3. /\ spent' = spent + 0 /\ charged' = charged + 0
            /\ task'[k].cost <= task[k].cost + 0
            /\ reserved' \in Nat /\ reserved' + Held[k] = reserved + Held'[k]
        BY <1>4, <3>1, <3>2
      <3>4. rest = risk BY <1>3, <3>1
      <3>5. spent' + reserved' + rest <= Limit BY <1>5, <3>1, <3>4
      <3> QED BY <3>2, <3>3, <3>5
    <2>2. CASE Reserve(k)
      <3>1. /\ task[k].at = "ready" /\ spent' = spent /\ charged' = charged
            /\ task'[k].cost <= task[k].cost
        <4>1. task[k].at = "ready" /\ spent' = spent /\ charged' = charged
          BY <2>2 DEF Reserve
        <4>2. task[k].cost \in Nat BY <1>2 DEF Task
        <4>3. task'[k].cost \in {0, task[k].cost}
          <5>1. CASE OverCap /\ task[k].tries = 0
            <6>1. task' = [task EXCEPT ![k] = [at |-> "finished", tries |-> 1,
                                               kind |-> "budget", cost |-> 0]]
              BY <2>2, <5>1 DEF Reserve
            <6> QED BY <6>1 DEF Typed
          <5>2. CASE OverCap /\ task[k].tries # 0
            <6>1. task' = [task EXCEPT ![k] = [@ EXCEPT !.at = "finished"]]
              BY <2>2, <5>2 DEF Reserve
            <6> QED BY <1>2, <6>1 DEF Typed, Task
          <5>3. CASE ~OverCap
            <6>1. task' = [task EXCEPT ![k].at = "sent", ![k].tries = @ + 1]
              BY <2>2, <5>3 DEF Reserve
            <6> QED BY <1>2, <6>1 DEF Typed, Task
          <5> QED BY <5>1, <5>2, <5>3
        <4> QED BY <4>1, <4>2, <4>3
      <3>2. CASE OverCap
        <4>1. task'[k].at = "finished" /\ reserved' = reserved
          BY <1>2, <2>2, <3>2 DEF Reserve, Typed, Task
        <4> QED BY <1>2, <1>3, <1>4, <3>1, <4>1 DEF Task
      <3>3. CASE ~OverCap
        <4>1. task'[k].at = "sent" /\ reserved' = reserved + Est
          BY <1>2, <2>2, <3>3 DEF Reserve, Typed, Task
        <4>2. spent + reserved + Est <= Cap BY <1>4, <3>3 DEF OverCap
        <4>3. spent' + reserved' + rest <= Limit
          BY <1>5, <3>1, <4>1, <4>2
        <4> QED BY <1>2, <1>4, <3>1, <4>1, <4>3 DEF Task
      <3> QED BY <3>2, <3>3
    <2>3. CASE Reply(k)
      <3>1. PICK c \in Costs : /\ spent' = spent + c /\ charged' = charged + c
                               /\ task'[k].cost = c
                               /\ task'[k].at \in {"ready", "finished"}
        BY <2>3 DEF Reply, Typed
      <3>2. task[k].at = "sent" /\ reserved' = Release BY <2>3 DEF Reply
      <3>3. c \in Nat /\ c <= Est + Over /\ task[k].cost \in Nat
        BY <1>2, <1>4 DEF Task
      <3>4. reserved' = reserved - Est /\ Est <= reserved
        BY <1>4, <3>2 DEF Release
      <3>5. rest + Over = risk BY <1>3, <3>1, <3>2
      <3>6. spent' + reserved' + rest <= Limit
        BY <1>5, <3>1, <3>3, <3>4, <3>5
      <3> QED BY <1>4, <3>1, <3>2, <3>3, <3>4, <3>6
    <2>4. CASE Fail(k)
      <3>1. /\ task'[k].at = "finished" /\ task'[k].cost = 0
            /\ task[k].at = "sent" /\ reserved' = Release
            /\ spent' = spent /\ charged' = charged
        BY <2>4 DEF Fail, Typed
      <3>2. reserved' = reserved - Est /\ Est <= reserved
        BY <1>4, <3>1 DEF Release
      <3>3. rest + Over = risk BY <1>3, <3>1
      <3>4. spent' + reserved' + rest <= Limit
        <4>1. reserved' \in Nat /\ reserved' <= reserved BY <1>5, <3>2
        <4> QED BY <1>5, <3>1, <3>3, <4>1
      <3> QED BY <1>2, <1>4, <3>1, <3>2, <3>4 DEF Task
    <2>5. CASE Raise(k)
      <3>1. /\ task[k].at = "sent" /\ task'[k].at = "raised"
            /\ task'[k].cost = task[k].cost
            /\ spent' = spent /\ charged' = charged /\ reserved' = reserved
        BY <1>2, <2>5 DEF Raise, Typed, Task
      <3>2. rest + Over = risk BY <1>3, <3>1
      <3>3. spent' + reserved' + rest <= Limit BY <1>5, <3>1, <3>2
      <3> QED BY <1>2, <1>4, <3>1, <3>3 DEF Task
    <2> QED BY <2>1, <2>2, <2>3, <2>4, <2>5 DEF Work
  <1>7. PICK d \in Nat :
          /\ spent' = spent + d /\ charged' = charged + d
          /\ task'[k].cost <= task[k].cost + d
          /\ reserved' \in Nat /\ reserved' + Held[k] = reserved + Held'[k]
          /\ spent' + reserved' + rest <= Limit
    BY <1>6
  <1>8. \A j \in Keys : /\ Answers(j)' = Answers(j)
                        /\ Answered(j)' <=> Answered(j)
                        /\ AnswerOf(j)' = AnswerOf(j)
    BY <1>1, SameLog
  <1>9. Weight' <= Weight + d
    <2>1. Weights[k] = task[k].cost /\ Weights'[k] = task'[k].cost
      BY <1>1, <1>8 DEF Weights
    <2>2. \A j \in Keys \ {k} : Weights'[j] = Weights[j]
      BY <1>2, <1>8 DEF Weights
    <2>3. Weight' + Weights[k] = Weight + Weights'[k] BY <2>2, WeightMoves
    <2>4. Weight \in Nat /\ Weight' \in Nat
      BY WeightIsNat, WeightStaysNat DEF Numbers
    <2> QED BY <1>2, <1>7, <2>1, <2>3, <2>4 DEF Task
  <1>10. reserved' = HeldUp'
    <2>1. \A j \in Keys \ {k} : Held'[j] = Held[j] BY <1>2 DEF Held
    <2>2. HeldUp' + Held[k] = HeldUp + Held'[k] BY <2>1, HeldMoves
    <2>3. HeldUp \in Nat /\ HeldUp' \in Nat /\ Held[k] \in Nat /\ Held'[k] \in Nat
      BY WeightIsNat, WeightStaysNat DEF Numbers
    <2> QED BY <1>4, <1>7, <2>2, <2>3
  <1>11. OneRecord' BY <1>1, <1>2, <1>8 DEF Money, OneRecord, Pending
  <1>12. UnderLimit'
    <2>1. saved' \in Nat /\ saved' <= Limit BY <1>1 DEF Money, UnderLimit
    <2>2. spent' \in Nat BY <1>4, <1>7
    <2> QED BY <1>7, <1>10, <1>3, <2>1, <2>2 DEF UnderLimit
  <1>13. Covered'
    <2>1. Weight \in Nat /\ Weight' \in Nat
      BY WeightIsNat, WeightStaysNat DEF Numbers
    <2>2. package = "coherence" => Weight <= spent BY <1>1 DEF Money, Covered
    <2>3. package = "coherence" => Weight' <= spent'
      BY <1>4, <1>7, <1>9, <2>1, <2>2
    <2>4. spent' <= Limit
      <3>1. spent' \in Nat /\ reserved' \in Nat BY <1>4, <1>7
      <3>2. PICK n \in Nat, m \in Nat : n = spent' /\ m = reserved'
        BY <3>1
      <3>3. n + m + rest <= Limit /\ Limit \in Nat BY <1>7, <3>2, LimitIsNat
      <3>4. n <= Limit BY <3>3
      <3> QED BY <3>2, <3>4
    <2>5. package = "coherence" => Weight' <= Limit
      BY <1>4, <1>7, <2>1, <2>3, <2>4
    <2> QED BY <1>1, <2>3, <2>5 DEF Covered
  <1>14. LedgerExact' BY <1>1, <1>7 DEF Money, LedgerExact
  <1> QED BY <1>1, <1>7, <1>11, <1>12, <1>13, <1>14 DEF Money

(* The process ends: what it had not written down weighs nothing.          *)
LEMMA GonePays ==
  ASSUME JInv, JInv', Money, Gone, UNCHANGED <<package, log>>,
         saved' \in Nat, saved' <= Limit, kills' \in Nat, charged' \in Nat,
         package = "coherence" /\ kills' = 0 => Weight <= saved',
         LedgerExact'
  PROVE  Money'
  <1> USE DEF JInv
  <1>1. /\ phase' = "off" /\ spent' = 0 /\ reserved' = 0
        /\ \A k \in Keys : task'[k] = Idle
    BY DEF Gone
  <1>2. Idle.cost = 0 /\ Idle.at = "none" BY DEF Idle
  <1>3. Weight' <= Weight
    <2>1. ASSUME NEW k \in Keys PROVE Weights'[k] <= Weights[k]
      <3>1. Weights[k] \in Nat BY WeightIsNat DEF Numbers
      <3>2. Weights'[k] = IF Answered(k) THEN AnswerOf(k).cost ELSE 0
        BY <1>1, <1>2, SameLog DEF Weights
      <3>3. Weights'[k] = Weights[k] \/ Weights'[k] = 0 BY <3>2 DEF Weights
      <3> QED BY <3>1, <3>3
    <2> QED BY <2>1, WeightFalls
  <1>4. Weight \in Nat /\ Weight' \in Nat
    BY WeightIsNat, WeightStaysNat DEF Numbers
  <1>5. OneRecord' BY <1>1, <1>2 DEF OneRecord
  <1>6. UnderLimit' BY <1>1 DEF UnderLimit
  <1>7. Covered'
    <2>1. Limit \in Nat BY LimitIsNat
    <2>2. package = "coherence" => Weight <= Limit BY DEF Money, Covered
    <2> QED BY <1>1, <1>3, <1>4, <2>1, <2>2 DEF Covered
  <1> QED BY <1>5, <1>6, <1>7 DEF Money

(* Equal summands. *)
LEMMA SameSums ==
  ASSUME \A k \in Keys : Weights'[k] = Weights[k],
         \A k \in Keys : Held'[k] = Held[k]
  PROVE  Weight' = Weight /\ HeldUp' = HeldUp
  <1>1. Weight' = Weight
    <2>1. PICK w : w = Weights OBVIOUS
    <2>2. PICK v : v = Weights' OBVIOUS
    <2>3. SumOver(v, Keys) = SumOver(w, Keys)
      BY <2>1, <2>2, SumSame, FiniteKeys
    <2> QED BY <2>1, <2>2, <2>3 DEF Weight
  <1>2. HeldUp' = HeldUp
    <2>1. PICK w : w = Held OBVIOUS
    <2>2. PICK v : v = Held' OBVIOUS
    <2>3. SumOver(v, Keys) = SumOver(w, Keys)
      BY <2>1, <2>2, SumSame, FiniteKeys
    <2> QED BY <2>1, <2>2, <2>3 DEF HeldUp
  <1> QED BY <1>1, <1>2

(* While no call is collected or answered, the tasks keep their costs and  *)
(* nothing is reserved that was not.                                       *)
LEMMA SameWeight ==
  ASSUME UNCHANGED <<package, log>>,
         \A k \in Keys : task'[k].cost = task[k].cost,
         \A k \in Keys : Held'[k] = Held[k]
  PROVE  Weight' = Weight /\ HeldUp' = HeldUp
  <1>1. \A k \in Keys : Weights'[k] = Weights[k] BY SameLog DEF Weights
  <1> QED BY <1>1, SameSums

(* A pass begins with what the file and, in rollout_coherence, the log     *)
(* have spent.                                                             *)
LEMMA StartPays ==
  ASSUME JInv, JInv', Money, Start
  PROVE  Money'
  <1> USE DEF JInv
  <1>1. /\ phase = "off" /\ phase' = "copy"
        /\ spent' = LoadLedger /\ reserved' = 0
        /\ \A k \in Keys : task'[k] = Idle
        /\ UNCHANGED <<package, log, saved, kills, charged>>
    BY DEF Start, disk
  <1>2. Idle.cost = 0 /\ Idle.at = "none" BY DEF Idle
  <1>3. \A k \in Keys : task[k].cost = 0 /\ task[k].at = "none"
    BY <1>1 DEF Money, OneRecord, Typed
  <1>4. HeldUp' = 0
    <2>1. PICK v : v = Held' OBVIOUS
    <2>2. \A k \in Keys : v[k] = 0 BY <1>1, <1>2, <2>1 DEF Held
    <2>3. SumOver(v, Keys) = 0 BY <2>2, SumOfZeros, FiniteKeys
    <2> QED BY <2>1, <2>3 DEF HeldUp
  <1>5. Weight' = Weight
    <2>1. \A k \in Keys : Held'[k] = Held[k] BY <1>1, <1>2, <1>3 DEF Held
    <2>2. \A k \in Keys : task'[k].cost = task[k].cost BY <1>1, <1>2, <1>3
    <2> QED BY <1>1, <2>1, <2>2, SameWeight
  <1>6. Totals = Weight
    <2>1. PICK w : w = Weights OBVIOUS
    <2>2. PICK v : v = AnswerCost OBVIOUS
    <2>3. \A k \in Keys : v[k] = w[k]
      BY <1>3, <2>1, <2>2 DEF Weights, AnswerCost
    <2>4. SumOver(v, Keys) = SumOver(w, Keys) BY <2>3, SumSame, FiniteKeys
    <2>5. Totals = SumOver(v, Keys) BY <2>2 DEF Totals, SumOver
    <2> QED BY <2>1, <2>4, <2>5 DEF Weight
  <1>7. /\ Weight \in Nat /\ Limit \in Nat /\ saved \in Nat /\ saved <= Limit
        /\ package = "coherence" => Weight <= Limit
        /\ package = "coherence" /\ kills = 0 => Weight <= saved
        /\ kills = 0 => charged = saved
    BY <1>1, WeightIsNat, LimitIsNat
       DEF Numbers, Money, UnderLimit, Covered, LedgerExact
  <1>8. /\ spent' \in Nat /\ spent' <= Limit
        /\ package = "coherence" => Weight <= spent'
        /\ kills = 0 => spent' = saved
    BY <1>1, <1>6, <1>7 DEF LoadLedger
  <1>9. OneRecord' BY <1>1, <1>2 DEF OneRecord
  <1>10. UnderLimit'
    <2>1. Risk' = 0 BY <1>1, <1>2, NoRisk
    <2> QED BY <1>1, <1>4, <1>7, <1>8, <2>1 DEF UnderLimit
  <1>11. Covered' BY <1>1, <1>5, <1>7, <1>8 DEF Covered
  <1>12. LedgerExact' BY <1>1, <1>7, <1>8 DEF LedgerExact
  <1> QED BY <1>1, <1>9, <1>10, <1>11, <1>12 DEF Money

(* The other steps of the main thread that leave the log alone.            *)
LEMMA MainPays ==
  ASSUME JInv, JInv', Money,
         \/ Submit \/ Checkpoint \/ Return \/ GiveUp \/ Mark \/ Kill
         \/ \E k \in Keys : Collect(k)
  PROVE  Money'
  <1> USE DEF JInv
  <1>1. /\ Limit \in Nat /\ spent \in Nat /\ reserved \in Nat /\ saved \in Nat
        /\ saved <= Limit /\ kills \in Nat /\ charged \in Nat
        /\ package = "coherence" => Weight <= Limit
        /\ phase # "off" =>
             /\ spent <= Limit /\ spent + reserved + Risk <= Limit /\ reserved = HeldUp
             /\ package = "coherence" => Weight <= spent
        /\ package = "coherence" /\ kills = 0 /\ phase \in {"off", "check"}
             => Weight <= saved
    <2>1. Limit \in Nat BY LimitIsNat
    <2>2. UnderLimit /\ Covered /\ kills \in Nat /\ charged \in Nat BY DEF Money
    <2>3. phase # "off" => spent <= Limit
      BY <2>1, <2>2, RiskIsNat DEF UnderLimit
    <2> QED BY <2>1, <2>2, <2>3 DEF UnderLimit, Covered
  <1>2. CASE Submit
    <2>1. /\ phase = "copy" /\ phase' = "run"
          /\ task' = [k \in Keys |-> IF Answered(k) THEN Idle
                                     ELSE [Idle EXCEPT !.at = "queued"]]
          /\ UNCHANGED <<package, log, saved, kills, charged, spent, reserved>>
      BY <1>2 DEF Submit, disk, bounds
    <2>2. \A k \in Keys : /\ task[k].cost = 0 /\ task[k].at = "none"
                          /\ task'[k].cost = 0 /\ task'[k].at \in {"none", "queued"}
      BY <2>1 DEF Money, OneRecord, Typed, Idle
    <2>3. \A k \in Keys : Held'[k] = Held[k] BY <2>2 DEF Held
    <2>4. Weight' = Weight /\ HeldUp' = HeldUp BY <2>1, <2>2, <2>3, SameWeight
    <2>5. OneRecord' BY <2>2 DEF OneRecord
    <2>6. UnderLimit'
      <3>1. Risk' = Risk BY <2>2, SameRisk
      <3> QED BY <1>1, <2>1, <2>4, <3>1 DEF UnderLimit
    <2>7. Covered' BY <1>1, <2>1, <2>4 DEF Covered
    <2>8. LedgerExact' BY <2>1 DEF Money, LedgerExact
    <2> QED BY <1>1, <2>1, <2>5, <2>6, <2>7, <2>8 DEF Money
  <1>3. CASE Checkpoint
    <2>1. /\ phase = "run" /\ saved' = spent
          /\ UNCHANGED <<package, log, phase, task, kills, charged, spent, reserved>>
      BY <1>3 DEF Checkpoint, pool, bounds
    <2>2. \A k \in Keys : Held'[k] = Held[k] BY <2>1 DEF Held
    <2>3. Weight' = Weight /\ HeldUp' = HeldUp BY <2>1, <2>2, SameWeight
    <2>4. OneRecord' BY <2>1, SameLog DEF Money, OneRecord
    <2>5. UnderLimit'
      <3>1. Risk' = Risk BY <2>1, SameRisk
      <3> QED BY <1>1, <2>1, <2>3, <3>1 DEF UnderLimit
    <2>6. Covered' BY <1>1, <2>1, <2>3 DEF Covered
    <2>7. LedgerExact' BY <2>1 DEF Money, LedgerExact
    <2> QED BY <1>1, <2>1, <2>4, <2>5, <2>6, <2>7 DEF Money
  <1>4. CASE (Return \/ GiveUp) /\ Gone
    <2>1. /\ phase \in {"run", "drain"} /\ phase' = "off" /\ saved' = spent
          /\ UNCHANGED <<package, log, kills, charged>>
      BY <1>4 DEF Return, GiveUp, Gone, SaveAtEnd, bounds
    <2>2. LedgerExact' BY <2>1 DEF Money, LedgerExact
    <2> QED BY <1>1, <1>4, <2>1, <2>2, GonePays
  <1>5. CASE Return /\ ~Gone
    <2>1. /\ phase = "run" /\ phase' = "check" /\ saved' = spent
          /\ UNCHANGED <<package, log, task, kills, charged, spent, reserved>>
      BY <1>5 DEF Return, SaveAtEnd, bounds
    <2>2. \A k \in Keys : Held'[k] = Held[k] BY <2>1 DEF Held
    <2>3. Weight' = Weight /\ HeldUp' = HeldUp BY <2>1, <2>2, SameWeight
    <2>4. OneRecord' BY <2>1, SameLog DEF Money, OneRecord
    <2>5. UnderLimit'
      <3>1. Risk' = Risk BY <2>1, SameRisk
      <3> QED BY <1>1, <2>1, <2>3, <3>1 DEF UnderLimit
    <2>6. Covered' BY <1>1, <2>1, <2>3 DEF Covered
    <2>7. LedgerExact' BY <2>1 DEF Money, LedgerExact
    <2> QED BY <1>1, <2>1, <2>4, <2>5, <2>6, <2>7 DEF Money
  <1>6. CASE Mark
    <2>1. /\ phase = "check" /\ phase' = "off" /\ Gone
          /\ UNCHANGED <<package, log, saved, kills, charged>>
      BY <1>6 DEF Mark, Gone, bounds
    <2>2. LedgerExact' BY <2>1 DEF Money, LedgerExact
    <2> QED BY <1>1, <2>1, <2>2, GonePays
  <1>7. CASE Kill
    <2>1. Gone /\ kills' = kills + 1 /\ UNCHANGED <<package, log, saved, charged>>
      BY <1>7 DEF Kill
    <2>2. kills' \in Nat /\ kills' # 0 BY <1>1, <2>1
    <2>3. LedgerExact' BY <2>2 DEF LedgerExact
    <2> QED BY <1>1, <2>1, <2>2, <2>3, GonePays
  <1>8. ASSUME NEW k \in Keys, Collect(k) PROVE Money'
    <2>1. /\ phase = "run" /\ phase' \in {"run", "drain"} /\ left = {}
          /\ UNCHANGED <<package, log, saved, kills, charged, spent, reserved>>
          /\ task[k].at \in {"finished", "raised"}
      BY <1>8 DEF Collect, disk, bounds
    <2>2. /\ \A j \in Keys : task'[j].cost = task[j].cost
          /\ \A j \in Keys \ {k} : task'[j] = task[j]
          /\ \/ task[k].at = "finished" /\ task'[k].at = "logging"
             \/ task'[k] = task[k]
      <3>1. CASE task' = task BY <2>1, <3>1
      <3>2. CASE task[k].at = "finished" /\ task' = [task EXCEPT ![k].at = "logging"]
        <4>1. task[k] \in Task BY DEF Typed
        <4> QED BY <3>2, <4>1 DEF Typed, Task
      <3> QED BY <1>8, <3>1, <3>2 DEF Collect
    <2>3. \A j \in Keys : Held'[j] = Held[j] BY <2>2 DEF Held
    <2>4. Weight' = Weight /\ HeldUp' = HeldUp BY <2>1, <2>2, <2>3, SameWeight
    <2>5. OneRecord'
      <3>1. Answers(k) = {}
        BY <2>1 DEF Unanswered, Pending, Answered, Answers
      <3> QED BY <2>1, <2>2, <3>1, SameLog DEF Money, OneRecord
    <2>6. UnderLimit'
      <3>1. Risk' = Risk BY <2>2, SameRisk
      <3> QED BY <1>1, <2>1, <2>4, <3>1 DEF UnderLimit
    <2>7. Covered' BY <1>1, <2>1, <2>4 DEF Covered
    <2>8. LedgerExact' BY <2>1 DEF Money, LedgerExact
    <2> QED BY <1>1, <2>1, <2>5, <2>6, <2>7, <2>8 DEF Money
  <1> QED BY <1>2, <1>3, <1>4, <1>5, <1>6, <1>7, <1>8 DEF GiveUp

LEMMA InAnswers ==
  ASSUME NEW k \in Keys, NEW x
  PROVE  x \in Answers(k) <=> \E r \in Of(k) : \E n \in Settled(r) : x = log[r][n]
  BY DEF Answers

AnswersTell ==
  \A k \in Keys :
    /\ Answered(k) <=> Answers(k) # {}
    /\ AnswerOf(k) = CHOOSE rec \in Answers(k) : TRUE

LEMMA AnswersAre == AnswersTell
  <1> SUFFICES ASSUME NEW k \in Keys
               PROVE  /\ Answered(k) <=> Answers(k) # {}
                      /\ AnswerOf(k) = CHOOSE rec \in Answers(k) : TRUE
    BY DEF AnswersTell
  <1>1. Answered(k) <=> Answers(k) # {}
    <2>1. ASSUME Answered(k) PROVE Answers(k) # {}
      <3>1. PICK r \in Of(k) : Settled(r) # {} BY <2>1 DEF Answered
      <3>2. PICK n \in Settled(r) : TRUE BY <3>1
      <3>3. \E q \in Of(k) : \E m \in Settled(q) : log[r][n] = log[q][m] BY <3>2
      <3>4. PICK x : x = log[r][n] OBVIOUS
      <3>5. x \in Answers(k) BY <3>3, <3>4, InAnswers
      <3> QED BY <3>5
    <2>2. ASSUME Answers(k) # {} PROVE Answered(k)
      <3>1. PICK x : x \in Answers(k) BY <2>2
      <3> QED BY <3>1, InAnswers DEF Answered
    <2> QED BY <2>1, <2>2
  <1>2. AnswerOf(k) = CHOOSE rec \in Answers(k) : TRUE BY DEF AnswerOf, Answers
  <1> QED BY <1>1, <1>2

LEMMA AnswersAreNext == AnswersTell'
  BY AnswersAre, PTL

(* An append adds its record to the answers of its key, if it is one.      *)
LEMMA AppendAnswers ==
  ASSUME log \in [Requests -> Seq(Record)], package' = package,
         NEW r \in Requests, NEW rec \in Record, Append1(r, rec),
         Settled(r) = {}, NEW k \in Keys
  PROVE  Answers(k)' = Answers(k) \union
                         (IF r \in Of(k) /\ ~Retryable(rec) THEN {rec} ELSE {})
  <1> DEFINE end == Len(log[r]) + 1
  <1>1. /\ log' \in [Requests -> Seq(Record)] /\ log'[r] = Append(log[r], rec)
        /\ \A q \in Requests \ {r} : log'[q] = log[q]
    BY DEF Append1
  <1>2. log[r] \in Seq(Record) OBVIOUS
  <1>3. /\ DOMAIN log[r] = 1 .. Len(log[r]) /\ DOMAIN log'[r] = 1 .. end
        /\ Len(log[r]) \in Nat
        /\ log'[r][end] = rec /\ \A n \in DOMAIN log[r] : log'[r][n] = log[r][n]
    BY <1>1, <1>2
  <1>4. \A q \in Requests \ {r} : Settled(q)' = Settled(q)
    BY <1>1 DEF Settled, Retryable
  <1>5. Settled(r)' = IF Retryable(rec) THEN {} ELSE {end}
    BY <1>3 DEF Settled, Retryable
  <1>6. ASSUME NEW x
        PROVE  x \in Answers(k)' <=>
                 x \in Answers(k) \/ (r \in Of(k) /\ ~Retryable(rec) /\ x = rec)
    <2>1. x \in Answers(k)' <=> \E q \in Of(k) : \E n \in Settled(q)' : x = log'[q][n]
      BY DEF Answers
    <2>2. ASSUME NEW q \in Of(k), NEW n \in Settled(q)', x = log'[q][n]
          PROVE  x \in Answers(k) \/ (r \in Of(k) /\ ~Retryable(rec) /\ x = rec)
      <3>1. CASE q = r BY <1>3, <1>5, <2>2, <3>1
      <3>2. CASE q # r BY <1>1, <1>4, <2>2, <3>2, InAnswers DEF Of
      <3> QED BY <3>1, <3>2
    <2>3. ASSUME NEW q \in Of(k), NEW n \in Settled(q), x = log[q][n]
          PROVE  x \in Answers(k)'
      <3>1. q # r BY <2>3
      <3>2. n \in Settled(q)' /\ x = log'[q][n] BY <1>1, <1>4, <2>3, <3>1 DEF Of
      <3> QED BY <2>1, <3>2
    <2>4. ASSUME r \in Of(k), ~Retryable(rec), x = rec PROVE x \in Answers(k)'
      <3>1. end \in Settled(r)' /\ x = log'[r][end] BY <1>3, <1>5, <2>4
      <3> QED BY <2>1, <2>4, <3>1
    <2> QED BY <2>1, <2>2, <2>3, <2>4, InAnswers
  <1> QED BY <1>6

(* A copy is an answer already, and changes nothing the ledger sees.       *)
LEMMA CopyPays ==
  ASSUME JInv, JInv', Money, CopyAnswer
  PROVE  Money'
  <1> USE DEF JInv
  <1>1. /\ phase = "copy" /\ Owed # {}
        /\ Append1(First(Owed), AnswerOf(KeyOf[First(Owed)]))
        /\ UNCHANGED <<package, task, saved, phase, spent, reserved, kills, charged>>
    BY DEF CopyAnswer, pool, bounds
  <1>2. First(Owed) \in Owed BY <1>1, FirstIsOne DEF Owed
  <1>3. PICK r \in Owed : r = First(Owed) BY <1>2
  <1>4. /\ log \in [Requests -> Seq(Record)] /\ r \in Requests /\ Settled(r) = {}
        /\ KeyOf[r] \in Keys /\ Answered(KeyOf[r])
    BY RequestsAssumption DEF Owed, Typed
  <1>5. AnswerOf(KeyOf[r]) \in Record BY <1>4, AnswerIsRecord
  <1>6. PICK rec \in Record : rec = AnswerOf(KeyOf[r]) BY <1>5
  <1>7. Append1(r, rec) BY <1>1, <1>3, <1>6
  <1>8. \A k \in Keys : Answers(k)' = Answers(k)
    <2> TAKE k \in Keys
    <2>1. Answers(k)' = Answers(k) \union
            (IF r \in Of(k) /\ ~Retryable(rec) THEN {rec} ELSE {})
      BY <1>1, <1>4, <1>7, AppendAnswers
    <2>2. r \in Of(k) => rec \in Answers(k)
      <3> HAVE r \in Of(k)
      <3>1. k = KeyOf[r] BY DEF Of
      <3> QED BY <1>4, <1>6, <3>1, AnswersAre DEF AnswersTell
    <2> QED BY <2>1, <2>2
  <1>9. Weight' = Weight /\ HeldUp' = HeldUp
    <2>1. ASSUME NEW k \in Keys PROVE Weights'[k] = Weights[k]
      BY <1>1, <1>8, AnswersAre, AnswersAreNext DEF AnswersTell, Weights
    <2>2. \A k \in Keys : Held'[k] = Held[k] BY <1>1 DEF Held
    <2> QED BY <2>1, <2>2, SameSums
  <1>10. OneRecord' BY <1>1, <1>8 DEF Money, OneRecord
  <1>11. UnderLimit'
    <2>1. Risk' = Risk BY <1>1, SameRisk
    <2> QED BY <1>1, <1>9, <2>1 DEF Money, UnderLimit
  <1>12. Covered' BY <1>1, <1>9 DEF Money, Covered
  <1>13. LedgerExact' BY <1>1 DEF Money, LedgerExact
  <1> QED BY <1>1, <1>10, <1>11, <1>12, <1>13 DEF Money

(* The record of a finished call is the answer it is counted as.           *)
LEMMA RecordPays ==
  ASSUME JInv, JInv', Money, NEW k \in Keys, LogRecord(k)
  PROVE  Money'
  <1> USE DEF JInv
  <1>1. /\ task[k].at = "logging" /\ left # {} /\ left \subseteq Of(k)
        /\ left \in SUBSET Requests /\ task[k] \in Task
        /\ UNCHANGED <<package, phase, saved, spent, reserved, kills, charged>>
    BY DEF LogRecord, Unanswered, Typed, bounds
  <1>2. First(left) \in left BY <1>1, FirstIsOne
  <1>3. PICK r \in left : r = First(left) BY <1>2
  <1>4. PICK rec \in Record : rec = RecordOf(task[k])
    BY <1>1 DEF Task, Record, RecordOf
  <1>5. /\ r \in Requests /\ r \in Of(k) /\ Settled(r) = {}
        /\ rec.cost = task[k].cost
        /\ log \in [Requests -> Seq(Record)]
    BY <1>1, <1>4 DEF Typed, Unanswered, RecordOf
  <1>6. /\ Append1(r, rec)
        /\ \A j \in Keys \ {k} : task'[j] = task[j]
        /\ task'[k].at \in {"logging", "logged"} /\ RecordOf(task'[k]) = rec
    <2>1. Append1(First(left),
                  [kind |-> task[k].kind, tries |-> task[k].tries,
                   cost |-> task[k].cost])
      BY Zenon DEF LogRecord
    <2>2. task' = task \/ task' = [task EXCEPT ![k].at = "logged"]
      BY Zenon DEF LogRecord
    <2>3. Append1(r, rec) BY <1>3, <1>4, <2>1, Zenon DEF RecordOf
    <2>4. /\ \A j \in Keys \ {k} : task'[j] = task[j]
          /\ task'[k].at \in {"logging", "logged"}
          /\ task'[k].kind = task[k].kind /\ task'[k].tries = task[k].tries
          /\ task'[k].cost = task[k].cost
      BY <1>1, <2>2 DEF Typed, Task
    <2> QED BY <1>4, <2>3, <2>4 DEF RecordOf
  <1>7. \A j \in Keys : Answers(j)' =
          Answers(j) \union (IF r \in Of(j) /\ ~Retryable(rec) THEN {rec} ELSE {})
    BY <1>1, <1>5, <1>6, AppendAnswers
  <1>8. \A j \in Keys \ {k} : Answers(j)' = Answers(j)
    BY <1>5, <1>7, KeysAreApart
  <1>9. Answers(k) \subseteq {rec} /\ Answers(k)' \subseteq {rec}
    BY <1>1, <1>4, <1>7 DEF Money, OneRecord
  <1>10. Weight' = Weight /\ HeldUp' = HeldUp
    <2>1. ASSUME NEW j \in Keys PROVE Weights'[j] = Weights[j]
      <3>1. CASE j = k
        <4>1. Weights[k] = task[k].cost
          <5>1. CASE Answers(k) = {} BY <5>1, AnswersAre DEF AnswersTell, Weights
          <5>2. CASE Answers(k) = {rec}
            BY <1>5, <5>2, AnswersAre DEF AnswersTell, Weights
          <5> QED BY <1>9, <5>1, <5>2
        <4>2. task'[k].cost = task[k].cost BY <1>5, <1>6 DEF RecordOf
        <4>3. Weights'[k] = task[k].cost
          <5>1. CASE Answers(k)' = {} BY <4>2, <5>1, AnswersAreNext DEF AnswersTell, Weights
          <5>2. CASE Answers(k)' = {rec}
            BY <1>5, <5>2, AnswersAreNext DEF AnswersTell, Weights
          <5> QED BY <1>9, <5>1, <5>2
        <4> QED BY <3>1, <4>1, <4>3
      <3>2. CASE j # k
        <4>1. Answers(j)' = Answers(j) /\ task'[j] = task[j] BY <1>6, <1>8, <3>2
        <4>2. Answered(j)' <=> Answered(j)
          BY <4>1, AnswersAre, AnswersAreNext DEF AnswersTell
        <4>3. AnswerOf(j)' = AnswerOf(j)
          BY <4>1, AnswersAre, AnswersAreNext DEF AnswersTell
        <4> QED BY <4>1, <4>2, <4>3 DEF Weights
      <3> QED BY <3>1, <3>2
    <2>2. \A j \in Keys : Held'[j] = Held[j] BY <1>1, <1>6 DEF Held
    <2> QED BY <2>1, <2>2, SameSums
  <1>11. OneRecord' BY <1>6, <1>8, <1>9 DEF Money, OneRecord
  <1>12. UnderLimit'
    <2>1. Risk' = Risk BY <1>1, <1>6, SameRisk
    <2> QED BY <1>1, <1>10, <2>1 DEF Money, UnderLimit
  <1>13. Covered' BY <1>1, <1>10 DEF Money, Covered
  <1>14. LedgerExact' BY <1>1 DEF Money, LedgerExact
  <1> QED BY <1>1, <1>11, <1>12, <1>13, <1>14 DEF Money

LEMMA MoneyStart == Init => Money
  <1> SUFFICES ASSUME Init PROVE Money OBVIOUS
  <1>1. Typed BY JInit DEF JInv
  <1>2. /\ phase = "off" /\ spent = 0 /\ reserved = 0 /\ saved = 0
        /\ kills = 0 /\ charged = 0 /\ Limit \in Nat
        /\ \A k \in Keys : task[k] = Idle
        /\ \A r \in Requests : log[r] = << >>
    BY LimitIsNat DEF Init
  <1>3. Weight = 0
    <2>1. \A k \in Keys : Weights[k] = 0
      BY <1>2 DEF Weights, Answered, Settled, Of, Idle
    <2>2. PICK w : w = Weights OBVIOUS
    <2>3. SumOver(w, Keys) = 0 BY <2>1, <2>2, SumOfZeros, FiniteKeys
    <2> QED BY <2>2, <2>3 DEF Weight
  <1>4. OneRecord BY <1>2 DEF OneRecord, Idle
  <1> QED BY <1>2, <1>3, <1>4 DEF Money, UnderLimit, Covered, LedgerExact

LEMMA MoneyKept ==
  ASSUME JInv, JInv', PoolHolds', Money, [Next]_vars
  PROVE  Money'
  <1>1. CASE UNCHANGED vars
    <2> USE DEF vars
    <2>1. \A k \in Keys : Held'[k] = Held[k] BY <1>1 DEF Held
    <2>2. Weight' = Weight /\ HeldUp' = HeldUp BY <1>1, <2>1, SameWeight
    <2>3. OneRecord' BY <1>1, SameLog DEF Money, OneRecord
    <2>4. UnderLimit'
      <3>1. Risk' = Risk BY <1>1, SameRisk
      <3> QED BY <1>1, <2>2, <3>1 DEF Money, UnderLimit
    <2>5. Covered' BY <1>1, <2>2 DEF Money, Covered
    <2>6. LedgerExact' BY <1>1 DEF Money, LedgerExact
    <2> QED BY <1>1, <2>3, <2>4, <2>5, <2>6 DEF Money
  <1> QED BY <1>1, WorkPays, StartPays, MainPays, CopyPays, RecordPays
          DEF Next, Main, Done

LEMMA MoneyInvariance == Spec => []Money
  <1>1. JInv /\ JInv' /\ PoolHolds' /\ Money /\ [Next]_vars => Money'
    BY MoneyKept
  <1> QED BY JInvariance, PoolInvariance, MoneyStart, <1>1, PTL DEF Spec

(* Whatever the calls cost, and however many passes start from what the    *)
(* last one spent: spent and reserved pass the cap by the overruns of one  *)
(* pool of calls at most, and by nothing where the estimate covers the     *)
(* cost.                                                                   *)
THEOREM OvershootIsBounded == Spec => []OvershootBounded
  <1>1. JInv /\ Money => OvershootBounded
    <2> SUFFICES ASSUME JInv, Money, phase # "off"
                 PROVE  spent + reserved <= Limit
      BY DEF OvershootBounded, Limit
    <2>1. /\ spent \in Nat /\ reserved \in Nat
          /\ spent + reserved + Risk <= Limit
      BY DEF Money, UnderLimit
    <2> QED BY <2>1, RiskIsNat, LimitIsNat
  <1> QED BY JInvariance, MoneyInvariance, <1>1, PTL

(* Without a kill, every pass hands on what was charged to the cent: by    *)
(* success, by a refused key and by an uncaught error alike.               *)
THEOREM LedgerStaysExact == Spec => []LedgerExact
  <1>1. Money => LedgerExact BY DEF Money
  <1> QED BY MoneyInvariance, <1>1, PTL

(* With kills, the ledger of rollout_coherence has spent no less than the  *)
(* answers in its log cost.                                                *)
THEOREM RecordsArePaid == Spec => []RecordsCovered
  <1>1. JInv /\ Money => RecordsCovered
    <2> SUFFICES ASSUME JInv, Money, package = "coherence", phase # "off"
                 PROVE  spent >= Totals
      BY DEF RecordsCovered
    <2>1. PICK w : w = Weights OBVIOUS
    <2>2. PICK v : v = AnswerCost OBVIOUS
    <2>3. \A k \in Keys : w[k] \in Nat
      BY <2>1, WeightIsNat DEF JInv, Numbers
    <2>4. \A k \in Keys : v[k] \in Nat /\ v[k] <= w[k]
      BY <2>1, <2>2, <2>3 DEF Weights, AnswerCost
    <2>5. SumOver(v, Keys) <= SumOver(w, Keys) /\ SumOver(v, Keys) \in Nat
      BY <2>3, <2>4, SumAtMost, SumIsNat, FiniteKeys
    <2>6. Totals = SumOver(v, Keys) BY <2>2 DEF Totals, SumOver
    <2>7. Weight = SumOver(w, Keys) /\ Weight \in Nat
      BY <2>1, WeightIsNat DEF Weight, JInv, Numbers
    <2>8. Weight <= spent /\ spent \in Nat BY DEF Money, Covered, UnderLimit
    <2> QED BY <2>5, <2>6, <2>7, <2>8
  <1> QED BY JInvariance, MoneyInvariance, <1>1, PTL

=============================================================================
