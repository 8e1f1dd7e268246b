------------------------------ MODULE JudgePass ------------------------------
(***************************************************************************)
(* One judge stage of eval/: run_requests sends every distinct request     *)
(* once through a pool of worker threads, under a ledger that reserves     *)
(* each call's estimate first, and the main thread appends one record per  *)
(* request and requester to an append-only log.  The log is all a later    *)
(* pass has: a kill at any point, an uncaught error or a refused key ends  *)
(* the pass, and the stage is run again until it can be marked complete.   *)
(*                                                                         *)
(* Several packages of eval/ call run_requests; the module has the stages  *)
(* of two, which differ in what they ask again, in what they load as spent *)
(* and in when they mark the stage: the steering package (the shared       *)
(* rules) and rollout_coherence (rules of its own).                        *)
(*                                                                         *)
(* Abstracted: texts, prices (a call is estimated at Est, and charged some *)
(* cost of Costs, which may be more: the estimate guesses the tokens of    *)
(* the prompt from its characters), the HTTP retries inside one call,      *)
(* several judges, the checks of the scores that may keep a stage from     *)
(* being marked as well.                                                   *)
(***************************************************************************)
EXTENDS Integers, Sequences, FiniteSets, FiniteSetsExt

CONSTANTS
  NRequests,        (* the requests of the stage, in their order             *)
  Keys,             (* the request keys                                      *)
  KeyOf,            (* request_key of each: two requesters may ask the same  *)
  Workers,          (* max_workers                                           *)
  CheckpointEvery,  (* checkpoint_every, in completed calls                  *)
  Cap,              (* the ledger's cap                                      *)
  Est,              (* the estimate a call reserves                          *)
  Costs,            (* what an answered call may be charged                  *)
  MaxCost,          (* bound: none is charged more                           *)
  MaxPasses,        (* bound: how often the stage is run                     *)
  MaxKills          (* bound: how often it is killed                         *)

Requests == 1 .. NRequests

ASSUME RequestsAssumption ==
  /\ NRequests \in Nat /\ IsFiniteSet(Keys)
  /\ KeyOf \in [Requests -> Keys] /\ \A k \in Keys : \E r \in Requests : KeyOf[r] = k
ASSUME LedgerAssumption ==
  /\ Cap \in Nat /\ Est \in Nat /\ MaxCost \in Nat
  /\ Costs \subseteq 0 .. MaxCost
ASSUME PoolAssumption ==
  /\ Workers \in Nat \ {0} /\ CheckpointEvery \in Nat \ {0}
  /\ MaxPasses \in Nat /\ MaxKills \in Nat

(* What became of a call: the replies classified by status_fn, the errors  *)
(* by the exception, "raise" for one no except clause of one() names.      *)
Replies == {"answer", "parse_fail", "empty"}
Errors  == {"moderation", "http", "transport", "auth"}
Unasked == {"budget", "transport", "auth"}
Kinds   == Replies \union Errors \union Unasked
Record  == [kind : Kinds, tries : 0 .. 2, cost : Nat]

VARIABLES
  package,  (* "shared" or "coherence": whose stage this is, fixed         *)
  (* on disk *)
  log,      (* per request, the records with its meta, in order            *)
  torn,     (* the log ends in half a line                                 *)
  saved,    (* spent_usd of the ledger file                                *)
  marked,   (* stages/<stage>.json says completed                          *)
  (* in the process *)
  phase,    (* "off", "copy", "run", "drain", "check"                      *)
  task,     (* per key, where the worker thread that sends it is           *)
  left,     (* the requests the record being logged is still owed to       *)
  unsaved,  (* calls completed since the last checkpoint                   *)
  halt,     (* the key was refused in this pass                            *)
  spent, reserved,  (* the ledger                                          *)
  (* bookkeeping *)
  passes, kills,
  charged   (* what the answered calls cost, over all passes               *)

disk   == <<log, torn, saved, marked>>
pool   == <<task, halt, spent, reserved, charged>>
bounds == <<package, passes, kills>>
vars   == <<package, log, torn, saved, marked, phase, task, left, unsaved,
            halt, spent, reserved, passes, kills, charged>>

(* No task; with its place set, the record of a request that is not sent.  *)
Idle == [at |-> "none", tries |-> 0, kind |-> "auth", cost |-> 0]
Task == [at : {"none", "queued", "ready", "sent", "finished", "raised",
               "logging", "logged"},
         tries : 0 .. 2, kind : Kinds, cost : Nat]

Init ==
  /\ package \in {"shared", "coherence"}
  /\ log = [r \in Requests |-> << >>] /\ torn = FALSE
  /\ saved = 0 /\ marked = FALSE
  /\ phase = "off" /\ task = [k \in Keys |-> Idle] /\ left = {}
  /\ unsaved = 0 /\ halt = FALSE /\ spent = 0 /\ reserved = 0
  /\ passes = 0 /\ kills = 0 /\ charged = 0

-----------------------------------------------------------------------------
(* What the log says *)

(* _is_retryable_record, the shared rule and that of rollout_coherence.    *)
Retryable(rec) ==
  \/ rec.kind \in Unasked
  \/ rec.kind = "parse_fail" /\ rec.tries < 2
  \/ package = "coherence" /\ rec.kind \in {"http", "empty"}

(* The records of request r a resume accepts.                              *)
Settled(r) == {n \in DOMAIN log[r] : ~Retryable(log[r][n])}

Of(k) == {r \in Requests : KeyOf[r] = k}

(* Mutant: a key is done when all its requesters have the answer.          *)
AnsweredMutant(k) == \A r \in Of(k) : Settled(r) # {}

(* k in done: some requester of the key has a settled record.              *)
Answered(k) == \E r \in Of(k) : Settled(r) # {}

(* Requests whose key is answered, but not under their own meta.           *)
Owed == {r \in Requests : Answered(KeyOf[r]) /\ Settled(r) = {}}

(* done[k]: the answer all its requesters share.                           *)
AnswerOf(k) ==
  CHOOSE rec \in UNION {{log[r][n] : n \in Settled(r)} : r \in Of(k)} : TRUE

AnswerCost == [k \in Keys |-> IF Answered(k) THEN AnswerOf(k).cost ELSE 0]

(* totals_from_records: one cost per answered key.                         *)
Totals == MapThenSumSet(LAMBDA k : AnswerCost[k], Keys)

First(S) == CHOOSE r \in S : \A q \in S : r <= q

Append1(r, rec) == log' = [log EXCEPT ![r] = Append(@, rec)]

-----------------------------------------------------------------------------
(* The main thread *)

(* The process ends, and with it all it kept in memory. *)
Gone ==
  /\ phase' = "off" /\ task' = [k \in Keys |-> Idle] /\ left' = {}
  /\ unsaved' = 0 /\ halt' = FALSE /\ spent' = 0 /\ reserved' = 0

(* Mutant: rollout_coherence loads the file alone. *)
LoadLedgerMutant == saved

(* Ledger.load; rollout_coherence takes the log's total when it is larger. *)
LoadLedger ==
  IF package = "coherence" /\ Totals > saved THEN Totals ELSE saved

(* The stage is run, unless it is complete; a log that ends in half a      *)
(* record cannot be read, and the stage raises before it does anything.    *)
Start ==
  /\ phase = "off" /\ ~marked /\ ~torn /\ passes < MaxPasses
  /\ passes' = passes + 1
  /\ spent' = LoadLedger /\ reserved' = 0
  /\ phase' = "copy"
  /\ task' = [k \in Keys |-> Idle]
  /\ left' = {} /\ unsaved' = 0 /\ halt' = FALSE
  /\ UNCHANGED <<disk, package, kills, charged>>

(* An answer the log has for another requester is recorded for this one.   *)
CopyAnswer ==
  /\ phase = "copy" /\ Owed # {}
  /\ LET r == First(Owed) IN Append1(r, AnswerOf(KeyOf[r]))
  /\ UNCHANGED <<torn, saved, marked, phase, left, unsaved, pool, bounds>>

(* Mutant: a key is left out only when all its requesters have the answer  *)
(* and the copies are not made.                                            *)
SubmitMutant ==
  /\ phase = "copy"
  /\ task' = [k \in Keys |-> IF \A r \in Of(k) : Settled(r) # {} THEN Idle
                             ELSE [Idle EXCEPT !.at = "queued"]]
  /\ phase' = "run"
  /\ UNCHANGED <<disk, left, unsaved, halt, spent, reserved, charged, bounds>>

(* Every key without an answer becomes one task of the executor.           *)
Submit ==
  /\ phase = "copy" /\ Owed = {}
  /\ task' = [k \in Keys |-> IF Answered(k) THEN Idle
                             ELSE [Idle EXCEPT !.at = "queued"]]
  /\ phase' = "run"
  /\ UNCHANGED <<disk, left, unsaved, halt, spent, reserved, charged, bounds>>

(* as_completed hands over a finished call, unless the last one is still   *)
(* being written down.  The result() of a call that raised ends the loop.  *)
Collect(k) ==
  /\ phase = "run" /\ left = {}
  /\ unsaved < CheckpointEvery
  /\ \/ /\ task[k].at = "finished"
        /\ task' = [task EXCEPT ![k].at = "logging"]
        /\ left' = Of(k) /\ phase' = phase
     \/ /\ task[k].at = "raised"
        /\ phase' = "drain" /\ UNCHANGED <<task, left>>
  /\ UNCHANGED <<disk, unsaved, halt, spent, reserved, charged, bounds>>

(* The record is appended for the requester that was sent, then for each   *)
(* of the others.                                                          *)
LogRecord(k) ==
  /\ task[k].at = "logging" /\ left # {}
  /\ LET r == First(left) IN
       /\ Append1(r, [kind |-> task[k].kind, tries |-> task[k].tries,
                      cost |-> task[k].cost])
       /\ left' = left \ {r}
       /\ IF left = {r}
          THEN /\ task' = [task EXCEPT ![k].at = "logged"]
               /\ unsaved' = unsaved + 1
          ELSE UNCHANGED <<task, unsaved>>
  /\ UNCHANGED <<torn, saved, marked, phase, halt, spent, reserved, charged,
                 bounds>>

(* checkpoint(): the ledger as it stands, by a rename.                     *)
Checkpoint ==
  /\ phase = "run" /\ unsaved = CheckpointEvery
  /\ saved' = spent /\ unsaved' = 0
  /\ UNCHANGED <<log, torn, marked, phase, left, pool, bounds>>

(* Mutant: the ledger is saved when the stage succeeds only. *)
SaveAtEndMutant == IF halt THEN saved ELSE spent

(* The save of the finally clause. *)
SaveAtEnd == spent

(* The pool is empty: a pass whose key was refused raises, the others      *)
(* return what they have.  The ledger is saved either way.                 *)
Return ==
  /\ phase = "run" /\ left = {} /\ unsaved < CheckpointEvery
  /\ \A k \in Keys : task[k].at \in {"none", "logged"}
  /\ saved' = SaveAtEnd
  /\ IF halt THEN Gone
     ELSE /\ phase' = "check"
          /\ UNCHANGED <<task, left, unsaved, halt, spent, reserved>>
  /\ UNCHANGED <<log, torn, marked, charged, bounds>>

(* Mutant: the executor is not waited for. *)
GiveUpMutant ==
  /\ phase = "drain" /\ \A k \in Keys : task[k].at = "logged"
  /\ saved' = SaveAtEnd /\ Gone
  /\ UNCHANGED <<log, torn, marked, charged, bounds>>

(* After an uncaught error the executor still runs what it was given; the  *)
(* answers are not written down.                                           *)
GiveUp ==
  /\ phase = "drain"
  /\ \A k \in Keys : task[k].at \notin {"queued", "ready", "sent"}
  /\ saved' = SaveAtEnd /\ Gone
  /\ UNCHANGED <<log, torn, marked, charged, bounds>>

(* Mutant: what the cap refused is not looked for. *)
CompleteMutant ==
  \A k \in Keys : task[k].at = "logged" => task[k].kind \notin {"transport", "auth"}

(* refuse_unasked (and in rollout_coherence _n_stale_answers): nothing may *)
(* be left unasked, or there without a settled record.                     *)
Complete ==
  /\ \A k \in Keys : task[k].at = "logged" => task[k].kind \notin Unasked
  /\ package = "coherence" => \A r \in Requests : Settled(r) # {}

(* mark_stage, or the error that leaves the stage to be run again.         *)
Mark ==
  /\ phase = "check"
  /\ marked' = Complete /\ Gone
  /\ UNCHANGED <<log, torn, saved, charged, bounds>>

Main ==
  \/ CopyAnswer \/ Submit \/ (\E k \in Keys : Collect(k) \/ LogRecord(k))
  \/ Checkpoint \/ Return \/ GiveUp \/ Mark

-----------------------------------------------------------------------------
(* A worker thread: one(req) *)

Busy == {k \in Keys : task[k].at \in {"ready", "sent"}}

(* The executor hands out its queue in order.                              *)
IsNext(k) ==
  /\ task[k].at = "queued" /\ Cardinality(Busy) < Workers
  /\ \A j \in Keys : task[j].at = "queued" => First(Of(k)) <= First(Of(j))

(* A task taken after the key was refused is recorded as "auth", unsent.   *)
Take(k) ==
  /\ phase \in {"run", "drain"} /\ IsNext(k)
  /\ task' = [task EXCEPT ![k] =
                IF halt THEN [Idle EXCEPT !.at = "finished"]
                        ELSE [Idle EXCEPT !.at = "ready"]]
  /\ UNCHANGED <<disk, phase, left, unsaved, halt, spent, reserved, charged,
                 bounds>>

(* Mutant: calls under way are not counted. *)
OverCapMutant == spent + Est > Cap

OverCap == spent + reserved + Est > Cap

(* Ledger.reserve.  A refused first call is recorded as "budget"; a refused *)
(* second one leaves the first reply as it was.                            *)
Reserve(k) ==
  /\ phase \in {"run", "drain"} /\ task[k].at = "ready"
  /\ IF OverCap
     THEN /\ task' = [task EXCEPT ![k] =
                        IF @.tries = 0
                        THEN [at |-> "finished", tries |-> 1,
                              kind |-> "budget", cost |-> 0]
                        ELSE [@ EXCEPT !.at = "finished"]]
          /\ reserved' = reserved
     ELSE /\ task' = [task EXCEPT ![k].at = "sent", ![k].tries = @ + 1]
          /\ reserved' = reserved + Est
  /\ UNCHANGED <<disk, phase, left, unsaved, halt, spent, charged, bounds>>

(* Ledger.release, and its part of settle. *)
Release == IF reserved > Est THEN reserved - Est ELSE 0

(* A reply is settled at what it cost, whatever had been reserved; a first *)
(* one without a verdict, or without text, is asked again.                 *)
Reply(k) ==
  /\ phase \in {"run", "drain"} /\ task[k].at = "sent"
  /\ \E kind \in Replies, c \in Costs :
       /\ kind = "empty" => package = "shared"
       /\ task' = [task EXCEPT ![k] =
                     [at |-> IF kind # "answer" /\ @.tries = 1
                             THEN "ready" ELSE "finished",
                      tries |-> @.tries, kind |-> kind, cost |-> c]]
       /\ spent' = spent + c /\ charged' = charged + c
  /\ reserved' = Release
  /\ UNCHANGED <<disk, phase, left, unsaved, halt, bounds>>

(* A JudgeError is released and recorded; a refused key halts the pass.    *)
Fail(k) ==
  /\ phase \in {"run", "drain"} /\ task[k].at = "sent"
  /\ \E kind \in Errors :
       /\ task' = [task EXCEPT ![k] =
                     [at |-> "finished", tries |-> @.tries, kind |-> kind,
                      cost |-> 0]]
       /\ halt' = (halt \/ kind = "auth")
  /\ reserved' = Release
  /\ UNCHANGED <<disk, phase, left, unsaved, spent, charged, bounds>>

(* Any other exception (a body cut short, an error code that is no number) *)
(* leaves one() with the reservation in place.                             *)
Raise(k) ==
  /\ phase \in {"run", "drain"} /\ task[k].at = "sent"
  /\ task' = [task EXCEPT ![k].at = "raised"]
  /\ UNCHANGED <<disk, phase, left, unsaved, halt, spent, reserved, charged,
                 bounds>>

Work(k) == Take(k) \/ Reserve(k) \/ Reply(k) \/ Fail(k) \/ Raise(k)

-----------------------------------------------------------------------------
(* The main thread is in append_jsonl, or about to be. *)
Appending == left # {} \/ (phase = "copy" /\ Owed # {})

(* The process is killed.  An append it was in may leave half a line.      *)
Kill ==
  /\ phase # "off" /\ kills < MaxKills
  /\ kills' = kills + 1
  /\ torn' \in {FALSE, Appending}
  /\ Gone
  /\ UNCHANGED <<package, log, saved, marked, passes, charged>>

(* The stage is complete, its log is unreadable, or it is left alone.      *)
Done ==
  /\ phase = "off" /\ (marked \/ torn \/ passes = MaxPasses)
  /\ UNCHANGED vars

Next == Start \/ Main \/ (\E k \in Keys : Work(k)) \/ Kill \/ Done

(* Threads run; a call ends, by its timeout if not by an answer.           *)
Fairness == WF_vars(Main) /\ \A k \in Keys : WF_vars(Work(k))

Spec == Init /\ [][Next]_vars /\ Fairness

-----------------------------------------------------------------------------
(* Properties *)

(* The values the files and variables of a pass can have.                  *)
TypeOK ==
  /\ package \in {"shared", "coherence"}
  /\ log \in [Requests -> Seq(Record)] /\ torn \in BOOLEAN
  /\ saved \in Nat /\ marked \in BOOLEAN
  /\ phase \in {"off", "copy", "run", "drain", "check"}
  /\ task \in [Keys -> Task] /\ left \in SUBSET Requests
  /\ unsaved \in 0 .. CheckpointEvery /\ halt \in BOOLEAN
  /\ spent \in Nat /\ reserved \in Nat
  /\ passes \in Nat /\ kills \in Nat /\ charged \in Nat

(* A request the log answers is never sent again, whichever requester's    *)
(* record the last pass got to before it died.                             *)
AnsweredOnce ==
  phase # "off" =>
    \A k \in Keys : task[k].at \in {"queued", "ready", "sent"} => ~Answered(k)

(* However often a pass dies between the records of a shared answer, no    *)
(* requester gets two of them: readers may count lines.                    *)
NoDuplicates == \A r \in Requests : \A m, n \in Settled(r) : m = n

(* The stage is marked complete only when every requester has, under its   *)
(* own meta, a record that a later pass would not ask again or a reply     *)
(* whose second try the cap refused.                                       *)
StageHonest ==
  marked => \A r \in Requests :
              \E n \in DOMAIN log[r] : log[r][n].kind \notin Unasked

(* By how much a call can cost more than it reserved. *)
Over == IF MaxCost > Est THEN MaxCost - Est ELSE 0

(* With every worker reserving, settling and retrying at once, and over    *)
(* passes that start from what the last one spent, the cap is passed by    *)
(* one overrun for each worker at most, and not at all where no call costs *)
(* more than its estimate.                                                 *)
OvershootBounded == phase # "off" => spent + reserved <= Cap + Workers * Over

(* Passes that end by themselves (by success, a refused key, an uncaught   *)
(* error) hand the next one every cent that was charged.                   *)
LedgerExact ==
  kills = 0 => charged = (IF phase \in {"off", "check"} THEN saved ELSE spent)

(* rollout_coherence only: after any number of kills the ledger still      *)
(* knows the cost of every answer on disk, though not of the calls the     *)
(* kill caught.                                                            *)
RecordsCovered ==
  package = "coherence" /\ phase # "off" => spent >= Totals

(* A pass ends, whatever the endpoint answers.                             *)
PassEnds == (phase # "off") ~> (phase = "off")

=============================================================================
