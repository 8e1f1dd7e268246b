--------------------------- MODULE PipelineStream ---------------------------
(***************************************************************************)
(* The files and locals of RolloutPipeline read as the abstract stream of  *)
(* batches: a block is in the pool from its os.replace until rank 0 picks  *)
(* (or discards) it, and in the batch until the update.                    *)
(***************************************************************************)
EXTENDS RolloutPipeline

CONSTANT Ids  (* bound: the times BlockStream may name a block at *)

Writing == {r \in Ranks : pc[r] = "write"}

(* What rank 0 takes out of the queue, some of it to discard. *)
Picked == take \union stale

(* The names of the blocks whose file is complete, now or once. *)
Written == 1 .. clock \ {name[r].t : r \in Writing}

Flags == [BlocksPerStep |-> BlocksPerStep, DropStale |-> DropStale,
          StepOffset |-> StepOffset, TotalSteps |-> TotalSteps]

Stream == INSTANCE BlockStream WITH
  flags  <- Flags,
  pool   <- queue \ Picked,
  batch  <- take,
  known  <- Written,
  policy <- latest,
  ended  <- stop

(* The pipeline implements the stream, without its liveness, which ranks   *)
(* that crash take away: the interleaved globs, marks, reads and deletes   *)
(* give every update one batch of the oldest blocks, each of them once.    *)
ImplementsBatches == Stream!Init /\ [][Stream!Next]_(Stream!vars)

=============================================================================
