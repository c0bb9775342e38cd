------------------------------ MODULE JobStore ------------------------------
(***************************************************************************)
(* The rows of src/async-execution that decide the life of one job:        *)
(* agent_jobs, workflow_side_effects and job_outbox, with the operations   *)
(* of app/store.py.  Each operation is one transaction that locks the job  *)
(* row, so the row's version counter, which only tells transactions apart, *)
(* is left out; so is job_events, a log of the transitions.                *)
(***************************************************************************)
EXTENDS Integers, Sequences

CONSTANTS
    NumSteps,      \* steps of the pipeline, run in the order 1..NumSteps
    MaxAttempts,   \* max_attempts of the job
    Publishers     \* processes that run celery_app.outbox_loop

ASSUME StoreConstants ==
    /\ NumSteps \in Nat \ {0}
    /\ MaxAttempts \in Nat \ {0}
    /\ 0 \notin Publishers

VARIABLES
    job,       \* the row of agent_jobs
    effects,   \* steps with a row in workflow_side_effects
    outbox     \* the job's rows of job_outbox, by event_id

jobVars == <<job, effects, outbox>>

----------------------------------------------------------------------------

Terminal == {"cancelled", "succeeded", "failed", "dead_lettered"}

\* No job is ever in ACCEPTED: create_or_replay inserts it as QUEUED.
Statuses == {"queued", "running", "retrying", "cancel_requested"} \cup Terminal

\* A mutant of Moves: work that runs may be put back into the queue.
MovesBackToQueue ==
    [queued           |-> {"running", "cancel_requested"},
     running          |-> {"succeeded", "retrying", "cancel_requested", "failed",
                           "dead_lettered", "queued"},
     retrying         |-> {"queued", "cancel_requested", "dead_lettered"},
     cancel_requested |-> {"cancelled"}]

\* A mutant of Moves: work that is done may finish over a cancellation.
MovesOverCancel ==
    [queued           |-> {"running", "cancel_requested"},
     running          |-> {"succeeded", "retrying", "cancel_requested", "failed",
                           "dead_lettered"},
     retrying         |-> {"queued", "cancel_requested", "dead_lettered"},
     cancel_requested |-> {"cancelled", "succeeded"}]

\* contracts.ALLOWED_TRANSITIONS.
Moves ==
    [queued           |-> {"running", "cancel_requested"},
     running          |-> {"succeeded", "retrying", "cancel_requested", "failed",
                           "dead_lettered"},
     retrying         |-> {"queued", "cancel_requested", "dead_lettered"},
     cancel_requested |-> {"cancelled"}]

NobodyClaims == 0

Rows == [due : BOOLEAN, claim : Publishers \cup {NobodyClaims}, stale : BOOLEAN,
         published : BOOLEAN]

NewRow(due) == [due |-> due, claim |-> NobodyClaims, stale |-> FALSE, published |-> FALSE]

\* create_or_replay: the job and its first outbox row, in one transaction.
StoreInit ==
    /\ job = [status |-> "queued", attempts |-> 0, checkpoint |-> 0, cancel |-> FALSE]
    /\ effects = {}
    /\ outbox = <<NewRow(TRUE)>>

----------------------------------------------------------------------------
CanMove(next) == job.status \notin Terminal /\ next \in Moves[job.status]

\* PostgresJobStore.transition, when it does not raise InvalidTransition.
Transition(next) ==
    /\ CanMove(next)
    /\ job' = [job EXCEPT !.status = next, !.cancel = @ \/ next = "cancel_requested"]

\* A mutant of MayBegin: an attempt may also begin on work that was left running.
MayBeginRunning == job.status \in {"queued", "running"}

MayBegin == job.status = "queued"

BeginAttempt ==
    /\ MayBegin
    /\ job' = [job EXCEPT !.status = "running", !.attempts = @ + 1]

\* A mutant of SaveCheckpoint: the index is advanced once too often.
SaveCheckpointAhead(index) == job' = [job EXCEPT !.checkpoint = index + 1]

\* No look at the status: a checkpoint is written to whatever the job has become.
SaveCheckpoint(index) == job' = [job EXCEPT !.checkpoint = index]

RecordSideEffectOnce(step) == effects' = effects \cup {step}

\* A mutant of EnqueueRetry: the retry is scheduled nowhere.
EnqueueNothing == UNCHANGED outbox

EnqueueRetry == outbox' = Append(outbox, NewRow(FALSE))

(***************************************************************************)
(* request_cancel.  The read before it returns early only where the        *)
(* transition would be refused, and a refusal is swallowed.                *)
(***************************************************************************)
RequestCancel ==
    /\ Transition("cancel_requested")
    /\ UNCHANGED <<effects, outbox>>
=============================================================================
