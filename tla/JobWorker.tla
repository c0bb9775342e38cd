----------------------------- MODULE JobWorker ------------------------------
(***************************************************************************)
(* The Celery workers of src/async-execution: celery_app.run_agent_job and *)
(* app/worker.py's Worker.process.  Every call of the store is a           *)
(* transaction of its own, so each is a step here; between two of them the *)
(* job may be cancelled, delivered to another worker, or lose this one.    *)
(***************************************************************************)
EXTENDS JobOutbox

CONSTANTS
    Workers,      \* slots that process a message
    MaxDropped    \* bound: deliveries lost to an unexpected exception

ASSUME WorkerConstants == MaxDropped \in Nat

VARIABLES
    pc,          \* where each worker is in process
    step,        \* index of the loop: steps done when it goes round
    limit,       \* attempts it read after a transient failure
    prior,       \* steps whose output it holds
    performed,   \* steps that ran to their end, in their order
    dropped      \* deliveries lost to an unexpected exception so far

workerVars == <<pc, step, limit, prior, performed, dropped>>

vars == <<jobVars, outboxVars, workerVars>>

PCs == {"idle", "cancel", "requeue", "begin", "check", "run", "record", "save",
        "succeed", "fail", "transient", "decide", "enqueue"}

WorkerInit ==
    /\ pc = [w \in Workers |-> "idle"]
    /\ step = [w \in Workers |-> 0]
    /\ limit = [w \in Workers |-> 0]
    /\ prior = [w \in Workers |-> {}]
    /\ performed = <<>>
    /\ dropped = 0

GoTo(w, place) == pc' = [pc EXCEPT ![w] = place]

\* process ends, by a return or by an exception: the message is acknowledged.
Return(w) ==
    /\ GoTo(w, "idle")
    /\ step' = [step EXCEPT ![w] = 0]
    /\ limit' = [limit EXCEPT ![w] = 0]
    /\ prior' = [prior EXCEPT ![w] = {}]

\* A transition of the job; refused, InvalidTransition ends the delivery.
MoveAnd(w, next, place) ==
    IF CanMove(next)
    THEN /\ Transition(next)
         /\ IF place = "idle" THEN Return(w)
                              ELSE GoTo(w, place) /\ UNCHANGED <<step, limit, prior>>
    ELSE Return(w) /\ UNCHANGED job

----------------------------------------------------------------------------
\* Celery delivers a message, and process reads the job.
Take(w) ==
    /\ pc[w] = "idle"
    /\ broker > 0
    /\ broker' = broker - 1
    /\ GoTo(w, CASE job.status = "cancel_requested" -> "cancel"
                 [] job.status = "retrying"         -> "requeue"
                 [] job.status \in {"queued", "running"} -> "begin"
                 [] job.status \in Terminal         -> "idle")
    /\ UNCHANGED <<jobVars, batch, sent, mishaps, step, limit, prior, performed, dropped>>

Cancel(w) ==
    /\ pc[w] = "cancel"
    /\ MoveAnd(w, "cancelled", "idle")
    /\ UNCHANGED <<effects, outbox, outboxVars, performed, dropped>>

Requeue(w) ==
    /\ pc[w] = "requeue"
    /\ MoveAnd(w, "queued", "begin")
    /\ UNCHANGED <<effects, outbox, outboxVars, performed, dropped>>

\* The attempt starts after the last checkpoint, with no outputs at hand.
Begin(w) ==
    /\ pc[w] = "begin"
    /\ IF MayBegin
       THEN /\ BeginAttempt
            /\ GoTo(w, "check")
            /\ step' = [step EXCEPT ![w] = job.checkpoint]
            /\ UNCHANGED <<limit, prior>>
       ELSE Return(w) /\ UNCHANGED job
    /\ UNCHANGED <<effects, outbox, outboxVars, performed, dropped>>

(***************************************************************************)
(* The head of the loop: look for a cancellation, then for an output that  *)
(* is already recorded.                                                    *)
(***************************************************************************)
Check(w) ==
    /\ pc[w] = "check"
    /\ LET more == step[w] < NumSteps
           known == step[w] + 1 \in effects
       IN GoTo(w, CASE ~more                        -> "succeed"
                    [] more /\ job.cancel            -> "cancel"
                    [] more /\ ~job.cancel /\ known  -> "save"
                    [] more /\ ~job.cancel /\ ~known -> "run")
    /\ UNCHANGED <<jobVars, outboxVars, step, limit, prior, performed, dropped>>

RunStep(w) ==
    /\ pc[w] = "run"
    /\ GoTo(w, "record")
    /\ performed' = Append(performed, step[w] + 1)
    /\ UNCHANGED <<jobVars, outboxVars, step, limit, prior, dropped>>

StepFails(w) ==
    /\ pc[w] = "run"
    /\ \E failure \in {"transient", "fail"} : GoTo(w, failure)
    /\ UNCHANGED <<jobVars, outboxVars, step, limit, prior, performed, dropped>>

Record(w) ==
    /\ pc[w] = "record"
    /\ RecordSideEffectOnce(step[w] + 1)
    /\ GoTo(w, "save")
    /\ UNCHANGED <<job, outbox, outboxVars, step, limit, prior, performed, dropped>>

Save(w) ==
    /\ pc[w] = "save"
    /\ SaveCheckpoint(step[w] + 1)
    /\ step' = [step EXCEPT ![w] = @ + 1]
    /\ prior' = [prior EXCEPT ![w] = @ \cup {step[w] + 1}]
    /\ GoTo(w, "check")
    /\ UNCHANGED <<effects, outbox, outboxVars, limit, performed, dropped>>

Succeed(w) ==
    /\ pc[w] = "succeed"
    /\ MoveAnd(w, "succeeded", "idle")
    /\ UNCHANGED <<effects, outbox, outboxVars, performed, dropped>>

Fail(w) ==
    /\ pc[w] = "fail"
    /\ MoveAnd(w, "failed", "idle")
    /\ UNCHANGED <<effects, outbox, outboxVars, performed, dropped>>

----------------------------------------------------------------------------
\* After a transient failure: read the attempts, then retry or give up.
ReadAttempts(w) ==
    /\ pc[w] = "transient"
    /\ limit' = [limit EXCEPT ![w] = job.attempts]
    /\ GoTo(w, "decide")
    /\ UNCHANGED <<jobVars, outboxVars, step, prior, performed, dropped>>

\* A mutant of Exhausted: one attempt more than the budget.
ExhaustedLate(attempts) == attempts > MaxAttempts

Exhausted(attempts) == attempts >= MaxAttempts

DeadLetter(w) ==
    /\ pc[w] = "decide"
    /\ Exhausted(limit[w])
    /\ MoveAnd(w, "dead_lettered", "idle")
    /\ UNCHANGED <<effects, outbox, outboxVars, performed, dropped>>

Retry(w) ==
    /\ pc[w] = "decide"
    /\ ~Exhausted(limit[w])
    /\ MoveAnd(w, "retrying", "enqueue")
    /\ UNCHANGED <<effects, outbox, outboxVars, performed, dropped>>

Enqueue(w) ==
    /\ pc[w] = "enqueue"
    /\ EnqueueRetry
    /\ Return(w)
    /\ UNCHANGED <<job, effects, outboxVars, performed, dropped>>

WorkerStep(w) ==
    \/ Take(w) \/ Cancel(w) \/ Requeue(w) \/ Begin(w) \/ Check(w)
    \/ RunStep(w) \/ StepFails(w) \/ Record(w) \/ Save(w)
    \/ Succeed(w) \/ Fail(w)
    \/ ReadAttempts(w) \/ DeadLetter(w) \/ Retry(w) \/ Enqueue(w)

----------------------------------------------------------------------------
\* The process of a worker dies: late acknowledgement returns its message.
WorkerDies(w) ==
    /\ Mishap
    /\ pc[w] # "idle"
    /\ Return(w)
    /\ broker' = broker + 1
    /\ UNCHANGED <<jobVars, batch, sent, performed, dropped>>

\* The visibility timeout of the broker passes while a worker is busy.
DeliverAgain ==
    /\ Mishap
    /\ \E w \in Workers : pc[w] # "idle"
    /\ broker' = broker + 1
    /\ UNCHANGED <<jobVars, batch, sent, workerVars>>

\* An exception process does not expect, say of the database: acknowledged like any end.
Raise(w) ==
    /\ pc[w] # "idle"
    /\ dropped < MaxDropped
    /\ dropped' = dropped + 1
    /\ Return(w)
    /\ UNCHANGED <<jobVars, outboxVars, performed>>

WorkNext ==
    \/ \E w \in Workers : WorkerStep(w) \/ WorkerDies(w) \/ Raise(w)
    \/ DeliverAgain
=============================================================================
