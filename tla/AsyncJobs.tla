----------------------------- MODULE AsyncJobs ------------------------------
(***************************************************************************)
(* One job of src/async-execution from its creation to its end: callers    *)
(* who cancel it, publishers that deliver it and workers that process it,  *)
(* over the rows they share.                                               *)
(***************************************************************************)
EXTENDS JobWorker

CONSTANT Cancellable   \* whether a caller may cancel the job

ASSUME JobConstants == Cancellable \in BOOLEAN

Init == StoreInit /\ OutboxInit /\ WorkerInit

CancelRequested == Cancellable /\ RequestCancel /\ UNCHANGED <<outboxVars, workerVars>>

Deliver == PublishNext /\ UNCHANGED workerVars

Next == CancelRequested \/ Deliver \/ WorkNext

Spec == Init /\ [][Next]_vars

(***************************************************************************)
(* Fairness.  Publishers poll for ever, Celery keeps its workers busy and  *)
(* clocks advance.  Failures, cancellations and the outcome of a step are  *)
(* left open.                                                              *)
(***************************************************************************)
FairSpec ==
    /\ Spec
    /\ \A p \in Publishers : WF_vars(PublisherStep(p) /\ UNCHANGED workerVars)
    /\ WF_vars(\E i \in 1..Len(outbox) : RetryComesDue(i) /\ UNCHANGED workerVars)
    /\ WF_vars(\E i \in 1..Len(outbox) : ~Held(i) /\ ClaimTimesOut(i) /\ UNCHANGED workerVars)
    /\ \A w \in Workers : WF_vars(WorkerStep(w))

----------------------------------------------------------------------------
TypeOK ==
    /\ job \in [status : Statuses, attempts : 0..MaxAttempts, checkpoint : 0..NumSteps,
                cancel : BOOLEAN]
    /\ effects \subseteq 1..NumSteps
    /\ outbox \in Seq(Rows)
    /\ batch \in [Publishers -> SUBSET (1..Len(outbox))]
    /\ sent \in [Publishers -> {NoRow} \cup 1..Len(outbox)]
    /\ broker \in Nat
    /\ mishaps \in 0..MaxMishaps
    /\ pc \in [Workers -> PCs]
    /\ step \in [Workers -> 0..NumSteps]
    /\ limit \in [Workers -> 0..MaxAttempts]
    /\ prior \in [Workers -> SUBSET (1..NumSteps)]
    /\ performed \in Seq(1..NumSteps)
    /\ dropped \in 0..MaxDropped

(***************************************************************************)
(* At most one worker is inside an attempt, however often the message is   *)
(* delivered: begin_attempt decides under the row lock who it is.          *)
(***************************************************************************)
Attempting == {"check", "run", "record", "save", "succeed", "fail", "transient", "decide"}

OneExecutor == \A v, w \in Workers : pc[v] \in Attempting /\ pc[w] \in Attempting => v = w

(***************************************************************************)
(* No step's work is done twice, and no step is done before its            *)
(* predecessor, over retries, duplicate deliveries and lost workers        *)
(* (Worker.process, record_side_effect_once).                              *)
(***************************************************************************)
WorkIsDoneOnce ==
    /\ \A i \in 1..Len(performed) : performed[i] = i
    /\ effects \in {1..n : n \in 0..Len(performed)}
    /\ job.checkpoint <= Len(performed)

(***************************************************************************)
(* A job that waits to be run is never forgotten: it has an outbox row to  *)
(* publish, a message at the broker, or a worker about to act on it.  The  *)
(* one excuse is a delivery dropped by an unexpected exception.            *)
(***************************************************************************)
WillBeDelivered ==
    \/ broker > 0
    \/ \E i \in 1..Len(outbox) : ~outbox[i].published
    \/ \E w \in Workers : pc[w] \in {"requeue", "begin", "enqueue"}

NoLostWork == job.status \in {"queued", "retrying"} => WillBeDelivered \/ dropped > 0

(***************************************************************************)
(* The budget of attempts is used up before a job is given up, and not     *)
(* overdrawn: a job that waits for a retry still has an attempt left.      *)
(***************************************************************************)
BudgetIsKept ==
    /\ job.status \in {"queued", "retrying"} => job.attempts < MaxAttempts
    /\ job.status = "dead_lettered" => job.attempts = MaxAttempts

\* Every behaviour of the service keeps the contract of module JobContract.
Contract == INSTANCE JobContract WITH
    outcome <- IF job.status \in Terminal THEN job.status ELSE "open",
    asked   <- job.cancel,
    done    <- effects

KeepsContract == Contract!Spec

----------------------------------------------------------------------------
(***************************************************************************)
(* Every job ends.  It is left unfinished for one of three reasons only: a *)
(* mishap interrupted its attempt; its cancellation came when the worker   *)
(* had stopped to look for one; an unexpected exception dropped a          *)
(* delivery.  The first two are for ever: nobody is left to move the job.  *)
(***************************************************************************)
NobodyIsLeft ==
    /\ broker = 0
    /\ \A i \in 1..Len(outbox) : outbox[i].published
    /\ \A w \in Workers : pc[w] = "idle"

Interrupted == job.status = "running" /\ mishaps > 0

JobEnds ==
    (job.status \notin Terminal) ~>
        \/ job.status \in Terminal
        \/ NobodyIsLeft /\ (Interrupted \/ job.status = "cancel_requested")
        \/ dropped > 0

\* The demo waits for "cancelled" once a cancellation was accepted.
CancelEnds == (job.status = "cancel_requested") ~> (job.status = "cancelled")

\* A lost worker's attempt is resumed, or given up.
InterruptedWorkResumes == (job.status = "running") ~> (job.status # "running")

\* A step runs with the outputs of all steps before it.
StepsBuildOnPrior == \A w \in Workers : pc[w] = "run" => prior[w] = 1..step[w]
=============================================================================
