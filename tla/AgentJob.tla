------------------------------ MODULE AgentJob ------------------------------
(***************************************************************************)
(* A job of src/aws-agent-deployment-demo: submitted to a Celery queue on  *)
(* Redis, run by a worker that calls its two tools through the tool        *)
(* gateway, and run again after any exception.  A worker acknowledges a    *)
(* message when it starts on it (Celery's default), so an attempt dies     *)
(* with its worker; a message that waits, for its delay too, survives.     *)
(*                                                                         *)
(* The policy allows both tools: the worker's context always has a role    *)
(* and no classification.  The rate limit of the API is left out.          *)
(***************************************************************************)
EXTENDS Integers, FiniteSets

CONSTANTS
    Jobs,
    Workers,
    MaxRetries,  \* max_retries of run_agent_job
    MaxMishaps   \* bound: failures of the log or of Redis, and deaths of workers

ASSUME AgentJobConstants == MaxRetries \in Nat /\ MaxMishaps \in Nat

VARIABLES
    message,    \* the message of a job in the queue: its number of retries, -1 if there is none
    result,     \* the job's state in the result backend
    worker,     \* what each worker does
    paid,       \* calls of the model that were answered, and so paid for, by job
    executed,   \* audit records of those calls that say EXECUTED, by job
    failed,     \* audit records of those calls that say FAILED, by job
    lost,       \* the jobs whose attempt died with its worker, or whose retry was not published
    mishaps

jobVars == <<message, result, worker, paid, executed, failed, lost, mishaps>>

Available == [pc |-> "waiting"]

JobInit ==
    /\ message = [j \in Jobs |-> -1]
    /\ result = [j \in Jobs |-> "NONE"]
    /\ worker = [w \in Workers |-> Available]
    /\ paid = [j \in Jobs |-> 0]
    /\ executed = [j \in Jobs |-> 0]
    /\ failed = [j \in Jobs |-> 0]
    /\ lost = {}
    /\ mishaps = 0

At(w, where) == worker[w].pc = where

JobOf(w) == worker[w].job

Go(w, where) == worker' = [worker EXCEPT ![w].pc = where]

Mishap == mishaps < MaxMishaps /\ mishaps' = mishaps + 1

----------------------------------------------------------------------------
\* submit_job: a job that was not queued yet reads as PENDING.
Submit(j) ==
    /\ result[j] = "NONE"
    /\ message' = [message EXCEPT ![j] = 0]
    /\ result' = [result EXCEPT ![j] = "PENDING"]
    /\ UNCHANGED <<worker, paid, executed, failed, lost, mishaps>>

\* The message is acknowledged and the job STARTED.
Take(w) == \E j \in Jobs :
    /\ At(w, "waiting")
    /\ message[j] >= 0
    /\ message' = [message EXCEPT ![j] = -1]
    /\ result' = [result EXCEPT ![j] = "STARTED"]
    /\ worker' = [worker EXCEPT ![w] = [pc |-> "retrieve", job |-> j, retries |-> message[j]]]
    /\ UNCHANGED <<paid, executed, failed, lost, mishaps>>

(***************************************************************************)
(* One step of execute_agent_workflow with the progress it reports.  The   *)
(* catalogue answers; its call is audited.                                 *)
(***************************************************************************)
Progress(w) == result' = [result EXCEPT ![JobOf(w)] = "PROGRESS"]

Retrieve(w) ==
    /\ At(w, "retrieve")
    /\ Progress(w)
    /\ Go(w, "generate")
    /\ UNCHANGED <<message, paid, executed, failed, lost, mishaps>>

(***************************************************************************)
(* invoke_tool: the model answers, and the call is to be audited as        *)
(* EXECUTED; or the answer is empty, which generate_answer makes an        *)
(* exception of, so the call is paid for all the same and to be audited as *)
(* FAILED; or there is no answer, which is audited too and fails the step. *)
(***************************************************************************)
Generate(w) ==
    /\ At(w, "generate")
    /\ Progress(w)
    /\ \/ /\ paid' = [paid EXCEPT ![JobOf(w)] = @ + 1]
          /\ Go(w, "audit") \/ Go(w, "report")
       \/ Go(w, "raised") /\ UNCHANGED paid
    /\ UNCHANGED <<message, executed, failed, lost, mishaps>>

AuditCall(w) ==
    /\ At(w, "audit")
    /\ executed' = [executed EXCEPT ![JobOf(w)] = @ + 1]
    /\ Go(w, "validate")
    /\ UNCHANGED <<message, result, paid, failed, lost, mishaps>>

\* The record of the failure; the result that invoke_tool returns fails the step.
ReportCall(w) ==
    /\ At(w, "report")
    /\ failed' = [failed EXCEPT ![JobOf(w)] = @ + 1]
    /\ Go(w, "raised")
    /\ UNCHANGED <<message, result, paid, executed, lost, mishaps>>

\* validate_answer: a short answer is an exception like any other.
Validate(w) ==
    /\ At(w, "validate")
    /\ Progress(w)
    /\ Go(w, "completed") \/ Go(w, "raised")
    /\ UNCHANGED <<message, paid, executed, failed, lost, mishaps>>

Complete(w) ==
    /\ At(w, "completed")
    /\ result' = [result EXCEPT ![JobOf(w)] = "SUCCESS"]
    /\ worker' = [worker EXCEPT ![w] = Available]
    /\ UNCHANGED <<message, paid, executed, failed, lost, mishaps>>

\* A progress update or an audit record cannot be written; an EXECUTED that fails is followed by a FAILED.
StepFails(w) ==
    /\ worker[w].pc \in {"retrieve", "generate", "audit", "report", "validate"}
    /\ Mishap
    /\ Go(w, IF At(w, "audit") THEN "report" ELSE "raised")
    /\ UNCHANGED <<message, result, paid, executed, failed, lost>>

----------------------------------------------------------------------------
\* A mutant of MayRetry: one more.
MayRetryMore(w) == worker[w].retries <= MaxRetries

MayRetry(w) == worker[w].retries < MaxRetries

\* A mutant of Again: the message of the retry is not published.
AgainNever(w) == message

Again(w) == [message EXCEPT ![JobOf(w)] = worker[w].retries + 1]

(***************************************************************************)
(* autoretry_for: the retry is published first, and then the job is marked *)
(* RETRY.  With a delay of zero, which the jitter may draw, another worker *)
(* may be ahead of the mark; only SUCCESS is not overwritten.              *)
(***************************************************************************)
Retry(w) ==
    /\ At(w, "raised")
    /\ MayRetry(w)
    /\ message' = Again(w)
    /\ Go(w, "mark")
    /\ UNCHANGED <<result, paid, executed, failed, lost, mishaps>>

\* A mutant of Marked: a mark that comes late hides a success.
MarkedAnyway(r) == "RETRY"

Marked(r) == IF r = "SUCCESS" THEN r ELSE "RETRY"

Mark(w) ==
    /\ At(w, "mark")
    /\ result' = [result EXCEPT ![JobOf(w)] = Marked(@)]
    /\ worker' = [worker EXCEPT ![w] = Available]
    /\ UNCHANGED <<message, paid, executed, failed, lost, mishaps>>

GiveUp(w) ==
    /\ At(w, "raised")
    /\ ~MayRetry(w)
    /\ result' = [result EXCEPT ![JobOf(w)] = "FAILURE"]
    /\ worker' = [worker EXCEPT ![w] = Available]
    /\ UNCHANGED <<message, paid, executed, failed, lost, mishaps>>

\* A worker dies, or the retry cannot be published: the attempt was acknowledged.  Another worker starts.
Die(w) ==
    /\ ~At(w, "waiting")
    /\ Mishap
    /\ lost' = IF At(w, "mark") THEN lost ELSE lost \cup {JobOf(w)}
    /\ worker' = [worker EXCEPT ![w] = Available]
    /\ UNCHANGED <<message, result, paid, executed, failed>>

Work(w) ==
    \/ Take(w) \/ Retrieve(w) \/ Generate(w) \/ AuditCall(w) \/ ReportCall(w) \/ Validate(w)
    \/ Complete(w) \/ Retry(w) \/ Mark(w) \/ GiveUp(w)

JobNext ==
    \/ \E j \in Jobs : Submit(j)
    \/ \E w \in Workers : Work(w) \/ StepFails(w) \/ Die(w)

JobSpec == JobInit /\ [][JobNext]_jobVars

----------------------------------------------------------------------------
JobTypeOK ==
    /\ message \in [Jobs -> -1..MaxRetries]
    /\ result \in [Jobs -> {"NONE", "PENDING", "STARTED", "PROGRESS", "RETRY", "SUCCESS", "FAILURE"}]
    /\ worker \in [Workers -> {Available} \cup
           [pc : {"retrieve", "generate", "audit", "report", "validate", "completed", "raised", "mark"},
            job : Jobs, retries : 0..MaxRetries]]
    /\ paid \in [Jobs -> Nat]
    /\ executed \in [Jobs -> Nat]
    /\ failed \in [Jobs -> Nat]
    /\ lost \subseteq Jobs
    /\ mishaps \in 0..MaxMishaps

Auditing(j) == {w \in Workers : worker[w].pc \in {"audit", "report"} /\ JobOf(w) = j}

(***************************************************************************)
(* A job pays for at most one call per attempt, and at most MaxRetries + 1 *)
(* calls, whatever overtakes or dies; the audit log has every call that    *)
(* was paid for once, as EXECUTED or as FAILED, but those whose record     *)
(* could not be written or whose worker died; and a job that succeeded has *)
(* a call in it that was EXECUTED.                                         *)
(***************************************************************************)
PaymentsAreAccounted == \A j \in Jobs :
    /\ paid[j] <= MaxRetries + 1
    /\ executed[j] + failed[j] + Cardinality(Auditing(j)) \in (paid[j] - mishaps)..paid[j]
    /\ result[j] = "SUCCESS" => executed[j] > 0

(***************************************************************************)
(* A success is the end of a job: no attempt, mark or message of an        *)
(* earlier attempt takes it back, queues the job again or pays again, so   *)
(* what get_job_status calls completed stays completed.                    *)
(***************************************************************************)
SuccessIsFinal == [][\A j \in Jobs : result[j] = "SUCCESS" =>
    result'[j] = "SUCCESS" /\ message'[j] = -1 /\ paid'[j] = paid[j]]_jobVars

(***************************************************************************)
(* A job that was submitted succeeds or fails at some time, unless it was  *)
(* lost with a worker.  A FAILURE need not last: the mark of an earlier    *)
(* attempt that was overtaken may turn it into RETRY for ever.             *)
(***************************************************************************)
JobsSettle == \A j \in Jobs :
    result[j] = "PENDING" ~> result[j] \in {"SUCCESS", "FAILURE"} \/ j \in lost
=============================================================================
