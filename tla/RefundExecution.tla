-------------------------- MODULE RefundExecution --------------------------
(***************************************************************************)
(* The machine half of the refund workflow: the execution, recovery and    *)
(* reconciliation of app/core.py, and the refund provider of app/erp.py.   *)
(* A worker is the tick thread of a Celery worker; an operator is a        *)
(* request to POST /workflows/{id}/operate.  No transaction spans a call   *)
(* to the provider, so each call is three steps of its thread.             *)
(***************************************************************************)
EXTENDS RefundStore

CONSTANTS
    Workers,      \* tick threads, one per worker process
    Operators,    \* concurrent reconcile requests of operators
    MaxFailures   \* bound: process crashes and failed lookups in a behaviour

ASSUME ExecutionConstants ==
    /\ Workers \cap Operators = {}
    /\ MaxFailures \in Nat

Threads == Workers \cup Operators

VARIABLES
    pc,        \* where each thread is
    work,      \* the attempt a worker claimed and the fence it was given
    answer,    \* what the provider answered to the thread's call
    seen,      \* the workflow version a reconciling thread read
    posts,     \* attempts whose POST /refunds the provider may still process; one
               \* that never arrives stays there and is never processed
    ledger,    \* refund_ledger of the provider
    failures   \* crashes and failed lookups so far

executionVars == <<pc, work, answer, seen, posts, ledger, failures>>

----------------------------------------------------------------------------

PCs == {"idle", "claimed", "waiting", "answered", "selected", "looking", "looked"}

Answers == [kind : {"none", "receipt", "not_started", "rejected", "lost",
                    "found", "absent", "unavailable"},
            receipt : Nat]

Reply(kind) == [kind |-> kind, receipt |-> NoReceipt]

NoWork == [attempt |-> 0, fence |-> 0]

\* A row of refund_ledger; the receipt is named after the attempt that wrote it.
Entries == [key : {"v1"} \cup Nat, receipt : Nat, fault : FaultKinds]

ExecutionInit ==
    /\ pc = [t \in Threads |-> "idle"]
    /\ work = [t \in Threads |-> NoWork]
    /\ answer = [t \in Threads |-> Reply("none")]
    /\ seen = [t \in Threads |-> 0]
    /\ posts = {}
    /\ ledger = {}
    /\ failures = 0

Latest == Len(attempts)

Rest(t) ==
    /\ pc' = [pc EXCEPT ![t] = "idle"]
    /\ work' = [work EXCEPT ![t] = NoWork]
    /\ answer' = [answer EXCEPT ![t] = Reply("none")]
    /\ seen' = [seen EXCEPT ![t] = 0]

----------------------------------------------------------------------------
\* A mutant of Claim: a workflow in RETRY_WAIT is never picked up.
ClaimReadyOnly(t) ==
    /\ pc[t] = "idle"
    /\ state = "READY_TO_EXECUTE"
    /\ \E n \in 1..Latest :
          /\ attempts[n].status = "PENDING"
          /\ attempts' = [attempts EXCEPT ![n].status = "RUNNING", ![n].fence = @ + 1]
          /\ work' = [work EXCEPT ![t] = [attempt |-> n, fence |-> attempts[n].fence + 1]]
    /\ Transition("EXECUTING")
    /\ pc' = [pc EXCEPT ![t] = "claimed"]
    /\ UNCHANGED <<request, tasks, outbox, published, answer, seen, posts, ledger, failures>>

(***************************************************************************)
(* core.claim: take the one PENDING attempt under a lease and a new fence. *)
(***************************************************************************)
Claim(t) ==
    /\ pc[t] = "idle"
    /\ state \in {"READY_TO_EXECUTE", "RETRY_WAIT"}
    /\ \E n \in 1..Latest :
          /\ attempts[n].status = "PENDING"
          /\ attempts' = [attempts EXCEPT ![n].status = "RUNNING", ![n].fence = @ + 1,
                                          ![n].expired = FALSE]
          /\ work' = [work EXCEPT ![t] = [attempt |-> n, fence |-> attempts[n].fence + 1]]
    /\ Transition("EXECUTING")
    /\ pc' = [pc EXCEPT ![t] = "claimed"]
    /\ UNCHANGED <<request, tasks, outbox, published, answer, seen, posts, ledger, failures>>

\* A mutant of Send: the POST names the attempt after the one that was claimed.
SendNextAttempt(t) ==
    /\ pc[t] = "claimed"
    /\ posts' = posts \cup {work[t].attempt + 1}
    /\ pc' = [pc EXCEPT ![t] = "waiting"]
    /\ UNCHANGED <<storeVars, work, answer, seen, ledger, failures>>

\* core.execute_one puts POST /refunds on the wire.
Send(t) ==
    /\ pc[t] = "claimed"
    /\ posts' = posts \cup {work[t].attempt}
    /\ pc' = [pc EXCEPT ![t] = "waiting"]
    /\ UNCHANGED <<storeVars, work, answer, seen, ledger, failures>>

\* A mutant of Timeout: silence is taken for a refusal that had no effect.
TimeoutAsNotStarted(t) ==
    /\ pc[t] = "waiting"
    /\ pc' = [pc EXCEPT ![t] = "answered"]
    /\ answer' = [answer EXCEPT ![t] = Reply("not_started")]
    /\ UNCHANGED <<storeVars, work, seen, posts, ledger, failures>>

\* httpx gives up; the request may still be at the provider.
Timeout(t) ==
    /\ pc[t] = "waiting"
    /\ pc' = [pc EXCEPT ![t] = "answered"]
    /\ answer' = [answer EXCEPT ![t] = Reply("lost")]
    /\ UNCHANGED <<storeVars, work, seen, posts, ledger, failures>>

(***************************************************************************)
(* erp.refund.  The response reaches the thread that waits for it, or gets *)
(* lost; nobody waits for the response to a call that timed out.           *)
(***************************************************************************)
Respond(n, reply) ==
    \/ UNCHANGED <<pc, answer>>
    \/ \E t \in Workers :
          /\ pc[t] = "waiting"
          /\ work[t].attempt = n
          /\ pc' = [pc EXCEPT ![t] = "answered"]
          /\ answer' = [answer EXCEPT ![t] = reply]

\* The two injected faults the provider answers before it touches its ledger.
RefusesPost(n) == request.fault = "permanent"
IsBusy(n) == request.fault = "transient_once" /\ n = 1

PostRejected(n) ==
    /\ n \in posts
    /\ RefusesPost(n)
    /\ posts' = posts \ {n}
    /\ Respond(n, Reply("rejected"))
    /\ UNCHANGED <<storeVars, work, seen, ledger, failures>>

PostNotStarted(n) ==
    /\ n \in posts
    /\ IsBusy(n)
    /\ posts' = posts \ {n}
    /\ Respond(n, Reply("not_started"))
    /\ UNCHANGED <<storeVars, work, seen, ledger, failures>>

Booked(key) == {e \in ledger : e.key = key}

\* The key is known: the stored receipt is returned and nothing is written.
PostReplayed(n) ==
    /\ n \in posts
    /\ ~RefusesPost(n) /\ ~IsBusy(n)
    /\ posts' = posts \ {n}
    /\ \E e \in Booked(OperationKey(n)) :
          Respond(n, [kind |-> "receipt", receipt |-> e.receipt])
    /\ UNCHANGED <<storeVars, work, seen, ledger, failures>>

\* Two faults make the provider sleep past the caller's timeout after its commit.
PostRefunded(n) ==
    /\ n \in posts
    /\ ~RefusesPost(n) /\ ~IsBusy(n)
    /\ posts' = posts \ {n}
    /\ Booked(OperationKey(n)) = {}
    /\ ledger' = ledger \cup {[key |-> OperationKey(n), receipt |-> n, fault |-> request.fault]}
    /\ IF request.fault \in {"lost_response", "unknown_status"}
       THEN UNCHANGED <<pc, answer>>
       ELSE Respond(n, [kind |-> "receipt", receipt |-> n])
    /\ UNCHANGED <<storeVars, work, seen, failures>>

\* erp.restore, through api.restore_provider.
ProviderRestore ==
    /\ \E e \in ledger : e.fault # "none"
    /\ ledger' = {[e EXCEPT !.fault = "none"] : e \in ledger}
    /\ UNCHANGED <<storeVars, pc, work, answer, seen, posts, failures>>

----------------------------------------------------------------------------
\* A mutant of Owns: the workflow executes, whoever does it.
OwnsAnything(t) == state = "EXECUTING"

(***************************************************************************)
(* core.finish.  The attempt must still be the one that was claimed: a     *)
(* worker whose lease ran out is answered False and forgets the result.    *)
(***************************************************************************)
Owns(t) ==
    /\ attempts[work[t].attempt].status = "RUNNING"
    /\ attempts[work[t].attempt].fence = work[t].fence
    /\ state = "EXECUTING"

\* The injected exit between the provider's receipt and core.finish.
DiesBeforeFinish(t) ==
    /\ answer[t].kind = "receipt"
    /\ request.fault = "crash_after_refund"
    /\ work[t].attempt = 1

InjectedCrash(t) ==
    /\ pc[t] = "answered"
    /\ DiesBeforeFinish(t)
    /\ Rest(t)
    /\ UNCHANGED <<storeVars, posts, ledger, failures>>

Finishes(t, kind) ==
    /\ pc[t] = "answered"
    /\ answer[t].kind = kind
    /\ ~DiesBeforeFinish(t)
    /\ Owns(t)
    /\ Rest(t)
    /\ UNCHANGED <<request, tasks, published, posts, ledger, failures>>

Settle(n, status, receipt) ==
    [attempts EXCEPT ![n].status = status, ![n].receipt = receipt, ![n].expired = FALSE]

FinishStale(t) ==
    /\ pc[t] = "answered"
    /\ ~DiesBeforeFinish(t)
    /\ ~Owns(t)
    /\ Rest(t)
    /\ UNCHANGED <<storeVars, posts, ledger, failures>>

FinishSuccess(t) ==
    /\ Finishes(t, "receipt")
    /\ attempts' = Settle(work[t].attempt, "SUCCEEDED", answer[t].receipt)
    /\ Transition("COMPLETED")
    /\ Emit("workflow.completed", 0)

\* The provider promised that nothing happened: a new attempt, while any is left.
FinishRetry(t) ==
    /\ Finishes(t, "not_started")
    /\ LET settled == Settle(work[t].attempt, "RETRY", NoReceipt)
       IN IF work[t].attempt < MaxAttempts
          THEN /\ attempts' = Append(settled, NewAttempt)
               /\ Transition("RETRY_WAIT")
               /\ Emit("workflow.retry_wait", 0)
          ELSE /\ attempts' = settled
               /\ Transition("MANUAL_REVIEW")
               /\ Emit("workflow.manual_review", 0)

FinishFailed(t) ==
    /\ Finishes(t, "rejected")
    /\ attempts' = Settle(work[t].attempt, "FAILED", NoReceipt)
    /\ Transition("MANUAL_REVIEW")
    /\ Emit("workflow.manual_review", 0)

FinishUnknown(t) ==
    /\ Finishes(t, "lost")
    /\ attempts' = Settle(work[t].attempt, "UNKNOWN", NoReceipt)
    /\ Transition("RECONCILING")
    /\ Emit("workflow.reconciling", 0)

Finish(t) ==
    \/ FinishStale(t)
    \/ FinishSuccess(t)
    \/ FinishRetry(t)
    \/ FinishFailed(t)
    \/ FinishUnknown(t)

----------------------------------------------------------------------------
\* The clock passes lease_until of a running attempt.
LeaseExpires(n) ==
    /\ attempts[n].status = "RUNNING"
    /\ ~attempts[n].expired
    /\ attempts' = [attempts EXCEPT ![n].expired = TRUE]
    /\ UNCHANGED <<request, state, version, tasks, outbox, published, executionVars>>

\* A mutant of RecoverExpired: the dead worker is assumed to have done nothing.
RecoverAsRetry(t, n) ==
    /\ pc[t] = "idle"
    /\ attempts[n].status = "RUNNING"
    /\ attempts[n].expired
    /\ attempts' = [attempts EXCEPT ![n].status = "RETRY", ![n].fence = @ + 1]
    /\ Transition("RECONCILING")
    /\ UNCHANGED <<request, tasks, outbox, published, executionVars>>

\* core.recover_expired for one candidate, rechecked under the row lock.
RecoverExpired(t, n) ==
    /\ pc[t] = "idle"
    /\ attempts[n].status = "RUNNING"
    /\ attempts[n].expired
    /\ attempts' = [attempts EXCEPT ![n].status = "UNKNOWN", ![n].fence = @ + 1]
    /\ Transition("RECONCILING")
    /\ UNCHANGED <<request, tasks, outbox, published, executionVars>>

----------------------------------------------------------------------------
(***************************************************************************)
(* core.reconcile.  core.recovery_tick selects workflows that are          *)
(* RECONCILING; an operator names one.  The first transaction notes the    *)
(* version, the provider is asked outside any transaction, and the second  *)
(* transaction acts only if the version is still the one noted.            *)
(***************************************************************************)
SelectForReconcile(t) ==
    /\ t \in Workers
    /\ pc[t] = "idle"
    /\ state = "RECONCILING"
    /\ pc' = [pc EXCEPT ![t] = "selected"]
    /\ UNCHANGED <<storeVars, work, answer, seen, posts, ledger, failures>>

Starts(t) ==
    \/ t \in Workers /\ pc[t] = "selected"
    \/ t \in Operators /\ pc[t] = "idle"

BeginReconcile(t) ==
    /\ Starts(t)
    /\ state \in {"RECONCILING", "MANUAL_REVIEW"}
    /\ attempts # <<>>
    /\ seen' = [seen EXCEPT ![t] = version]
    /\ pc' = [pc EXCEPT ![t] = "looking"]
    /\ UNCHANGED <<storeVars, work, answer, posts, ledger, failures>>

\* Somebody else moved the workflow since it was selected.
SkipReconcile(t) ==
    /\ pc[t] = "selected"
    /\ \/ state \notin {"RECONCILING", "MANUAL_REVIEW"}
       \/ attempts = <<>>
    /\ Rest(t)
    /\ UNCHANGED <<storeVars, posts, ledger, failures>>

\* erp.status
Status(t, reply) ==
    /\ pc[t] = "looking"
    /\ answer' = [answer EXCEPT ![t] = reply]
    /\ pc' = [pc EXCEPT ![t] = "looked"]
    /\ UNCHANGED <<storeVars, work, seen, posts, ledger, failures>>

LookupAbsent(t) ==
    /\ Booked(OperationKey(Latest)) = {}
    /\ Status(t, Reply("absent"))

LookupFound(t) ==
    \E e \in Booked(OperationKey(Latest)) :
        /\ e.fault # "unknown_status"
        /\ Status(t, [kind |-> "found", receipt |-> e.receipt])

\* Any other status of the provider: of an injected scenario, or an error of its own.
LookupUnavailable(t) == Status(t, Reply("unavailable"))

Lookup(t) == LookupAbsent(t) \/ LookupFound(t) \/ LookupUnavailable(t)

\* httpx.RequestError on the lookup: the workflow stays as it is.
LookupFails(t) ==
    /\ pc[t] = "looking"
    /\ failures < MaxFailures
    /\ failures' = failures + 1
    /\ Rest(t)
    /\ UNCHANGED <<storeVars, posts, ledger>>

\* A mutant of Applies: the version is not read again.
AppliesUnchecked(t, kind) ==
    /\ pc[t] = "looked"
    /\ answer[t].kind = kind
    /\ Rest(t)
    /\ UNCHANGED <<request, tasks, published, posts, ledger, failures>>

Applies(t, kind) ==
    /\ pc[t] = "looked"
    /\ answer[t].kind = kind
    /\ version = seen[t]
    /\ Rest(t)
    /\ UNCHANGED <<request, tasks, published, posts, ledger, failures>>

ApplyStale(t) ==
    /\ pc[t] = "looked"
    /\ version # seen[t]
    /\ Rest(t)
    /\ UNCHANGED <<storeVars, posts, ledger, failures>>

\* A mutant of ApplyFound: the UPDATE lacks its status condition.
ApplyFoundToAll(t) ==
    /\ Applies(t, "found")
    /\ attempts' = [n \in 1..Latest |-> [attempts[n] EXCEPT !.status = "SUCCEEDED",
                                                            !.receipt = answer[t].receipt]]
    /\ Transition("COMPLETED")
    /\ Emit("workflow.completed", 0)

ApplyFound(t) ==
    /\ Applies(t, "found")
    /\ attempts' = [n \in 1..Latest |->
                      IF attempts[n].status = "UNKNOWN"
                      THEN [attempts[n] EXCEPT !.status = "SUCCEEDED",
                                               !.receipt = answer[t].receipt]
                      ELSE attempts[n]]
    /\ Transition("COMPLETED")
    /\ Emit("workflow.completed", 0)

\* A mutant of RetryLeft: one attempt too many.
RetryLeftOffByOne == Latest <= MaxAttempts /\ attempts[Latest].status = "UNKNOWN"

RetryLeft == Latest < MaxAttempts /\ attempts[Latest].status = "UNKNOWN"

ApplyAbsentRetry(t) ==
    /\ Applies(t, "absent")
    /\ RetryLeft
    /\ attempts' = Append(attempts, NewAttempt)
    /\ Transition("RETRY_WAIT")
    /\ UNCHANGED outbox

\* No receipt and no retry left, or a provider that cannot tell: a person decides.
ApplyGiveUp(t) ==
    /\ \/ Applies(t, "absent") /\ ~RetryLeft
       \/ Applies(t, "unavailable")
    /\ IF state # "MANUAL_REVIEW"
       THEN Transition("MANUAL_REVIEW")
       ELSE UNCHANGED <<state, version>>
    /\ UNCHANGED <<attempts, outbox>>

ApplyReconcile(t) ==
    \/ ApplyStale(t)
    \/ ApplyFound(t)
    \/ ApplyAbsentRetry(t)
    \/ ApplyGiveUp(t)

\* A mutant of OperatorClose: closes over attempts whose outcome is unknown.
CloseAnyReview ==
    /\ state = "MANUAL_REVIEW"
    /\ Transition("CLOSED")
    /\ UNCHANGED <<request, tasks, attempts, outbox, published, executionVars>>

\* core.operator_close
OperatorClose ==
    /\ state = "MANUAL_REVIEW"
    /\ \A n \in 1..Latest : attempts[n].status = "FAILED"
    /\ Transition("CLOSED")
    /\ UNCHANGED <<request, tasks, attempts, outbox, published, executionVars>>

----------------------------------------------------------------------------
\* A process dies, or its loop swallows an exception, and starts again with nothing.
Crash(t) ==
    /\ pc[t] # "idle"
    /\ failures < MaxFailures
    /\ failures' = failures + 1
    /\ Rest(t)
    /\ UNCHANGED <<storeVars, posts, ledger>>

ThreadStep(t) ==
    \/ Claim(t) /\ t \in Workers
    \/ Send(t)
    \/ Timeout(t)
    \/ InjectedCrash(t)
    \/ Finish(t)
    \/ \E n \in 1..Latest : RecoverExpired(t, n) /\ t \in Workers
    \/ SelectForReconcile(t)
    \/ BeginReconcile(t)
    \/ SkipReconcile(t)
    \/ Lookup(t)
    \/ ApplyReconcile(t)

ProviderStep ==
    \/ \E n \in posts :
          \/ PostRejected(n)
          \/ PostNotStarted(n)
          \/ PostReplayed(n)
          \/ PostRefunded(n)
    \/ ProviderRestore

EnvironmentStep ==
    \/ \E n \in 1..Latest : LeaseExpires(n)
    \/ \E t \in Threads : LookupFails(t) \/ Crash(t)

ExecutionNext ==
    \/ \E t \in Threads : ThreadStep(t)
    \/ ProviderStep
    \/ EnvironmentStep
    \/ OperatorClose

execVars == <<storeVars, executionVars>>

----------------------------------------------------------------------------
(***************************************************************************)
(* The component on its own: a workflow that was approved and whose        *)
(* approval.accepted has been consumed, with its first attempt pending.    *)
(* Only the events from here on are in the outbox.                         *)
(***************************************************************************)
ApprovedInit ==
    /\ request \in {r \in Requests : RoleOf[r.requester] = "requester"}
    /\ state = "READY_TO_EXECUTE"
    /\ version = 2
    /\ \E a \in Actors \ {request.requester} :
          /\ RoleOf[a] = RequiredRole(request.amount)
          /\ tasks = <<[NewTask(RoleOf[a]) EXCEPT !.status = "APPROVED",
                                                 !.timer = "CANCELLED", !.by = a]>>
    /\ attempts = <<NewAttempt>>
    /\ outbox = <<>>
    /\ published = {}
    /\ ExecutionInit

ExecutionSpec == ApprovedInit /\ [][ExecutionNext]_execVars

----------------------------------------------------------------------------
ExecutionTypeOK ==
    /\ request \in Requests
    /\ state \in States
    /\ version \in Nat
    /\ tasks \in Seq(Tasks)
    /\ attempts \in Seq(Attempts)
    /\ outbox \in Seq(Events)
    /\ published \subseteq 1..Len(outbox)
    /\ pc \in [Threads -> PCs]
    /\ work \in [Threads -> [attempt : Nat, fence : Nat]]
    /\ answer \in [Threads -> Answers]
    /\ seen \in [Threads -> Nat]
    /\ posts \subseteq 1..Len(attempts)
    /\ ledger \subseteq Entries
    /\ failures \in 0..MaxFailures

(***************************************************************************)
(* However often the POST is repeated, after timeouts, crashes and expired *)
(* leases, the provider books one refund: every attempt carries the same   *)
(* operation key (core.operation_key, erp.refund).                         *)
(***************************************************************************)
OneRefund == \A e, f \in ledger : e.receipt = f.receipt

(***************************************************************************)
(* COMPLETED is never claimed without a refund: some attempt succeeded,    *)
(* and the receipt stored with every succeeded attempt is in the           *)
(* provider's ledger (core.finish, core.reconcile).                        *)
(***************************************************************************)
CompletedIsPaid ==
    state = "COMPLETED" =>
        /\ \E n \in 1..Len(attempts) : attempts[n].status = "SUCCEEDED"
        /\ \A n \in 1..Len(attempts) : attempts[n].status = "SUCCEEDED" =>
              \E e \in ledger : e.receipt = attempts[n].receipt

(***************************************************************************)
(* A workflow that was rejected or closed has not been paid, not even by a *)
(* POST that was still travelling when an operator closed it               *)
(* (core.operator_close closes only over FAILED attempts).                 *)
(***************************************************************************)
RefusedIsNotPaid == state \in {"REJECTED", "CLOSED"} => ledger = {}

(***************************************************************************)
(* FAILED and RETRY mean what they say: the provider will not process the  *)
(* POST of that attempt any more and did not book it.  This is what lets   *)
(* core.finish schedule a retry and core.operator_close trust FAILED.      *)
(***************************************************************************)
DefiniteOutcome ==
    \A n \in 1..Len(attempts) : attempts[n].status \in {"FAILED", "RETRY"} =>
        /\ n \notin posts
        /\ \A e \in ledger : e.receipt # n

(***************************************************************************)
(* The workflow row and its attempts tell one story, whichever of worker,  *)
(* recovery and reconciliation wrote last: EXECUTING exactly when one      *)
(* attempt runs, RETRY_WAIT only with an attempt to claim, and nothing     *)
(* active in a state no worker looks at (one_active_execution).            *)
(***************************************************************************)
Active(n) == attempts[n].status \in {"PENDING", "RUNNING"}

ActiveExecution ==
    /\ \A m, n \in 1..Len(attempts) : Active(m) /\ Active(n) => m = n
    /\ state = "EXECUTING" <=> \E n \in 1..Len(attempts) : attempts[n].status = "RUNNING"
    /\ state = "RETRY_WAIT" => \E n \in 1..Len(attempts) : attempts[n].status = "PENDING"
    /\ \A n \in 1..Len(attempts) :
          attempts[n].status = "PENDING" => state \in {"READY_TO_EXECUTE", "RETRY_WAIT"}

\* Three attempts are the whole budget, counted over retries and reconciliations.
BoundedAttempts == Len(attempts) <= MaxAttempts

\* A step keeps what the settled attempts say, whoever takes it.
KeepsSettled ==
    /\ Len(attempts') >= Len(attempts)
    /\ \A n \in 1..Len(attempts) :
          /\ attempts[n].status \in {"SUCCEEDED", "RETRY", "FAILED"} => attempts'[n] = attempts[n]
          /\ attempts[n].status = "UNKNOWN" =>
                \/ attempts'[n] = attempts[n]
                \/ /\ attempts'[n].status = "SUCCEEDED"
                   /\ \E e \in ledger : e.receipt = attempts'[n].receipt

(***************************************************************************)
(* The history of the attempts is append-only: a settled attempt is never  *)
(* rewritten by a worker that lost its lease or by a late reconciliation,  *)
(* except that UNKNOWN may become SUCCEEDED with a receipt the provider    *)
(* has booked.                                                             *)
(***************************************************************************)
AttemptHistory == [][KeepsSettled]_execVars

(***************************************************************************)
(* COMPLETED, REJECTED and CLOSED are final, for every interleaving of two *)
(* reconciliations with each other and with a late worker.                 *)
(***************************************************************************)
Final == {"COMPLETED", "REJECTED", "CLOSED"}

FinalIsFinal == [][(state \in Final) => (state' = state)]_execVars

----------------------------------------------------------------------------
(***************************************************************************)
(* Operators who keep reconciling and closing, tick threads that keep      *)
(* ticking, and a provider that processes every POST and is restored.      *)
(***************************************************************************)
DiligentSpec ==
    /\ ExecutionSpec
    /\ \A t \in Threads : WF_execVars(ThreadStep(t))
    /\ WF_execVars(\E n \in 1..Latest : LeaseExpires(n))
    /\ WF_execVars(OperatorClose)
    /\ WF_execVars(ProviderStep)

(***************************************************************************)
(* core.operator_close refuses a workflow whose outcome is open with       *)
(* "External execution exists; reconcile before closure": once reconciled, *)
(* a workflow in manual review can be ended.                               *)
(***************************************************************************)
ReviewEnds == (state = "MANUAL_REVIEW") ~> (state # "MANUAL_REVIEW")
=============================================================================
