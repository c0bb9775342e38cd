---------------------------- MODULE RefundStore ----------------------------
(***************************************************************************)
(* The rows of one refund workflow in the PostgreSQL database of           *)
(* src/multi-agent-orchestration, and the helpers of app/db.py and         *)
(* app/core.py that write them.  Every row of these tables is keyed by     *)
(* (tenant, workflow) and every handler first locks the workflow row, so   *)
(* one workflow is the unit of interaction.                                *)
(*                                                                         *)
(* Time is abstract: a deadline or a lease is a flag that the environment  *)
(* raises once it has passed.                                              *)
(***************************************************************************)
EXTENDS Integers, Sequences

CONSTANTS
    Actors,       \* the active principals of the tenant
    RoleOf,       \* RoleOf[a]: the one role of principal a
    Amounts,      \* refund amounts in minor units
    Faults,       \* the lab faults a request may carry
    MaxAttempts   \* the execution budget; the code's literal 3

Roles == {"requester", "support_lead", "finance_manager", "finance_director", "operator"}

ApprovalRoles == {"support_lead", "finance_manager", "finance_director"}

FaultKinds == {"none", "lost_response", "crash_after_refund", "transient_once",
               "permanent", "unknown_status"}

ASSUME RefundConstants ==
    /\ Amounts \subseteq Nat \ {0}
    /\ RoleOf \in [Actors -> Roles]
    /\ Faults \subseteq FaultKinds
    /\ MaxAttempts \in Nat \ {0}

VARIABLES
    request,    \* the immutable columns: requester, amount, injected fault
    state,      \* workflow_instances.state
    version,    \* workflow_instances.version
    tasks,      \* approval_tasks by stage, each with its decision and its timer
    attempts,   \* execution_attempts by attempt_no
    outbox,     \* outbox_events in creation order
    published   \* positions of the outbox rows whose published_at is set

storeVars == <<request, state, version, tasks, attempts, outbox, published>>

----------------------------------------------------------------------------

States == {"RECEIVED", "WAITING_APPROVAL", "READY_TO_EXECUTE", "EXECUTING", "RETRY_WAIT",
           "RECONCILING", "COMPLETED", "REJECTED", "MANUAL_REVIEW", "CLOSED"}

TaskStatuses == {"PENDING", "APPROVED", "REJECTED", "SUPERSEDED", "EXPIRED"}

TimerStatuses == {"PENDING", "FIRED", "CANCELLED"}

AttemptStatuses == {"PENDING", "RUNNING", "SUCCEEDED", "RETRY", "UNKNOWN", "FAILED"}

EventTypes == {"workflow.submitted", "approval.requested", "approval.escalated",
               "approval.accepted", "workflow.rejected", "workflow.manual_review",
               "workflow.completed", "workflow.retry_wait", "workflow.reconciling"}

\* The actor recorded on a task nobody has decided.
Nobody == "nobody"

NoReceipt == 0

Requests == [requester : Actors, amount : Amounts, fault : Faults]

\* `overdue`: now >= due_at, `by`: the actor of the row in approval_decisions.
Tasks == [role : ApprovalRoles, status : TaskStatuses, timer : TimerStatuses,
          overdue : BOOLEAN, by : Actors \cup {Nobody}]

\* `expired`: lease_until < now.
Attempts == [status : AttemptStatuses, fence : Nat, expired : BOOLEAN, receipt : Nat]

\* `stage` is the task_id of the payload, 0 where the payload names none.
Events == [type : EventTypes, version : Nat, stage : Nat]

----------------------------------------------------------------------------
(***************************************************************************)
(* db.transition and db.emit.  An event is emitted after the transition of *)
(* its transaction, so it carries the new version.                         *)
(***************************************************************************)
Transition(s) ==
    /\ state' = s
    /\ version' = version + 1

Emit(type, stage) ==
    outbox' = Append(outbox, [type |-> type, version |-> version', stage |-> stage])

(***************************************************************************)
(* core.new_task inserts the task and its timer in the same transaction.   *)
(***************************************************************************)
NewTask(role) ==
    [role |-> role, status |-> "PENDING", timer |-> "PENDING", overdue |-> FALSE,
     by |-> Nobody]

(***************************************************************************)
(* core.new_attempt.  The attempt number is the position; the backoff      *)
(* before available_at is left to the interleaving.                        *)
(***************************************************************************)
NewAttempt ==
    [status |-> "PENDING", fence |-> 0, expired |-> FALSE, receipt |-> NoReceipt]

\* A mutant of OperationKey: a key of its own for every attempt.
OperationKeyPerAttempt(n) == n

\* core.operation_key: the workflow and its proposal version, never the attempt.
OperationKey(n) == "v1"

LeadLimit == 750000
ManagerLimit == 2500000

\* exercises.pause_for_approval: who must approve an amount first.
RequiredRole(amount) ==
    CASE amount <= LeadLimit                             -> "support_lead"
      [] amount > LeadLimit /\ amount <= ManagerLimit    -> "finance_manager"
      [] amount > ManagerLimit                           -> "finance_director"

\* A mutant of NextRole: the chain does not stop at the director.
NextRoleEndless(role) ==
    CASE role = "support_lead"     -> {"finance_manager"}
      [] role = "finance_manager"  -> {"finance_director"}
      [] role = "finance_director" -> {"operator"}

\* exercises.expire_or_escalate: who decides once a role let its deadline pass.
NextRole(role) ==
    CASE role = "support_lead"     -> {"finance_manager"}
      [] role = "finance_manager"  -> {"finance_director"}
      [] role = "finance_director" -> {}

\* How much a role may approve, for the properties.
Rank(role) ==
    CASE role = "support_lead"     -> 1
      [] role = "finance_manager"  -> 2
      [] role = "finance_director" -> 3
      [] OTHER                     -> 0

(***************************************************************************)
(* core.create_request up to its commit: the workflow exists, submitted by *)
(* a requester or a finance manager.  An ineligible order is rejected in   *)
(* the same transaction and emits nothing.                                 *)
(***************************************************************************)
StoreInit ==
    /\ request \in {r \in Requests : RoleOf[r.requester] \in {"requester", "finance_manager"}}
    /\ \/ /\ state = "RECEIVED"
          /\ version = 0
          /\ outbox = <<[type |-> "workflow.submitted", version |-> 0, stage |-> 0]>>
       \/ /\ state = "REJECTED"
          /\ version = 1
          /\ outbox = <<>>
    /\ tasks = <<>>
    /\ attempts = <<>>
    /\ published = {}
=============================================================================
