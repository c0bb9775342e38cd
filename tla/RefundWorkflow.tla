--------------------------- MODULE RefundWorkflow ---------------------------
(***************************************************************************)
(* The refund workflow of src/multi-agent-orchestration from its           *)
(* submission to its end: the approval desk, the outbox and its consumer,  *)
(* and the execution against the provider, over the rows they share.       *)
(***************************************************************************)
EXTENDS RefundDelivery, RefundExecution

vars == <<storeVars, deliveryVars, executionVars>>

Init ==
    /\ StoreInit
    /\ DeliveryInit
    /\ ExecutionInit

ApprovalStep == ApprovalNext /\ UNCHANGED <<deliveryVars, executionVars>>

EventStep(i) ==
    /\ \/ Publish(i)
       \/ PublishWithoutMark(i)
       \/ Consume(i)
       \/ ConsumerFails(i)
    /\ UNCHANGED executionVars

RedeliverStep == Redeliver /\ UNCHANGED executionVars

ExecutionStep == ExecutionNext /\ UNCHANGED deliveryVars

Next ==
    \/ ApprovalStep
    \/ \E i \in 1..Len(outbox) : EventStep(i)
    \/ RedeliverStep
    \/ ExecutionStep

Spec == Init /\ [][Next]_vars

----------------------------------------------------------------------------
(***************************************************************************)
(* Fairness.  The publisher, the scheduler and the tick threads are loops  *)
(* that never end, Celery delivers what it holds, and clocks advance.      *)
(* Nothing is asked of approvers, of the provider's answers to a POST, or  *)
(* of operators.                                                           *)
(***************************************************************************)
PublisherFairness ==
    /\ WF_vars(\E i \in 1..Len(outbox) : Publish(i) /\ UNCHANGED executionVars)
    /\ WF_vars(\E i \in 1..Len(outbox) : Consume(i) /\ UNCHANGED executionVars)

SchedulerFairness ==
    WF_vars(\E s \in 1..Len(tasks) :
                /\ DeadlinePasses(s) \/ Escalate(s) \/ Expire(s)
                /\ UNCHANGED <<deliveryVars, executionVars>>)

TickFairness ==
    /\ \A t \in Workers : WF_vars(ThreadStep(t) /\ UNCHANGED deliveryVars)
    /\ WF_vars(\E n \in 1..Len(attempts) : LeaseExpires(n) /\ UNCHANGED deliveryVars)

FairSpec == Spec /\ PublisherFairness /\ SchedulerFairness /\ TickFairness

----------------------------------------------------------------------------
TypeOK ==
    /\ ExecutionTypeOK
    /\ broker \subseteq 1..Len(outbox)
    /\ inbox \subseteq 1..Len(outbox)
    /\ lostEvents \in 0..MaxLostEvents
    /\ redelivered \in 0..MaxRedeliveries

----------------------------------------------------------------------------
(***************************************************************************)
(* Money moves only under a valid approval: if the provider has booked a   *)
(* refund, a principal other than the requester, holding the role the task *)
(* asked for, approved a task of sufficient authority for the amount while *)
(* its deadline had not passed (exercises.record_decision).                *)
(***************************************************************************)
ValidApproval(task) ==
    /\ task.status = "APPROVED"
    /\ task.by \in Actors \ {request.requester}
    /\ RoleOf[task.by] = task.role
    /\ Rank(task.role) >= Rank(RequiredRole(request.amount))
    /\ ~task.overdue

AuthorisedRefund == ledger # {} => \E s \in 1..Len(tasks) : ValidApproval(tasks[s])

(***************************************************************************)
(* Nobody waits for an approval without a deadline: the workflow waits     *)
(* exactly while its latest task is pending, that task has a live timer,   *)
(* and no timer outlives its task (exercises.py, core.new_task).           *)
(***************************************************************************)
WaitingIsTimed ==
    /\ state = "WAITING_APPROVAL" <=> Len(tasks) > 0 /\ tasks[Len(tasks)].status = "PENDING"
    /\ \A s \in 1..Len(tasks) :
          /\ tasks[s].status = "PENDING" <=> tasks[s].timer = "PENDING"
          /\ s < Len(tasks) => tasks[s].status = "SUPERSEDED"

----------------------------------------------------------------------------
\* The refinement mapping to RefundContract.
Approved == \E s \in 1..Len(tasks) : tasks[s].status = "APPROVED"

Verdict ==
    CASE state = "COMPLETED" -> "completed"
      [] state = "REJECTED"  -> "rejected"
      [] state = "CLOSED"    -> "closed"
      [] OTHER               -> "open"

Contract == INSTANCE RefundContract WITH
    Receipts   <- 1..MaxAttempts,
    authorised <- Approved,
    payments   <- {e.receipt : e \in ledger},
    verdict    <- Verdict

\* Every behaviour of the workflow keeps the contract of module RefundContract.
KeepsContract == Contract!Spec

----------------------------------------------------------------------------
Resting == {"COMPLETED", "REJECTED", "MANUAL_REVIEW", "CLOSED"}

(***************************************************************************)
(* No workflow gets stuck inside the machinery: approvals escalate until   *)
(* they end, approved work is executed, and lost answers and dead workers  *)
(* are recovered, until the workflow ends or a person owns it.  The one    *)
(* excuse is an event that a failing consumer dropped: nothing in the code *)
(* sends it again.                                                         *)
(***************************************************************************)
Settles == (state \notin Resting) ~> (state \in Resting \/ lostEvents > 0)

(***************************************************************************)
(* Every event that was committed with a state change reaches the consumer *)
(* (runtime.publish_one, celery_app.handle_event), with the same excuse.   *)
(***************************************************************************)
EventsArrive == []<>(inbox = 1..Len(outbox) \/ lostEvents > 0)
=============================================================================
