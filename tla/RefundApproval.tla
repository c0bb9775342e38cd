--------------------------- MODULE RefundApproval ---------------------------
(***************************************************************************)
(* The human half of the refund workflow: app/exercises.py, with the       *)
(* callers core.decide and core.schedule_tick.  Each handler is one        *)
(* transaction under the row lock of the workflow.                         *)
(***************************************************************************)
EXTENDS RefundStore

\* The task that is on somebody's desk is the one of the latest stage.
Stage == Len(tasks)

(***************************************************************************)
(* exercises.pause_for_approval, called by the consumer of                 *)
(* workflow.submitted in its transaction.                                  *)
(***************************************************************************)
PauseForApproval ==
    /\ state = "RECEIVED"
    /\ Transition("WAITING_APPROVAL")
    /\ tasks' = Append(tasks, NewTask(RequiredRole(request.amount)))
    /\ Emit("approval.requested", Stage + 1)
    /\ UNCHANGED attempts

\* A mutant of MayDecide: requesters with the right role approve themselves.
MayDecideOneself(a, s) ==
    /\ RoleOf[a] = tasks[s].role
    /\ state = "WAITING_APPROVAL"
    /\ tasks[s].status = "PENDING"
    /\ ~tasks[s].overdue

\* The checks of exercises.record_decision before it writes anything.
MayDecide(a, s) ==
    /\ a # request.requester
    /\ RoleOf[a] = tasks[s].role
    /\ state = "WAITING_APPROVAL"
    /\ tasks[s].status = "PENDING"
    /\ ~tasks[s].overdue

\* A mutant of Close: the timer of the closed task stays armed.
CloseKeepsTimer(s, status, timer, a) ==
    [tasks EXCEPT ![s].status = status, ![s].by = a]

Close(s, status, timer, a) ==
    [tasks EXCEPT ![s].status = status, ![s].timer = timer, ![s].by = a]

(***************************************************************************)
(* exercises.record_decision, for a first use of the command key (a replay *)
(* returns the stored decision and a key reused for something else is      *)
(* refused; neither writes).                                               *)
(***************************************************************************)
Approve(a, s) ==
    /\ MayDecide(a, s)
    /\ tasks' = Close(s, "APPROVED", "CANCELLED", a)
    /\ Transition("READY_TO_EXECUTE")
    /\ Emit("approval.accepted", s)
    /\ UNCHANGED <<request, attempts, published>>

Reject(a, s) ==
    /\ MayDecide(a, s)
    /\ tasks' = Close(s, "REJECTED", "CANCELLED", a)
    /\ Transition("REJECTED")
    /\ Emit("workflow.rejected", s)
    /\ UNCHANGED <<request, attempts, published>>

(***************************************************************************)
(* exercises.expire_or_escalate for a timer that core.schedule_tick found  *)
(* due; the row is locked and rechecked in a transaction of its own.       *)
(***************************************************************************)
Due(s) ==
    /\ state = "WAITING_APPROVAL"
    /\ tasks[s].status = "PENDING"
    /\ tasks[s].timer = "PENDING"
    /\ tasks[s].overdue

Escalate(s) ==
    /\ Due(s)
    /\ \E role \in NextRole(tasks[s].role) :
          tasks' = Append(Close(s, "SUPERSEDED", "FIRED", Nobody), NewTask(role))
    /\ Transition("WAITING_APPROVAL")
    /\ Emit("approval.escalated", s + 1)
    /\ UNCHANGED <<request, attempts, published>>

Expire(s) ==
    /\ Due(s)
    /\ NextRole(tasks[s].role) = {}
    /\ tasks' = Close(s, "EXPIRED", "FIRED", Nobody)
    /\ Transition("MANUAL_REVIEW")
    /\ Emit("workflow.manual_review", 0)
    /\ UNCHANGED <<request, attempts, published>>

\* The clock passes the due_at of a task that is still open.
DeadlinePasses(s) ==
    /\ tasks[s].status = "PENDING"
    /\ ~tasks[s].overdue
    /\ tasks' = [tasks EXCEPT ![s].overdue = TRUE]
    /\ UNCHANGED <<request, state, version, attempts, outbox, published>>

ApprovalNext ==
    \E s \in 1..Len(tasks) :
        \/ \E a \in Actors : Approve(a, s) \/ Reject(a, s)
        \/ Escalate(s)
        \/ Expire(s)
        \/ DeadlinePasses(s)
=============================================================================
