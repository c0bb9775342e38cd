----------------------- MODULE RefundWorkflow_proofs -----------------------
(***************************************************************************)
(* Proofs about the whole refund workflow, for every set of actors,        *)
(* workers and operators and every bound.  The execution part of the       *)
(* invariant is that of RefundExecution_proofs; here the approval desk and *)
(* the events are added to it.                                             *)
(***************************************************************************)
EXTENDS RefundWorkflow, RefundExecution_proofs

----------------------------------------------------------------------------
(***************************************************************************)
(* The inductive invariant of the approval desk.                           *)
(***************************************************************************)

\* States that only an approval leads to.
Machine == {"READY_TO_EXECUTE", "EXECUTING", "RETRY_WAIT", "RECONCILING", "COMPLETED"}

\* States before any approval, or without one.
Desk == {"RECEIVED", "WAITING_APPROVAL", "REJECTED"}

\* Escalation never lowers the authority, and an approval stays as it was given.
TasksHold ==
    \A s \in 1..Len(tasks) :
        /\ Rank(tasks[s].role) >= Rank(RequiredRole(request.amount))
        /\ tasks[s].status = "APPROVED" => ValidApproval(tasks[s])

DeskAgrees ==
    /\ state \in Machine \/ attempts # <<>> => Approved
    /\ Approved => state \notin Desk
    /\ state = "RECEIVED" => tasks = <<>>
    /\ WaitingIsTimed

WorkflowInv ==
    /\ TypeOK
    /\ ExecutionInv
    /\ TasksHold
    /\ DeskAgrees

----------------------------------------------------------------------------
LEMMA TaskFacts ==
    ASSUME TypeOK
    PROVE  /\ ExecutionTypeOK
           /\ tasks \in Seq(Tasks)
           /\ Len(tasks) \in Nat
           /\ version \in Nat
           /\ \A s \in 1..Len(tasks) :
                 /\ tasks[s] \in Tasks
                 /\ tasks[s].role \in ApprovalRoles
                 /\ tasks[s].status \in TaskStatuses
<1>1. ExecutionTypeOK
  BY DEF TypeOK
<1>2. tasks \in Seq(Tasks) /\ version \in Nat
  BY <1>1 DEF ExecutionTypeOK
<1>3. Len(tasks) \in Nat /\ \A s \in 1..Len(tasks) : tasks[s] \in Tasks
  BY <1>2, ElementOfSeq, LenProperties
<1>4. QED
  BY <1>1, <1>2, <1>3 DEF Tasks

LEMMA RoleFacts ==
    ASSUME TypeOK
    PROVE  /\ RequiredRole(request.amount) \in ApprovalRoles
           /\ \A role \in ApprovalRoles :
                 /\ NewTask(role) \in Tasks
                 /\ NewTask(role).role = role
                 /\ NewTask(role).status = "PENDING"
                 /\ NewTask(role).timer = "PENDING"
                 /\ NextRole(role) \subseteq ApprovalRoles
                 /\ \A next \in NextRole(role) : Rank(next) >= Rank(role)
<1>1. RequiredRole(request.amount) \in ApprovalRoles
  <2>1. request.amount \in Nat
    BY RefundConstants DEF TypeOK, ExecutionTypeOK, Requests
  <2>2. QED
    BY <2>1 DEF RequiredRole, ApprovalRoles, LeadLimit, ManagerLimit
<1>2. ASSUME NEW role \in ApprovalRoles
      PROVE  /\ NewTask(role) \in Tasks
             /\ NewTask(role).role = role
             /\ NewTask(role).status = "PENDING"
             /\ NewTask(role).timer = "PENDING"
  BY DEF NewTask, Tasks, TaskStatuses, TimerStatuses
<1>3. ASSUME NEW role \in ApprovalRoles
      PROVE  /\ NextRole(role) \subseteq ApprovalRoles
             /\ \A next \in NextRole(role) : Rank(next) >= Rank(role)
  BY DEF NextRole, ApprovalRoles, Rank
<1>4. QED
  BY <1>1, <1>2, <1>3

LEMMA RewriteTask ==
    ASSUME TypeOK, NEW s \in 1..Len(tasks), NEW a \in Tasks
    PROVE  /\ [tasks EXCEPT ![s] = a] \in Seq(Tasks)
           /\ Len([tasks EXCEPT ![s] = a]) = Len(tasks)
           /\ [tasks EXCEPT ![s] = a][s] = a
           /\ \A r \in 1..Len(tasks) : r # s => [tasks EXCEPT ![s] = a][r] = tasks[r]
BY TaskFacts, ExceptSeq

LEMMA CloseEffect ==
    ASSUME TypeOK, NEW s \in 1..Len(tasks), NEW status \in TaskStatuses,
           NEW timer \in TimerStatuses, NEW a \in Actors \cup {Nobody}
    PROVE  LET q == Close(s, status, timer, a) IN
              /\ q \in Seq(Tasks)
              /\ Len(q) = Len(tasks)
              /\ q[s].status = status
              /\ q[s].timer = timer
              /\ q[s].by = a
              /\ q[s].role = tasks[s].role
              /\ q[s].overdue = tasks[s].overdue
              /\ \A r \in 1..Len(tasks) : r # s => q[r] = tasks[r]
<1>1. tasks[s] \in Tasks /\ tasks \in Seq(Tasks)
  BY TaskFacts
<1> DEFINE b == [tasks[s] EXCEPT !.status = status, !.timer = timer, !.by = a]
<1>2. /\ b \in Tasks
      /\ b.status = status
      /\ b.timer = timer
      /\ b.by = a
      /\ b.role = tasks[s].role
      /\ b.overdue = tasks[s].overdue
  BY <1>1 DEF Tasks
<1>3. Close(s, status, timer, a) = [tasks EXCEPT ![s] = b]
  BY <1>1 DEF Close
<1> HIDE DEF b
<1>4. QED
  BY <1>2, <1>3, RewriteTask

\* Only the latest task can be pending, and then the workflow waits for it.
LEMMA PendingIsLast ==
    ASSUME WorkflowInv, NEW s \in 1..Len(tasks), tasks[s].status = "PENDING"
    PROVE  /\ s = Len(tasks)
           /\ state = "WAITING_APPROVAL"
           /\ attempts = <<>>
           /\ \A r \in 1..Len(tasks) : r # s => tasks[r].status = "SUPERSEDED"
<1>1. Len(tasks) \in Nat
  BY TaskFacts DEF WorkflowInv
<1>2. s = Len(tasks)
  BY <1>1 DEF WorkflowInv, DeskAgrees, WaitingIsTimed
<1>3. state = "WAITING_APPROVAL"
  BY <1>1, <1>2 DEF WorkflowInv, DeskAgrees, WaitingIsTimed
<1>4. attempts = <<>>
  BY <1>3 DEF WorkflowInv, ExecutionInv, RowsAgree
<1>5. QED
  BY <1>1, <1>2, <1>3, <1>4 DEF WorkflowInv, DeskAgrees, WaitingIsTimed

\* Before the first attempt nobody executes, and nothing was booked.
LEMMA NoAttempts ==
    ASSUME ExecutionInv, attempts = <<>>
    PROVE  /\ posts = {}
           /\ ledger = {}
           /\ \A t \in Threads : ~Holding(t)
<1>1. 1..Len(attempts) = {}
  OBVIOUS
<1>2. posts = {}
  BY <1>1 DEF ExecutionInv, ExecutionTypes, ExecutionTypeOK
<1>3. ledger = {}
  BY <1>1 DEF ExecutionInv, WireAndLedger
<1>4. \A t \in Threads : ~Holding(t)
  BY <1>1 DEF ExecutionInv, ExecutionTypes
<1>5. QED
  BY <1>2, <1>3, <1>4

----------------------------------------------------------------------------
(***************************************************************************)
(* Steps of the desk, which happen before the first attempt.               *)
(***************************************************************************)

\* What a step leaves alone when it happens at the desk.
DeskStep ==
    /\ UNCHANGED <<request, attempts, executionVars>>
    /\ published' \subseteq 1..Len(outbox)
    /\ broker' \subseteq 1..Len(outbox)
    /\ inbox' \subseteq 1..Len(outbox)
    /\ lostEvents' = lostEvents
    /\ redelivered' = redelivered

LEMMA DeskTypes ==
    ASSUME TypeOK, DeskStep, state' \in States, version' \in Nat, tasks' \in Seq(Tasks),
           outbox' \in Seq(Events), Len(outbox') >= Len(outbox)
    PROVE  TypeOK'
<1>0. Len(outbox) \in Nat /\ Len(outbox') \in Nat
  BY Facts, LenProperties DEF TypeOK
<1>1. /\ published' \subseteq 1..Len(outbox')
      /\ broker' \subseteq 1..Len(outbox')
      /\ inbox' \subseteq 1..Len(outbox')
  BY <1>0 DEF DeskStep
<1>2. UNCHANGED <<request, attempts, pc, work, answer, seen, posts, ledger, failures,
                  lostEvents, redelivered>>
  BY DEF DeskStep, executionVars
<1>3. QED
  BY <1>1, <1>2 DEF TypeOK, ExecutionTypeOK

LEMMA DeskExecution ==
    ASSUME ExecutionInv, attempts = <<>>, DeskStep, ExecutionTypeOK',
           version' = version + 1,
           state' \notin {"EXECUTING", "RETRY_WAIT", "COMPLETED"}
    PROVE  ExecutionInv'
<1>0. /\ posts = {}
      /\ ledger = {}
      /\ \A t \in Threads : ~Holding(t)
      /\ UNCHANGED <<attempts, pc, work, answer, seen, posts, ledger>>
      /\ 1..Len(attempts) = {}
      /\ Len(attempts) = 0
      /\ attempts' = <<>>
  BY NoAttempts DEF DeskStep, executionVars
<1>1. Faded
  BY <1>0 DEF Faded
<1>2. ExecutionTypes'
  BY <1>0 DEF ExecutionTypes, Holding
<1>3. HeldAttempts' /\ WireAndLedger'
  BY <1>0, <1>1, KeepsMoney
<1>4. TrueReceipts'
  BY <1>0, <1>1, KeepsReceipts
<1>5. FreshReads'
  BY <1>1, KeepsReads
<1>6. RowsAgree'
  <2>1. 0 <= MaxAttempts
    BY RefundConstants
  <2>2. 1..Len(attempts') = {} /\ Len(attempts') = 0
    BY <1>0
  <2>3. QED
    BY <1>0, <2>1, <2>2 DEF RowsAgree, ActiveExecution, Active, BoundedAttempts
<1>7. QED
  BY <1>2, <1>3, <1>4, <1>5, <1>6 DEF ExecutionInv

\* The decision or the deadline ends the pending task s, and nothing follows it.
EndsTask(s, status, timer, a, next) ==
    /\ tasks' = Close(s, status, timer, a)
    /\ state' = next

LEMMA EndTaskInv ==
    ASSUME WorkflowInv, DeskStep, NEW s \in 1..Len(tasks), tasks[s].status = "PENDING",
           NEW status \in {"APPROVED", "REJECTED", "EXPIRED"},
           NEW timer \in {"FIRED", "CANCELLED"}, NEW a \in Actors \cup {Nobody},
           NEW next \in States,
           EndsTask(s, status, timer, a, next),
           status = "APPROVED" =>
              /\ next = "READY_TO_EXECUTE"
              /\ a \in Actors \ {request.requester}
              /\ RoleOf[a] = tasks[s].role
              /\ ~tasks[s].overdue,
           status # "APPROVED" => next \in {"REJECTED", "MANUAL_REVIEW"}
    PROVE  TasksHold' /\ DeskAgrees'
<1>0. TypeOK /\ Len(tasks) \in Nat /\ UNCHANGED <<request, attempts>> /\ state' = next
  BY TaskFacts DEF WorkflowInv, DeskStep, EndsTask
<1>1. /\ s = Len(tasks)
      /\ attempts = <<>>
      /\ state = "WAITING_APPROVAL"
      /\ \A r \in 1..Len(tasks) : r # s => tasks[r].status = "SUPERSEDED"
  BY PendingIsLast
<1>2. status \in TaskStatuses /\ timer \in TimerStatuses
  BY DEF TaskStatuses, TimerStatuses
<1> DEFINE q == Close(s, status, timer, a)
<1>3. /\ Len(q) = Len(tasks)
      /\ q[s].status = status
      /\ q[s].timer = timer
      /\ q[s].by = a
      /\ q[s].role = tasks[s].role
      /\ q[s].overdue = tasks[s].overdue
      /\ \A r \in 1..Len(tasks) : r # s => q[r] = tasks[r]
  BY <1>0, <1>2, CloseEffect
<1>4. tasks' = q
  BY DEF EndsTask
<1> HIDE DEF q
<1>5. TasksHold'
  <2>1. ASSUME NEW r \in 1..Len(tasks)
        PROVE  /\ Rank(q[r].role) >= Rank(RequiredRole(request.amount))
               /\ q[r].status = "APPROVED" => r = s
    BY <1>1, <1>3 DEF WorkflowInv, TasksHold
  <2>2. status = "APPROVED" => ValidApproval(q[s])
    BY <1>3, <2>1 DEF ValidApproval
  <2>3. QED
    BY <1>0, <1>3, <1>4, <2>1, <2>2 DEF TasksHold, ValidApproval
<1>6. DeskAgrees'
  <2>1. Approved' <=> status = "APPROVED"
    BY <1>1, <1>3, <1>4 DEF Approved
  <2>2. WaitingIsTimed'
    <3>1. state' # "WAITING_APPROVAL" /\ status # "PENDING" /\ timer # "PENDING"
      BY <1>0
    <3>2. \A r \in 1..Len(tasks) : r # s =>
            /\ tasks[r].timer # "PENDING"
            /\ tasks[r].status = "SUPERSEDED"
      BY <1>1 DEF WorkflowInv, DeskAgrees, WaitingIsTimed
    <3>3. QED
      BY <1>0, <1>1, <1>3, <1>4, <3>1, <3>2 DEF WaitingIsTimed
  <2>3. QED
    BY <1>0, <1>1, <2>1, <2>2 DEF DeskAgrees, Machine, Desk
<1>7. QED
  BY <1>5, <1>6

\* A new task is put on a desk whose earlier tasks were all superseded.
LEMMA AddTaskInv ==
    ASSUME WorkflowInv, DeskStep, attempts = <<>>,
           NEW q \in Seq(Tasks),
           \A r \in 1..Len(q) :
              /\ q[r].status = "SUPERSEDED"
              /\ q[r].timer # "PENDING"
              /\ Rank(q[r].role) >= Rank(RequiredRole(request.amount)),
           NEW role \in ApprovalRoles, Rank(role) >= Rank(RequiredRole(request.amount)),
           tasks' = Append(q, NewTask(role)), state' = "WAITING_APPROVAL"
    PROVE  tasks' \in Seq(Tasks) /\ TasksHold' /\ DeskAgrees'
<1>0. TypeOK /\ UNCHANGED <<request, attempts>> /\ Len(q) \in Nat
  BY LenProperties DEF WorkflowInv, DeskStep
<1>1. /\ NewTask(role) \in Tasks
      /\ NewTask(role).role = role
      /\ NewTask(role).status = "PENDING"
      /\ NewTask(role).timer = "PENDING"
  BY <1>0, RoleFacts
<1>2. /\ tasks' \in Seq(Tasks)
      /\ Len(tasks') = Len(q) + 1
      /\ \A r \in 1..Len(q) : tasks'[r] = q[r]
      /\ tasks'[Len(q) + 1] = NewTask(role)
  BY <1>1, AppendProperties
<1>3. \A r \in 1..Len(tasks') : r \in 1..Len(q) \/ r = Len(q) + 1
  BY <1>0, <1>2
<1>4. \A r \in 1..Len(tasks') :
        /\ tasks'[r].status # "APPROVED"
        /\ Rank(tasks'[r].role) >= Rank(RequiredRole(request.amount))
        /\ tasks'[r].status = "PENDING" <=> tasks'[r].timer = "PENDING"
        /\ r < Len(tasks') => tasks'[r].status = "SUPERSEDED"
  BY <1>0, <1>1, <1>2, <1>3
<1>5. TasksHold' /\ ~Approved'
  BY <1>0, <1>4 DEF TasksHold, Approved
<1>6. WaitingIsTimed'
  <2>1. Len(tasks') > 0 /\ tasks'[Len(tasks')].status = "PENDING"
    BY <1>0, <1>1, <1>2
  <2>2. QED
    BY <1>4, <2>1 DEF WaitingIsTimed
<1>7. QED
  BY <1>0, <1>2, <1>5, <1>6 DEF DeskAgrees, Machine, Desk

LEMMA EscalateInv ==
    ASSUME WorkflowInv, DeskStep, NEW s \in 1..Len(tasks), Escalate(s)
    PROVE  tasks' \in Seq(Tasks) /\ TasksHold' /\ DeskAgrees'
<1>0. /\ TypeOK
      /\ tasks[s].status = "PENDING"
      /\ state' = "WAITING_APPROVAL"
      /\ tasks[s].role \in ApprovalRoles
  BY TaskFacts DEF WorkflowInv, Escalate, Due, Transition
<1>1. PICK role \in NextRole(tasks[s].role) :
          tasks' = Append(Close(s, "SUPERSEDED", "FIRED", Nobody), NewTask(role))
  BY DEF Escalate
<1>2. /\ role \in ApprovalRoles
      /\ Rank(role) >= Rank(tasks[s].role)
      /\ Rank(tasks[s].role) >= Rank(RequiredRole(request.amount))
  BY <1>0, RoleFacts DEF WorkflowInv, TasksHold
<1>3. Rank(role) >= Rank(RequiredRole(request.amount))
  BY <1>2 DEF Rank
<1>4. /\ attempts = <<>>
      /\ \A r \in 1..Len(tasks) : r # s => tasks[r].status = "SUPERSEDED" /\ tasks[r].timer # "PENDING"
  BY <1>0, PendingIsLast DEF WorkflowInv, DeskAgrees, WaitingIsTimed
<1> DEFINE q == Close(s, "SUPERSEDED", "FIRED", Nobody)
<1>5. /\ q \in Seq(Tasks)
      /\ Len(q) = Len(tasks)
      /\ q[s].status = "SUPERSEDED"
      /\ q[s].timer = "FIRED"
      /\ q[s].role = tasks[s].role
      /\ \A r \in 1..Len(tasks) : r # s => q[r] = tasks[r]
  BY <1>0, CloseEffect DEF TaskStatuses, TimerStatuses
<1> HIDE DEF q
<1>6. \A r \in 1..Len(q) :
        /\ q[r].status = "SUPERSEDED"
        /\ q[r].timer # "PENDING"
        /\ Rank(q[r].role) >= Rank(RequiredRole(request.amount))
  BY <1>4, <1>5 DEF WorkflowInv, TasksHold
<1>7. QED
  BY <1>0, <1>1, <1>2, <1>3, <1>4, <1>5, <1>6, AddTaskInv DEF q

LEMMA DeadlineInv ==
    ASSUME WorkflowInv, DeskStep, NEW s \in 1..Len(tasks), DeadlinePasses(s)
    PROVE  tasks' \in Seq(Tasks) /\ TasksHold' /\ DeskAgrees'
<1>0. /\ TypeOK
      /\ tasks[s].status = "PENDING"
      /\ UNCHANGED <<request, state, attempts>>
      /\ tasks[s] \in Tasks
  BY TaskFacts DEF WorkflowInv, DeadlinePasses
<1> DEFINE b == [tasks[s] EXCEPT !.overdue = TRUE]
<1>1. /\ b \in Tasks
      /\ b.status = tasks[s].status
      /\ b.timer = tasks[s].timer
      /\ b.role = tasks[s].role
  BY <1>0 DEF Tasks
<1>2. tasks' = [tasks EXCEPT ![s] = b]
  BY <1>0, TaskFacts DEF DeadlinePasses
<1> HIDE DEF b
<1>3. /\ tasks' \in Seq(Tasks)
      /\ Len(tasks') = Len(tasks)
      /\ tasks'[s] = b
      /\ \A r \in 1..Len(tasks) : r # s => tasks'[r] = tasks[r]
  BY <1>0, <1>1, <1>2, RewriteTask
<1>4. \A r \in 1..Len(tasks) :
        /\ tasks'[r].status = tasks[r].status
        /\ tasks'[r].timer = tasks[r].timer
        /\ tasks'[r].role = tasks[r].role
        /\ tasks'[r].status = "APPROVED" => tasks'[r] = tasks[r]
  BY <1>0, <1>1, <1>3
<1>5. TasksHold'
  BY <1>0, <1>3, <1>4 DEF WorkflowInv, TasksHold, ValidApproval
<1>6. Approved' <=> Approved
  BY <1>3, <1>4 DEF Approved
<1>7. WaitingIsTimed'
  <2>1. Len(tasks) \in Nat
    BY <1>0, TaskFacts
  <2>2. QED
    BY <1>0, <1>3, <1>4, <2>1 DEF WorkflowInv, DeskAgrees, WaitingIsTimed
<1>8. state # "RECEIVED"
  BY <1>0, PendingIsLast
<1>9. QED
  BY <1>0, <1>3, <1>5, <1>6, <1>7, <1>8 DEF WorkflowInv, DeskAgrees

LEMMA EmitOnce ==
    ASSUME TypeOK, NEW type \in EventTypes, NEW stage \in Nat, version' \in Nat, Emit(type, stage)
    PROVE  outbox' \in Seq(Events) /\ Len(outbox') >= Len(outbox)
<1>1. ExecutionTypeOK /\ Len(outbox) \in Nat
  BY Facts DEF TypeOK
<1>2. QED
  BY <1>1, EmitEffect

LEMMA ApprovalInv == WorkflowInv /\ ApprovalStep => WorkflowInv'
<1> SUFFICES ASSUME WorkflowInv, ApprovalStep PROVE WorkflowInv'
  OBVIOUS
<1>1. PICK s \in 1..Len(tasks) :
          \/ \E a \in Actors : Approve(a, s) \/ Reject(a, s)
          \/ Escalate(s)
          \/ Expire(s)
          \/ DeadlinePasses(s)
  BY DEF ApprovalStep, ApprovalNext
<1>2. /\ TypeOK
      /\ ExecutionInv
      /\ version \in Nat
      /\ Len(tasks) \in Nat
      /\ s \in Nat /\ s + 1 \in Nat
      /\ tasks[s].status = "PENDING"
      /\ DeskStep
  <2>1. TypeOK /\ ExecutionInv /\ version \in Nat /\ Len(tasks) \in Nat
    BY TaskFacts DEF WorkflowInv
  <2>2. tasks[s].status = "PENDING"
    BY <1>1 DEF Approve, Reject, MayDecide, Escalate, Expire, Due, DeadlinePasses
  <2>3. UNCHANGED <<request, attempts, published, deliveryVars, executionVars>>
    BY <1>1 DEF ApprovalStep, Approve, Reject, Escalate, Expire, DeadlinePasses
  <2>4. DeskStep
    BY <2>1, <2>3 DEF DeskStep, deliveryVars, TypeOK, ExecutionTypeOK
  <2>5. QED
    BY <2>1, <2>2, <2>4
<1>3. attempts = <<>> /\ state = "WAITING_APPROVAL"
  BY <1>2, PendingIsLast
<1>4. CASE DeadlinePasses(s)
  <2>1. UNCHANGED <<state, version, outbox>>
    BY <1>4 DEF DeadlinePasses
  <2>2. tasks' \in Seq(Tasks) /\ TasksHold' /\ DeskAgrees'
    BY <1>2, <1>4, DeadlineInv
  <2>3. TypeOK'
    <3>1. state' \in States /\ version' \in Nat /\ outbox' \in Seq(Events) /\ Len(outbox') >= Len(outbox)
      BY <1>2, <2>1, Facts DEF TypeOK, ExecutionTypeOK
    <3>2. QED
      BY <1>2, <2>2, <3>1, DeskTypes
  <2>4. ExecutionInv'
    <3>1. ExecutionTypes'
      BY <1>2, <2>3 DEF ExecutionInv, ExecutionTypes, TypeOK, DeskStep, executionVars, Holding
    <3>2. UNCHANGED <<state, version, attempts, posts, ledger>> /\ Faded
      BY <1>2, <2>1 DEF DeskStep, executionVars, Faded
    <3>3. Len(attempts') \in Nat /\ Len(attempts') >= Len(attempts)
      BY <1>3, <3>2
    <3>4. HeldAttempts' /\ WireAndLedger'
      BY <1>2, <3>2, <3>3, KeepsMoney
    <3>5. TrueReceipts'
      BY <1>2, <3>2, KeepsReceipts
    <3>6. QED
      BY <1>2, <3>1, <3>2, <3>4, <3>5, KeepsReads, RowsSame DEF ExecutionInv
  <2>5. QED
    BY <2>2, <2>3, <2>4 DEF WorkflowInv
<1>5. ASSUME tasks' \in Seq(Tasks), TasksHold', DeskAgrees',
             NEW next \in {"READY_TO_EXECUTE", "REJECTED", "WAITING_APPROVAL", "MANUAL_REVIEW"},
             Transition(next), NEW type \in EventTypes, NEW stage \in Nat, Emit(type, stage)
      PROVE  WorkflowInv'
  <2>1. state' = next /\ version' = version + 1 /\ version' \in Nat /\ state' \in States
    BY <1>2, <1>5 DEF Transition, States
  <2>2. outbox' \in Seq(Events) /\ Len(outbox') >= Len(outbox)
    BY <1>2, <1>5, <2>1, EmitOnce
  <2>3. TypeOK'
    BY <1>2, <1>5, <2>1, <2>2, DeskTypes
  <2>4. ExecutionInv'
    BY <1>2, <1>3, <2>1, <2>3, DeskExecution DEF TypeOK
  <2>5. QED
    BY <1>5, <2>3, <2>4 DEF WorkflowInv
<1>6. ASSUME NEW a \in Actors, Approve(a, s) PROVE WorkflowInv'
  <2>1. /\ EndsTask(s, "APPROVED", "CANCELLED", a, "READY_TO_EXECUTE")
        /\ a \in Actors \ {request.requester}
        /\ RoleOf[a] = tasks[s].role
        /\ ~tasks[s].overdue
        /\ Transition("READY_TO_EXECUTE")
        /\ Emit("approval.accepted", s)
    BY <1>6 DEF Approve, MayDecide, EndsTask, Transition
  <2>2. TasksHold' /\ DeskAgrees'
    BY <1>2, <2>1, EndTaskInv DEF States
  <2>3. tasks' \in Seq(Tasks)
    BY <1>2, <2>1, CloseEffect DEF EndsTask, TaskStatuses, TimerStatuses
  <2>4. QED
    BY <1>2, <1>5, <2>1, <2>2, <2>3 DEF EventTypes
<1>7. ASSUME NEW a \in Actors, Reject(a, s) PROVE WorkflowInv'
  <2>1. /\ EndsTask(s, "REJECTED", "CANCELLED", a, "REJECTED")
        /\ Transition("REJECTED")
        /\ Emit("workflow.rejected", s)
    BY <1>7 DEF Reject, EndsTask, Transition
  <2>2. TasksHold' /\ DeskAgrees'
    BY <1>2, <2>1, EndTaskInv DEF States
  <2>3. tasks' \in Seq(Tasks)
    BY <1>2, <2>1, CloseEffect DEF EndsTask, TaskStatuses, TimerStatuses
  <2>4. QED
    BY <1>2, <1>5, <2>1, <2>2, <2>3 DEF EventTypes
<1>8. CASE Expire(s)
  <2>1. /\ EndsTask(s, "EXPIRED", "FIRED", Nobody, "MANUAL_REVIEW")
        /\ Transition("MANUAL_REVIEW")
        /\ Emit("workflow.manual_review", 0)
    BY <1>8 DEF Expire, EndsTask, Transition
  <2>2. TasksHold' /\ DeskAgrees'
    BY <1>2, <2>1, EndTaskInv DEF States
  <2>3. tasks' \in Seq(Tasks)
    BY <1>2, <2>1, CloseEffect DEF EndsTask, TaskStatuses, TimerStatuses
  <2>4. QED
    BY <1>5, <2>1, <2>2, <2>3 DEF EventTypes
<1>9. CASE Escalate(s)
  <2>1. Transition("WAITING_APPROVAL") /\ Emit("approval.escalated", s + 1)
    BY <1>9 DEF Escalate
  <2>2. QED
    BY <1>2, <1>5, <1>9, <2>1, EscalateInv DEF EventTypes
<1>10. QED
  BY <1>1, <1>4, <1>6, <1>7, <1>8, <1>9

----------------------------------------------------------------------------
(***************************************************************************)
(* Events.                                                                 *)
(***************************************************************************)

\* Publishing, redelivering, and every consumption that only marks the inbox.
QuietEvent ==
    /\ UNCHANGED <<request, state, version, tasks, attempts, outbox, executionVars>>
    /\ published' \subseteq 1..Len(outbox)
    /\ broker' \subseteq 1..Len(outbox)
    /\ inbox' \subseteq 1..Len(outbox)
    /\ lostEvents' \in 0..MaxLostEvents
    /\ redelivered' \in 0..MaxRedeliveries

LEMMA QuietEventInv == WorkflowInv /\ QuietEvent => WorkflowInv'
<1> SUFFICES ASSUME WorkflowInv, QuietEvent PROVE WorkflowInv'
  OBVIOUS
<1>1. TypeOK'
  BY DEF WorkflowInv, QuietEvent, TypeOK, ExecutionTypeOK, executionVars
<1>2. ExecutionInv'
  <2>1. ExecutionInv /\ Faded /\ UNCHANGED <<state, version, attempts, posts, ledger>>
    BY DEF WorkflowInv, QuietEvent, executionVars, Faded
  <2>2. ExecutionTypes'
    BY <1>1, <2>1 DEF ExecutionInv, ExecutionTypes, TypeOK, QuietEvent, executionVars, Holding
  <2>3. Len(attempts') \in Nat /\ Len(attempts') >= Len(attempts)
    BY <2>1, Facts DEF ExecutionInv, ExecutionTypes
  <2>4. HeldAttempts' /\ WireAndLedger'
    BY <2>1, <2>3, KeepsMoney
  <2>5. TrueReceipts'
    BY <2>1, KeepsReceipts
  <2>6. QED
    BY <2>1, <2>2, <2>4, <2>5, KeepsReads, RowsSame DEF ExecutionInv
<1>3. TasksHold'
  BY DEF WorkflowInv, QuietEvent, TasksHold, ValidApproval
<1>4. DeskAgrees'
  BY DEF WorkflowInv, QuietEvent, DeskAgrees, Approved, WaitingIsTimed
<1>5. QED
  BY <1>1, <1>2, <1>3, <1>4 DEF WorkflowInv

LEMMA SubmittedInv ==
    ASSUME WorkflowInv, NEW i \in 1..Len(outbox), ConsumeSubmitted(i), UNCHANGED executionVars
    PROVE  WorkflowInv'
<1>0. /\ TypeOK
      /\ ExecutionInv
      /\ version \in Nat
      /\ state = "RECEIVED"
      /\ tasks = <<>>
      /\ attempts = <<>>
      /\ Stage = 0
  BY TaskFacts DEF WorkflowInv, DeskAgrees, ExecutionInv, RowsAgree, ConsumeSubmitted,
                   PauseForApproval, Stage
<1>1. DeskStep
  BY <1>0 DEF DeskStep, ConsumeSubmitted, PauseForApproval, Take, TypeOK, ExecutionTypeOK
<1>2. /\ Transition("WAITING_APPROVAL")
      /\ tasks' = Append(tasks, NewTask(RequiredRole(request.amount)))
      /\ Emit("approval.requested", 1)
  BY <1>0 DEF ConsumeSubmitted, PauseForApproval
<1>3. tasks' \in Seq(Tasks) /\ TasksHold' /\ DeskAgrees'
  <2>1. /\ tasks \in Seq(Tasks)
        /\ 1..Len(tasks) = {}
        /\ RequiredRole(request.amount) \in ApprovalRoles
    BY <1>0, TaskFacts, RoleFacts
  <2>2. Rank(RequiredRole(request.amount)) >= Rank(RequiredRole(request.amount))
    BY DEF Rank
  <2>3. state' = "WAITING_APPROVAL"
    BY <1>2 DEF Transition
  <2>4. QED
    BY <1>0, <1>1, <1>2, <2>1, <2>2, <2>3, AddTaskInv
<1>4. state' = "WAITING_APPROVAL" /\ version' = version + 1 /\ version' \in Nat /\ state' \in States
  BY <1>0, <1>2 DEF Transition, States
<1>5. outbox' \in Seq(Events) /\ Len(outbox') >= Len(outbox)
  BY <1>0, <1>2, <1>4, EmitOnce DEF EventTypes
<1>6. TypeOK'
  BY <1>0, <1>1, <1>3, <1>4, <1>5, DeskTypes
<1>7. ExecutionInv'
  BY <1>0, <1>1, <1>4, <1>6, DeskExecution DEF TypeOK
<1>8. QED
  BY <1>3, <1>6, <1>7 DEF WorkflowInv

LEMMA AcceptedInv ==
    ASSUME WorkflowInv, NEW i \in 1..Len(outbox), ConsumeAccepted(i), attempts = <<>>,
           UNCHANGED executionVars
    PROVE  WorkflowInv'
<1>0. /\ TypeOK
      /\ ExecutionInv
      /\ state = "READY_TO_EXECUTE"
      /\ attempts' = <<NewAttempt>>
      /\ UNCHANGED <<request, state, version, tasks, outbox, published, lostEvents, redelivered,
                     pc, work, answer, seen, posts, ledger, failures>>
      /\ broker' \subseteq 1..Len(outbox)
      /\ inbox' \subseteq 1..Len(outbox)
  BY DEF WorkflowInv, ConsumeAccepted, IsCurrent, Take, TypeOK, executionVars
<1>1. /\ posts = {}
      /\ ledger = {}
      /\ \A t \in Threads : ~Holding(t)
  BY <1>0, NoAttempts
<1>2. /\ attempts' \in Seq(Attempts)
      /\ Len(attempts') = 1
      /\ attempts'[1].status = "PENDING"
      /\ Len(attempts) = 0
  BY <1>0, NewAttemptType DEF NewAttempt
<1>3. TypeOK'
  BY <1>0, <1>1, <1>2 DEF TypeOK, ExecutionTypeOK
<1>4. ExecutionInv'
  <2>1. Faded
    BY <1>0 DEF Faded
  <2>2. ExecutionTypes'
    BY <1>0, <1>1, <1>3 DEF ExecutionTypes, TypeOK, Holding
  <2>3. HeldAttempts' /\ WireAndLedger'
    BY <1>0, <1>2, <2>1, KeepsMoney
  <2>4. TrueReceipts'
    <3>1. \A n \in 1..Len(attempts') : attempts'[n].status # "SUCCEEDED"
      BY <1>2
    <3>2. QED
      BY <1>0, <2>1, <3>1, KeepsReceipts
  <2>5. FreshReads'
    BY <1>0, <2>1, KeepsReads
  <2>6. RowsAgree'
    BY <1>0, <1>2, RefundConstants DEF RowsAgree, ActiveExecution, Active, BoundedAttempts
  <2>7. QED
    BY <2>2, <2>3, <2>4, <2>5, <2>6 DEF ExecutionInv
<1>5. TasksHold'
  BY <1>0 DEF WorkflowInv, TasksHold, ValidApproval
<1>6. DeskAgrees'
  <2>1. Approved
    BY <1>0 DEF WorkflowInv, DeskAgrees, Machine
  <2>2. QED
    BY <1>0, <2>1 DEF WorkflowInv, DeskAgrees, Approved, WaitingIsTimed
<1>7. QED
  BY <1>3, <1>4, <1>5, <1>6 DEF WorkflowInv

LEMMA EventInv ==
    ASSUME WorkflowInv, NEW i \in 1..Len(outbox), EventStep(i)
    PROVE  WorkflowInv'
<1>0. TypeOK /\ UNCHANGED executionVars
  BY DEF WorkflowInv, EventStep
<1>1. CASE Publish(i) \/ PublishWithoutMark(i) \/ ConsumeDuplicate(i) \/ ConsumeOther(i)
  <2>1. QuietEvent
    BY <1>0, <1>1 DEF Publish, PublishWithoutMark, ConsumeDuplicate, ConsumeOther, Take, QuietEvent,
                      TypeOK, ExecutionTypeOK, storeVars
  <2>2. QED
    BY <2>1, QuietEventInv
<1>2. CASE ConsumerFails(i)
  <2>1. lostEvents' \in 0..MaxLostEvents
    BY <1>0, <1>2, DeliveryConstants DEF ConsumerFails, TypeOK
  <2>2. QuietEvent
    BY <1>0, <1>2, <2>1 DEF ConsumerFails, QuietEvent, TypeOK, ExecutionTypeOK, storeVars
  <2>3. QED
    BY <2>2, QuietEventInv
<1>3. CASE ConsumeSubmitted(i)
  BY <1>0, <1>3, SubmittedInv
<1>4. CASE ConsumeAccepted(i)
  <2>1. CASE attempts = <<>>
    BY <1>0, <1>4, <2>1, AcceptedInv
  <2>2. CASE attempts # <<>>
    <3>1. QuietEvent
      BY <1>0, <1>4, <2>2 DEF ConsumeAccepted, Take, QuietEvent, TypeOK, ExecutionTypeOK
    <3>2. QED
      BY <3>1, QuietEventInv
  <2>3. QED
    BY <2>1, <2>2
<1>5. QED
  BY <1>1, <1>2, <1>3, <1>4 DEF EventStep, Consume

LEMMA RedeliverInv == WorkflowInv /\ RedeliverStep => WorkflowInv'
<1> SUFFICES ASSUME WorkflowInv, RedeliverStep PROVE WorkflowInv'
  OBVIOUS
<1>1. redelivered' \in 0..MaxRedeliveries
  BY DeliveryConstants DEF WorkflowInv, TypeOK, RedeliverStep, Redeliver
<1>2. QuietEvent
  BY <1>1 DEF WorkflowInv, TypeOK, ExecutionTypeOK, RedeliverStep, Redeliver, QuietEvent
<1>3. QED
  BY <1>2, QuietEventInv

----------------------------------------------------------------------------
(***************************************************************************)
(* Execution steps, seen from the desk.                                    *)
(***************************************************************************)
ExecutionMoves ==
    \/ UNCHANGED state /\ (attempts' # <<>> => attempts # <<>>)
    \/ /\ state \notin Desk
       /\ state' \notin Desk
       /\ attempts # <<>> \/ (state' = "CLOSED" /\ UNCHANGED attempts)

LEMMA ThreadMoves ==
    ASSUME ExecutionInv, NEW t \in Threads, ThreadStep(t)
    PROVE  ExecutionMoves
<1>1. CASE Claim(t)
  <2>1. \E n \in 1..Len(attempts) : attempts[n].status = "PENDING"
    BY <1>1 DEF Claim, Latest
  <2>2. attempts # <<>>
    BY <2>1
  <2>3. QED
    BY <1>1, <2>2 DEF Claim, Transition, ExecutionMoves, Desk
<1>2. CASE Finish(t)
  <2>1. CASE FinishStale(t)
    BY <2>1 DEF FinishStale, storeVars, ExecutionMoves
  <2>2. CASE ~FinishStale(t)
    <3>1. Holding(t) /\ state = "EXECUTING"
      BY <1>2, <2>2, FinishKeeps DEF Finish, FinishSuccess, FinishRetry,
                                     FinishFailed, FinishUnknown, Finishes, Holding
    <3>2. attempts # <<>>
      BY <3>1, NoAttempts
    <3>3. state' \notin Desk
      BY <1>2, <2>2 DEF Finish, FinishSuccess, FinishRetry, FinishFailed,
                        FinishUnknown, Transition, Desk
    <3>4. QED
      BY <3>1, <3>2, <3>3 DEF ExecutionMoves, Desk
  <2>3. QED
    BY <2>1, <2>2
<1>3. ASSUME NEW n \in 1..Len(attempts), RecoverExpired(t, n)
      PROVE  ExecutionMoves
  <2>1. attempts[n].status = "RUNNING" /\ state' = "RECONCILING"
    BY <1>3 DEF RecoverExpired, Transition
  <2>2. state = "EXECUTING" /\ attempts # <<>>
    BY <2>1 DEF ExecutionInv, RowsAgree, ActiveExecution
  <2>3. QED
    BY <2>1, <2>2 DEF ExecutionMoves, Desk
<1>4. CASE ApplyReconcile(t)
  <2>1. CASE ApplyStale(t)
    BY <2>1 DEF ApplyStale, storeVars, ExecutionMoves
  <2>2. CASE ~ApplyStale(t)
    <3>1. pc[t] = "looked" /\ version = seen[t]
      BY <1>4, <2>2 DEF ApplyReconcile, ApplyFound, ApplyAbsentRetry, ApplyGiveUp, Applies
    <3>2. attempts # <<>> /\ state \in {"RECONCILING", "MANUAL_REVIEW"}
      BY <3>1 DEF ExecutionInv, FreshReads
    <3>3. state' \notin Desk
      <4>1. CASE ApplyFound(t)
        <5>1. Transition("COMPLETED")
          BY <4>1 DEF ApplyFound
        <5>2. QED
          BY <5>1 DEF Transition, Desk
      <4>2. CASE ApplyAbsentRetry(t) \/ ApplyGiveUp(t)
        BY <3>2, <4>2 DEF ApplyAbsentRetry, ApplyGiveUp, Transition, Desk
      <4>3. QED
        BY <1>4, <2>2, <4>1, <4>2 DEF ApplyReconcile
    <3>4. QED
      BY <3>2, <3>3 DEF ExecutionMoves, Desk
  <2>3. QED
    BY <2>1, <2>2
<1>5. ASSUME \/ Send(t)
             \/ Timeout(t)
             \/ InjectedCrash(t)
             \/ SelectForReconcile(t)
             \/ BeginReconcile(t)
             \/ SkipReconcile(t)
             \/ Lookup(t)
      PROVE  ExecutionMoves
  BY <1>5 DEF Send, Timeout, InjectedCrash, SelectForReconcile, BeginReconcile, SkipReconcile,
              Lookup, LookupAbsent, LookupFound, LookupUnavailable, Status, storeVars,
              ExecutionMoves
<1>6. QED
  BY <1>1, <1>2, <1>3, <1>4, <1>5 DEF ThreadStep, Latest

LEMMA StepMoves ==
    ASSUME ExecutionInv, ExecutionNext
    PROVE  ExecutionMoves
<1>1. CASE ProviderStep
  BY <1>1 DEF ProviderStep, PostRejected, PostNotStarted, PostReplayed, PostRefunded,
              ProviderRestore, storeVars, ExecutionMoves
<1>2. CASE OperatorClose
  BY <1>2 DEF OperatorClose, Transition, ExecutionMoves, Desk
<1>3. ASSUME NEW n \in 1..Len(attempts), LeaseExpires(n)
      PROVE  ExecutionMoves
  <2>1. attempts # <<>> /\ UNCHANGED state
    BY <1>3 DEF LeaseExpires
  <2>2. QED
    BY <2>1 DEF ExecutionMoves
<1>4. ASSUME NEW t \in Threads, LookupFails(t) \/ Crash(t)
      PROVE  ExecutionMoves
  BY <1>4 DEF LookupFails, Crash, storeVars, ExecutionMoves
<1>5. QED
  BY <1>1, <1>2, <1>3, <1>4, ThreadMoves DEF ExecutionNext, EnvironmentStep, Latest

\* The execution writes no task, and adds at most one event.
LEMMA StepFrame ==
    ASSUME ExecutionInv, ExecutionNext
    PROVE  /\ UNCHANGED <<request, tasks>>
           /\ \/ UNCHANGED outbox
              \/ \E type \in EventTypes : Emit(type, 0)
<1>1. ASSUME NEW t \in Threads, ThreadStep(t)
      PROVE  /\ UNCHANGED <<request, tasks>>
             /\ \/ UNCHANGED outbox
                \/ \E type \in EventTypes : Emit(type, 0)
  <2>1. CASE Finish(t)
    BY <2>1 DEF Finish, FinishStale, FinishSuccess, FinishRetry, FinishFailed,
                FinishUnknown, Finishes, storeVars, EventTypes
  <2>2. CASE ApplyReconcile(t)
    <3>1. CASE ApplyFound(t)
      <4>1. Applies(t, "found") /\ Emit("workflow.completed", 0)
        BY <3>1 DEF ApplyFound
      <4>2. QED
        BY <4>1 DEF Applies, EventTypes
    <3>2. QED
      BY <2>2, <3>1 DEF ApplyReconcile, ApplyStale, ApplyAbsentRetry, ApplyGiveUp, Applies, storeVars
  <2>3. CASE ~Finish(t) /\ ~ApplyReconcile(t)
    BY <1>1, <2>3 DEF ThreadStep, Claim, Send, Timeout, InjectedCrash, RecoverExpired,
                      SelectForReconcile, BeginReconcile, SkipReconcile, Lookup, LookupAbsent,
                      LookupFound, LookupUnavailable, Status, storeVars
  <2>4. QED
    BY <2>1, <2>2, <2>3
<1>2. CASE ProviderStep \/ EnvironmentStep \/ OperatorClose
  BY <1>2 DEF ProviderStep, PostRejected, PostNotStarted, PostReplayed, PostRefunded,
              ProviderRestore, EnvironmentStep, LeaseExpires, LookupFails, Crash, OperatorClose,
              storeVars
<1>3. QED
  BY <1>1, <1>2 DEF ExecutionNext

LEMMA ExecutionStepInv == WorkflowInv /\ ExecutionStep => WorkflowInv'
<1> SUFFICES ASSUME WorkflowInv, ExecutionStep PROVE WorkflowInv'
  OBVIOUS
<1>0. /\ TypeOK
      /\ ExecutionInv
      /\ ExecutionNext
      /\ ExecutionInv'
      /\ ExecutionTypeOK'
      /\ UNCHANGED <<request, tasks>>
      /\ UNCHANGED deliveryVars
  BY ExecutionInvStep, StepFrame DEF WorkflowInv, ExecutionStep, ExecutionInv, ExecutionTypes
<1>1. TypeOK'
  <2>1. Len(outbox') >= Len(outbox) /\ Len(outbox) \in Nat /\ Len(outbox') \in Nat
    <3>1. version' \in Nat /\ Len(outbox) \in Nat
      BY <1>0, Facts DEF ExecutionTypeOK, TypeOK
    <3>2. Len(outbox') >= Len(outbox)
      BY <1>0, <3>1, StepFrame, EmitOnce
    <3>3. outbox' \in Seq(Events)
      BY <1>0 DEF ExecutionTypeOK
    <3>4. QED
      BY <3>1, <3>2, <3>3, LenProperties
  <2>2. broker' \subseteq 1..Len(outbox') /\ inbox' \subseteq 1..Len(outbox')
    BY <1>0, <2>1 DEF TypeOK, deliveryVars
  <2>3. QED
    BY <1>0, <2>2 DEF TypeOK, deliveryVars
<1>2. TasksHold'
  BY <1>0 DEF WorkflowInv, TasksHold, ValidApproval
<1>3. DeskAgrees'
  <2>1. ExecutionMoves
    BY <1>0, StepMoves
  <2>2. Approved' <=> Approved
    BY <1>0 DEF Approved
  <2>3. WaitingIsTimed'
    BY <1>0, <2>1 DEF WorkflowInv, DeskAgrees, WaitingIsTimed, ExecutionMoves, Desk
  <2>4. QED
    BY <1>0, <2>1, <2>2, <2>3 DEF WorkflowInv, DeskAgrees, ExecutionMoves, Machine, Desk
<1>4. QED
  BY <1>0, <1>1, <1>2, <1>3 DEF WorkflowInv

----------------------------------------------------------------------------
LEMMA InitInv == Init => WorkflowInv
<1> SUFFICES ASSUME Init PROVE WorkflowInv
  OBVIOUS
<1>1. /\ tasks = <<>>
      /\ attempts = <<>>
      /\ 1..Len(tasks) = {}
      /\ 1..Len(attempts) = {}
      /\ Len(attempts) = 0
      /\ state \in {"RECEIVED", "REJECTED"}
      /\ version \in Nat
      /\ request \in Requests
      /\ published = {} /\ broker = {} /\ inbox = {}
  BY DEF Init, StoreInit, DeliveryInit
<1>2. outbox \in Seq(Events)
  <2> DEFINE e == [type |-> "workflow.submitted", version |-> 0, stage |-> 0]
  <2>1. e \in Events
    BY DEF Events, EventTypes
  <2>2. outbox = <<e>> \/ outbox = <<>>
    BY DEF Init, StoreInit
  <2> HIDE DEF e
  <2>3. <<e>> \in Seq(Events) /\ <<>> \in Seq(Events)
    BY <2>1
  <2>4. QED
    BY <2>2, <2>3
<1>3. ExecutionTypes
  <2>1. NoWork \in [attempt : Nat, fence : Nat] /\ Reply("none") \in Answers
    BY DEF NoWork, Reply, NoReceipt, Answers
  <2>2. failures \in 0..MaxFailures
    BY ExecutionConstants DEF Init, ExecutionInit
  <2>3. /\ pc \in [Threads -> PCs]
        /\ \A t \in Threads : pc[t] = "idle"
        /\ work \in [Threads -> [attempt : Nat, fence : Nat]]
        /\ answer \in [Threads -> Answers]
        /\ seen \in [Threads -> Nat]
        /\ posts = {}
        /\ ledger = {}
    BY <2>1 DEF Init, ExecutionInit, PCs
  <2>4. state \in States /\ tasks \in Seq(Tasks) /\ attempts \in Seq(Attempts)
    BY <1>1 DEF States
  <2>5. QED
    BY <1>1, <1>2, <2>2, <2>3, <2>4 DEF ExecutionTypes, ExecutionTypeOK, Holding
<1>4. HeldAttempts /\ WireAndLedger /\ TrueReceipts /\ FreshReads
  BY <1>1 DEF Init, ExecutionInit, HeldAttempts, WireAndLedger, TrueReceipts, FreshReads, OneRefund,
              Holding, Reply
<1>5. RowsAgree
  BY <1>1, RefundConstants DEF RowsAgree, ActiveExecution, Active, BoundedAttempts
<1>6. ExecutionInv
  BY <1>3, <1>4, <1>5 DEF ExecutionInv
<1>7. TypeOK
  BY <1>1, <1>3, DeliveryConstants DEF TypeOK, ExecutionTypes, Init, DeliveryInit
<1>8. TasksHold /\ DeskAgrees
  BY <1>1 DEF TasksHold, DeskAgrees, Approved, WaitingIsTimed, Machine, Desk
<1>9. QED
  BY <1>6, <1>7, <1>8 DEF WorkflowInv

LEMMA NextInv == WorkflowInv /\ Next => WorkflowInv'
BY ApprovalInv, EventInv, RedeliverInv, ExecutionStepInv DEF Next

LEMMA StutterInv == WorkflowInv /\ UNCHANGED vars => WorkflowInv'
<1> SUFFICES ASSUME WorkflowInv, UNCHANGED vars PROVE WorkflowInv'
  OBVIOUS
<1>1. QuietEvent
  BY DEF WorkflowInv, TypeOK, ExecutionTypeOK, QuietEvent, vars, storeVars, deliveryVars
<1>2. QED
  BY <1>1, QuietEventInv

(***************************************************************************)
(* The whole invariant: rows, tasks, threads, wire and ledger agree in     *)
(* every reachable state of the workflow (core.py, exercises.py, erp.py).  *)
(***************************************************************************)
THEOREM WorkflowIsSound == Spec => []WorkflowInv
<1>1. WorkflowInv /\ [Next]_vars => WorkflowInv'
  BY NextInv, StutterInv
<1>2. QED
  BY InitInv, <1>1, PTL DEF Spec

(***************************************************************************)
(* Every variable of the composed workflow keeps its type.                 *)
(***************************************************************************)
THEOREM WorkflowTyped == Spec => []TypeOK
<1>1. WorkflowInv => TypeOK
  BY DEF WorkflowInv
<1>2. QED
  BY WorkflowIsSound, <1>1, PTL

LEMMA InvAuthorises == WorkflowInv => AuthorisedRefund
<1> SUFFICES ASSUME WorkflowInv, ledger # {} PROVE \E s \in 1..Len(tasks) : ValidApproval(tasks[s])
  BY DEF AuthorisedRefund
<1>1. attempts # <<>>
  BY NoAttempts DEF WorkflowInv
<1>2. PICK s \in 1..Len(tasks) : tasks[s].status = "APPROVED"
  BY <1>1 DEF WorkflowInv, DeskAgrees, Approved
<1>3. QED
  BY <1>2 DEF WorkflowInv, TasksHold

(***************************************************************************)
(* Whatever the provider booked was approved in time, by somebody else     *)
(* than the requester, with sufficient authority for the amount            *)
(* (exercises.record_decision, exercises.expire_or_escalate).              *)
(***************************************************************************)
THEOREM RefundsAreAuthorised == Spec => []AuthorisedRefund
BY WorkflowIsSound, InvAuthorises, PTL

(***************************************************************************)
(* The workflow waits exactly while its latest task is pending, under a    *)
(* live timer, and no timer outlives its task (core.new_task).             *)
(***************************************************************************)
THEOREM WaitingHasDeadline == Spec => []WaitingIsTimed
<1>1. WorkflowInv => WaitingIsTimed
  BY DEF WorkflowInv, DeskAgrees
<1>2. QED
  BY WorkflowIsSound, <1>1, PTL

(***************************************************************************)
(* The guarantees of the execution hold in the composed workflow too, with *)
(* approvals, redelivered events and lost events around it.                *)
(***************************************************************************)
THEOREM MoneyIsSafe ==
    Spec => [](OneRefund /\ CompletedIsPaid /\ RefusedIsNotPaid /\ DefiniteOutcome)
<1>1. WorkflowInv => OneRefund /\ CompletedIsPaid /\ RefusedIsNotPaid /\ DefiniteOutcome
  BY InvImplies DEF WorkflowInv
<1>2. QED
  BY WorkflowIsSound, <1>1, PTL

----------------------------------------------------------------------------
(***************************************************************************)
(* The workflow implements RefundContract.                                 *)
(***************************************************************************)
Payments == {e.receipt : e \in ledger}

LEMMA ContractInit == Init => Contract!Init
<1> SUFFICES ASSUME Init PROVE Contract!Init
  OBVIOUS
<1>1. 1..Len(tasks) = {} /\ ledger = {} /\ state \in {"RECEIVED", "REJECTED"}
  BY DEF Init, StoreInit, ExecutionInit
<1>2. Approved = FALSE
  BY <1>1 DEF Approved
<1>3. Verdict \in {"open", "rejected"}
  BY <1>1 DEF Verdict
<1>4. QED
  BY <1>1, <1>2, <1>3 DEF Contract!Init

LEMMA SameContract ==
    ASSUME UNCHANGED <<state, tasks, ledger>>
    PROVE  UNCHANGED Contract!contractVars
BY DEF Contract!contractVars, Approved, Verdict

LEMMA DeskContract ==
    ASSUME WorkflowInv, WorkflowInv', UNCHANGED ledger,
           state \in {"RECEIVED", "WAITING_APPROVAL"},
           state' \in {"WAITING_APPROVAL", "READY_TO_EXECUTE", "REJECTED", "MANUAL_REVIEW"}
    PROVE  [Contract!Next]_(Contract!contractVars)
<1>1. Approved = FALSE /\ Verdict = "open"
  BY DEF WorkflowInv, DeskAgrees, Desk, Approved, Verdict
<1>2. Payments' = Payments
  BY DEF Payments
<1>3. CASE state' = "REJECTED"
  <2>1. Approved' = FALSE /\ Verdict' = "rejected"
    BY <1>3 DEF WorkflowInv, DeskAgrees, Desk, Approved, Verdict
  <2>2. QED
    BY <1>1, <1>2, <2>1 DEF Contract!Next, Contract!Reject, Payments
<1>4. CASE state' # "REJECTED"
  <2>1. Verdict' = "open"
    BY <1>4 DEF Verdict
  <2>2. CASE Approved'
    <3>1. Approved' = TRUE
      BY <2>2 DEF Approved
    <3>2. QED
      BY <1>1, <1>2, <2>1, <3>1 DEF Contract!Next, Contract!Authorise, Payments
  <2>3. CASE ~Approved'
    <3>1. Approved' = FALSE
      BY <2>3 DEF Approved
    <3>2. QED
      BY <1>1, <1>2, <2>1, <3>1 DEF Contract!contractVars, Payments
  <2>4. QED
    BY <2>2, <2>3
<1>5. QED
  BY <1>3, <1>4

\* Only the provider writes its ledger, and it does not write the rows.
LEMMA LedgerSteps ==
    ASSUME WorkflowInv, ExecutionNext
    PROVE  \/ Payments' = Payments
           \/ /\ UNCHANGED state
              /\ ledger = {}
              /\ \E n \in posts : Payments' = {n}
<1>1. ASSUME NEW n \in posts, PostRefunded(n)
      PROVE  UNCHANGED state /\ ledger = {} /\ Payments' = {n}
  <2>1. UNCHANGED state /\ Booked("v1") = {}
    BY <1>1 DEF PostRefunded, storeVars, OperationKey
  <2>2. ledger = {}
    BY <2>1 DEF WorkflowInv, ExecutionInv, WireAndLedger, Booked
  <2> DEFINE e == [key |-> OperationKey(n), receipt |-> n, fault |-> request.fault]
  <2>3. ledger' = {e}
    BY <1>1, <2>2 DEF PostRefunded
  <2>4. e.receipt = n
    OBVIOUS
  <2> HIDE DEF e
  <2>5. QED
    BY <2>1, <2>2, <2>3, <2>4 DEF Payments
<1>2. CASE ProviderRestore
  <2>1. \A e \in ledger : e \in Entries
    BY DEF WorkflowInv, TypeOK, ExecutionTypeOK
  <2>2. \A e \in ledger : [e EXCEPT !.fault = "none"].receipt = e.receipt
    BY <2>1 DEF Entries
  <2>3. ledger' = {[e EXCEPT !.fault = "none"] : e \in ledger}
    BY <1>2 DEF ProviderRestore
  <2>4. ASSUME NEW r \in Payments PROVE r \in Payments'
    <3>1. PICK e \in ledger : r = e.receipt
      BY <2>4 DEF Payments
    <3>2. [e EXCEPT !.fault = "none"] \in ledger' /\ r = [e EXCEPT !.fault = "none"].receipt
      BY <2>2, <2>3, <3>1
    <3>3. QED
      BY <3>2 DEF Payments
  <2>5. ASSUME NEW r \in Payments' PROVE r \in Payments
    <3>1. PICK f \in ledger' : r = f.receipt
      BY <2>5 DEF Payments
    <3>2. PICK e \in ledger : f = [e EXCEPT !.fault = "none"]
      BY <2>3, <3>1
    <3>3. r = e.receipt
      BY <2>2, <3>1, <3>2
    <3>4. QED
      BY <3>2, <3>3 DEF Payments
  <2>6. QED
    BY <2>4, <2>5
<1>3. CASE UNCHANGED ledger
  BY <1>3 DEF Payments
<1>4. ASSUME NEW n \in posts, PostRejected(n) \/ PostNotStarted(n) \/ PostReplayed(n)
      PROVE  UNCHANGED ledger
  BY <1>4 DEF PostRejected, PostNotStarted, PostReplayed
<1>5. ASSUME NEW t \in Threads, ThreadStep(t)
      PROVE  UNCHANGED ledger
  <2>1. CASE Finish(t)
    BY <2>1 DEF Finish, FinishStale, FinishSuccess, FinishRetry, FinishFailed,
                FinishUnknown, Finishes
  <2>2. CASE ApplyReconcile(t)
    <3>1. CASE ApplyFound(t)
      <4>1. Applies(t, "found")
        BY <3>1 DEF ApplyFound
      <4>2. QED
        BY <4>1 DEF Applies
    <3>2. QED
      BY <2>2, <3>1 DEF ApplyReconcile, ApplyStale, ApplyAbsentRetry, ApplyGiveUp, Applies
  <2>3. CASE ~Finish(t) /\ ~ApplyReconcile(t)
    BY <1>5, <2>3 DEF ThreadStep, Claim, Send, Timeout, InjectedCrash, RecoverExpired,
                      SelectForReconcile, BeginReconcile, SkipReconcile, Lookup, LookupAbsent,
                      LookupFound, LookupUnavailable, Status, executionVars
  <2>4. QED
    BY <2>1, <2>2, <2>3
<1>6. CASE EnvironmentStep \/ OperatorClose
  <2>1. UNCHANGED ledger
    BY <1>6 DEF EnvironmentStep, LeaseExpires, LookupFails, Crash, OperatorClose, executionVars
  <2>2. QED
    BY <1>3, <2>1
<1>7. QED
  BY <1>1, <1>2, <1>3, <1>4, <1>5, <1>6 DEF ExecutionNext, ProviderStep

LEMMA InvSettles == WorkflowInv => CompletedIsPaid /\ RefusedIsNotPaid
BY InvImplies DEF WorkflowInv

LEMMA ExecutionContract ==
    ASSUME WorkflowInv, WorkflowInv', ExecutionStep
    PROVE  [Contract!Next]_(Contract!contractVars)
<1>0. /\ ExecutionInv
      /\ ExecutionNext
      /\ UNCHANGED tasks
  BY StepFrame DEF WorkflowInv, ExecutionStep
<1>1. Approved' = Approved
  BY <1>0 DEF Approved
<1>2. CASE Payments' = Payments
  <2>1. ledger = {} <=> Payments = {}
    BY DEF Payments
  <2>2. ledger' = {} <=> Payments' = {}
    BY DEF Payments
  <2>3. CASE state' = state
    BY <1>1, <1>2, <2>3 DEF Contract!contractVars, Verdict, Payments
  <2>4. CASE state' # state
    <3>1. state \notin Final /\ state' \notin Desk
      BY <1>0, <2>4, StepKeeps, StepMoves DEF ExecutionMoves
    <3>2. Verdict = "open"
      BY <3>1 DEF Final, Verdict
    <3>3. CASE state' = "COMPLETED"
      <4>0. CompletedIsPaid'
        BY InvSettles, PTL
      <4>1. Verdict' = "completed"
        BY <3>3 DEF Verdict
      <4>2. Payments # {}
        BY <1>2, <2>2, <3>3, <4>0 DEF CompletedIsPaid
      <4>3. QED
        BY <1>1, <1>2, <3>2, <4>1, <4>2 DEF Contract!Next, Contract!Complete, Payments
    <3>4. CASE state' = "CLOSED"
      <4>0. RefusedIsNotPaid'
        BY InvSettles, PTL
      <4>1. Verdict' = "closed"
        BY <3>4 DEF Verdict
      <4>2. Payments = {}
        BY <1>2, <2>2, <3>4, <4>0 DEF RefusedIsNotPaid
      <4>3. QED
        BY <1>1, <1>2, <3>2, <4>1, <4>2 DEF Contract!Next, Contract!Close, Payments
    <3>5. CASE state' \notin {"COMPLETED", "CLOSED"}
      <4>1. Verdict' = "open"
        BY <3>1, <3>5 DEF Verdict, Desk
      <4>2. QED
        BY <1>1, <1>2, <3>2, <4>1 DEF Contract!contractVars, Payments
    <3>6. QED
      BY <3>3, <3>4, <3>5
  <2>5. QED
    BY <2>3, <2>4
<1>3. ASSUME UNCHANGED state, ledger = {}, NEW n \in posts, Payments' = {n}
      PROVE  Contract!Next
  <2>1. attempts # <<>> /\ n \in 1..Len(attempts) /\ attempts[n].status \in Tried
    BY <1>0, <1>3, NoAttempts DEF WorkflowInv, TypeOK, ExecutionTypeOK, ExecutionInv, WireAndLedger
  <2>2. Approved = TRUE
    BY <2>1 DEF WorkflowInv, DeskAgrees, Approved
  <2>3. n \in 1..MaxAttempts
    BY <1>0, <2>1, Facts, RefundConstants DEF ExecutionInv, ExecutionTypes, RowsAgree, BoundedAttempts
  <2>4. Verdict = "open" /\ Verdict' = "open"
    <3>1. state # "COMPLETED"
      BY <1>0, <1>3, InvImplies DEF CompletedIsPaid
    <3>2. state # "REJECTED" /\ state # "CLOSED"
      BY <1>0, <2>1 DEF ExecutionInv, RowsAgree, Tried
    <3>3. QED
      BY <1>3, <3>1, <3>2 DEF Verdict
  <2>5. Payments = {}
    BY <1>3 DEF Payments
  <2>6. QED
    BY <1>1, <1>3, <2>2, <2>3, <2>4, <2>5 DEF Contract!Next, Contract!Pay, Payments
<1>4. QED
  BY <1>0, <1>2, <1>3, LedgerSteps

LEMMA ContractStep ==
    ASSUME WorkflowInv, WorkflowInv', [Next]_vars
    PROVE  [Contract!Next]_(Contract!contractVars)
<1>1. CASE UNCHANGED vars
  BY <1>1, SameContract DEF vars, storeVars, executionVars
<1>2. CASE ApprovalStep
  <2>1. /\ UNCHANGED ledger
        /\ state = "WAITING_APPROVAL"
        /\ state' \in {"WAITING_APPROVAL", "READY_TO_EXECUTE", "REJECTED", "MANUAL_REVIEW"}
    <3>1. PICK s \in 1..Len(tasks) :
              \/ \E a \in Actors : Approve(a, s) \/ Reject(a, s)
              \/ Escalate(s)
              \/ Expire(s)
              \/ DeadlinePasses(s)
      BY <1>2 DEF ApprovalStep, ApprovalNext
    <3>2. tasks[s].status = "PENDING"
      BY <3>1 DEF Approve, Reject, MayDecide, Escalate, Expire, Due, DeadlinePasses
    <3>3. state = "WAITING_APPROVAL"
      BY <3>2, PendingIsLast
    <3>4. QED
      BY <1>2, <3>1, <3>3 DEF ApprovalStep, Approve, Reject, Escalate, Expire, DeadlinePasses,
                              Transition, executionVars
  <2>2. QED
    BY <2>1, DeskContract
<1>3. ASSUME NEW i \in 1..Len(outbox), EventStep(i)
      PROVE  [Contract!Next]_(Contract!contractVars)
  <2>0. UNCHANGED ledger
    BY <1>3 DEF EventStep, executionVars
  <2>1. CASE ConsumeSubmitted(i)
    <3>1. state = "RECEIVED" /\ state' = "WAITING_APPROVAL"
      BY <2>1 DEF ConsumeSubmitted, PauseForApproval, Transition
    <3>2. QED
      BY <2>0, <3>1, DeskContract
  <2>2. CASE ~ConsumeSubmitted(i)
    <3>1. UNCHANGED <<state, tasks>>
      BY <1>3, <2>2 DEF EventStep, Publish, PublishWithoutMark, Consume, ConsumeDuplicate,
                        ConsumeAccepted, ConsumeOther, ConsumerFails, storeVars
    <3>2. QED
      BY <2>0, <3>1, SameContract
  <2>3. QED
    BY <2>1, <2>2
<1>4. CASE RedeliverStep
  <2>1. UNCHANGED <<state, tasks, ledger>>
    BY <1>4 DEF RedeliverStep, Redeliver, executionVars
  <2>2. QED
    BY <2>1, SameContract
<1>5. QED
  BY <1>1, <1>2, <1>3, <1>4, ExecutionContract DEF Next

(***************************************************************************)
(* The workflow keeps its contract: every step of approvers, publisher,    *)
(* consumer, workers, provider and operators is a step of RefundContract   *)
(* or leaves what the contract speaks of as it is.                         *)
(***************************************************************************)
THEOREM WorkflowKeepsContract == Spec => KeepsContract
<1>1. WorkflowInv /\ WorkflowInv' /\ [Next]_vars => [Contract!Next]_(Contract!contractVars)
  BY ContractStep
<1>2. QED
  BY WorkflowIsSound, ContractInit, <1>1, PTL DEF Spec, KeepsContract, Contract!Spec

----------------------------------------------------------------------------
(***************************************************************************)
(* What moves the workflow: the safety halves of Settles and EventsArrive. *)
(* Fairness then only has to let happen what these invariants show to be   *)
(* there.                                                                  *)
(***************************************************************************)

\* The event will reach a consumer that has not seen it.
Coming(i) == i \notin inbox /\ (i \in broker \/ i \notin published)

(***************************************************************************)
(* A committed event is handled, travels, or is yet to be published,       *)
(* whatever dies between sending, marking and handling, unless a failing   *)
(* consumer dropped one (runtime.publish_one, celery_app.handle_event).    *)
(***************************************************************************)
EventsAreKept == lostEvents = 0 => \A i \in 1..Len(outbox) : i \in inbox \/ Coming(i)

(***************************************************************************)
(* No workflow waits for something that nobody is going to do: in every    *)
(* state that is not a rest there is the event, the timer or the attempt   *)
(* that its next transition comes from (the handlers of app/exercises.py   *)
(* and app/core.py), unless a failing consumer dropped an event.           *)
(***************************************************************************)
WorkflowIsDriven == lostEvents = 0 =>
    /\ state = "RECEIVED" =>
          \E i \in 1..Len(outbox) : Coming(i) /\ outbox[i].type = "workflow.submitted"
    /\ state = "WAITING_APPROVAL" =>
          \E s \in 1..Len(tasks) : tasks[s].status = "PENDING" /\ tasks[s].timer = "PENDING"
    /\ state = "READY_TO_EXECUTE" =>
          \/ \E n \in 1..Len(attempts) : attempts[n].status = "PENDING"
          \/ \E i \in 1..Len(outbox) :
                /\ Coming(i)
                /\ outbox[i].type = "approval.accepted"
                /\ IsCurrent(outbox[i])
    /\ state = "EXECUTING" => \E n \in 1..Len(attempts) : attempts[n].status = "RUNNING"
    /\ state = "RETRY_WAIT" => \E n \in 1..Len(attempts) : attempts[n].status = "PENDING"
    /\ state = "RECONCILING" => attempts # <<>>

\* Its inductive form: only the handler of an event takes the event away.
SubmissionIsDue == state = "RECEIVED" =>
    \E i \in 1..Len(outbox) : i \notin inbox /\ outbox[i].type = "workflow.submitted"

ApprovalIsDue == state = "READY_TO_EXECUTE" =>
    \/ \E n \in 1..Len(attempts) : attempts[n].status = "PENDING"
    \/ /\ attempts = <<>>
       /\ \E i \in 1..Len(outbox) :
             /\ i \notin inbox
             /\ outbox[i].type = "approval.accepted"
             /\ IsCurrent(outbox[i])

AttemptIsOpen == state = "RECONCILING" => attempts # <<>>

WorkIsDue == SubmissionIsDue /\ ApprovalIsDue /\ AttemptIsOpen

DriveInv == WorkflowInv /\ EventsAreKept /\ WorkIsDue

\* No step of the execution leaves the workflow in one of the states of an event.
LEMMA ExecutionLeaves ==
    ASSUME ExecutionInv, ExecutionNext
    PROVE  /\ UNCHANGED published
           /\ \/ UNCHANGED <<state, version, tasks, attempts, outbox>>
              \/ state' \notin {"RECEIVED", "READY_TO_EXECUTE"}
<1>1. ASSUME NEW t \in Threads, ThreadStep(t)
      PROVE  /\ UNCHANGED published
             /\ \/ UNCHANGED <<state, version, tasks, attempts, outbox>>
                \/ state' \notin {"RECEIVED", "READY_TO_EXECUTE"}
  <2>1. CASE Finish(t)
    BY <2>1 DEF Finish, FinishStale, FinishSuccess, FinishRetry, FinishFailed,
                FinishUnknown, Finishes, Transition, storeVars
  <2>2. CASE ApplyReconcile(t)
    <3>1. CASE ApplyFound(t)
      <4>1. Applies(t, "found") /\ Transition("COMPLETED")
        BY <3>1 DEF ApplyFound
      <4>2. QED
        BY <4>1 DEF Applies, Transition
    <3>2. QED
      BY <2>2, <3>1 DEF ApplyReconcile, ApplyStale, ApplyAbsentRetry, ApplyGiveUp, Applies,
                        Transition, storeVars
  <2>3. CASE ~Finish(t) /\ ~ApplyReconcile(t)
    BY <1>1, <2>3 DEF ThreadStep, Claim, Send, Timeout, InjectedCrash, RecoverExpired,
                      SelectForReconcile, BeginReconcile, SkipReconcile, Lookup, LookupAbsent,
                      LookupFound, LookupUnavailable, Status, Transition, storeVars
  <2>4. QED
    BY <2>1, <2>2, <2>3
<1>2. ASSUME NEW n \in 1..Len(attempts), LeaseExpires(n)
      PROVE  UNCHANGED published /\ state' \notin {"RECEIVED", "READY_TO_EXECUTE"}
  <2>1. state = "EXECUTING"
    BY <1>2 DEF LeaseExpires, ExecutionInv, RowsAgree, ActiveExecution
  <2>2. QED
    BY <1>2, <2>1 DEF LeaseExpires
<1>3. CASE ProviderStep \/ OperatorClose \/ \E t \in Threads : LookupFails(t) \/ Crash(t)
  BY <1>3 DEF ProviderStep, PostRejected, PostNotStarted, PostReplayed, PostRefunded,
              ProviderRestore, LookupFails, Crash, OperatorClose, Transition, storeVars
<1>4. QED
  BY <1>1, <1>2, <1>3 DEF ExecutionNext, EnvironmentStep, Latest

LEMMA DeliveryFlow ==
    ASSUME WorkflowInv, [Next]_vars, lostEvents' = 0
    PROVE  /\ lostEvents = 0
           /\ published' \subseteq published \cup broker'
           /\ broker \subseteq broker' \cup inbox'
           /\ inbox \subseteq inbox'
<1>0. lostEvents \in Nat
  BY DeliveryConstants DEF WorkflowInv, TypeOK
<1>1. CASE UNCHANGED vars
  BY <1>1 DEF vars, storeVars, deliveryVars
<1>2. CASE ApprovalStep
  <2>1. UNCHANGED <<published, deliveryVars>>
    BY <1>2 DEF ApprovalStep, ApprovalNext, Approve, Reject, Escalate, Expire, DeadlinePasses
  <2>2. QED
    BY <2>1 DEF deliveryVars
<1>3. CASE ExecutionStep
  <2>1. UNCHANGED <<published, deliveryVars>>
    BY <1>3, ExecutionLeaves DEF ExecutionStep, WorkflowInv
  <2>2. QED
    BY <2>1 DEF deliveryVars
<1>4. CASE RedeliverStep
  BY <1>4 DEF RedeliverStep, Redeliver
<1>5. ASSUME NEW i \in 1..Len(outbox), EventStep(i)
      PROVE  /\ lostEvents = 0
             /\ published' \subseteq published \cup broker'
             /\ broker \subseteq broker' \cup inbox'
             /\ inbox \subseteq inbox'
  <2>1. CASE Publish(i)
    BY <2>1 DEF Publish
  <2>2. CASE PublishWithoutMark(i)
    BY <2>2 DEF PublishWithoutMark, storeVars
  <2>3. CASE ConsumerFails(i)
    BY <1>0, <2>3 DEF ConsumerFails
  <2>4. CASE ConsumeDuplicate(i)
    BY <2>4 DEF ConsumeDuplicate, storeVars
  <2>5. CASE Take(i)
    BY <2>5 DEF Take
  <2>6. QED
    BY <1>5, <2>1, <2>2, <2>3, <2>4, <2>5 DEF EventStep, Consume, ConsumeSubmitted, ConsumeAccepted,
                                              ConsumeOther
<1>6. QED
  BY <1>1, <1>2, <1>3, <1>4, <1>5 DEF Next

LEMMA EventsKeptStep ==
    ASSUME WorkflowInv, EventsAreKept, [Next]_vars
    PROVE  EventsAreKept'
<1> SUFFICES ASSUME lostEvents' = 0, NEW i \in 1..Len(outbox'), i \in published', i \notin broker'
             PROVE  i \in inbox'
  BY DEF EventsAreKept, Coming
<1>1. lostEvents = 0 /\ i \in published /\ broker \subseteq broker' \cup inbox' /\ inbox \subseteq inbox'
  BY DeliveryFlow
<1>2. i \in 1..Len(outbox)
  BY <1>1 DEF WorkflowInv, TypeOK, ExecutionTypeOK
<1>3. QED
  BY <1>1, <1>2 DEF EventsAreKept, Coming

\* A step that writes no row, and takes no event the workflow waits for.
LEMMA QuietDue ==
    ASSUME WorkIsDue, UNCHANGED <<state, version, tasks, attempts, outbox>>,
           \A i \in inbox' \ inbox :
              /\ ~(outbox[i].type = "workflow.submitted" /\ state = "RECEIVED")
              /\ ~(outbox[i].type = "approval.accepted" /\ IsCurrent(outbox[i]))
    PROVE  WorkIsDue'
<1>1. SubmissionIsDue'
  BY DEF WorkIsDue, SubmissionIsDue
<1>2. ApprovalIsDue'
  BY DEF WorkIsDue, ApprovalIsDue, IsCurrent
<1>3. AttemptIsOpen'
  BY DEF WorkIsDue, AttemptIsOpen
<1>4. QED
  BY <1>1, <1>2, <1>3 DEF WorkIsDue

LEMMA DeskDue ==
    ASSUME WorkflowInv, ApprovalStep
    PROVE  WorkIsDue'
<1>1. PICK s \in 1..Len(tasks) :
          \/ \E a \in Actors : Approve(a, s) \/ Reject(a, s)
          \/ Escalate(s)
          \/ Expire(s)
          \/ DeadlinePasses(s)
  BY DEF ApprovalStep, ApprovalNext
<1>2. tasks[s].status = "PENDING"
  BY <1>1 DEF Approve, Reject, MayDecide, Escalate, Expire, Due, DeadlinePasses
<1>3. state = "WAITING_APPROVAL" /\ attempts = <<>>
  BY <1>2, PendingIsLast
<1>4. ASSUME NEW a \in Actors, Approve(a, s) PROVE WorkIsDue'
  <2>1. /\ TypeOK
        /\ state' = "READY_TO_EXECUTE"
        /\ version' = version + 1
        /\ version' \in Nat
        /\ UNCHANGED <<attempts, inbox>>
        /\ s \in Nat
    BY <1>4, TaskFacts DEF WorkflowInv, Approve, Transition, ApprovalStep, deliveryVars
  <2> DEFINE e == [type |-> "approval.accepted", version |-> version', stage |-> s]
             k == Len(outbox) + 1
  <2>2. e \in Events /\ e.type = "approval.accepted" /\ e.version = version' /\ e.stage = s
    BY <2>1 DEF Events, EventTypes
  <2>3. outbox' = Append(outbox, e)
    BY <1>4 DEF Approve, Emit
  <2> HIDE DEF e
  <2>4. k \in 1..Len(outbox') /\ outbox'[k] = e /\ k \notin 1..Len(outbox)
    BY <2>1, <2>2, <2>3, Facts, AppendProperties DEF TypeOK
  <2>5. tasks'[s].status = "APPROVED"
    BY <1>4, <2>1, CloseEffect DEF Approve, TaskStatuses, TimerStatuses
  <2>6. k \notin inbox'
    BY <2>1, <2>4 DEF TypeOK
  <2>7. ApprovalIsDue'
    BY <1>3, <2>1, <2>2, <2>4, <2>5, <2>6 DEF ApprovalIsDue, IsCurrent
  <2>8. QED
    BY <2>1, <2>7 DEF WorkIsDue, SubmissionIsDue, AttemptIsOpen
<1>5. CASE ~\E a \in Actors : Approve(a, s)
  <2>1. state' \notin {"RECEIVED", "READY_TO_EXECUTE", "RECONCILING"}
    BY <1>1, <1>3, <1>5 DEF Reject, Escalate, Expire, DeadlinePasses, Transition
  <2>2. QED
    BY <2>1 DEF WorkIsDue, SubmissionIsDue, ApprovalIsDue, AttemptIsOpen
<1>6. QED
  BY <1>4, <1>5

LEMMA EventDue ==
    ASSUME WorkflowInv, WorkIsDue, NEW i \in 1..Len(outbox), EventStep(i)
    PROVE  WorkIsDue'
<1>1. CASE ConsumeSubmitted(i)
  <2>1. state' = "WAITING_APPROVAL"
    BY <1>1 DEF ConsumeSubmitted, PauseForApproval, Transition
  <2>2. QED
    BY <2>1 DEF WorkIsDue, SubmissionIsDue, ApprovalIsDue, AttemptIsOpen
<1>2. CASE ConsumeAccepted(i)
  <2>1. state' = "READY_TO_EXECUTE" /\ state = "READY_TO_EXECUTE"
    BY <1>2 DEF ConsumeAccepted, IsCurrent
  <2>2. \E n \in 1..Len(attempts') : attempts'[n].status = "PENDING"
    <3>1. CASE attempts = <<>>
      <4>1. attempts' = <<NewAttempt>>
        BY <1>2, <3>1 DEF ConsumeAccepted
      <4>2. Len(attempts') = 1 /\ attempts'[1].status = "PENDING"
        BY <4>1 DEF NewAttempt
      <4>3. QED
        BY <4>2
    <3>2. CASE attempts # <<>>
      BY <1>2, <2>1, <3>2 DEF ConsumeAccepted, WorkIsDue, ApprovalIsDue
    <3>3. QED
      BY <3>1, <3>2
  <2>3. QED
    BY <2>1, <2>2 DEF WorkIsDue, SubmissionIsDue, ApprovalIsDue, AttemptIsOpen
<1>3. CASE ConsumeOther(i)
  <2>1. inbox' = inbox \cup {i} /\ UNCHANGED <<state, version, tasks, attempts, outbox>>
    BY <1>3 DEF ConsumeOther, Take
  <2>2. QED
    BY <1>3, <2>1, QuietDue DEF ConsumeOther
<1>4. CASE Publish(i) \/ PublishWithoutMark(i) \/ ConsumeDuplicate(i) \/ ConsumerFails(i)
  <2>1. UNCHANGED <<state, version, tasks, attempts, outbox, inbox>>
    BY <1>4 DEF Publish, PublishWithoutMark, ConsumeDuplicate, ConsumerFails, storeVars
  <2>2. QED
    BY <2>1, QuietDue
<1>5. QED
  BY <1>1, <1>2, <1>3, <1>4 DEF EventStep, Consume

LEMMA ExecutionDue ==
    ASSUME WorkflowInv, WorkIsDue, ExecutionStep
    PROVE  WorkIsDue'
<1>1. ExecutionInv /\ ExecutionNext /\ UNCHANGED inbox
  BY DEF WorkflowInv, ExecutionStep, deliveryVars
<1>2. CASE UNCHANGED <<state, version, tasks, attempts, outbox>>
  BY <1>1, <1>2, QuietDue
<1>3. CASE state' \notin {"RECEIVED", "READY_TO_EXECUTE"}
  <2>1. AttemptIsOpen'
    <3>1. SUFFICES ASSUME state' = "RECONCILING" PROVE attempts' # <<>>
      BY DEF AttemptIsOpen
    <3>2. attempts # <<>>
      BY <1>1, <3>1, StepMoves DEF ExecutionMoves, WorkIsDue, AttemptIsOpen
    <3>3. Len(attempts') >= Len(attempts) /\ Len(attempts) \in Nat /\ Len(attempts) # 0
      <4>1. Len(attempts') >= Len(attempts)
        BY <1>1, StepKeeps DEF KeepsSettled
      <4>2. attempts \in Seq(Attempts)
        BY <1>1, Facts DEF ExecutionInv, ExecutionTypes
      <4>3. QED
        BY <3>2, <4>1, <4>2, EmptySeq
    <3>4. QED
      BY <3>3
  <2>2. QED
    BY <1>3, <2>1 DEF WorkIsDue, SubmissionIsDue, ApprovalIsDue
<1>4. QED
  BY <1>1, <1>2, <1>3, ExecutionLeaves

LEMMA DueStep ==
    ASSUME WorkflowInv, WorkIsDue, [Next]_vars
    PROVE  WorkIsDue'
<1>1. CASE UNCHANGED vars
  <2>1. UNCHANGED <<state, version, tasks, attempts, outbox, inbox>>
    BY <1>1 DEF vars, storeVars, deliveryVars
  <2>2. QED
    BY <2>1, QuietDue
<1>2. CASE RedeliverStep
  <2>1. UNCHANGED <<state, version, tasks, attempts, outbox, inbox>>
    BY <1>2 DEF RedeliverStep, Redeliver
  <2>2. QED
    BY <2>1, QuietDue
<1>3. QED
  BY <1>1, <1>2, DeskDue, EventDue, ExecutionDue DEF Next

LEMMA InitDue == Init => EventsAreKept /\ WorkIsDue
<1> SUFFICES ASSUME Init PROVE EventsAreKept /\ WorkIsDue
  OBVIOUS
<1>1. published = {} /\ inbox = {} /\ state \in {"RECEIVED", "REJECTED"}
  BY DEF Init, StoreInit, DeliveryInit
<1>2. state = "RECEIVED" => 1 \in 1..Len(outbox) /\ outbox[1].type = "workflow.submitted"
  BY DEF Init, StoreInit
<1>3. EventsAreKept
  BY <1>1 DEF EventsAreKept, Coming
<1>4. QED
  BY <1>1, <1>2, <1>3 DEF WorkIsDue, SubmissionIsDue, ApprovalIsDue, AttemptIsOpen

LEMMA DriveInvStep == DriveInv /\ [Next]_vars => DriveInv'
<1> SUFFICES ASSUME DriveInv, [Next]_vars PROVE DriveInv'
  OBVIOUS
<1>1. WorkflowInv'
  BY ApprovalInv, EventInv, RedeliverInv, ExecutionStepInv, StutterInv DEF DriveInv, Next
<1>2. QED
  BY <1>1, EventsKeptStep, DueStep DEF DriveInv

LEMMA DrivenNow == DriveInv => WorkflowIsDriven
<1> SUFFICES ASSUME DriveInv, lostEvents = 0 PROVE WorkflowIsDriven
  BY DEF WorkflowIsDriven
<1>1. /\ \A i \in 1..Len(outbox) : i \notin inbox => Coming(i)
      /\ ActiveExecution
      /\ Len(tasks) \in Nat
      /\ WaitingIsTimed
      /\ WorkIsDue
  BY TaskFacts DEF DriveInv, EventsAreKept, WorkflowInv, DeskAgrees, ExecutionInv, RowsAgree
<1>2. state = "WAITING_APPROVAL" =>
        \E s \in 1..Len(tasks) : tasks[s].status = "PENDING" /\ tasks[s].timer = "PENDING"
  BY <1>1 DEF WaitingIsTimed
<1>3. state = "RECEIVED" =>
        \E i \in 1..Len(outbox) : Coming(i) /\ outbox[i].type = "workflow.submitted"
  BY <1>1 DEF WorkIsDue, SubmissionIsDue
<1>4. state = "READY_TO_EXECUTE" =>
        \/ \E n \in 1..Len(attempts) : attempts[n].status = "PENDING"
        \/ \E i \in 1..Len(outbox) :
              /\ Coming(i)
              /\ outbox[i].type = "approval.accepted"
              /\ IsCurrent(outbox[i])
  BY <1>1 DEF WorkIsDue, ApprovalIsDue
<1>5. QED
  BY <1>1, <1>2, <1>3, <1>4 DEF WorkflowIsDriven, ActiveExecution, WorkIsDue, AttemptIsOpen

(***************************************************************************)
(* The inductive invariant behind the two theorems below: what the state   *)
(* of the workflow waits for has not been taken away from it.              *)
(***************************************************************************)
THEOREM WorkIsUnderWay == Spec => []DriveInv
<1>1. Init => DriveInv
  BY InitInv, InitDue DEF DriveInv
<1>2. QED
  BY <1>1, DriveInvStep, PTL DEF Spec

(***************************************************************************)
(* Publishing, dying between sending and marking, redelivering, consuming  *)
(* and consuming twice lose no event (publish_one, handle_event).          *)
(***************************************************************************)
THEOREM EventsAreNotForgotten == Spec => []EventsAreKept
<1>1. DriveInv => EventsAreKept
  BY DEF DriveInv
<1>2. QED
  BY <1>1, WorkIsUnderWay, PTL

(***************************************************************************)
(* The safety half of Settles: a workflow that is not at rest has an event *)
(* on its way, a pending task with its timer, or an attempt to work on.    *)
(***************************************************************************)
THEOREM WorkflowsAreNotForgotten == Spec => []WorkflowIsDriven
<1>1. QED
  BY DrivenNow, WorkIsUnderWay, PTL
=============================================================================
