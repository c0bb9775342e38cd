-------------------------- MODULE AsyncJobs_proofs --------------------------
(***************************************************************************)
(* One job of src/async-execution: its work is done in order and once, by  *)
(* one worker at a time, within its budget of attempts, it is not lost     *)
(* while it waits, and its callers get what JobContract promises, for      *)
(* every number of steps, attempts, publishers, workers and mishaps.       *)
(***************************************************************************)
EXTENDS AsyncJobs, SequenceTheorems, TLAPS

\* Who is inside an attempt finds a job that runs, or that a cancellation overtook.
ExecutorsJob == \A w \in Workers :
    pc[w] \in Attempting => job.status \in {"running", "cancel_requested", "cancelled"}

\* The cancellation is marked exactly on the jobs it moved.
MarkedIsMoved == job.cancel <=> job.status \in {"cancel_requested", "cancelled"}

\* What is performed, recorded and saved agree at n steps.
InStep(n) == Len(performed) = n /\ effects = 1..n /\ job.checkpoint = n

\* A job that waits has its work in step; an executor has it in step but between run and save.
WorkInStep ==
    /\ job.status \in {"queued", "retrying"} => InStep(job.checkpoint)
    /\ \A w \in Workers :
           /\ pc[w] \in {"check", "run", "succeed", "fail", "transient", "decide"} => InStep(step[w])
           /\ pc[w] \in {"run", "record", "save"} => step[w] < NumSteps
           /\ pc[w] = "succeed" => step[w] = NumSteps
           /\ pc[w] \in {"record", "save"} => Len(performed) = step[w] + 1 /\ job.checkpoint = step[w]
           /\ pc[w] = "record" => effects = 1..step[w]
           /\ pc[w] = "save" => effects = 1..(step[w] + 1)

\* The attempts a worker read are those of the job.
LimitIsCurrent == \A w \in Workers : pc[w] = "decide" => limit[w] = job.attempts

(***************************************************************************)
(* What will move a waiting job: a message, a row that nobody has sent     *)
(* yet, or a worker whose next step the status does not refuse.            *)
(***************************************************************************)
UnsentRow == \E i \in 1..Len(outbox) : ~outbox[i].published /\ \A p \in Publishers : sent[p] # i

Supported(places) == broker > 0 \/ UnsentRow \/ dropped > 0 \/ \E w \in Workers : pc[w] \in places

WaitingIsSupported ==
    /\ job.status = "queued" => Supported({"begin", "enqueue"})
    /\ job.status = "retrying" => Supported({"requeue", "enqueue"})

\* The inductive invariant.
JobInv ==
    /\ TypeOK
    /\ OneExecutor
    /\ ExecutorsJob
    /\ MarkedIsMoved
    /\ WorkIsDoneOnce
    /\ WorkInStep
    /\ BudgetIsKept
    /\ LimitIsCurrent
    /\ WaitingIsSupported

USE DEF Attempting, PCs, Statuses, Terminal

----------------------------------------------------------------------------
\* ALLOWED_TRANSITIONS, from the status the job has.
LEMMA MovesOf ==
    /\ Moves["queued"] = {"running", "cancel_requested"}
    /\ Moves["running"] = {"succeeded", "retrying", "cancel_requested", "failed", "dead_lettered"}
    /\ Moves["retrying"] = {"queued", "cancel_requested", "dead_lettered"}
    /\ Moves["cancel_requested"] = {"cancelled"}
  BY DEF Moves

\* Which statuses let a job move to the next one.
LEMMA CanMoveFrom ==
    ASSUME job.status \in Statuses
    PROVE  /\ CanMove("cancelled") <=> job.status = "cancel_requested"
           /\ CanMove("queued") <=> job.status = "retrying"
           /\ CanMove("succeeded") <=> job.status = "running"
           /\ CanMove("failed") <=> job.status = "running"
           /\ CanMove("retrying") <=> job.status = "running"
           /\ CanMove("dead_lettered") <=> job.status \in {"running", "retrying"}
           /\ CanMove("cancel_requested") <=> job.status \in {"queued", "running", "retrying"}
  BY MovesOf DEF CanMove

\* The fields of the job row.
LEMMA JobFields ==
    ASSUME JobInv
    PROVE  /\ job.status \in Statuses /\ job.attempts \in 0..MaxAttempts
           /\ job.checkpoint \in 0..NumSteps /\ job.cancel \in BOOLEAN
  BY DEF JobInv, TypeOK

\* The job as it is created, with its first outbox row.
LEMMA JobInit_Inv == Init => JobInv
<1> SUFFICES ASSUME Init PROVE JobInv
  OBVIOUS
<1> USE DEF Init, StoreInit, OutboxInit, WorkerInit
<1>1. TypeOK
  <2>1. outbox \in Seq(Rows) /\ Len(outbox) = 1 /\ outbox[1] = NewRow(TRUE)
    BY DEF NewRow, Rows
  <2>2. job \in [status : Statuses, attempts : 0..MaxAttempts, checkpoint : 0..NumSteps, cancel : BOOLEAN]
    BY StoreConstants
  <2>3. batch \in [Publishers -> SUBSET (1..Len(outbox))] /\ sent \in [Publishers -> {NoRow} \cup 1..Len(outbox)]
        /\ broker \in Nat /\ mishaps \in 0..MaxMishaps /\ effects \subseteq 1..NumSteps
    BY OutboxConstants DEF NoRow
  <2>4. pc \in [Workers -> PCs] /\ step \in [Workers -> 0..NumSteps] /\ limit \in [Workers -> 0..MaxAttempts]
    BY StoreConstants
  <2>5. prior \in [Workers -> SUBSET (1..NumSteps)] /\ performed \in Seq(1..NumSteps) /\ dropped \in 0..MaxDropped
    BY WorkerConstants
  <2> QED
    BY <2>1, <2>2, <2>3, <2>4, <2>5 DEF TypeOK
<1>2. OneExecutor /\ ExecutorsJob /\ MarkedIsMoved /\ BudgetIsKept /\ LimitIsCurrent
  BY StoreConstants DEF OneExecutor, ExecutorsJob, MarkedIsMoved, BudgetIsKept, LimitIsCurrent
<1>3. WorkIsDoneOnce /\ WorkInStep
  BY StoreConstants DEF WorkIsDoneOnce, WorkInStep, InStep
<1>4. WaitingIsSupported
  BY DEF WaitingIsSupported, Supported, UnsentRow, NewRow, NoRow
<1> QED
  BY <1>1, <1>2, <1>3, <1>4 DEF JobInv

----------------------------------------------------------------------------
\* Delivery: the part of the type invariant it writes.
OutboxTypes ==
    /\ outbox \in Seq(Rows)
    /\ batch \in [Publishers -> SUBSET (1..Len(outbox))]
    /\ sent \in [Publishers -> {NoRow} \cup 1..Len(outbox)]
    /\ broker \in Nat
    /\ mishaps \in 0..MaxMishaps

LEMMA OutboxTyped == JobInv => OutboxTypes
  BY DEF JobInv, TypeOK, OutboxTypes

\* A sequence of rows is a function, and rewriting its rows keeps its length.
LEMMA RowsRewritten ==
    ASSUME OutboxTypes
    PROVE  /\ outbox \in [1..Len(outbox) -> Rows]
           /\ \A f \in [1..Len(outbox) -> Rows] : f \in Seq(Rows) /\ Len(f) = Len(outbox)
  BY SeqDef, LenProperties DEF OutboxTypes

(***************************************************************************)
(* A step of delivery that takes no message back and leaves unsent rows    *)
(* unpublished.                                                            *)
(***************************************************************************)
LEMMA DeliveryFrame ==
    ASSUME JobInv, UNCHANGED <<job, effects, workerVars>>, OutboxTypes',
           broker > 0 \/ UnsentRow => broker' > 0 \/ UnsentRow'
    PROVE  JobInv'
<1> USE DEF workerVars
<1>1. TypeOK'
  BY DEF JobInv, TypeOK, OutboxTypes
<1>2. OneExecutor' /\ ExecutorsJob' /\ MarkedIsMoved' /\ BudgetIsKept' /\ LimitIsCurrent'
  BY DEF JobInv, OneExecutor, ExecutorsJob, MarkedIsMoved, BudgetIsKept, LimitIsCurrent
<1>3. WorkIsDoneOnce' /\ WorkInStep'
  BY DEF JobInv, WorkIsDoneOnce, WorkInStep, InStep
<1>4. WaitingIsSupported'
  BY DEF JobInv, WaitingIsSupported, Supported
<1> QED
  BY <1>1, <1>2, <1>3, <1>4 DEF JobInv

\* Sending aside, the support of delivery stays when unsent rows stay unpublished.
LEMMA UnsentStays ==
    ASSUME OutboxTypes, OutboxTypes', Len(outbox') = Len(outbox), broker' = broker,
           \A p \in Publishers : sent'[p] \in {sent[p], NoRow},
           \A i \in 1..Len(outbox) : ~outbox[i].published /\ (\A p \in Publishers : sent[p] # i)
                                        => ~outbox'[i].published
    PROVE  broker > 0 \/ UnsentRow => broker' > 0 \/ UnsentRow'
<1>1. ASSUME NEW i \in 1..Len(outbox), ~outbox[i].published, \A p \in Publishers : sent[p] # i
      PROVE  UnsentRow'
  <2>1. ~outbox'[i].published /\ i \in 1..Len(outbox')
    BY <1>1
  <2>2. \A p \in Publishers : sent'[p] # i
    BY <1>1 DEF NoRow
  <2> QED
    BY <2>1, <2>2 DEF UnsentRow
<1> QED
  BY <1>1 DEF UnsentRow

LEMMA ClaimKeeps == ASSUME JobInv, NEW p \in Publishers, Claim(p), UNCHANGED workerVars PROVE JobInv'
<1>0. OutboxTypes
  BY OutboxTyped
<1>1. PICK rows \in SUBSET (1..Len(outbox)) :
          /\ batch' = [batch EXCEPT ![p] = rows]
          /\ outbox' = [i \in 1..Len(outbox) |->
                           IF i \in rows THEN [outbox[i] EXCEPT !.claim = p, !.stale = FALSE] ELSE outbox[i]]
  BY DEF Claim
<1>2. UNCHANGED <<job, effects, sent, broker, mishaps>>
  BY DEF Claim
<1>3. \A i \in 1..Len(outbox) : outbox'[i] \in Rows /\ outbox'[i].published = outbox[i].published
  BY <1>0, <1>1, RowsRewritten DEF Rows
<1>4. outbox' \in Seq(Rows) /\ Len(outbox') = Len(outbox)
  BY <1>0, <1>1, <1>3, RowsRewritten
<1>5. OutboxTypes'
  BY <1>0, <1>1, <1>2, <1>4 DEF OutboxTypes
<1> QED
  BY <1>0, <1>2, <1>3, <1>4, <1>5, UnsentStays, DeliveryFrame

LEMMA SendKeeps == ASSUME JobInv, NEW p \in Publishers, Send(p), UNCHANGED workerVars PROVE JobInv'
<1>0. OutboxTypes
  BY OutboxTyped
<1>1. PICK i \in batch[p] : sent' = [sent EXCEPT ![p] = i]
  BY DEF Send
<1>2. UNCHANGED <<jobVars, batch, mishaps>> /\ broker' = broker + 1
  BY DEF Send
<1>3. OutboxTypes' /\ broker' > 0
  BY <1>0, <1>1, <1>2 DEF OutboxTypes, jobVars
<1> QED
  BY <1>2, <1>3, DeliveryFrame DEF jobVars

\* One row is rewritten: to a row that is published only if it was, or was sent.
LEMMA RowKeeps ==
    ASSUME JobInv, NEW i \in 1..Len(outbox), NEW row \in Rows,
           outbox' = [outbox EXCEPT ![i] = row],
           row.published => outbox[i].published \/ \E p \in Publishers : sent[p] = i,
           UNCHANGED <<job, effects, broker, workerVars>>, mishaps' \in 0..MaxMishaps,
           batch' \in [Publishers -> SUBSET (1..Len(outbox))],
           sent' \in [Publishers -> {NoRow} \cup 1..Len(outbox)],
           \A p \in Publishers : sent'[p] \in {sent[p], NoRow}
    PROVE  JobInv'
<1>0. OutboxTypes
  BY OutboxTyped
<1>1. /\ outbox' \in Seq(Rows) /\ Len(outbox') = Len(outbox)
      /\ outbox'[i] = row /\ \A j \in 1..Len(outbox) \ {i} : outbox'[j] = outbox[j]
  BY <1>0, RowsRewritten
<1>2. OutboxTypes'
  BY <1>0, <1>1 DEF OutboxTypes
<1> QED
  BY <1>0, <1>1, <1>2, UnsentStays, DeliveryFrame

\* A batch is left, with the row that was sent; no row is rewritten.
LEMMA AbandonKeeps ==
    ASSUME JobInv, NEW p \in Publishers, Abandon(p), UNCHANGED <<jobVars, broker, workerVars>>,
           mishaps' \in 0..MaxMishaps
    PROVE  JobInv'
<1>0. OutboxTypes
  BY OutboxTyped
<1>1. OutboxTypes' /\ \A q \in Publishers : sent'[q] \in {sent[q], NoRow}
  BY <1>0 DEF OutboxTypes, Abandon, jobVars
<1> QED
  BY <1>0, <1>1, UnsentStays, DeliveryFrame DEF jobVars

\* What a mishap counts.
LEMMA MishapCounted == ASSUME JobInv, Mishap PROVE mishaps' \in 0..MaxMishaps
  BY OutboxConstants DEF JobInv, TypeOK, Mishap

LEMMA MarkKeeps == ASSUME JobInv, NEW p \in Publishers, Mark(p), UNCHANGED workerVars PROVE JobInv'
<1>0. OutboxTypes
  BY OutboxTyped
<1> DEFINE i == sent[p]
           row == [outbox[i] EXCEPT !.published = TRUE, !.claim = NobodyClaims, !.stale = FALSE]
<1>1. i \in 1..Len(outbox) /\ outbox[i] \in Rows
  BY <1>0, RowsRewritten DEF Mark, OutboxTypes
<1>2. row \in Rows
  BY <1>1 DEF Rows
<1>3. outbox' = [outbox EXCEPT ![i] = row]
  BY <1>0, <1>1, RowsRewritten DEF Mark, Rows
<1>4. /\ UNCHANGED <<job, effects, broker, mishaps>>
      /\ batch' \in [Publishers -> SUBSET (1..Len(outbox))]
      /\ sent' \in [Publishers -> {NoRow} \cup 1..Len(outbox)]
      /\ \A q \in Publishers : sent'[q] \in {sent[q], NoRow}
  BY <1>0 DEF Mark, OutboxTypes
<1>5. mishaps' \in 0..MaxMishaps
  BY <1>0, <1>4 DEF OutboxTypes
<1> HIDE DEF row
<1> QED
  BY <1>1, <1>2, <1>3, <1>4, <1>5, RowKeeps

LEMMA MarkLostKeeps == ASSUME JobInv, NEW p \in Publishers, MarkLost(p), UNCHANGED workerVars PROVE JobInv'
<1>1. Abandon(p) /\ UNCHANGED <<jobVars, broker, mishaps>>
  BY DEF MarkLost
<1>2. mishaps' \in 0..MaxMishaps
  BY <1>1, OutboxTyped DEF OutboxTypes
<1> QED
  BY <1>1, <1>2, AbandonKeeps

LEMMA PublishFailsKeeps == ASSUME JobInv, NEW p \in Publishers, PublishFails(p), UNCHANGED workerVars PROVE JobInv'
<1>0. OutboxTypes
  BY OutboxTyped
<1>1. Abandon(p) /\ UNCHANGED <<job, effects, broker>> /\ mishaps' \in 0..MaxMishaps
  BY MishapCounted DEF PublishFails
<1>2. PICK i \in IF sent[p] = NoRow THEN batch[p] ELSE {sent[p]} :
          outbox' = IF Claims(p, i) THEN [outbox EXCEPT ![i].claim = NobodyClaims, ![i].stale = FALSE] ELSE outbox
  BY DEF PublishFails
<1>3. CASE Claims(p, i)
  <2> DEFINE row == [outbox[i] EXCEPT !.claim = NobodyClaims, !.stale = FALSE]
  <2>1. i \in 1..Len(outbox) /\ outbox[i] \in Rows
    BY <1>0, <1>2, RowsRewritten DEF OutboxTypes, NoRow
  <2>2. row \in Rows /\ row.published = outbox[i].published
    BY <2>1 DEF Rows
  <2>3. outbox' = [outbox EXCEPT ![i] = row]
    BY <1>0, <1>2, <1>3, <2>1, RowsRewritten DEF Rows
  <2>4. /\ batch' \in [Publishers -> SUBSET (1..Len(outbox))]
        /\ sent' \in [Publishers -> {NoRow} \cup 1..Len(outbox)]
        /\ \A q \in Publishers : sent'[q] \in {sent[q], NoRow}
    BY <1>0, <1>1 DEF Abandon, OutboxTypes
  <2> HIDE DEF row
  <2> QED
    BY <1>1, <2>1, <2>2, <2>3, <2>4, RowKeeps
<1>4. CASE ~Claims(p, i)
  BY <1>1, <1>2, <1>4, AbandonKeeps DEF jobVars
<1> QED
  BY <1>3, <1>4

LEMMA PublisherDiesKeeps == ASSUME JobInv, NEW p \in Publishers, PublisherDies(p), UNCHANGED workerVars PROVE JobInv'
  BY MishapCounted, AbandonKeeps DEF PublisherDies

LEMMA RetryComesDueKeeps ==
    ASSUME JobInv, NEW i \in 1..Len(outbox), RetryComesDue(i), UNCHANGED workerVars PROVE JobInv'
<1>0. OutboxTypes
  BY OutboxTyped
<1> DEFINE row == [outbox[i] EXCEPT !.due = TRUE]
<1>1. row \in Rows /\ row.published = outbox[i].published
  BY <1>0, RowsRewritten DEF Rows
<1>2. outbox' = [outbox EXCEPT ![i] = row] /\ UNCHANGED <<job, effects, outboxVars>>
  BY DEF RetryComesDue
<1> HIDE DEF row
<1> QED
  BY <1>0, <1>1, <1>2, RowKeeps DEF outboxVars, OutboxTypes

LEMMA ClaimTimesOutKeeps ==
    ASSUME JobInv, NEW i \in 1..Len(outbox), ClaimTimesOut(i), UNCHANGED workerVars PROVE JobInv'
<1>0. OutboxTypes
  BY OutboxTyped
<1> DEFINE row == [outbox[i] EXCEPT !.stale = TRUE]
<1>1. row \in Rows /\ row.published = outbox[i].published
  BY <1>0, RowsRewritten DEF Rows
<1>2. outbox' = [outbox EXCEPT ![i] = row] /\ UNCHANGED <<job, effects, batch, sent, broker>>
  BY DEF ClaimTimesOut
<1>3. mishaps' \in 0..MaxMishaps
  BY <1>0, MishapCounted DEF ClaimTimesOut, OutboxTypes
<1> HIDE DEF row
<1> QED
  BY <1>0, <1>1, <1>2, <1>3, RowKeeps DEF OutboxTypes

\* No step of the delivery breaks the invariant.
LEMMA DeliverKeeps == ASSUME JobInv, Deliver PROVE JobInv'
<1>1. PublishNext /\ UNCHANGED workerVars
  BY DEF Deliver
<1> QED
  BY <1>1, ClaimKeeps, SendKeeps, MarkKeeps, MarkLostKeeps, PublishFailsKeeps, PublisherDiesKeeps,
     RetryComesDueKeeps, ClaimTimesOutKeeps
  DEF PublishNext, PublisherStep

----------------------------------------------------------------------------
\* The workers: the parts of the type invariant they write.
WorkerTypes ==
    /\ pc \in [Workers -> PCs]
    /\ step \in [Workers -> 0..NumSteps]
    /\ limit \in [Workers -> 0..MaxAttempts]
    /\ prior \in [Workers -> SUBSET (1..NumSteps)]
    /\ performed \in Seq(1..NumSteps)
    /\ dropped \in 0..MaxDropped

RowTypes ==
    /\ job \in [status : Statuses, attempts : 0..MaxAttempts, checkpoint : 0..NumSteps, cancel : BOOLEAN]
    /\ effects \subseteq 1..NumSteps

LEMMA TypeParts == TypeOK <=> OutboxTypes /\ WorkerTypes /\ RowTypes
  BY DEF TypeOK, OutboxTypes, WorkerTypes, RowTypes

\* What the steps of a worker have to keep besides types and support.
WorkInv ==
    OneExecutor /\ ExecutorsJob /\ MarkedIsMoved /\ WorkIsDoneOnce /\ WorkInStep /\ BudgetIsKept /\ LimitIsCurrent

LEMMA JobInvParts ==
    /\ JobInv <=> OutboxTypes /\ WorkerTypes /\ RowTypes /\ WorkInv /\ WaitingIsSupported
    /\ (JobInv <=> OutboxTypes /\ WorkerTypes /\ RowTypes /\ WorkInv /\ WaitingIsSupported)'
  BY DEF JobInv, WorkInv, TypeOK, OutboxTypes, WorkerTypes, RowTypes

\* A worker outside an attempt, where it goes, while the job stays as it is.
LEMMA OutsideKeeps ==
    ASSUME JobInv, NEW w \in Workers, NEW place \in PCs \ Attempting, GoTo(w, place),
           UNCHANGED <<job, effects, performed>>,
           \A v \in Workers \ {w} : step'[v] = step[v] /\ limit'[v] = limit[v]
    PROVE  WorkInv'
<1>1. pc'[w] = place /\ \A v \in Workers \ {w} : pc'[v] = pc[v]
  BY JobInvParts DEF WorkerTypes, GoTo
<1>2. OneExecutor' /\ ExecutorsJob' /\ MarkedIsMoved' /\ BudgetIsKept'
  BY <1>1 DEF JobInv, OneExecutor, ExecutorsJob, MarkedIsMoved, BudgetIsKept
<1>3. WorkIsDoneOnce' /\ LimitIsCurrent'
  BY <1>1 DEF JobInv, WorkIsDoneOnce, LimitIsCurrent
<1>4. WorkInStep'
  <2>1. job.status \in {"queued", "retrying"} => InStep(job.checkpoint)
    BY DEF JobInv, WorkInStep
  <2>2. ASSUME NEW v \in Workers
        PROVE  /\ pc'[v] \in {"check", "run", "succeed", "fail", "transient", "decide"} => InStep(step'[v])
               /\ pc'[v] \in {"run", "record", "save"} => step'[v] < NumSteps
               /\ pc'[v] = "succeed" => step'[v] = NumSteps
               /\ pc'[v] \in {"record", "save"} => Len(performed) = step'[v] + 1 /\ job.checkpoint = step'[v]
               /\ pc'[v] = "record" => effects = 1..step'[v]
               /\ pc'[v] = "save" => effects = 1..(step'[v] + 1)
    <3>1. CASE v = w
      BY <1>1, <3>1
    <3>2. CASE v # w
      BY <1>1, <3>2 DEF JobInv, WorkInStep
    <3> QED
      BY <3>1, <3>2
  <2> QED
    BY <2>1, <2>2 DEF WorkInStep, InStep
<1> QED
  BY <1>2, <1>3, <1>4 DEF WorkInv

\* process ends, and leaves the job as it is.
LEMMA ReturnKeeps ==
    ASSUME JobInv, NEW w \in Workers, Return(w), UNCHANGED <<job, effects, performed>>, dropped' \in 0..MaxDropped
    PROVE  WorkInv' /\ WorkerTypes' /\ RowTypes'
<1>1. GoTo(w, "idle") /\ "idle" \in PCs \ Attempting
  BY DEF Return
<1>2. \A v \in Workers \ {w} : step'[v] = step[v] /\ limit'[v] = limit[v]
  BY JobInvParts DEF Return, WorkerTypes
<1>3. WorkInv'
  BY <1>1, <1>2, OutsideKeeps
<1>4. WorkerTypes' /\ RowTypes'
  BY JobInvParts, StoreConstants DEF WorkerTypes, RowTypes, Return, GoTo
<1> QED
  BY <1>3, <1>4

\* Delivery is untouched, and the job keeps its status: support is lost only with this worker.
LEMMA SupportStays ==
    ASSUME JobInv, NEW w \in Workers, NEW place \in PCs, GoTo(w, place), UNCHANGED <<outbox, outboxVars, dropped>>,
           job'.status = job.status,
           job.status = "queued" => pc[w] \notin {"begin", "enqueue"},
           job.status = "retrying" => pc[w] \notin {"requeue", "enqueue"}
    PROVE  WaitingIsSupported'
<1>1. \A v \in Workers \ {w} : pc'[v] = pc[v]
  BY JobInvParts DEF WorkerTypes, GoTo
<1>2. ASSUME NEW places, Supported(places), pc[w] \notin places PROVE Supported(places)'
  <2>1. UnsentRow => UnsentRow'
    BY DEF UnsentRow, outboxVars
  <2>2. (\E v \in Workers : pc[v] \in places) => \E v \in Workers : pc'[v] \in places
    BY <1>1, <1>2
  <2> QED
    BY <1>2, <2>1, <2>2 DEF Supported, outboxVars
<1>3. job.status = "queued" => Supported({"begin", "enqueue"})'
  BY <1>2 DEF JobInv, WaitingIsSupported
<1>4. job.status = "retrying" => Supported({"requeue", "enqueue"})'
  BY <1>2 DEF JobInv, WaitingIsSupported
<1> QED
  BY <1>3, <1>4 DEF WaitingIsSupported

\* Delivery is untouched.
LEMMA OutboxStays == ASSUME JobInv, UNCHANGED <<outbox, outboxVars>> PROVE OutboxTypes'
  BY JobInvParts DEF OutboxTypes, outboxVars

\* A worker ends whose step the job refused.
LEMMA RefusedKeeps ==
    ASSUME JobInv, NEW w \in Workers, Return(w), UNCHANGED <<job, effects, performed, outbox, outboxVars, dropped>>,
           job.status = "queued" => pc[w] \notin {"begin", "enqueue"},
           job.status = "retrying" => pc[w] \notin {"requeue", "enqueue"}
    PROVE  JobInv'
<1>1. dropped' \in 0..MaxDropped
  BY JobInvParts DEF WorkerTypes
<1>2. WorkInv' /\ WorkerTypes' /\ RowTypes'
  BY <1>1, ReturnKeeps
<1>3. WaitingIsSupported'
  BY SupportStays DEF Return
<1> QED
  BY <1>2, <1>3, OutboxStays, JobInvParts

----------------------------------------------------------------------------
\* What a transition does to the job.
LEMMA Transitioned ==
    ASSUME JobInv, NEW next \in Statuses, Transition(next), UNCHANGED effects
    PROVE  /\ job'.status = next /\ job'.attempts = job.attempts /\ job'.checkpoint = job.checkpoint
           /\ job'.cancel = (job.cancel \/ next = "cancel_requested")
           /\ RowTypes' /\ CanMove(next)
  BY JobInvParts DEF Transition, RowTypes

\* An action moves the job and leaves everything else of the rows alone.
LEMMA MovedKeeps ==
    ASSUME JobInv, NEW w \in Workers, NEW next \in Terminal, Transition(next), Return(w),
           UNCHANGED <<effects, performed, outbox, outboxVars, dropped>>,
           next # "cancelled" => pc[w] \in Attempting,
           next = "dead_lettered" => job.attempts = MaxAttempts
    PROVE  JobInv'
<1>1. /\ job'.status = next /\ job'.attempts = job.attempts /\ job'.checkpoint = job.checkpoint
      /\ job'.cancel = (job.cancel \/ next = "cancel_requested")
      /\ RowTypes' /\ CanMove(next)
  BY Transitioned
<1>2. job.status \in Statuses
  BY JobFields
<1>3. next = "cancelled" => job.status = "cancel_requested"
  BY <1>1, <1>2, CanMoveFrom
<1>4. next # "cancelled" => job.status = "running"
  <2>1. pc[w] \in Attempting => job.status \in {"running", "cancel_requested", "cancelled"}
    BY DEF JobInv, ExecutorsJob
  <2> QED
    BY <1>1, <1>2, <2>1, CanMoveFrom
<1>5. pc'[w] = "idle" /\ \A v \in Workers \ {w} : pc'[v] = pc[v] /\ step'[v] = step[v] /\ limit'[v] = limit[v]
  BY JobInvParts DEF WorkerTypes, Return, GoTo
<1>6. WorkerTypes'
  BY JobInvParts, StoreConstants DEF WorkerTypes, Return, GoTo
<1>7. OneExecutor'
  BY <1>5 DEF JobInv, OneExecutor
<1>8. ExecutorsJob'
  BY <1>1, <1>5 DEF JobInv, OneExecutor, ExecutorsJob
<1>9. MarkedIsMoved' /\ BudgetIsKept'
  BY <1>1, <1>3, <1>4 DEF JobInv, MarkedIsMoved, BudgetIsKept
<1>10. WorkIsDoneOnce' /\ LimitIsCurrent'
  BY <1>1, <1>5 DEF JobInv, WorkIsDoneOnce, LimitIsCurrent
<1>11. WorkInStep'
  BY <1>1, <1>5 DEF JobInv, WorkInStep, InStep
<1>12. WaitingIsSupported'
  BY <1>1 DEF WaitingIsSupported
<1> QED
  BY <1>1, <1>6, <1>7, <1>8, <1>9, <1>10, <1>11, <1>12, OutboxStays, JobInvParts DEF WorkInv

LEMMA CancelKeeps == ASSUME JobInv, NEW w \in Workers, Cancel(w) PROVE JobInv'
<1>1. pc[w] = "cancel" /\ MoveAnd(w, "cancelled", "idle") /\ UNCHANGED <<effects, outbox, outboxVars, performed, dropped>>
  BY DEF Cancel
<1>2. CASE CanMove("cancelled")
  BY <1>1, <1>2, MovedKeeps DEF MoveAnd
<1>3. CASE ~CanMove("cancelled")
  BY <1>1, <1>3, RefusedKeeps DEF MoveAnd
<1> QED
  BY <1>2, <1>3

LEMMA SucceedKeeps == ASSUME JobInv, NEW w \in Workers, Succeed(w) PROVE JobInv'
<1>1. pc[w] = "succeed" /\ MoveAnd(w, "succeeded", "idle") /\ UNCHANGED <<effects, outbox, outboxVars, performed, dropped>>
  BY DEF Succeed
<1>2. CASE CanMove("succeeded")
  BY <1>1, <1>2, MovedKeeps DEF MoveAnd
<1>3. CASE ~CanMove("succeeded")
  BY <1>1, <1>3, RefusedKeeps DEF MoveAnd
<1> QED
  BY <1>2, <1>3

LEMMA FailKeeps == ASSUME JobInv, NEW w \in Workers, Fail(w) PROVE JobInv'
<1>1. pc[w] = "fail" /\ MoveAnd(w, "failed", "idle") /\ UNCHANGED <<effects, outbox, outboxVars, performed, dropped>>
  BY DEF Fail
<1>2. CASE CanMove("failed")
  BY <1>1, <1>2, MovedKeeps DEF MoveAnd
<1>3. CASE ~CanMove("failed")
  BY <1>1, <1>3, RefusedKeeps DEF MoveAnd
<1> QED
  BY <1>2, <1>3

\* The attempts are used up when the job is given up: the worker read them under its own attempt.
LEMMA DeadLetterKeeps == ASSUME JobInv, NEW w \in Workers, DeadLetter(w) PROVE JobInv'
<1>1. /\ pc[w] = "decide" /\ limit[w] >= MaxAttempts /\ MoveAnd(w, "dead_lettered", "idle")
      /\ UNCHANGED <<effects, outbox, outboxVars, performed, dropped>>
  BY DEF DeadLetter, Exhausted
<1>2. job.attempts = MaxAttempts
  BY <1>1, JobFields, StoreConstants DEF JobInv, LimitIsCurrent
<1>3. CASE CanMove("dead_lettered")
  BY <1>1, <1>2, <1>3, MovedKeeps DEF MoveAnd
<1>4. CASE ~CanMove("dead_lettered")
  BY <1>1, <1>4, RefusedKeeps DEF MoveAnd
<1> QED
  BY <1>3, <1>4

\* A waiting job goes from one worker's hands into another state that is supported by it.
LEMMA RequeueKeeps == ASSUME JobInv, NEW w \in Workers, Requeue(w) PROVE JobInv'
<1>1. pc[w] = "requeue" /\ MoveAnd(w, "queued", "begin") /\ UNCHANGED <<effects, outbox, outboxVars, performed, dropped>>
  BY DEF Requeue
<1>2. job.status \in Statuses
  BY JobFields
<1>3. CASE ~CanMove("queued")
  BY <1>1, <1>2, <1>3, CanMoveFrom, RefusedKeeps DEF MoveAnd
<1>4. CASE CanMove("queued")
  <2>1. Transition("queued") /\ GoTo(w, "begin") /\ UNCHANGED <<step, limit, prior>>
    BY <1>1, <1>4 DEF MoveAnd
  <2>2. job'.status = "queued" /\ job'.attempts = job.attempts /\ job'.checkpoint = job.checkpoint
        /\ job'.cancel = job.cancel /\ RowTypes' /\ job.status = "retrying"
    BY <1>1, <1>2, <1>4, <2>1, Transitioned, CanMoveFrom, JobFields
  <2>3. pc'[w] = "begin" /\ \A v \in Workers \ {w} : pc'[v] = pc[v]
    BY <2>1, JobInvParts DEF WorkerTypes, GoTo
  <2>4. WorkerTypes'
    BY <1>1, <2>1, JobInvParts DEF WorkerTypes, GoTo
  <2>5. \A v \in Workers : pc[v] \notin Attempting
    BY <2>2 DEF JobInv, ExecutorsJob
  <2>6. OneExecutor' /\ ExecutorsJob' /\ LimitIsCurrent'
    BY <2>3, <2>5 DEF OneExecutor, ExecutorsJob, LimitIsCurrent
  <2>7. MarkedIsMoved' /\ BudgetIsKept' /\ WorkIsDoneOnce'
    BY <1>1, <2>2 DEF JobInv, MarkedIsMoved, BudgetIsKept, WorkIsDoneOnce
  <2>8. WorkInStep'
    BY <1>1, <2>2, <2>3, <2>5 DEF JobInv, WorkInStep, InStep
  <2>9. WaitingIsSupported'
    BY <2>2, <2>3 DEF WaitingIsSupported, Supported
  <2> QED
    BY <1>1, <2>2, <2>4, <2>6, <2>7, <2>8, <2>9, OutboxStays, JobInvParts DEF WorkInv
<1> QED
  BY <1>3, <1>4

\* An attempt begins only on a queued job, on which nobody works.
LEMMA BeginKeeps == ASSUME JobInv, NEW w \in Workers, Begin(w) PROVE JobInv'
<1>1. pc[w] = "begin" /\ UNCHANGED <<effects, outbox, outboxVars, performed, dropped>>
  BY DEF Begin
<1>2. CASE ~MayBegin
  BY <1>1, <1>2, RefusedKeeps DEF Begin, MayBegin
<1>3. CASE MayBegin
  <2>1. /\ job.status = "queued" /\ job' = [job EXCEPT !.status = "running", !.attempts = @ + 1]
        /\ GoTo(w, "check") /\ step' = [step EXCEPT ![w] = job.checkpoint] /\ UNCHANGED <<limit, prior>>
    BY <1>3 DEF Begin, MayBegin, BeginAttempt
  <2>2. job.attempts < MaxAttempts /\ InStep(job.checkpoint) /\ ~job.cancel
    BY <2>1, JobFields DEF JobInv, BudgetIsKept, WorkInStep, MarkedIsMoved
  <2>3. /\ job'.status = "running" /\ job'.attempts = job.attempts + 1 /\ job'.checkpoint = job.checkpoint
        /\ job'.cancel = job.cancel /\ RowTypes'
    <3>1. job.attempts + 1 \in 0..MaxAttempts
      BY <2>2, JobFields, StoreConstants
    <3>2. RowTypes
      BY JobInvParts
    <3> QED
      BY <1>1, <2>1, <3>1, <3>2 DEF RowTypes
  <2>4. /\ pc'[w] = "check" /\ step'[w] = job.checkpoint
        /\ \A v \in Workers \ {w} : pc'[v] = pc[v] /\ step'[v] = step[v]
    BY <2>1, JobInvParts DEF WorkerTypes, GoTo
  <2>5. WorkerTypes'
    BY <1>1, <2>1, JobFields, JobInvParts DEF WorkerTypes, GoTo
  <2>6. \A v \in Workers : pc[v] \notin Attempting
    BY <2>1 DEF JobInv, ExecutorsJob
  <2>7. OneExecutor' /\ ExecutorsJob' /\ LimitIsCurrent'
    BY <2>3, <2>4, <2>6 DEF OneExecutor, ExecutorsJob, LimitIsCurrent
  <2>8. MarkedIsMoved' /\ BudgetIsKept' /\ WorkIsDoneOnce'
    BY <1>1, <2>2, <2>3 DEF JobInv, MarkedIsMoved, BudgetIsKept, WorkIsDoneOnce
  <2>9. WorkInStep'
    BY <1>1, <2>2, <2>3, <2>4, <2>6 DEF WorkInStep, InStep
  <2>10. WaitingIsSupported'
    BY <2>3 DEF WaitingIsSupported
  <2> QED
    BY <1>1, <2>3, <2>5, <2>7, <2>8, <2>9, <2>10, OutboxStays, JobInvParts DEF WorkInv
<1> QED
  BY <1>2, <1>3

----------------------------------------------------------------------------
\* What the work of an executor at a place looks like.
InPlace(place, n) ==
    /\ place \in {"check", "run", "succeed", "fail", "transient", "decide"} => InStep(n)
    /\ place \in {"run", "record", "save"} => n < NumSteps
    /\ place = "succeed" => n = NumSteps
    /\ place \in {"record", "save"} => Len(performed) = n + 1 /\ job.checkpoint = n
    /\ place = "record" => effects = 1..n
    /\ place = "save" => effects = 1..(n + 1)

LEMMA PlaceOf == ASSUME JobInv, NEW w \in Workers PROVE InPlace(pc[w], step[w])
  BY DEF JobInv, WorkInStep, InPlace

(***************************************************************************)
(* The executor goes on within its attempt: nobody else is in one, so only *)
(* its own work has to be looked at.                                       *)
(***************************************************************************)
LEMMA ExecutorKeeps ==
    ASSUME JobInv, NEW w \in Workers, pc[w] \in Attempting, NEW place \in Attempting, GoTo(w, place),
           UNCHANGED <<outbox, outboxVars, dropped>>, WorkerTypes', RowTypes',
           job'.status = job.status, job'.cancel = job.cancel, job'.attempts = job.attempts,
           WorkIsDoneOnce', InPlace(place, step[w])', place = "decide" => limit'[w] = job.attempts
    PROVE  JobInv'
<1>1. pc'[w] = place /\ \A v \in Workers \ {w} : pc'[v] = pc[v] /\ pc[v] \notin Attempting
  BY JobInvParts DEF WorkerTypes, GoTo, WorkInv, OneExecutor
<1>2. job.status \in {"running", "cancel_requested", "cancelled"}
  BY DEF JobInv, ExecutorsJob
<1>3. OneExecutor' /\ ExecutorsJob' /\ MarkedIsMoved' /\ BudgetIsKept'
  BY <1>1, <1>2 DEF JobInv, OneExecutor, ExecutorsJob, MarkedIsMoved, BudgetIsKept
<1>4. LimitIsCurrent'
  BY <1>1 DEF LimitIsCurrent
<1>5. WorkInStep'
  BY <1>1, <1>2 DEF WorkInStep, InPlace, InStep
<1>6. WaitingIsSupported'
  BY <1>2 DEF WaitingIsSupported
<1> QED
  BY <1>3, <1>4, <1>5, <1>6, OutboxStays, JobInvParts DEF WorkInv

LEMMA CheckKeeps == ASSUME JobInv, NEW w \in Workers, Check(w) PROVE JobInv'
<1>1. pc[w] = "check" /\ UNCHANGED <<jobVars, outboxVars, step, limit, prior, performed, dropped>>
  BY DEF Check
<1>2. InStep(step[w]) /\ step[w] \in 0..NumSteps
  BY <1>1, PlaceOf, JobInvParts DEF InPlace, WorkerTypes
<1>3. step[w] + 1 \notin effects
  BY <1>2 DEF InStep
<1>4. PICK place \in {"succeed", "cancel", "run"} :
          /\ GoTo(w, place)
          /\ place = "succeed" => ~(step[w] < NumSteps)
          /\ place = "run" => step[w] < NumSteps
  <2>1. CASE ~(step[w] < NumSteps)
    BY <2>1 DEF Check
  <2>2. CASE step[w] < NumSteps /\ job.cancel
    BY <2>2 DEF Check
  <2>3. CASE step[w] < NumSteps /\ ~job.cancel
    BY <1>3, <2>3 DEF Check
  <2> QED
    BY <2>1, <2>2, <2>3
<1>5. WorkerTypes' /\ RowTypes'
  BY <1>1, <1>4, JobInvParts DEF WorkerTypes, RowTypes, GoTo, jobVars
<1>6. CASE place = "cancel"
  <2>1. WorkInv'
    BY <1>1, <1>4, <1>6, OutsideKeeps DEF jobVars
  <2>2. WaitingIsSupported'
    BY <1>1, <1>4, <1>6, SupportStays DEF jobVars
  <2> QED
    BY <1>1, <1>5, <2>1, <2>2, OutboxStays, JobInvParts DEF jobVars
<1>7. CASE place # "cancel"
  <2>1. WorkIsDoneOnce'
    BY <1>1 DEF JobInv, WorkIsDoneOnce, jobVars
  <2>2. InPlace(place, step[w])'
    BY <1>1, <1>2, <1>4, <1>7, StoreConstants DEF InPlace, InStep, jobVars
  <2> QED
    BY <1>1, <1>4, <1>5, <1>7, <2>1, <2>2, ExecutorKeeps DEF jobVars
<1> QED
  BY <1>6, <1>7

\* The step runs that comes after everything performed so far.
LEMMA RunStepKeeps == ASSUME JobInv, NEW w \in Workers, RunStep(w) PROVE JobInv'
<1>1. /\ pc[w] = "run" /\ GoTo(w, "record") /\ performed' = Append(performed, step[w] + 1)
      /\ UNCHANGED <<jobVars, outboxVars, step, limit, prior, dropped>>
  BY DEF RunStep
<1>2. InStep(step[w]) /\ step[w] < NumSteps /\ step[w] \in 0..NumSteps /\ step[w] + 1 \in 1..NumSteps
  BY <1>1, PlaceOf, JobInvParts, StoreConstants DEF InPlace, WorkerTypes
<1>3. performed \in Seq(1..NumSteps) /\ Len(performed) = step[w]
  BY <1>2, JobInvParts DEF WorkerTypes, InStep
<1>4. /\ performed' \in Seq(1..NumSteps) /\ Len(performed') = step[w] + 1
      /\ performed'[step[w] + 1] = step[w] + 1
      /\ \A i \in 1..step[w] : performed'[i] = performed[i]
  BY <1>1, <1>2, <1>3
<1>5. WorkerTypes' /\ RowTypes'
  BY <1>1, <1>4, JobInvParts DEF WorkerTypes, RowTypes, GoTo, jobVars
<1>6. WorkIsDoneOnce'
  <2>1. \A i \in 1..Len(performed') : performed'[i] = i
    BY <1>2, <1>3, <1>4 DEF JobInv, WorkIsDoneOnce
  <2>2. effects = 1..step[w] /\ job.checkpoint = step[w]
    BY <1>2 DEF InStep
  <2> QED
    BY <1>1, <1>2, <1>4, <2>1, <2>2 DEF WorkIsDoneOnce, jobVars
<1>7. InPlace("record", step[w])'
  BY <1>1, <1>2, <1>4 DEF InPlace, InStep, jobVars
<1> QED
  BY <1>1, <1>5, <1>6, <1>7, ExecutorKeeps DEF jobVars

LEMMA StepFailsKeeps == ASSUME JobInv, NEW w \in Workers, StepFails(w) PROVE JobInv'
<1>1. pc[w] = "run" /\ UNCHANGED <<jobVars, outboxVars, step, limit, prior, performed, dropped>>
  BY DEF StepFails
<1>2. PICK failure \in {"transient", "fail"} : GoTo(w, failure)
  BY DEF StepFails
<1>3. WorkerTypes' /\ RowTypes'
  BY <1>1, <1>2, JobInvParts DEF WorkerTypes, RowTypes, GoTo, jobVars
<1>4. WorkIsDoneOnce'
  BY <1>1 DEF JobInv, WorkIsDoneOnce, jobVars
<1>5. InPlace(failure, step[w])'
  BY <1>1, PlaceOf DEF InPlace, InStep, jobVars
<1> QED
  BY <1>1, <1>2, <1>3, <1>4, <1>5, ExecutorKeeps DEF jobVars

LEMMA RecordKeeps == ASSUME JobInv, NEW w \in Workers, Record(w) PROVE JobInv'
<1>1. /\ pc[w] = "record" /\ GoTo(w, "save") /\ effects' = effects \cup {step[w] + 1}
      /\ UNCHANGED <<job, outbox, outboxVars, step, limit, prior, performed, dropped>>
  BY DEF Record, RecordSideEffectOnce
<1>2. /\ step[w] \in 0..NumSteps /\ step[w] < NumSteps /\ effects = 1..step[w]
      /\ Len(performed) = step[w] + 1 /\ job.checkpoint = step[w]
  BY <1>1, PlaceOf, JobInvParts DEF InPlace, WorkerTypes
<1>3. effects' = 1..(step[w] + 1)
  BY <1>1, <1>2
<1>4. WorkerTypes' /\ RowTypes'
  BY <1>1, <1>2, <1>3, JobInvParts, StoreConstants DEF WorkerTypes, RowTypes, GoTo
<1>5. WorkIsDoneOnce'
  <2>1. effects' \in {1..n : n \in 0..Len(performed)}
    BY <1>2, <1>3
  <2> QED
    BY <1>1, <2>1 DEF JobInv, WorkIsDoneOnce
<1>6. InPlace("save", step[w])'
  BY <1>1, <1>2, <1>3 DEF InPlace
<1> QED
  BY <1>1, <1>4, <1>5, <1>6, ExecutorKeeps

LEMMA SaveKeeps == ASSUME JobInv, NEW w \in Workers, Save(w) PROVE JobInv'
<1>1. /\ pc[w] = "save" /\ GoTo(w, "check") /\ job' = [job EXCEPT !.checkpoint = step[w] + 1]
      /\ step' = [step EXCEPT ![w] = @ + 1] /\ prior' = [prior EXCEPT ![w] = @ \cup {step[w] + 1}]
      /\ UNCHANGED <<effects, outbox, outboxVars, limit, performed, dropped>>
  BY DEF Save, SaveCheckpoint
<1>2. /\ step[w] \in 0..NumSteps /\ step[w] + 1 \in 1..NumSteps /\ effects = 1..(step[w] + 1)
      /\ Len(performed) = step[w] + 1
  BY <1>1, PlaceOf, JobInvParts, StoreConstants DEF InPlace, WorkerTypes
<1>3. /\ job'.checkpoint = step[w] + 1 /\ job'.status = job.status /\ job'.attempts = job.attempts
      /\ job'.cancel = job.cancel /\ RowTypes'
  BY <1>1, <1>2, JobInvParts DEF RowTypes
<1>4. step'[w] = step[w] + 1 /\ WorkerTypes'
  BY <1>1, <1>2, JobInvParts DEF WorkerTypes, GoTo
<1>5. WorkIsDoneOnce'
  BY <1>1, <1>2, <1>3 DEF JobInv, WorkIsDoneOnce
<1>6. InPlace("check", step[w])'
  BY <1>1, <1>2, <1>3, <1>4 DEF InPlace, InStep
<1> QED
  BY <1>1, <1>3, <1>4, <1>5, <1>6, ExecutorKeeps

LEMMA ReadAttemptsKeeps == ASSUME JobInv, NEW w \in Workers, ReadAttempts(w) PROVE JobInv'
<1>1. /\ pc[w] = "transient" /\ GoTo(w, "decide") /\ limit' = [limit EXCEPT ![w] = job.attempts]
      /\ UNCHANGED <<jobVars, outboxVars, step, prior, performed, dropped>>
  BY DEF ReadAttempts
<1>2. limit'[w] = job.attempts /\ WorkerTypes' /\ RowTypes'
  BY <1>1, JobFields, JobInvParts DEF WorkerTypes, RowTypes, GoTo, jobVars
<1>3. WorkIsDoneOnce'
  BY <1>1 DEF JobInv, WorkIsDoneOnce, jobVars
<1>4. InPlace("decide", step[w])'
  BY <1>1, PlaceOf DEF InPlace, InStep, jobVars
<1> QED
  BY <1>1, <1>2, <1>3, <1>4, ExecutorKeeps DEF jobVars

----------------------------------------------------------------------------
\* A message is turned into a worker whose step the job does not refuse.
LEMMA TakeKeeps == ASSUME JobInv, NEW w \in Workers, Take(w) PROVE JobInv'
<1>1. /\ pc[w] = "idle" /\ broker > 0 /\ broker' = broker - 1
      /\ UNCHANGED <<jobVars, batch, sent, mishaps, step, limit, prior, performed, dropped>>
  BY DEF Take
<1>2. PICK place \in {"cancel", "requeue", "begin", "idle"} :
          /\ GoTo(w, place)
          /\ job.status = "retrying" => place = "requeue"
          /\ job.status = "queued" => place = "begin"
  <2>1. CASE job.status = "cancel_requested"
    BY <2>1 DEF Take
  <2>2. CASE job.status = "retrying"
    BY <2>2 DEF Take
  <2>3. CASE job.status \in {"queued", "running"}
    BY <2>3 DEF Take
  <2>4. CASE job.status \in Terminal
    BY <2>4 DEF Take
  <2> QED
    BY <2>1, <2>2, <2>3, <2>4, JobFields
<1>3. pc'[w] = place
  BY <1>2, JobInvParts DEF WorkerTypes, GoTo
<1>4. OutboxTypes' /\ WorkerTypes' /\ RowTypes'
  BY <1>1, <1>2, JobInvParts DEF OutboxTypes, WorkerTypes, RowTypes, GoTo, jobVars
<1>5. WorkInv'
  BY <1>1, <1>2, OutsideKeeps DEF jobVars
<1>6. WaitingIsSupported'
  BY <1>1, <1>2, <1>3 DEF WaitingIsSupported, Supported, jobVars
<1> QED
  BY <1>4, <1>5, <1>6, JobInvParts

\* The job is marked for a retry while an attempt is left, and its executor will schedule it.
LEMMA RetryKeeps == ASSUME JobInv, NEW w \in Workers, Retry(w) PROVE JobInv'
<1>1. /\ pc[w] = "decide" /\ ~(limit[w] >= MaxAttempts) /\ MoveAnd(w, "retrying", "enqueue")
      /\ UNCHANGED <<effects, outbox, outboxVars, performed, dropped>>
  BY DEF Retry, Exhausted
<1>2. job.status \in Statuses
  BY JobFields
<1>3. CASE ~CanMove("retrying")
  BY <1>1, <1>3, RefusedKeeps DEF MoveAnd
<1>4. CASE CanMove("retrying")
  <2>1. Transition("retrying") /\ GoTo(w, "enqueue") /\ UNCHANGED <<step, limit, prior>>
    BY <1>1, <1>4 DEF MoveAnd
  <2>2. /\ job'.status = "retrying" /\ job'.attempts = job.attempts /\ job'.checkpoint = job.checkpoint
        /\ job'.cancel = job.cancel /\ RowTypes' /\ job.status = "running"
    BY <1>1, <1>2, <1>4, <2>1, Transitioned, CanMoveFrom, JobFields
  <2>3. pc'[w] = "enqueue" /\ \A v \in Workers \ {w} : pc'[v] = pc[v] /\ pc[v] \notin Attempting
    BY <1>1, <2>1, JobInvParts DEF WorkerTypes, GoTo, WorkInv, OneExecutor
  <2>4. WorkerTypes'
    BY <1>1, <2>1, JobInvParts DEF WorkerTypes, GoTo
  <2>5. job.attempts < MaxAttempts
    BY <1>1, JobFields, StoreConstants DEF JobInv, LimitIsCurrent
  <2>6. InStep(step[w])
    BY <1>1, PlaceOf DEF InPlace
  <2>7. OneExecutor' /\ ExecutorsJob' /\ LimitIsCurrent'
    BY <2>3 DEF OneExecutor, ExecutorsJob, LimitIsCurrent
  <2>8. MarkedIsMoved' /\ BudgetIsKept' /\ WorkIsDoneOnce'
    BY <1>1, <2>2, <2>5 DEF JobInv, MarkedIsMoved, BudgetIsKept, WorkIsDoneOnce
  <2>9. WorkInStep'
    BY <1>1, <2>2, <2>3, <2>6 DEF WorkInStep, InStep
  <2>10. WaitingIsSupported'
    BY <2>2, <2>3 DEF WaitingIsSupported, Supported
  <2> QED
    BY <1>1, <2>2, <2>4, <2>7, <2>8, <2>9, <2>10, OutboxStays, JobInvParts DEF WorkInv
<1> QED
  BY <1>3, <1>4

\* The row of the retry is one that nobody has sent.
LEMMA EnqueueKeeps == ASSUME JobInv, NEW w \in Workers, Enqueue(w) PROVE JobInv'
<1>1. /\ Return(w) /\ outbox' = Append(outbox, NewRow(FALSE))
      /\ UNCHANGED <<job, effects, outboxVars, performed, dropped>>
  BY DEF Enqueue, EnqueueRetry
<1>2. NewRow(FALSE) \in Rows /\ ~NewRow(FALSE).published
  BY DEF NewRow, Rows
<1>3. OutboxTypes
  BY OutboxTyped
<1>4. /\ outbox' \in Seq(Rows) /\ Len(outbox') = Len(outbox) + 1 /\ Len(outbox) \in Nat
      /\ outbox'[Len(outbox) + 1] = NewRow(FALSE)
  <2>1. outbox \in Seq(Rows)
    BY <1>3 DEF OutboxTypes
  <2>2. PICK row \in Rows : row = NewRow(FALSE)
    BY <1>2
  <2>3. /\ Append(outbox, row) \in Seq(Rows) /\ Len(Append(outbox, row)) = Len(outbox) + 1
        /\ Append(outbox, row)[Len(outbox) + 1] = row
    BY <2>1, AppendProperties
  <2>4. Len(outbox) \in Nat
    BY <2>1, LenProperties
  <2> QED
    BY <1>1, <2>2, <2>3, <2>4
<1>5. OutboxTypes'
  <2>1. 1..Len(outbox) \subseteq 1..Len(outbox')
    BY <1>4
  <2> QED
    BY <1>1, <1>3, <1>4, <2>1 DEF OutboxTypes, outboxVars
<1>6. UnsentRow'
  <2>1. \A p \in Publishers : sent'[p] # Len(outbox) + 1
    BY <1>1, <1>3, <1>4 DEF OutboxTypes, outboxVars, NoRow
  <2>2. Len(outbox) + 1 \in 1..Len(outbox')
    BY <1>4
  <2> QED
    BY <1>2, <1>4, <2>1, <2>2 DEF UnsentRow
<1>7. WaitingIsSupported'
  BY <1>6 DEF WaitingIsSupported, Supported
<1>8. dropped' \in 0..MaxDropped
  BY <1>1, JobInvParts DEF WorkerTypes
<1> QED
  BY <1>1, <1>5, <1>7, <1>8, ReturnKeeps, JobInvParts

LEMMA WorkerDiesKeeps == ASSUME JobInv, NEW w \in Workers, WorkerDies(w) PROVE JobInv'
<1>1. Return(w) /\ broker' = broker + 1 /\ UNCHANGED <<jobVars, batch, sent, performed, dropped>>
  BY DEF WorkerDies
<1>2. OutboxTypes' /\ broker' > 0 /\ dropped' \in 0..MaxDropped
  BY <1>1, MishapCounted, JobInvParts DEF OutboxTypes, WorkerTypes, WorkerDies, jobVars
<1>3. WaitingIsSupported'
  BY <1>2 DEF WaitingIsSupported, Supported
<1> QED
  BY <1>1, <1>2, <1>3, ReturnKeeps, JobInvParts DEF jobVars

LEMMA DeliverAgainKeeps == ASSUME JobInv, DeliverAgain PROVE JobInv'
<1>1. broker' = broker + 1 /\ UNCHANGED <<jobVars, batch, sent, workerVars>> /\ mishaps' \in 0..MaxMishaps
  BY MishapCounted DEF DeliverAgain
<1>2. OutboxTypes' /\ broker' > 0
  BY <1>1, OutboxTyped DEF OutboxTypes, jobVars
<1> QED
  BY <1>1, <1>2, DeliveryFrame DEF jobVars

LEMMA RaiseKeeps == ASSUME JobInv, NEW w \in Workers, Raise(w) PROVE JobInv'
<1>1. Return(w) /\ dropped' = dropped + 1 /\ UNCHANGED <<jobVars, outboxVars, performed>>
  BY DEF Raise
<1>2. dropped' \in 0..MaxDropped /\ dropped' > 0
  BY <1>1, WorkerConstants, JobInvParts DEF WorkerTypes, Raise
<1>3. WaitingIsSupported'
  BY <1>2 DEF WaitingIsSupported, Supported
<1> QED
  BY <1>1, <1>2, <1>3, OutboxStays, ReturnKeeps, JobInvParts DEF jobVars

\* A caller cancels a job that waits or runs; an executor is not disturbed.
LEMMA CancelRequestedKeeps == ASSUME JobInv, CancelRequested PROVE JobInv'
<1>1. Transition("cancel_requested") /\ UNCHANGED <<effects, outbox, outboxVars, workerVars>>
  BY DEF CancelRequested, RequestCancel
<1>2. /\ job'.status = "cancel_requested" /\ job'.attempts = job.attempts /\ job'.checkpoint = job.checkpoint
      /\ job'.cancel /\ RowTypes'
  BY <1>1, Transitioned
<1>3. WorkerTypes'
  BY <1>1, JobInvParts DEF WorkerTypes, workerVars
<1>4. OneExecutor' /\ ExecutorsJob' /\ MarkedIsMoved' /\ BudgetIsKept' /\ LimitIsCurrent'
  BY <1>1, <1>2 DEF JobInv, OneExecutor, ExecutorsJob, MarkedIsMoved, BudgetIsKept, LimitIsCurrent, workerVars
<1>5. WorkIsDoneOnce' /\ WorkInStep'
  BY <1>1, <1>2 DEF JobInv, WorkIsDoneOnce, WorkInStep, InStep, workerVars
<1>6. WaitingIsSupported'
  BY <1>2 DEF WaitingIsSupported
<1> QED
  BY <1>1, <1>2, <1>3, <1>4, <1>5, <1>6, OutboxStays, JobInvParts DEF WorkInv

\* Nothing happens.
LEMMA StutterKeeps == ASSUME JobInv, UNCHANGED vars PROVE JobInv'
<1>1. UNCHANGED <<job, effects, workerVars>> /\ OutboxTypes'
  BY OutboxTyped DEF vars, jobVars, outboxVars, OutboxTypes
<1>2. broker > 0 \/ UnsentRow => broker' > 0 \/ UnsentRow'
  BY DEF vars, jobVars, outboxVars, UnsentRow
<1> QED
  BY <1>1, <1>2, DeliveryFrame

----------------------------------------------------------------------------
\* No step breaks the invariant.
LEMMA JobNext_Inv == JobInv /\ [Next]_vars => JobInv'
<1> SUFFICES ASSUME JobInv, [Next]_vars PROVE JobInv'
  OBVIOUS
<1>1. ASSUME NEW w \in Workers, WorkerStep(w) PROVE JobInv'
  BY <1>1, TakeKeeps, CancelKeeps, RequeueKeeps, BeginKeeps, CheckKeeps, RunStepKeeps, StepFailsKeeps, RecordKeeps,
     SaveKeeps, SucceedKeeps, FailKeeps, ReadAttemptsKeeps, DeadLetterKeeps, RetryKeeps, EnqueueKeeps
  DEF WorkerStep
<1>2. CASE WorkNext
  BY <1>1, <1>2, WorkerDiesKeeps, RaiseKeeps, DeliverAgainKeeps DEF WorkNext
<1> QED
  BY <1>2, CancelRequestedKeeps, DeliverKeeps, StutterKeeps DEF Next

(***************************************************************************)
(* The invariant of the job holds in every reachable state of callers,     *)
(* publishers, broker and workers (app/worker.py, app/store.py).           *)
(***************************************************************************)
THEOREM JobsAreSound == Spec => []JobInv
<1>1. Init => JobInv
  BY JobInit_Inv
<1>2. JobInv /\ [Next]_vars => JobInv'
  BY JobNext_Inv
<1> QED
  BY <1>1, <1>2, PTL DEF Spec

\* Every row, message and worker keeps its type.
THEOREM JobsTyped == Spec => []TypeOK
<1>1. JobInv => TypeOK
  BY DEF JobInv
<1> QED
  BY <1>1, JobsAreSound, PTL

\* begin_attempt lets at most one worker into an attempt, however often the message is delivered.
THEOREM AtMostOneExecutor == Spec => []OneExecutor
<1>1. JobInv => OneExecutor
  BY DEF JobInv
<1> QED
  BY <1>1, JobsAreSound, PTL

\* Worker.process does the work of no step twice, and of none before its predecessor.
THEOREM StepsAreDoneOnce == Spec => []WorkIsDoneOnce
<1>1. JobInv => WorkIsDoneOnce
  BY DEF JobInv
<1> QED
  BY <1>1, JobsAreSound, PTL

\* max_attempts is used up before a job is dead-lettered, and never overdrawn.
THEOREM AttemptsAreBudgeted == Spec => []BudgetIsKept
<1>1. JobInv => BudgetIsKept
  BY DEF JobInv
<1> QED
  BY <1>1, JobsAreSound, PTL

(***************************************************************************)
(* A waiting job has an outbox row to publish, a message, or a worker      *)
(* about to act on it, unless an unexpected exception dropped a delivery.  *)
(***************************************************************************)
THEOREM WaitingIsNotLost == Spec => []NoLostWork
<1>1. JobInv => NoLostWork
  BY DEF JobInv, WaitingIsSupported, Supported, UnsentRow, NoLostWork, WillBeDelivered
<1> QED
  BY <1>1, JobsAreSound, PTL

----------------------------------------------------------------------------
(***************************************************************************)
(* The safety half of JobEnds.  Where nobody is left to move a job that    *)
(* has not ended, it is for one of the three reasons JobEnds names         *)
(* (Worker.process, celery_app.publish_outbox).                            *)
(***************************************************************************)
UnfinishedForAReason == NobodyIsLeft /\ job.status \notin Terminal =>
    Interrupted \/ job.status = "cancel_requested" \/ dropped > 0

\* A job that runs has its worker, unless something took the worker away.
RunningIsWorked == job.status = "running" =>
    mishaps > 0 \/ dropped > 0 \/ \E w \in Workers : pc[w] \in Attempting

\* A step that brings no job to RUNNING and takes no executor out of one that runs.
LEMMA WorkedStays ==
    ASSUME RunningIsWorked, job'.status = "running" => job.status = "running",
           UNCHANGED <<mishaps, dropped>>,
           job'.status = "running" =>
               \A v \in Workers : pc[v] \in Attempting => pc'[v] \in Attempting
    PROVE  RunningIsWorked'
  BY DEF RunningIsWorked

\* Whoever tries a transition leaves no running job behind.
LEMMA MoveIsWorked ==
    ASSUME JobInv, RunningIsWorked, NEW w \in Workers,
           NEW next \in {"cancelled", "queued", "succeeded", "failed", "retrying", "dead_lettered"},
           NEW place \in PCs, MoveAnd(w, next, place), UNCHANGED <<effects, outboxVars, dropped>>,
           pc[w] \in Attempting => next \in {"succeeded", "failed", "retrying", "dead_lettered"}
    PROVE  RunningIsWorked'
<1>1. job.status \in Statuses /\ UNCHANGED mishaps
  BY JobFields DEF outboxVars
<1>2. CASE CanMove(next)
  <2>1. job'.status = next
    BY <1>2, Transitioned DEF MoveAnd
  <2> QED
    BY <2>1 DEF RunningIsWorked
<1>3. CASE ~CanMove(next)
  <2>1. Return(w) /\ UNCHANGED job
    BY <1>3 DEF MoveAnd
  <2>2. \A v \in Workers \ {w} : pc'[v] = pc[v]
    BY <2>1, JobInvParts DEF WorkerTypes, Return, GoTo
  <2>3. job'.status = "running" => pc[w] \notin Attempting
    BY <1>1, <1>3, <2>1, CanMoveFrom
  <2> QED
    BY <1>1, <2>1, <2>2, <2>3, WorkedStays
<1> QED
  BY <1>2, <1>3

LEMMA BeginIsWorked ==
    ASSUME JobInv, RunningIsWorked, NEW w \in Workers, Begin(w)
    PROVE  RunningIsWorked'
<1>1. pc[w] = "begin" /\ UNCHANGED <<mishaps, dropped>>
  BY DEF Begin, outboxVars
<1>2. CASE MayBegin
  <2>1. pc'[w] = "check"
    BY <1>2, JobInvParts DEF Begin, GoTo, WorkerTypes
  <2> QED
    BY <2>1 DEF RunningIsWorked
<1>3. CASE ~MayBegin
  <2>1. Return(w) /\ UNCHANGED job
    BY <1>3 DEF Begin
  <2>2. \A v \in Workers \ {w} : pc'[v] = pc[v]
    BY <2>1, JobInvParts DEF WorkerTypes, Return, GoTo
  <2> QED
    BY <1>1, <2>1, <2>2, WorkedStays
<1> QED
  BY <1>2, <1>3

\* The steps between two transitions keep the worker in its attempt.
LEMMA InnerIsWorked ==
    ASSUME JobInv, RunningIsWorked, NEW w \in Workers,
           \/ Take(w) \/ Check(w) \/ RunStep(w) \/ StepFails(w)
           \/ Record(w) \/ Save(w) \/ ReadAttempts(w) \/ Enqueue(w)
    PROVE  RunningIsWorked'
<1>1. UNCHANGED <<mishaps, dropped>> /\ job'.status = job.status
  BY JobInvParts DEF Take, Check, RunStep, StepFails, Record, Save, ReadAttempts, Enqueue, SaveCheckpoint,
                     RowTypes, jobVars, outboxVars
<1>2. \A v \in Workers \ {w} : pc'[v] = pc[v]
  BY JobInvParts DEF WorkerTypes, Take, Check, RunStep, StepFails, Record, Save, ReadAttempts, Enqueue,
                     Return, GoTo
<1>3. job'.status = "running" /\ pc[w] \in Attempting => pc'[w] \in Attempting
  <2>1. CASE Check(w)
    <3>1. job.status = "running" => ~job.cancel
      BY JobFields DEF JobInv, MarkedIsMoved
    <3>2. job.status = "running" => pc'[w] \in {"succeed", "save", "run"}
      BY <2>1, <3>1, JobInvParts DEF Check, GoTo, WorkerTypes
    <3> QED
      BY <1>1, <3>2
  <2>2. CASE RunStep(w) \/ StepFails(w) \/ Record(w) \/ Save(w) \/ ReadAttempts(w)
    BY <2>2, JobInvParts DEF WorkerTypes, RunStep, StepFails, Record, Save, ReadAttempts, GoTo
  <2>3. CASE Take(w) \/ Enqueue(w)
    BY <2>3 DEF Take, Enqueue
  <2> QED
    BY <2>1, <2>2, <2>3
<1> QED
  BY <1>1, <1>2, <1>3, WorkedStays

\* Failures are counted and never forgotten.
LEMMA FailuresCount ==
    ASSUME JobInv, Mishap \/ dropped' = dropped + 1
    PROVE  mishaps' > 0 \/ dropped' > 0
  BY OutboxConstants, WorkerConstants DEF JobInv, TypeOK, Mishap

LEMMA RunningStep ==
    ASSUME JobInv, RunningIsWorked, [Next]_vars
    PROVE  RunningIsWorked'
<1>1. CASE UNCHANGED vars
  BY <1>1, WorkedStays DEF vars, jobVars, outboxVars, workerVars
<1>2. CASE CancelRequested
  <2>1. job'.status = "cancel_requested"
    BY <1>2, Transitioned DEF CancelRequested, RequestCancel
  <2> QED
    BY <2>1 DEF RunningIsWorked
<1>3. CASE Deliver
  <2>1. UNCHANGED <<job, pc, dropped>> /\ (Mishap \/ UNCHANGED mishaps)
    BY <1>3 DEF Deliver, PublishNext, PublisherStep, Claim, Send, Mark, MarkLost, PublishFails, PublisherDies,
                RetryComesDue, ClaimTimesOut, jobVars, outboxVars, workerVars
  <2> QED
    BY <2>1, WorkedStays, FailuresCount DEF RunningIsWorked
<1>4. ASSUME NEW w \in Workers, WorkerStep(w) PROVE RunningIsWorked'
  <2>1. CASE Cancel(w)
    BY <2>1, MoveIsWorked DEF Cancel
  <2>2. CASE Requeue(w)
    BY <2>2, MoveIsWorked DEF Requeue
  <2>3. CASE Succeed(w) \/ Fail(w)
    BY <2>3, MoveIsWorked DEF Succeed, Fail
  <2>4. CASE DeadLetter(w) \/ Retry(w)
    BY <2>4, MoveIsWorked DEF DeadLetter, Retry
  <2> QED
    BY <1>4, <2>1, <2>2, <2>3, <2>4, BeginIsWorked, InnerIsWorked DEF WorkerStep
<1>5. ASSUME NEW w \in Workers, WorkerDies(w) \/ Raise(w) PROVE RunningIsWorked'
  BY <1>5, FailuresCount DEF WorkerDies, Raise, RunningIsWorked
<1>6. CASE DeliverAgain
  BY <1>6, FailuresCount DEF DeliverAgain, RunningIsWorked
<1> QED
  BY <1>1, <1>2, <1>3, <1>4, <1>5, <1>6 DEF Next, WorkNext

LEMMA ReasonNow == JobInv /\ RunningIsWorked => UnfinishedForAReason
<1> SUFFICES ASSUME JobInv, RunningIsWorked, NobodyIsLeft, job.status \notin Terminal
             PROVE  Interrupted \/ job.status = "cancel_requested" \/ dropped > 0
  BY DEF UnfinishedForAReason
<1>1. job.status \in {"queued", "retrying", "running", "cancel_requested"}
  BY JobFields
<1>2. CASE job.status \in {"queued", "retrying"}
  BY <1>2 DEF JobInv, WaitingIsSupported, Supported, UnsentRow, NobodyIsLeft
<1>3. CASE job.status = "running"
  BY <1>3 DEF RunningIsWorked, NobodyIsLeft, Interrupted
<1> QED
  BY <1>1, <1>2, <1>3

(***************************************************************************)
(* Duplicates, retries and stale claims leave no job unfinished: where     *)
(* nobody is left to move it, it was left running by a mishap, or its      *)
(* cancellation was not carried out, or a delivery was dropped.            *)
(***************************************************************************)
THEOREM JobsAreNotAbandoned == Spec => []UnfinishedForAReason
<1>1. Init => JobInv /\ RunningIsWorked
  BY JobInit_Inv DEF Init, StoreInit, RunningIsWorked
<1>2. JobInv /\ RunningIsWorked /\ [Next]_vars => (JobInv /\ RunningIsWorked)'
  BY JobNext_Inv, RunningStep
<1> QED
  BY <1>1, <1>2, ReasonNow, PTL DEF Spec

----------------------------------------------------------------------------
\* Refinement: what a caller sees of a state.
Outcome == IF job.status \in Terminal THEN job.status ELSE "open"

\* Nothing the contract speaks of has changed.
LEMMA Unseen ==
    ASSUME Outcome' = Outcome, UNCHANGED effects, job'.cancel = job.cancel
    PROVE  UNCHANGED Contract!contractVars
  BY DEF Contract!contractVars, Outcome

\* A worker's last move is the end of the job, or refused and unseen.
LEMMA LastMoveIsAllowed ==
    ASSUME JobInv, NEW w \in Workers, NEW next \in Terminal, MoveAnd(w, next, "idle"), UNCHANGED effects,
           next = "succeeded" => effects = 1..NumSteps
    PROVE  [Contract!Next]_(Contract!contractVars)
<1>1. CASE CanMove(next)
  <2>1. Transition(next)
    BY <1>1 DEF MoveAnd
  <2>2. job'.status = next /\ job'.cancel = job.cancel
    BY <2>1, Transitioned, JobFields
  <2>3. job.status \notin Terminal /\ Outcome = "open" /\ Outcome' = next
    BY <1>1, <2>2 DEF CanMove, Outcome
  <2>4. job.status \in Statuses /\ (job.cancel <=> next = "cancelled")
    BY <1>1, JobFields, CanMoveFrom DEF JobInv, MarkedIsMoved
  <2> QED
    BY <2>2, <2>3, <2>4 DEF Outcome, Contract!Next, Contract!Succeed, Contract!GiveUp, Contract!Cancel
<1>2. CASE ~CanMove(next)
  BY <1>2, Unseen DEF MoveAnd, Outcome
<1> QED
  BY <1>1, <1>2

\* Recording an output is the contract's next step of the work.
LEMMA RecordIsAdvance == ASSUME JobInv, NEW w \in Workers, Record(w) PROVE Contract!Advance
<1>1. pc[w] = "record" /\ effects' = effects \cup {step[w] + 1} /\ UNCHANGED job
  BY DEF Record, RecordSideEffectOnce
<1>2. step[w] \in 0..NumSteps /\ step[w] + 1 \in 1..NumSteps /\ effects = 1..step[w]
  BY <1>1, PlaceOf, JobInvParts, StoreConstants DEF InPlace, WorkerTypes
<1>3. effects = 1..((step[w] + 1) - 1) /\ effects' = 1..(step[w] + 1)
  BY <1>1, <1>2
<1>4. job.status \in {"running", "cancel_requested", "cancelled"}
  BY <1>1 DEF JobInv, ExecutorsJob
<1> QED
  BY <1>1, <1>2, <1>3, <1>4 DEF Contract!Advance

LEMMA RequestIsAsk == ASSUME JobInv, CancelRequested PROVE Contract!Ask
<1>1. Transition("cancel_requested") /\ UNCHANGED effects
  BY DEF CancelRequested, RequestCancel
<1>2. job'.status = "cancel_requested" /\ job'.cancel /\ job.status \in {"queued", "running", "retrying"} /\ ~job.cancel
  BY <1>1, Transitioned, JobFields, CanMoveFrom DEF JobInv, MarkedIsMoved
<1> QED
  BY <1>1, <1>2 DEF Contract!Ask

\* A move to a status that is not final is unseen.
LEMMA InnerMoveIsUnseen ==
    ASSUME JobInv, NEW w \in Workers, NEW next \in {"queued", "retrying"}, NEW place, place # "idle",
           MoveAnd(w, next, place), UNCHANGED effects
    PROVE  UNCHANGED Contract!contractVars
<1>1. CASE CanMove(next)
  <2>1. Transition(next)
    BY <1>1 DEF MoveAnd
  <2>2. job'.status = next /\ job'.cancel = job.cancel
    BY <2>1, Transitioned, JobFields
  <2> QED
    BY <1>1, <2>2, Unseen DEF CanMove, Outcome
<1>2. CASE ~CanMove(next)
  BY <1>2, Unseen DEF MoveAnd, Outcome
<1> QED
  BY <1>1, <1>2

LEMMA BeginIsUnseen == ASSUME JobInv, NEW w \in Workers, Begin(w) PROVE UNCHANGED Contract!contractVars
<1>1. UNCHANGED effects
  BY DEF Begin
<1>2. CASE MayBegin
  <2>1. job'.status = "running" /\ job'.cancel = job.cancel /\ job.status = "queued"
    BY <1>2, JobInvParts DEF Begin, BeginAttempt, MayBegin, RowTypes
  <2> QED
    BY <1>1, <2>1, Unseen DEF Outcome
<1>3. CASE ~MayBegin
  BY <1>1, <1>3, Unseen DEF Begin, Outcome
<1> QED
  BY <1>2, <1>3

LEMMA SaveIsUnseen == ASSUME JobInv, NEW w \in Workers, Save(w) PROVE UNCHANGED Contract!contractVars
<1>1. job'.status = job.status /\ job'.cancel = job.cancel /\ UNCHANGED effects
  BY JobInvParts DEF Save, SaveCheckpoint, RowTypes
<1> QED
  BY <1>1, Unseen DEF Outcome

\* Every step of the service is one of the contract, or unseen.
LEMMA StepIsAllowed == JobInv /\ [Next]_vars => [Contract!Next]_(Contract!contractVars)
<1> SUFFICES ASSUME JobInv, [Next]_vars PROVE [Contract!Next]_(Contract!contractVars)
  OBVIOUS
<1>1. UNCHANGED <<job, effects>> => UNCHANGED Contract!contractVars
  BY Unseen DEF Outcome
<1>2. ASSUME NEW w \in Workers, WorkerStep(w) PROVE [Contract!Next]_(Contract!contractVars)
  <2>1. CASE Take(w) \/ Check(w) \/ RunStep(w) \/ StepFails(w) \/ ReadAttempts(w)
    BY <1>1, <2>1 DEF Take, Check, RunStep, StepFails, ReadAttempts, jobVars
  <2>2. CASE Enqueue(w)
    BY <1>1, <2>2 DEF Enqueue
  <2>3. CASE Begin(w)
    BY <2>3, BeginIsUnseen
  <2>4. CASE Save(w)
    BY <2>4, SaveIsUnseen
  <2>5. CASE Record(w)
    BY <2>5, RecordIsAdvance DEF Contract!Next
  <2>6. CASE Requeue(w)
    BY <2>6, InnerMoveIsUnseen DEF Requeue
  <2>7. CASE Retry(w)
    BY <2>7, InnerMoveIsUnseen DEF Retry
  <2>8. CASE Cancel(w) \/ Fail(w) \/ DeadLetter(w)
    BY <2>8, LastMoveIsAllowed DEF Cancel, Fail, DeadLetter
  <2>9. CASE Succeed(w)
    <3>1. effects = 1..NumSteps
      BY <2>9, PlaceOf DEF Succeed, InPlace, InStep
    <3> QED
      BY <2>9, <3>1, LastMoveIsAllowed DEF Succeed
  <2> QED
    BY <1>2, <2>1, <2>2, <2>3, <2>4, <2>5, <2>6, <2>7, <2>8, <2>9 DEF WorkerStep
<1>3. CASE WorkNext
  <2>1. ASSUME NEW w \in Workers, WorkerDies(w) \/ Raise(w) PROVE UNCHANGED <<job, effects>>
    BY <2>1 DEF WorkerDies, Raise, jobVars
  <2>2. CASE DeliverAgain
    BY <1>1, <2>2 DEF DeliverAgain, jobVars
  <2> QED
    BY <1>1, <1>2, <1>3, <2>1, <2>2 DEF WorkNext
<1>4. CASE Deliver
  <2>1. UNCHANGED <<job, effects>>
    BY <1>4 DEF Deliver, PublishNext, PublisherStep, Claim, Send, Mark, MarkLost, PublishFails, PublisherDies,
                RetryComesDue, ClaimTimesOut, jobVars
  <2> QED
    BY <1>1, <2>1
<1>5. CASE CancelRequested
  BY <1>5, RequestIsAsk DEF Contract!Next
<1>6. CASE UNCHANGED vars
  BY <1>1, <1>6 DEF vars, jobVars
<1> QED
  BY <1>3, <1>4, <1>5, <1>6 DEF Next

(***************************************************************************)
(* The service implements JobContract: steps in order and once, SUCCEEDED  *)
(* means all of them, one end, and a cancelled job ends cancelled.         *)
(***************************************************************************)
THEOREM JobsKeepContract == Spec => KeepsContract
<1>1. Init => Contract!Init
  BY DEF Init, StoreInit, Contract!Init
<1>2. JobInv /\ [Next]_vars => [Contract!Next]_(Contract!contractVars)
  BY StepIsAllowed
<1> QED
  BY <1>1, <1>2, JobsAreSound, PTL DEF Spec, KeepsContract, Contract!Spec
=============================================================================
