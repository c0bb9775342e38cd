# TLA+ verification of july-cohort-bootcamp

The repository is a collection of teaching projects. Two of them are real
concurrent systems with a database, a broker and workers that may die:
`src/multi-agent-orchestration` (a refund workflow) and `src/async-execution`
(a service that runs agent jobs). Three more keep state between calls:
`src/Tool-Gateway` (refunds proposed by a model), `src/Reliable-Tool-Calling`
(a search with breaker and limits) and the job of
`src/aws-agent-deployment-demo`. This directory models them, checks them with
TLC, and proves their safety with TLAPS. The rest has no state to model, or is
an exercise that is unsafe on purpose (section 10).

Contents: 1 inventory, 2 the refund workflow, 3 team and intake, 4 the job
service, 5 the clients of job systems, 6 tool calls, 7 runs and bounds,
8 fairness, 9 proofs, 10 what is not modelled, 11 findings and observations.

## 1. Inventory

| Component (source) | State | Operations | Hard behaviour | Correct when |
|---|---|---|---|---|
| Approval desk (`multi-agent-orchestration/app/exercises.py`, `core.py`) | workflow row, approval tasks, timers, decisions | `pause_for_approval`, `record_decision`, `expire_or_escalate` | a decision races the deadline; a stale stage is decided | nothing is paid without a timely approval by another person with the authority |
| Outbox and consumer (`app/runtime.py`, `celery_app.py`, `core.consume`) | outbox rows, inbox rows, broker | `publish_one`, `consume`, `redeliver` | death between send and mark; duplicates; events of an earlier stage | an event acts once, and only while it still describes the workflow |
| Execution and recovery (`app/core.py`) | execution attempts, leases, fences, workflow version | `claim`, `execute_one`, `finish`, `recover_expired`, `reconcile`, `operator_close` | lost answers, expired leases, two reconciliations at once | one refund; completed means paid; closed means not paid |
| Refund provider (`app/erp.py`) | ledger | `refund`, `status`, `restore` | answers late, busy, rejecting, unavailable | the key makes POST idempotent |
| Intake (`core.create_request`) | request row, idempotency row | `create_request` | two equal requests at once | one workflow per key and order |
| Specialist team (`app/team.py`) | case, tasks, results, decision | `new_case`, `collect_round`, `decide_round`, `submit_case` | two coordinators; results after the deadline | one decision per round, from accepted results |
| Job store (`async-execution/app/store.py`) | job row, side effects, job outbox | `transition`, `begin_attempt`, `request_cancel`, `save_checkpoint`, `record_side_effect_once`, `enqueue_retry_outbox` | every call is a transaction of its own | the status moves along `contracts.py` only |
| Job publisher (`celery_app.publish_outbox`) | claims in the outbox | claim, send, mark, release | claims time out under a busy publisher | nothing that waits is forgotten |
| Job worker (`app/worker.py`) | loop position, outputs at hand | `Worker.process` | duplicate delivery, late acknowledgement, cancellation under way | steps are done once and in order; the budget is kept |
| Job intake and pool (`store.create_or_replay`, `app/db.py`) | job row, key row, pool of 10 connections | `create_or_replay` | two callers with one key; a nested connection | one job per key, no caller waits for ever |
| Tool gateway (`Tool-Gateway/src/support_agent`) | idempotency store file, audit | `execute`, `issue_refund` | crash between memory and file; a file that the next process cannot read | one refund per key |
| Governed agent (`Tool-Gateway/src/governed_llm_agent`) | checkpoint of each session | propose, assemble, enforce, await_approval, narrate | the approval fits the proposal it was given for | no refund without a policy and an approval that cover it |
| AWS demo job (`aws-agent-deployment-demo/app`) | queue, result backend, audit log | `submit_job`, `run_agent_job` with autoretry, `invoke_tool` | retries repeat paid work; an attempt dies with its worker; an empty answer is paid for; the retry overtakes the mark of its predecessor | one paid call per attempt, bounded attempts, all of them audited |
| Reliable tool calling (`Reliable-Tool-Calling`) | breaker, limiter window, cache | `search` | parallel threads over one unlocked gateway; window edge | nobody is turned away for nothing; an open breaker can recover |
| Job memory (`async-execution/app/memory.py`) | memory records and their audit | `remember` | the audit commits before the write; BEGIN dates a record before its SELECT; two writers supersede one record | what was stored can be recalled and is audited |
| Memory gateway (`memory`) | memory records, thread versions | remember, recall, forget, save | lost update | one active record per key |
| a2a, observability, evaluation, RAG, session scripts | none that outlives a call | – | – | – |

Interactions. In the refund workflow everything meets in PostgreSQL: each
handler locks the workflow row first, so a handler is atomic; what is not
atomic is the chain *commit → publish → consume* and the call to the provider,
which no transaction spans. In the job service each store call is its own
transaction, so the worker's handler is a sequence of atomic steps.

The hazards of the code, each at its line, are in `PROJECT.json`
(`hazards`), with the properties that watch them.

## 2. The refund workflow

    RefundStore  <-  RefundApproval  <-  RefundDelivery  <-+
         ^                                                 +-- RefundWorkflow --implements--> RefundContract
         +-----------  RefundExecution  <------------------+

* **`RefundStore`** – the rows of one workflow and the helpers that write them
  (`transition`, `emit`, `new_task`, `new_attempt`, `operation_key`,
  `required_role`). One workflow is enough: every table is keyed by it, and no
  handler reads another's rows. `StoreInit` is what `create_request` commits,
  for an eligible and an ineligible order.
* **`RefundApproval`** – `pause_for_approval`, `record_decision` (`Approve`,
  `Reject`), `expire_or_escalate` (`Escalate`, `Expire`) and the clock
  (`DeadlinePasses`). One action per transaction.
* **`RefundDelivery`** – `publish_one` (`Publish`; `PublishWithoutMark` is a
  death before the commit), the consumer by type of event, its inbox, the
  consumer that raises (`ConsumerFails`), and the redelivery drill.
  The broker is a set: order is not kept and equal deliveries fall together,
  because the second finds the inbox row.
* **`RefundExecution`** – tick threads, operators and the provider. A call to
  the provider is three steps of its thread: the request leaves (`Send`), the
  provider acts (`Post...`), the thread gets an answer or gives up
  (`Timeout`). `posts` holds requests the provider may *still* process, also
  after the caller timed out: this is where double payment would come from. A
  reconciliation is selection, first transaction, lookup, second transaction.
  The injected faults of the lab are the `fault` of the request.
* **`RefundWorkflow`** – the composition, `TypeOK`, the properties across
  components and the refinement mapping to **`RefundContract`**: authorise, pay
  once, then complete, or else reject or close without payment.

Time is a flag raised by the environment (`overdue`, `expired`). An order of
deadlines is never assumed.

## 3. Team and intake

    SpecialistTeam  <-  RefundIntake  --implements-->  CaseContract

* **`SpecialistTeam`** – `run_case` with its guard connection,
  `call_specialist`, `collect_round`, `decide_round`. All rows are keyed by the
  case, so there is one. A transaction that reads first and writes by what it
  read is two actions (`FindTask` and `OpenTask`, `LookForDecision` and
  `RecordDecision`): between them another coordinator may commit, and then the
  unique keys of `sql/003_agent_team.sql` decide. A coordinator may die, or
  lose the session lock it runs under without noticing.
* **`RefundIntake`** – `create_request` from lock to lock (key, case, order,
  insert), made directly or by `submit_case`, over the row of the case it
  shares with the team. What it writes is visible at its commit only. A request
  that is answered without any effect (a replay, a conflict) is no step.
* **`CaseContract`** – decided once, submitted at most once and only when
  READY, never two workflows for the order of the case.

What happens to the workflow once it is there is section 2: `StoreInit` is what
`InsertWorkflow` commits. The composition is cut there, because no handler of
the workflow reads or writes a row of the case.

## 4. The job service

    JobStore <- JobOutbox <- JobWorker <- AsyncJobs --implements--> JobContract

* **`JobStore`** – the job row, the steps with a recorded side effect, the
  outbox rows; the table of legal moves of `contracts.py`; one operator per
  store call.
* **`JobOutbox`** – publishers that claim, send, mark and release. SKIP LOCKED
  makes the claimed rows any non-empty part of the claimable ones. A claim is
  known by its publisher: a token per claim would tell no more apart, since
  one publisher has one batch at a time.
* **`JobWorker`** – `Worker.process`, one action per store call and per step of
  the pipeline; a refused transition (`InvalidTransition`) ends the delivery.
  Deaths return the message to the broker (late acknowledgement), the
  visibility timeout duplicates it (`DeliverAgain`), an unexpected exception
  drops it (`Raise`).
* **`AsyncJobs`** – the composition with cancelling callers, the properties,
  and the mapping to **`JobContract`**.

Left out, because no decision reads it: `job_events`, the version counter of
the row (each operation is one transaction under its lock) and the contents of
steps. `request_cancel` reads the job once before its transaction; the
transaction decides on the locked row, so the first read adds no behaviour.
The branch for an output that is already recorded (`worker.py:63-65`) is part
of `Check`, though the findings below show that no behaviour takes it.

## 5. The clients of job systems

* **`JobIntake`** – `create_or_replay` over the connection pool. The key is
  read without a lock, so the unique index decides between two callers
  (`Insert` waits for an entry that is not committed and fails on one that is).
  A replay reads the job with `get`, on a *second* connection while it holds
  the first. A caller that waits while the pool is empty gets `PoolTimeout`.
* **`GovernedMemory`** – `remember` of the workers, in the five steps of its
  transaction: BEGIN, which fixes `created_at`; the SELECT of the newest active
  record, without a lock and of what is committed by then; the UPDATE under the
  row lock; the audit record, on another connection; the commit. A writer that
  began early and reads late may therefore supersede a record that is newer than
  its own. The field `at` of a record is history, its place among the commits.
* **`AgentJob`** – the job of the AWS demo: queue, result backend, the workers'
  steps, the paid call through `invoke_tool`, `autoretry_for`. An empty answer
  is paid for, raises in `generate_answer` and is audited as FAILED; an EXECUTED
  record that cannot be written is followed by a FAILED one. `paid` counts the
  calls whose answer arrived. The message is
  acknowledged when a worker starts on it. Retry and mark are two steps, as
  they are two calls to Redis.
* **`AsyncClients`** – all three, for one run. They share nothing, so a
  behaviour is one of the intake, of the memory *or* of the queue (`part` says
  which): nothing would be learnt from interleaving them.

## 6. Tool calls

    ToolGateway <- GovernedAgent <-+
                   ReliableSearch <-+-- ToolCalling

* **`ToolGateway`** – `execute`: validation, policy, `issue_refund` with its
  idempotency store (memory first, then the whole file, replaced at once),
  audit. The process has one thread; what interferes is a write that fails, a
  process that dies between two writes, and a next process that cannot read the
  file or some of its items, passes over them without a word (`Loaded`) and
  writes its own memory over them with its next save. `unsaved` and `unread` are
  the refunds known to memory only and to the file only. Amounts are cents; the spelling of
  the amount is kept apart, because the code makes keys of it.
* **`GovernedAgent`** – the graph around it. Sessions pause for an approval
  while others run; the answer arrives with the second assembly.
* **`ReliableSearch`** – limiter, cache, breaker, retries and fallback, called
  by parallel threads without a lock. One action ends where the code *calls*
  something between two accesses (`clock()`, `dict.get`, `_transition`): CPython
  may switch threads there, also between the write of the window and the first
  read of the cache (`WriteWindow`, `ReadCache`). What a model proposes and how an adapter ends are
  inputs.
* **`ToolCalling`** – the agent *or* the search (`part`), for one run; the
  projects share nothing.

## 7. Runs, and why the bounds are enough

| Run | Question | Instance |
|---|---|---|
| `refund_execution` | Do leases, fences and reconciliation keep money and rows consistent? | 2 threads, 1 operator, 2 attempts, 2 crashes or failed lookups, every fault of the lab but one; 1.4 million states |
| `refund_workflow` | Is every payment authorised, every wait timed, and is the contract kept end to end? | 4 people (the requester may be a finance manager), 2 amounts at a limit, 1 thread, 1 operator, 1 redelivery; 0.9 million states |
| `refund_liveness` | Does every workflow come to rest? | 1 thread, 2 attempts, 1 crash, 1 dropped event; 0.29 million states |
| `refund_review` | Can a workflow in manual review always be ended? (no) | 1 thread, 1 diligent operator |
| `refund_intake` | Do cases rest on the stored evidence, do callers ever meet a unique key, is every case decided? | 2 coordinators, 2 specialists, 2 callers, 3 requests that share a key or the order, 1 fault; 0.28 million states |
| `job_safety` | Is work done once, in order, within budget, never forgotten, and does every job end? | 2 workers, 2 publishers, 2 steps, 2 attempts, 2 mishaps, 1 dropped delivery; 0.33 million states |
| `job_crash`, `job_cancel`, `job_resume` | Three statements of the repository that the code contradicts | 1 worker |
| `async_clients` | One job per key? Is every caller answered, no memory lost, every paid call accounted for, no success overwritten? | 3 callers, 1 key, 2 payloads, pool of 2, 2 broken connections; or 3 writers, 4 writes; or 1 job, 2 workers, 3 attempts, 2 mishaps; 162 thousand states |
| `tool_gateway` | Is every refund approved, is what callers are told true and kept, is nobody turned away for nothing? | 2 sessions, 4 of 6 requests, 6 answers, 3 refunds, 3 faults; or 2 threads, 4 searches, limit 2, threshold 2, clock 0 to 2; 2.3 million states |
| `search_breaker` | Does an open breaker know when it opened? (no) | 2 threads, 4 searches, no retries, so that threads meet in the breaker |

* *Two threads and an operator* are the smallest instance in which an old
  lease holder, a new one and a reconciliation are all alive. The code's budget
  is three attempts (`core.py:133,199`); the run has *two*, which gives a late
  POST of one attempt beside another attempt, a retry by finish or by
  reconciliation, and the exhausted budget, and leaves room for two crashes.
  The theorems hold for every budget. The status lookup may also answer with a
  status the code does not know (`LookupUnavailable`), which leaves the attempt
  where it was. The fault left out, `lost_response`, behaves as `unknown_status`
  does once the provider is restored (`ProviderRestore`), which may be at once.
  With its first attempt the only one that `transient_once` refuses, the
  provider of the lab cannot exhaust the budget in `core.finish`; the branch is
  taken in `refund_workflow`, where the budget is one.
* `refund_execution` starts with an approved request and its first attempt;
  `refund_workflow` starts at the submission and has one attempt, because its
  questions are about approvals and events. Amounts 2 500 000 and 2 500 001 lie
  on both sides of the manager's limit, so one escalates once and the other
  not at all. Its requests carry no fault, or one that ends the only attempt
  unpaid.
* `refund_intake`: of the three specialists only *order* (validated against the
  facts) and *risk* (asked twice) are treated in a way of their own; a third
  would behave as *order* without facts. The case request and a direct request
  race for one order, and two direct requests for one key. One fault suffices
  for two coordinators at once: the guard is lost, and the second one starts.
* `job_safety`: two attempts give a retry, its exhaustion, and a duplicate
  delivery of the first attempt beside the second. Larger numbers of steps,
  attempts and mishaps are covered by the theorems.
* `async_clients`: two connections are the smallest pool that two replays can
  hold together while each waits for its second; the third caller waits from
  outside. Three writers let two supersede what a third replaced.
* `tool_gateway`: the six requests differ from one another in exactly what the
  key leaves out (reason, tenant), in the spelling it keeps, or break the limit
  or the format; each of the approvals misses one of the conditions, but the
  first. Three faults are a start that could not read the file, a save that fails
  after it, and a second death: refunds of the file and refunds of memory are
  then at stake in one behaviour.
* `MaxFailures`, `MaxMishaps`, `MaxDropped`, `MaxLostEvents`, `MaxRedeliveries`
  and `MaxFaults` bound how often the environment misbehaves in a behaviour,
  `MaxWrites`, `MaxRefunds`, `MaxProposals`, `MaxSearches` and `MaxTime` how
  long it goes on. They are guards of environment actions only (`MaxRefunds` is
  one of `Refund`; it stands for the end of the observation). Timeouts and
  expired leases are not bounded. The proofs hold for every value of them.
* Symmetry is used in `refund_execution`, `tool_gateway` and `search_breaker`
  (threads, sessions, request ids): no action names a particular one, and these
  runs check no liveness.
* Deadlock is not checked, because all these systems do stop: a workflow that
  is closed, a job that ended, a case that is decided, with nothing left to
  deliver or to ask.

## 8. Fairness

* `RefundWorkflow!FairSpec`: weak fairness for publishing and consuming, for
  the passing of deadlines with the scheduler, for each tick thread and for
  expiring leases. The publisher, the scheduler and the tick are loops that
  never end (`celery_app.py`, `runtime.py`); clocks advance. Approvers,
  operators and the provider's handling of a POST get none: a POST may travel
  for ever, and `Settles` holds all the same.
* `AsyncJobs!FairSpec`: weak fairness for each publisher, for retries coming
  due, for claims left behind timing out, and for each worker.
  Cancellations, failures and the outcome of a step are left open.
* `Settles`, `EventsArrive` and `JobEnds` have an excuse for a delivery that an
  unexpected exception dropped. It is not an artefact of the model: Celery
  acknowledges a task that failed, and nothing in either project sends the
  message again. `JobEnds` names the two other ways in which a job is left
  unfinished; the violation runs show each of them.
* `RefundIntake!FairSpec`: weak fairness for each coordinator and for a caller
  in its transaction. No loop in the code runs a case again: `CaseIsDecided`
  therefore says that a case *which is run again after every failure* is
  decided, and that nothing stored by a failed run stands in the way.
* `AsyncClients!Spec`: weak fairness for what a caller does by itself, strong
  fairness for `Connect`, since psycopg_pool serves those who wait in turn;
  weak fairness for the steps of the queue's workers. New requests, broken
  connections and deaths are open. `CallersAreAnswered` would be false without
  the pool's timeout; that is its mutant.
* `DiligentSpec` (run `refund_review`) adds fairness for operators, closing and
  the provider, so that its counterexample is not a system that stopped.

## 9. Proofs

The theorems of eight modules hold for every value of the constants: any set
of people, amounts, threads, callers, jobs, sessions, and every bound. The
assumptions are those named in the modules. They say what kind of value each
constant is, and little else: that amounts are positive, that no thread is an
operator, that the requests that name the case name one order, and that "no
value" is no value. Every invariant and every action property of a passing run
is a theorem, and so are the three refinements.

**Execution.** The safety properties are not inductive. `CompletedIsPaid`, for
instance, needs to know that a receipt in a thread's hand is in the ledger;
`RefusedIsNotPaid` needs that a FAILED attempt is neither on the wire nor
booked, and `DefiniteOutcome` in turn that an answer "rejected" or "not
started" in a thread's hand is about an attempt nobody else has sent. `ExecutionInv` collects these facts:

| Part | Says |
|---|---|
| `ExecutionTypes` | types; a thread inside an execution is a worker and its attempt exists |
| `HeldAttempts` | an attempt a thread works on was claimed and has one thread; before its POST, and after an answer that promises no effect, it is neither on the wire nor booked |
| `WireAndLedger` | what is on the wire or booked belongs to an attempt whose outcome may be a payment (`Tried`), never both at once, always under the one key; at most one booking |
| `TrueReceipts` | every receipt in an answer or an attempt is in the ledger |
| `FreshReads` | a version a reconciliation read is of the past, and while it still matches, the workflow is in a state that may be reconciled |
| `RowsAgree` | only the latest attempt is active; workflow row and attempts agree (`ActiveExecution`); COMPLETED has a succeeded attempt, CLOSED only failed ones, the desk none; the budget is kept |

`ExecutionInit_Inv`, one lemma per action and `ExecutionStutter` give
`ExecutionIsSound`; the theorems about `ExecutionTypeOK`, `OneRefund`,
`CompletedIsPaid`, `RefusedIsNotPaid`, `DefiniteOutcome`, `ActiveExecution` and
`BoundedAttempts` and the action properties `AttemptHistory` and `FinalIsFinal` follow from it.
The crux is that one operation key per workflow, not per attempt, makes late
POSTs harmless, and that the version read before a lookup makes the outcome of
an overtaken lookup void.

**Workflow.** `WorkflowInv` adds to it `TasksHold` (authority never falls along
escalations, an approval stays as valid as it was given) and `DeskAgrees` (a
state of the machine, or an attempt, means an approval; a state of the desk
means none; waiting is timed). An execution step preserves the first part by
the lemmas above, a step of the desk or of delivery preserves it because it
touches attempts only to append the first. `WorkflowKeepsContract` maps the
initial states and each step: nearly all are stutters, and those that are not
are `Approve`, `Reject`, `Expire`, `PostRefunded`, `FinishSuccess`,
`ApplyFound` and `OperatorClose`. `MoneyIsSafe` carries the execution's safety
over to the composition.

`WorkflowsAreNotForgotten` and `EventsAreNotForgotten` are the safety halves of
`Settles` and `EventsArrive`: in every state that is not a rest there is the
event, the timer or the attempt from which the next transition comes, and a
committed event is handled, travels, or is yet to be published. Their invariant
`DriveInv` adds to `WorkflowInv` that only the handler of an event takes it
away (`SubmissionIsDue`, `ApprovalIsDue`). For the second this rests on the
version in the event: nothing moves the workflow between the approval and the
first attempt, so the event that is consumed is the current one.

**Job service** (`AsyncJobs_proofs`). The invariant `JobInv` adds to the
properties what is known at each point of `Worker.process`: a worker inside an
attempt finds the job running or overtaken by a cancellation (`ExecutorsJob`);
the steps performed, recorded and saved agree, but between running a step and
saving it (`WorkInStep`); the attempts it compares with the budget are the job's
(`LimitIsCurrent`); and a waiting job has an outbox row nobody has sent yet, a
message, or a worker whose next step the status does not refuse
(`WaitingIsSupported`). The crux is that `begin_attempt` takes QUEUED jobs only,
under the row lock: of any number of duplicates one passes, and whatever the
others do to the row, requeue it or carry out a cancellation, starts no attempt.
`JobsAreNotAbandoned` is the safety half of `JobEnds`: with `RunningIsWorked`, a
job that runs has a worker inside its attempt unless there was a mishap, it shows
that the three reasons of `JobEnds` are all there are. `JobsKeepContract` maps every step to one of `JobContract` or a stutter.

**Team and intake** (`RefundIntake_proofs`). The session lock of `run_case`
does *not* occur in the invariant: unique keys alone keep evidence and decisions
consistent, so a lost guard costs a failed round and nothing else. `TeamInv`
says that what a coordinator holds is what is stored (`HeldIsStored`), that a
decision is made on a complete round, that CLEAR never contradicts the facts
(`ConflictIsFound`), and that SUBMITTED and a workflow of the case are the same
thing. `CallersAreGuarded` says which locks a caller holds at each point;
`NoCallerFails` follows, and `PreparedRefundIsUnique` maps to `CaseContract`.

**Clients** (`AsyncClients_proofs`). `ClientsInv` has a part for each of the
three components. The intake's adds that a caller in the index is alone with its
key and the key is free (`EntriesAreSingle`), and that a caller on its way to
read the job found its own payload under the key (`ReadersMatch`). The pool's
(`PoolInv`) says that the connections held form a finite set of at most
`PoolSize`; since a step adds at most one, and only when one is free, the bound
in `TypeOK` holds for any number of callers. The memory's is about transactions
under way: each has a number of its own (`WritesAreNew`), and what it supersedes
is stored and says something else (`SupersededAreKnown`), whichever of the two
began first; and the commits are counted by what is stored, since nothing is
deleted (`StoredAreCounted`), so that every successor is a later commit. It does
*not* say that there is one active record, or that the active record is the
newest, both of which are false.

**Gateway and agent** (`GovernedAgent_proofs`). `FileFollows`: memory is ahead
of the file by the refunds whose save failed and the one being saved, and by
nothing else. The file is ahead of memory by what a start could not read: that is
what `unread` is for, and with it and `forgotten`, `ToldIsKept` carries itself
over every step but a save, where `FileFollows` is needed. `CallIsTrue`: a call that has its refund has one with its
own arguments. `RunningIsCalled`: the session that runs is the one whose
proposal is in execution, so an approval cannot drift to another proposal while
sessions wait.

**Search** (`ToolCalling_proofs`). Threads that write a window or a count of
failures they read before may lose updates, but in one direction only.
`SearchInv` says that no counter is ahead of what happened: a window counts no
search that was not admitted since it began (`Honest`), also while a thread
holds it unwritten (`EntriesAreHonest`), a thread told of the limit was told the
truth (`LimitIsReached`), and a breaker that is not closed, or a thread that is
about to open it, has its failures behind it (`BreakerHasCause`).
`RejectionsAreDeserved` follows. The history is a sequence of admissions, so
that "admitted since" is a set, and its size needs no induction.

**AWS job** (`AgentJob_proofs`). `OneToken`: a job has one message or one
attempt, never both, although the mark of an old attempt may still be due;
`Budgeted`: paid calls never exceed the retries begun; `Recorded`: the EXECUTED
and FAILED records of answered calls (`Noted`) lag by the calls being recorded and
by mishaps. `EndInv` is about the ends:
`Ended`, a job that succeeded has neither message nor attempt left, and
`Carried`, one that is pending or in progress has a message or an attempt,
unless a mishap lost it. The second is the safety half of `JobsSettle`
(`JobsAreNotForgotten`). `SuccessIsFinal` says that nothing overwrites a success,
queues its job again or pays again; it needs both what the backend keeps and
what the queue still holds.

**Model-checked only.** Liveness (`Settles`, `EventsArrive`, `JobEnds`,
`CaseIsDecided`, `CallersAreAnswered`, `JobsSettle`) rests on fairness, which
is outside TLAPS. For four of them the half that is safety is a theorem, as
said above; what TLC adds is that the steps that exist are taken and lead
somewhere. `CaseIsDecided` and `CallersAreAnswered` have no such half worth
stating: a case can always be run again, and a caller that waits has its
timeout.

## 10. Not modelled, and why

* `src/memory`: the starter of an exercise. Its README announces that 11 of
  14 tests fail until the reader has completed five unsafe places, conflicts and
  supersession of memories among them. A model would state what the
  exercise states. The same questions, for code that is meant to be right, are
  asked of `GovernedMemory`.
* The a2a and streaming demos, observability, evaluation, RAG and the session
  scripts and notebooks: linear scripts, request adapters over libraries that
  own the state, and functions of text or vectors. Nothing runs concurrently
  and nothing outlives a call. They are most of the repository's lines, which is
  why the share of lines that is modelled is small, while nearly every handler
  that changes state in the five projects above is an action.
* What a pipeline step, a prompt, an adapter or a model call computes; HTTP
  validation, health probes, event streaming; `job_events` and the workflow's
  audit rows, which no decision reads: data or pure I/O.
* Other tenants: every query is keyed by tenant. The gateway, where the key is
  not, has two.
* `lookup_order` and `recall`, which read; the expiry of memories by date.
* Two processes over one idempotency file: the gateway is a command-line or
  test process, and the file has no lock. Nor its deletion by somebody else.
* The rate limiter of the AWS API, and its approval and denial paths, which the
  two tools of the job never reach.

## 11. Findings and observations

Five runs are expected to fail. Each checks one statement of the repository
that the code does not keep; the wording is in `PROJECT.json`.

1. `refund_review` – closing asks to "reconcile before closure", but a
   reconciliation with an absent refund settles no attempt: with an UNKNOWN
   attempt and none left to retry the operator goes round for ever
   (`core.py:196-220`).
2. `job_crash` – a redelivered message of a worker that died is refused by
   `begin_attempt`, so the "worker checkpoint resume" never happens and the job
   stays RUNNING (`worker.py:54`, `store.py:203`).
3. `job_cancel` – a cancellation accepted during the last step is never carried
   out: the job stays CANCEL_REQUESTED (`worker.py:99`).
4. `job_resume` – a retry skips the steps before its checkpoint without loading
   their outputs, so later steps run without them (`worker.py:56-58`).
5. `search_breaker` – a success that is recorded while another thread opens the
   breaker clears `opened_at`; the breaker is open without a time, and the
   assertion of `before_call` fails for every search from then on
   (`reliability.py:136,152`).

Met while modelling, and not contradicted by any statement of the repository:

* The idempotency key of a refund holds the amount as the model spelled it. "2"
  and "2.00" are two keys, hence two refunds of one order, each approved.
* A refund whose save failed is reported as kept when the request is repeated
  in the same process, and forgotten by the next one. And a store file that
  cannot be read is passed over in silence: the process starts with an empty
  store, and its next save writes over what it could not read. `ToldIsKept` says
  that these are the only two ways in which a refund that somebody was told of
  is forgotten (`forgotten`), and could be paid again under its key.
* In the AWS job the mark RETRY of an attempt may come after the end of the
  next one; only SUCCESS is protected, so a FAILURE can read as RETRY for ever.
  A call whose audit record cannot be written counts as a failed step and is
  paid for again. An empty answer is paid for and audited as FAILED, so a count
  of EXECUTED records is less than what was paid.
* Two writers of the job memory can leave two active records under one key;
  recall takes the newest by `created_at`. A writer that began before another and
  reads after its commit supersedes a record that is newer than its own.
* Of two callers that race for a new key the second gets HTTP 500 and no
  replay: the unique index is the only guard, and nothing catches its error.
