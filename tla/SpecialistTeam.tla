--------------------------- MODULE SpecialistTeam ---------------------------
(***************************************************************************)
(* The team that prepares a refund case (app/team.py, team_starter.py,     *)
(* graph.py of src/multi-agent-orchestration): coordinators ask all        *)
(* specialists at once, decide on what they answer, ask the risk           *)
(* specialist a second time when only its answer is missing, and leave the *)
(* case READY with a frozen snapshot or BLOCKED.                           *)
(*                                                                         *)
(* All rows are keyed by the case, so one case is the unit of interaction. *)
(* A transaction is one action unless it reads first and writes by what it *)
(* read: then another transaction may commit in between, and the unique    *)
(* keys of sql/003_agent_team.sql decide.                                  *)
(***************************************************************************)
EXTENDS Integers, FiniteSets

CONSTANTS
    Roles,         \* the specialists; ROLES of the code is policy, order and risk
    Coordinators,  \* run_case invocations that may be alive at once
    Answers,       \* Answers[r]: the verdicts specialist r may come back with
    MaxFaults      \* bound on crashes, lost connections and aborted transactions

Verdicts == {"CLEAR", "BLOCK", "REVIEW", "ERROR"}

\* Every call may end in ERROR: an exception, or the persisted deadline.
ASSUME TeamConstants ==
    /\ {"order", "risk"} \subseteq Roles
    /\ Answers \in [Roles -> SUBSET Verdicts]
    /\ \A r \in Roles : "ERROR" \in Answers[r]
    /\ MaxFaults \in Nat

VARIABLES
    conflict,  \* the frozen facts: the order was refunded already
    case,      \* agent_cases: status, frozen snapshot, workflow of the case
    tasks,     \* agent_tasks with agent_results: absent, RUNNING, or the stored verdict
    decided,   \* coordination_decisions by round, with the evidence they saw
    guard,     \* holder of the session advisory lock of the case
    co,        \* what each coordinator holds in memory
    faults     \* faults so far

teamVars == <<conflict, case, tasks, decided, guard, co, faults>>

----------------------------------------------------------------------------
None == "none"

Slots == (Roles \X {1}) \cup {<<"risk", 2>>}

RolesOf(round) == IF round = 1 THEN Roles ELSE {"risk"}

Unasked == [r \in Roles |-> None]

Unopened == [action |-> None, input |-> Unasked]

\* calls: how far each call_specialist of the round is.
Resting == [pc |-> "idle", round |-> 1, calls |-> Unasked, results |-> Unasked]

CallStates == {None, "insert", "asked", "failed"} \cup Verdicts

Actions == {"FOLLOW_UP", "READY", "BLOCKED"}

TeamInit ==
    /\ conflict \in BOOLEAN
    /\ case = [status |-> "COLLECTING", snapshot |-> Unasked, workflow |-> FALSE]
    /\ tasks = [s \in Slots |-> None]
    /\ decided = [n \in 1..2 |-> Unopened]
    /\ guard = None
    /\ co = [c \in Coordinators |-> Resting]
    /\ faults = 0

\* A mutant of Stored: the primary key of agent_results is missing.
StoredNever(s) == FALSE

\* The verdict is stored: agent_results has a row for the task.
Stored(s) == tasks[s] \in Verdicts

\* validate_result: CLEAR against the facts is an error of the specialist.
Valid(r, v) == IF v = "CLEAR" /\ r = "order" /\ conflict THEN "ERROR" ELSE v

Supervise(results, round) ==
    LET missing == {r \in Roles : results[r] # "CLEAR"}
    IN  IF \E r \in Roles : results[r] = "BLOCK" THEN "BLOCKED"
        ELSE IF missing = {"risk"} /\ round = 1 THEN "FOLLOW_UP"
        ELSE IF missing = {} THEN "READY"
        ELSE "BLOCKED"

\* Leaving run_case, by an end or an exception, gives the lock back.
Free(c) == IF guard = c THEN None ELSE guard

Leave(c) == co' = [co EXCEPT ![c] = Resting] /\ guard' = Free(c)

----------------------------------------------------------------------------
(***************************************************************************)
(* run_case.  A second coordinator is refused while the lock is held, and  *)
(* a decided case is returned as it is: both change nothing.  Every run    *)
(* begins at round 1 with no results.                                      *)
(***************************************************************************)
RunCase(c) ==
    /\ co[c].pc = "idle"
    /\ guard = None
    /\ case.status = "COLLECTING"
    /\ guard' = c
    /\ co' = [co EXCEPT ![c].pc = "collect"]
    /\ UNCHANGED <<conflict, case, tasks, decided, faults>>

Slot(c, r) == <<r, co[c].round>>

Calling(c, r, where) == co[c].pc = "collect" /\ r \in RolesOf(co[c].round) /\ co[c].calls[r] = where

\* A mutant of Found: the specialist is asked again for an answer that is stored.
FoundAgain(t) == IF t = None THEN "insert" ELSE "asked"

\* A stored verdict is the answer of its call.
Found(t) == IF t = None THEN "insert" ELSE IF t = "RUNNING" THEN "asked" ELSE t

\* call_specialist, its first transaction up to the insert.
FindTask(c, r) ==
    /\ Calling(c, r, None)
    /\ co' = [co EXCEPT ![c].calls[r] = Found(tasks[Slot(c, r)])]
    /\ UNCHANGED <<conflict, case, tasks, decided, guard, faults>>

\* The insert of the task; the unique key refuses the second of two.
OpenTask(c, r) ==
    LET new == tasks[Slot(c, r)] = None
    IN  /\ Calling(c, r, "insert")
        /\ tasks' = IF new THEN [tasks EXCEPT ![Slot(c, r)] = "RUNNING"] ELSE tasks
        /\ co' = [co EXCEPT ![c].calls[r] = IF new THEN "asked" ELSE "failed"]
        /\ UNCHANGED <<conflict, case, decided, guard, faults>>

(***************************************************************************)
(* The specialist's answer, outside any transaction, and the second        *)
(* transaction; the primary key refuses a second result.  A task that is   *)
(* past its deadline, before the call or after it, ends in ERROR.          *)
(***************************************************************************)
StoreResult(c, r) ==
    LET s == Slot(c, r)
    IN  /\ Calling(c, r, "asked")
        /\ IF Stored(s)
           THEN co' = [co EXCEPT ![c].calls[r] = "failed"] /\ UNCHANGED tasks
           ELSE \E v \in {Valid(r, v) : v \in Answers[r]} :
                    /\ tasks' = [tasks EXCEPT ![s] = v]
                    /\ co' = [co EXCEPT ![c].calls[r] = v]
        /\ UNCHANGED <<conflict, case, decided, guard, faults>>

\* A mutant of Raised: exceptions of the calls are dropped.
RaisedNever(c) == FALSE

Raised(c) == \E r \in RolesOf(co[c].round) : co[c].calls[r] = "failed"

\* collect_parallel waits for every call, then raises if one of them did.
Collect(c) ==
    LET asked == RolesOf(co[c].round)
        calls == co[c].calls
    IN  /\ co[c].pc = "collect"
        /\ \A r \in asked : calls[r] \in Verdicts \cup {"failed"}
        /\ IF Raised(c)
           THEN Leave(c)
           ELSE /\ co' = [co EXCEPT
                            ![c].pc = "decide",
                            ![c].calls = Unasked,
                            ![c].results = [r \in Roles |-> IF r \in asked THEN calls[r] ELSE @[r]]]
                /\ UNCHANGED guard
        /\ UNCHANGED <<conflict, case, tasks, decided, faults>>

(***************************************************************************)
(* The rest of decide_round's transaction once the action is known: a      *)
(* final one is written to the case, where the checks of the table and its *)
(* trigger refuse to undo a submission or to change frozen evidence.       *)
(***************************************************************************)
CaseAfter(c, action) ==
    [case EXCEPT !.status = action,
                 !.snapshot = IF action = "READY" THEN co[c].results ELSE Unasked]

\* A mutant of Refused: no check ties the status to the workflow of the case.
RefusedFrozen(c, action) ==
    case.status = "READY" /\ CaseAfter(c, action).snapshot # case.snapshot

Refused(c, action) ==
    \/ case.workflow
    \/ case.status = "READY" /\ CaseAfter(c, action).snapshot # case.snapshot

Conclude(c, action) ==
    IF action = "FOLLOW_UP"
    THEN /\ co' = [co EXCEPT ![c].pc = "collect", ![c].round = 2]
         /\ UNCHANGED <<case, guard>>
    ELSE Leave(c) /\ case' = CaseAfter(c, action)

\* decide_round up to its insert: the decision already made for the round wins.
LookForDecision(c) ==
    LET prior == decided[co[c].round].action
    IN  /\ co[c].pc = "decide"
        /\ IF prior = None
           THEN co' = [co EXCEPT ![c].pc = "record"] /\ UNCHANGED <<case, guard>>
           ELSE IF prior # "FOLLOW_UP" /\ Refused(c, prior)
           THEN Leave(c) /\ UNCHANGED case
           ELSE Conclude(c, prior)
        /\ UNCHANGED <<conflict, tasks, decided, faults>>

\* The insert of the decision; the unique key refuses the second of two.
RecordDecision(c) ==
    LET n == co[c].round
        action == Supervise(co[c].results, n)
    IN  /\ co[c].pc = "record"
        /\ IF decided[n].action # None \/ (action # "FOLLOW_UP" /\ Refused(c, action))
           THEN Leave(c) /\ UNCHANGED <<case, decided>>
           ELSE /\ decided' = [decided EXCEPT ![n] = [action |-> action, input |-> co[c].results]]
                /\ Conclude(c, action)
        /\ UNCHANGED <<conflict, tasks, faults>>

----------------------------------------------------------------------------
Fault == faults < MaxFaults /\ faults' = faults + 1

CoordinatorDies(c) ==
    /\ Fault
    /\ co[c].pc # "idle"
    /\ Leave(c)
    /\ UNCHANGED <<conflict, case, tasks, decided>>

\* The guard connection breaks; nobody tells the graph that runs under it.
GuardIsLost(c) ==
    /\ Fault
    /\ guard = c
    /\ guard' = None
    /\ UNCHANGED <<conflict, case, tasks, decided, co>>

CoordinatorStep(c) ==
    \/ RunCase(c)
    \/ \E r \in Roles : FindTask(c, r) \/ OpenTask(c, r) \/ StoreResult(c, r)
    \/ Collect(c)
    \/ LookForDecision(c)
    \/ RecordDecision(c)
=============================================================================
