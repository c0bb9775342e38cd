---------------------------- MODULE RefundIntake ----------------------------
(***************************************************************************)
(* create_request of app/core.py: how a workflow comes to be, from a case  *)
(* the team prepared or from a direct request, with several callers at     *)
(* work.  The transaction is followed from lock to lock, because another   *)
(* one may commit before each of them; nothing it writes is visible before *)
(* its commit, which is the last step.                                     *)
(*                                                                         *)
(* A request is [key, order, team]: its idempotency key, its order, and    *)
(* whether it names the case (what submit_case does, for the order of the  *)
(* case).                                                                  *)
(***************************************************************************)
EXTENDS SpecialistTeam

CONSTANTS
    Callers,     \* API requests that may be in progress at once
    Requests     \* the requests they make

\* There is one case, and it is about one order.
ASSUME IntakeConstants ==
    /\ \A q \in Requests : q.team \in BOOLEAN
    /\ \A p, q \in Requests : p.team /\ q.team => p.order = q.order
    /\ None \notin Callers

VARIABLES
    workflows,  \* workflow_instances: the requests they were made from
    keyLock,    \* advisory locks on idempotency keys: the holder
    orderLock,  \* advisory locks on orders
    caseLock,   \* row lock on the case (SELECT ... FOR UPDATE)
    caller      \* progress of each caller and the request it makes

intakeVars == <<workflows, keyLock, orderLock, caseLock, caller>>

vars == <<teamVars, intakeVars>>

Keys == {q.key : q \in Requests}

Orders == {q.order : q \in Requests}

CallerPCs == {"idle", "case", "order", "insert"}

NoRequest == [key |-> None, order |-> None, team |-> FALSE]

IntakeInit ==
    /\ workflows = {}
    /\ keyLock = [k \in Keys |-> None]
    /\ orderLock = [o \in Orders |-> None]
    /\ caseLock = None
    /\ caller = [a \in Callers |-> [pc |-> "idle", request |-> NoRequest]]

(***************************************************************************)
(* The caller is answered: with its workflow, new or replayed, with a      *)
(* refusal (HTTP 409), or with an error nobody handles.  The transaction   *)
(* ends and gives back its locks.                                          *)
(***************************************************************************)
Without(locks, a) == [k \in DOMAIN locks |-> IF locks[k] = a THEN None ELSE locks[k]]

Answer(a) ==
    /\ keyLock' = Without(keyLock, a)
    /\ orderLock' = Without(orderLock, a)
    /\ caseLock' = IF caseLock = a THEN None ELSE caseLock
    /\ caller' = [caller EXCEPT ![a] = [pc |-> "idle", request |-> NoRequest]]

GoTo(a, where) == caller' = [caller EXCEPT ![a].pc = where]

----------------------------------------------------------------------------
\* A mutant of KeyIsFree: keys are not locked.
KeyIsNeverTaken(k) == TRUE

KeyIsFree(k) == keyLock[k] = None

(***************************************************************************)
(* A request, first or repeated, as it gets the lock on its key: one that  *)
(* waits for it has no effect.  A request whose key has a workflow is      *)
(* answered at once, by the workflow or, if the request differs from the   *)
(* one that made it, by a refusal: neither changes anything.               *)
(***************************************************************************)
LockKey(a) ==
    /\ caller[a].pc = "idle"
    /\ \E q \in Requests :
           /\ KeyIsFree(q.key)
           /\ \A w \in workflows : w.key # q.key
           /\ keyLock' = [keyLock EXCEPT ![q.key] = a]
           /\ caller' = [caller EXCEPT ![a] = [pc |-> IF q.team THEN "case" ELSE "order", request |-> q]]
    /\ UNCHANGED <<teamVars, workflows, orderLock, caseLock>>

\* The row lock on the case, which must be ready.
LockCase(a) ==
    /\ caller[a].pc = "case"
    /\ caseLock = None
    /\ IF case.status = "READY"
       THEN /\ caseLock' = a
            /\ GoTo(a, "order")
            /\ UNCHANGED <<keyLock, orderLock>>
       ELSE Answer(a)
    /\ UNCHANGED <<teamVars, workflows>>

\* The lock on the order, which must not have a workflow.
LockOrder(a) ==
    LET q == caller[a].request
    IN  /\ caller[a].pc = "order"
        /\ orderLock[q.order] = None
        /\ IF \E w \in workflows : w.order = q.order
           THEN Answer(a)
           ELSE /\ orderLock' = [orderLock EXCEPT ![q.order] = a]
                /\ GoTo(a, "insert")
                /\ UNCHANGED <<keyLock, caseLock>>
        /\ UNCHANGED <<teamVars, workflows>>

\* The unique keys of workflow_instances: (tenant, key) and (tenant, order).
Duplicate(q) == \E w \in workflows : w.key = q.key \/ w.order = q.order

\* The insert, the submission of the case and the commit.
InsertWorkflow(a) ==
    LET q == caller[a].request
    IN  /\ caller[a].pc = "insert"
        /\ IF Duplicate(q)
           THEN Answer(a) /\ UNCHANGED <<workflows, case>>
           ELSE /\ workflows' = workflows \cup {q}
                /\ case' = IF q.team THEN [case EXCEPT !.status = "SUBMITTED", !.workflow = TRUE] ELSE case
                /\ Answer(a)
        /\ UNCHANGED <<conflict, tasks, decided, guard, co, faults>>

\* The transaction is rolled back: a lock timeout, a lost connection, a dead process.
Abort(a) ==
    /\ Fault
    /\ caller[a].pc # "idle"
    /\ Answer(a)
    /\ UNCHANGED <<conflict, case, tasks, decided, guard, co, workflows>>

Serve(a) == LockCase(a) \/ LockOrder(a) \/ InsertWorkflow(a)

----------------------------------------------------------------------------
(***************************************************************************)
(* The team and the intake over the row of the case.  A coordinator that   *)
(* writes to the case waits for the transaction that locked it.            *)
(***************************************************************************)
Init == TeamInit /\ IntakeInit

Writes(c) == co[c].pc \in {"decide", "record"}

TeamStep(c) == CoordinatorStep(c) /\ (Writes(c) => caseLock = None) /\ UNCHANGED intakeVars

Coordinate ==
    \/ \E c \in Coordinators : TeamStep(c)
    \/ (\E c \in Coordinators : CoordinatorDies(c) \/ GuardIsLost(c)) /\ UNCHANGED intakeVars

Next == Coordinate \/ \E a \in Callers : LockKey(a) \/ Serve(a) \/ Abort(a)

Spec == Init /\ [][Next]_vars

(***************************************************************************)
(* Fairness.  A case nobody runs stays as it is: that an operator runs it  *)
(* again after a failure is assumed, as is that specialists and the        *)
(* database answer.  Faults and new requests are left open.                *)
(***************************************************************************)
FairSpec ==
    /\ Spec
    /\ \A c \in Coordinators : WF_vars(TeamStep(c))
    /\ \A a \in Callers : WF_vars(Serve(a))

----------------------------------------------------------------------------
Evidence == [Roles -> Verdicts \cup {None}]

TypeOK ==
    /\ conflict \in BOOLEAN
    /\ case \in [status : {"COLLECTING", "READY", "BLOCKED", "SUBMITTED"}, snapshot : Evidence,
                 workflow : BOOLEAN]
    /\ tasks \in [Slots -> {None, "RUNNING"} \cup Verdicts]
    /\ decided \in [1..2 -> [action : Actions \cup {None}, input : Evidence]]
    /\ guard \in Coordinators \cup {None}
    /\ co \in [Coordinators -> [pc : {"idle", "collect", "decide", "record"}, round : 1..2,
                                calls : [Roles -> CallStates], results : Evidence]]
    /\ faults \in 0..MaxFaults
    /\ workflows \subseteq Requests
    /\ keyLock \in [Keys -> Callers \cup {None}]
    /\ orderLock \in [Orders -> Callers \cup {None}]
    /\ caseLock \in Callers \cup {None}
    /\ caller \in [Callers -> [pc : CallerPCs, request : Requests \cup {NoRequest}]]

(***************************************************************************)
(* The decisions are about the evidence that is stored, whoever collected  *)
(* it and however many coordinators ran: each is what the supervisor says  *)
(* of the results of its round, a second round exists only after a         *)
(* FOLLOW_UP, the case has the status of the last decision, and a case     *)
(* that goes to approval rests on CLEAR results of all, the facts allow   *)
(* (call_specialist, decide_round).                                        *)
(***************************************************************************)
EvidenceOf(round) == [r \in Roles |-> IF round = 2 /\ r = "risk" THEN tasks[<<r, 2>>] ELSE tasks[<<r, 1>>]]

DecidedOnEvidence ==
    /\ \A n \in 1..2 : decided[n].action # None =>
           /\ decided[n].input = EvidenceOf(n)
           /\ decided[n].action = Supervise(EvidenceOf(n), n)
    /\ tasks[<<"risk", 2>>] # None => decided[1].action = "FOLLOW_UP"
    /\ case.status # "COLLECTING" => \E n \in 1..2 :
           /\ decided[n].action = IF case.status = "SUBMITTED" THEN "READY" ELSE case.status
           /\ case.snapshot = IF case.status = "BLOCKED" THEN Unasked ELSE decided[n].input
    /\ case.status \in {"READY", "SUBMITTED"} =>
           /\ \A r \in Roles : case.snapshot[r] = "CLEAR"
           /\ ~conflict

(***************************************************************************)
(* No caller of create_request is answered with a unique-key violation:    *)
(* who comes to the insert finds neither its key nor its order taken.  The *)
(* two advisory locks are there for this.                                  *)
(***************************************************************************)
NoCallerFails == \A a \in Callers : caller[a].pc = "insert" => ~Duplicate(caller[a].request)

\* Team and intake keep the contract of module CaseContract.
CaseWorkflows == {w \in workflows : \E q \in Requests : q.team /\ q.order = w.order}

Contract == INSTANCE CaseContract WITH
    stage   <- case.status,
    refunds <- Cardinality(CaseWorkflows),
    own     <- Cardinality({w \in CaseWorkflows : w.team})

KeepsCaseContract == Contract!Spec

\* A case that is run again after every failure is decided.
CaseIsDecided == (case.status = "COLLECTING") ~> (case.status # "COLLECTING")
=============================================================================
