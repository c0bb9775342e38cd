----------------------------- MODULE JobIntake ------------------------------
(***************************************************************************)
(* How an agent job comes to be: callers of POST /v1/agent-jobs in         *)
(* create_or_replay of app/store.py, over the connection pool of           *)
(* app/db.py.  The transaction reads the idempotency key without a lock,   *)
(* so the unique index decides between callers that both found it free;    *)
(* and a job is read on a second connection while the first one is held.   *)
(*                                                                         *)
(* A job is written with its key row, its events and its outbox row in one *)
(* commit; what becomes of it then is module AsyncJobs.                    *)
(***************************************************************************)
EXTENDS Integers, Sequences, FiniteSets

CONSTANTS
    Callers,     \* requests that may be in progress at once
    Keys,        \* idempotency keys of one tenant
    Bodies,      \* payloads a key may be used with
    PoolSize,    \* connections of the pool (the code has 10)
    MaxFaults,   \* bound: broken connections in a behaviour
    None         \* no value

ASSUME JobIntakeConstants ==
    /\ PoolSize \in Nat \ {0}
    /\ MaxFaults \in Nat
    /\ None \notin Bodies \cup {"conflict", "error"}
    /\ Bodies \cap {"conflict", "error"} = {}

VARIABLES
    jobs,    \* agent_jobs: for each key the payloads of its jobs, as committed
    keyRow,  \* idempotency_keys: the payload (hash) each key stands for
    caller,  \* progress of each caller, its request and its last answer
    faults   \* how many connections were broken

rows == <<jobs, keyRow>>

intakeVars == <<rows, caller, faults>>

\* What a caller can be told besides a job: HTTP 422, or 500.
Refusals == {"conflict", "error"}

Waiting == {"connect", "replay", "reread"}

CallerPCs == {"idle", "look", "insert", "write", "replaying", "rereading"} \cup Waiting

IntakeInit ==
    /\ jobs = [k \in Keys |-> <<>>]
    /\ keyRow = [k \in Keys |-> None]
    /\ caller = [a \in Callers |-> [pc |-> "idle", key |-> None, body |-> None, answer |-> None]]
    /\ faults = 0

----------------------------------------------------------------------------
\* Connections a caller holds: one in its transaction, two while it reads the job.
Held(a) == CASE caller[a].pc \in {"idle", "connect"}                       -> 0
             [] caller[a].pc \in {"look", "insert", "write", "replay", "reread"} -> 1
             [] OTHER                                                      -> 2

Connections == UNION {{a} \X (1..Held(a)) : a \in Callers}

InUse == Cardinality(Connections)

\* A mutant of HasFree: the pool is overdrawn.
HasFreeLate == InUse <= PoolSize

HasFree == InUse < PoolSize

GoTo(a, where) == caller' = [caller EXCEPT ![a].pc = where]

Answer(a, what) == caller' = [caller EXCEPT ![a].pc = "idle", ![a].answer = what]

(***************************************************************************)
(* A caller sends a request, its first or another one, and waits for a     *)
(* connection.                                                             *)
(***************************************************************************)
Request(a) ==
    /\ caller[a].pc = "idle"
    /\ \E k \in Keys, b \in Bodies :
           caller' = [caller EXCEPT ![a] = [pc |-> "connect", key |-> k, body |-> b, answer |-> None]]
    /\ UNCHANGED <<rows, faults>>

\* The pool hands out a connection: the first, or the one get() asks for.
Connect(a) ==
    /\ caller[a].pc \in Waiting
    /\ HasFree
    /\ GoTo(a, CASE caller[a].pc = "connect" -> "look"
                 [] caller[a].pc = "replay"  -> "replaying"
                 [] caller[a].pc = "reread"  -> "rereading")
    /\ UNCHANGED <<rows, faults>>

\* A mutant of GivesUp: the pool has no timeout.
GivesUpNever(a) == FALSE

\* A caller the pool has no connection for gives up in the end (PoolTimeout).
GivesUp(a) == caller[a].pc \in Waiting /\ ~HasFree

Timeout(a) == GivesUp(a) /\ Answer(a, "error") /\ UNCHANGED <<rows, faults>>

\* A mutant of KeyIsFree: idempotency_keys has no primary key.
KeyIsFreeAlways(k) == TRUE

KeyIsFree(k) == keyRow[k] = None

\* A mutant of SameBody: a replay does not compare the fingerprints.
SameBodyAlways(a) == TRUE

SameBody(a) == keyRow[caller[a].key] = caller[a].body

\* The first statement of the transaction: the key is free, replayed or in conflict.
Look(a) ==
    /\ caller[a].pc = "look"
    /\ IF keyRow[caller[a].key] = None THEN GoTo(a, "insert")
       ELSE IF SameBody(a) THEN GoTo(a, "replay")
       ELSE Answer(a, "conflict")
    /\ UNCHANGED <<rows, faults>>

(***************************************************************************)
(* The entry of the key in the unique index: a key another transaction has *)
(* entered is waited for, and one that is committed violates the index, in *)
(* which case the job already inserted goes with the transaction.          *)
(***************************************************************************)
Entered(k) == \E b \in Callers : caller[b].pc = "write" /\ caller[b].key = k

Insert(a) ==
    /\ caller[a].pc = "insert"
    /\ ~Entered(caller[a].key)
    /\ IF KeyIsFree(caller[a].key) THEN GoTo(a, "write") ELSE Answer(a, "error")
    /\ UNCHANGED <<rows, faults>>

\* The commit of the job with its key, its events and its outbox row.
Commit(a) ==
    /\ caller[a].pc = "write"
    /\ jobs' = [jobs EXCEPT ![caller[a].key] = Append(@, caller[a].body)]
    /\ keyRow' = [keyRow EXCEPT ![caller[a].key] = caller[a].body]
    /\ GoTo(a, "reread")
    /\ UNCHANGED faults

\* get() answers with the job of the key, and both connections go back to the pool.
Read(a) ==
    /\ caller[a].pc \in {"replaying", "rereading"}
    /\ Answer(a, jobs[caller[a].key][1])
    /\ UNCHANGED <<rows, faults>>

\* The database breaks the connection: the transaction, if it is still open, is undone.
Break(a) ==
    /\ caller[a].pc \notin {"idle", "connect"}
    /\ faults < MaxFaults
    /\ faults' = faults + 1
    /\ Answer(a, "error")
    /\ UNCHANGED rows

Serve(a) == Timeout(a) \/ Look(a) \/ Insert(a) \/ Commit(a) \/ Read(a)

IntakeNext == \E a \in Callers : Request(a) \/ Connect(a) \/ Serve(a) \/ Break(a)

IntakeSpec == IntakeInit /\ [][IntakeNext]_intakeVars

----------------------------------------------------------------------------
IntakeTypeOK ==
    /\ jobs \in [Keys -> Seq(Bodies)]
    /\ keyRow \in [Keys -> Bodies \cup {None}]
    /\ caller \in [Callers -> [pc : CallerPCs, key : Keys \cup {None}, body : Bodies \cup {None},
                               answer : Bodies \cup Refusals \cup {None}]]
    /\ faults \in 0..MaxFaults
    /\ InUse <= PoolSize

(***************************************************************************)
(* A key has one job, of the payload the key stands for, whoever raced.    *)
(***************************************************************************)
OneJobPerKey == \A k \in Keys : jobs[k] = IF keyRow[k] = None THEN <<>> ELSE <<keyRow[k]>>

(***************************************************************************)
(* A caller that is given a job asked for that payload, and one that is    *)
(* refused for a conflict did not: its key belongs to another payload.     *)
(***************************************************************************)
AnswersMatch == \A a \in Callers :
    LET c == caller[a]
    IN  /\ c.answer \in Bodies => c.answer = c.body /\ keyRow[c.key] = c.body
        /\ c.answer = "conflict" => keyRow[c.key] \notin {None, c.body}

\* Every caller is answered, also when all connections are held by callers that wait for a second one.
CallersAreAnswered == \A a \in Callers : (caller[a].pc # "idle") ~> (caller[a].pc = "idle")
=============================================================================
