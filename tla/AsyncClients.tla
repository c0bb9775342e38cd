---------------------------- MODULE AsyncClients ----------------------------
(***************************************************************************)
(* Three clients of job systems that share nothing: API threads that       *)
(* create jobs of app/, the memory that its workers write (other           *)
(* processes, other rows), and the queue of the AWS demo, another project  *)
(* altogether.  Nothing is learnt from their interleavings, so a behaviour *)
(* is one of the intake, of the memory or of the queue.                    *)
(***************************************************************************)
EXTENDS JobIntake, GovernedMemory, AgentJob

VARIABLE part   \* the system a behaviour is of

vars == <<intakeVars, memoryVars, jobVars, part>>

Init ==
    /\ IntakeInit
    /\ MemoryInit
    /\ JobInit
    /\ part \in {"intake", "memory", "queue"}

InIntake(A) == part = "intake" /\ A /\ UNCHANGED <<memoryVars, jobVars, part>>

MemoryStep == part = "memory" /\ MemoryNext /\ UNCHANGED <<intakeVars, jobVars, part>>

InQueue(A) == part = "queue" /\ A /\ UNCHANGED <<intakeVars, memoryVars, part>>

Next == InIntake(IntakeNext) \/ MemoryStep \/ InQueue(JobNext)

(***************************************************************************)
(* Fairness.  The database answers, and the pool (psycopg_pool) serves     *)
(* those who wait in turn; the workers of the queue work.  New requests,   *)
(* broken connections and deaths are left open.                            *)
(***************************************************************************)
Spec ==
    /\ Init
    /\ [][Next]_vars
    /\ \A a \in Callers : WF_vars(InIntake(Serve(a))) /\ SF_vars(InIntake(Connect(a)))
    /\ \A w \in Workers : WF_vars(InQueue(Work(w)))

TypeOK == IntakeTypeOK /\ MemoryTypeOK /\ JobTypeOK /\ part \in {"intake", "memory", "queue"}
=============================================================================
