------------------------- MODULE AsyncClients_proofs -------------------------
(***************************************************************************)
(* What is promised to the clients of the job systems, for every number of *)
(* callers, connections, writers and workers: the invariant of the intake, *)
(* that of the memory (the one of the queue is in AgentJob_proofs), and    *)
(* with them those of the three side by side.                              *)
(***************************************************************************)
EXTENDS AsyncClients, AgentJob_proofs, WellFoundedInduction

----------------------------------------------------------------------------
(***************************************************************************)
(* The intake.  A key has one job, and callers are answered with the job   *)
(* they asked for: how many connections are in use plays no part in it.    *)
(* The pool is never overdrawn: a step takes one connection, if one is     *)
(* free.                                                                   *)
(***************************************************************************)
CallerTypes == [pc : CallerPCs, key : Keys \cup {None}, body : Bodies \cup {None},
                answer : Bodies \cup Refusals \cup {None}]

IntakeTypes ==
    /\ jobs \in [Keys -> Seq(Bodies)]
    /\ keyRow \in [Keys -> Bodies \cup {None}]
    /\ caller \in [Callers -> CallerTypes]

\* A caller that has something to do, or something to tell, has a request.
RequestsAreKnown == \A a \in Callers :
    caller[a].pc # "idle" \/ caller[a].answer # None => caller[a].key \in Keys /\ caller[a].body \in Bodies

\* A caller at work has no answer yet.
WorkIsOpen == \A a \in Callers : caller[a].pc # "idle" => caller[a].answer = None

\* A caller that entered a key in the index is alone with it, and the key was free.
EntriesAreSingle == \A a \in Callers : caller[a].pc = "write" =>
    /\ keyRow[caller[a].key] = None
    /\ \A b \in Callers : caller[b].pc = "write" /\ caller[b].key = caller[a].key => b = a

\* A caller that will read the job of its key found its own payload there.
ReadersMatch == \A a \in Callers :
    caller[a].pc \in {"replay", "replaying", "reread", "rereading"} => keyRow[caller[a].key] = caller[a].body

\* The inductive invariant.
IntakeInv ==
    /\ IntakeTypes
    /\ RequestsAreKnown
    /\ WorkIsOpen
    /\ EntriesAreSingle
    /\ ReadersMatch
    /\ OneJobPerKey
    /\ AnswersMatch

USE DEF CallerTypes, CallerPCs, Waiting, Refusals

\* The invariant holds when no caller has come.
LEMMA IntakeInit_Inv == IntakeInit => IntakeInv
<1>1. SUFFICES ASSUME IntakeInit PROVE IntakeInv
  OBVIOUS
<1>2. IntakeTypes
  BY <1>1 DEF IntakeInit, IntakeTypes
<1>3. RequestsAreKnown /\ WorkIsOpen /\ EntriesAreSingle /\ ReadersMatch
  BY <1>1 DEF IntakeInit, RequestsAreKnown, WorkIsOpen, EntriesAreSingle, ReadersMatch
<1>4. OneJobPerKey
  BY <1>1 DEF IntakeInit, OneJobPerKey
<1>5. AnswersMatch
  BY <1>1, JobIntakeConstants DEF IntakeInit, AnswersMatch
<1> QED
  BY <1>2, <1>3, <1>4, <1>5 DEF IntakeInv

(***************************************************************************)
(* A step of one caller that writes no row: what has to be shown of that   *)
(* caller alone.                                                           *)
(***************************************************************************)
LEMMA ReadOnlyStep ==
    ASSUME IntakeInv, NEW a \in Callers, NEW c \in CallerTypes,
           caller' = [caller EXCEPT ![a] = c], UNCHANGED rows,
           c.pc # "idle" \/ c.answer # None => c.key \in Keys /\ c.body \in Bodies,
           c.pc # "idle" => c.answer = None,
           c.pc = "write" => keyRow[c.key] = None
               /\ \A b \in Callers : ~(caller[b].pc = "write" /\ caller[b].key = c.key),
           c.pc \in {"replay", "replaying", "reread", "rereading"} => keyRow[c.key] = c.body,
           c.answer \in Bodies => c.answer = c.body /\ keyRow[c.key] = c.body,
           c.answer = "conflict" => keyRow[c.key] \notin {None, c.body}
    PROVE  IntakeInv'
<1>1. IntakeTypes'
  BY DEF IntakeInv, IntakeTypes, rows
<1>2. caller'[a] = c /\ \A b \in Callers : b # a => caller'[b] = caller[b]
  BY DEF IntakeInv, IntakeTypes
<1>3. RequestsAreKnown' /\ WorkIsOpen'
  BY <1>2 DEF IntakeInv, RequestsAreKnown, WorkIsOpen
<1>4. EntriesAreSingle'
  BY <1>2 DEF IntakeInv, EntriesAreSingle, rows
<1>5. ReadersMatch'
  BY <1>2 DEF IntakeInv, ReadersMatch, rows
<1>6. OneJobPerKey'
  BY DEF IntakeInv, OneJobPerKey, rows
<1>7. AnswersMatch'
  BY <1>2 DEF IntakeInv, AnswersMatch, rows
<1> QED
  BY <1>1, <1>3, <1>4, <1>5, <1>6, <1>7 DEF IntakeInv

\* A new request.
LEMMA Request_Inv == ASSUME IntakeInv, NEW a \in Callers, Request(a) PROVE IntakeInv'
<1>1. PICK k \in Keys, b \in Bodies :
        caller' = [caller EXCEPT ![a] = [pc |-> "connect", key |-> k, body |-> b, answer |-> None]]
  BY DEF Request
<1> DEFINE c == [pc |-> "connect", key |-> k, body |-> b, answer |-> None]
<1>2. c \in CallerTypes /\ UNCHANGED rows
  BY DEF Request
<1> QED
  BY <1>1, <1>2, ReadOnlyStep, JobIntakeConstants

\* A connection is handed out.
LEMMA Connect_Inv == ASSUME IntakeInv, NEW a \in Callers, Connect(a) PROVE IntakeInv'
<1> DEFINE where == CASE caller[a].pc = "connect" -> "look"
                      [] caller[a].pc = "replay"  -> "replaying"
                      [] caller[a].pc = "reread"  -> "rereading"
           c == [caller[a] EXCEPT !.pc = where]
<1>1. caller[a] \in CallerTypes /\ caller[a].pc \in Waiting /\ UNCHANGED rows
  BY DEF IntakeInv, IntakeTypes, Connect
<1>2. where \in {"look", "replaying", "rereading"} /\ (where # "look" => caller[a].pc \in {"replay", "reread"})
  BY <1>1
<1>3. caller' = [caller EXCEPT ![a] = c]
  BY <1>1 DEF Connect, GoTo, IntakeInv, IntakeTypes
<1>4. c \in CallerTypes /\ c.pc = where /\ c.key = caller[a].key /\ c.body = caller[a].body /\ c.answer = caller[a].answer
  BY <1>1, <1>2
<1>5. c.answer = None /\ c.key \in Keys /\ c.body \in Bodies
  BY <1>1, <1>4 DEF IntakeInv, RequestsAreKnown, WorkIsOpen
<1>6. where # "look" => keyRow[c.key] = c.body
  BY <1>2, <1>4 DEF IntakeInv, ReadersMatch
<1> HIDE DEF where, c
<1> QED
  BY <1>1, <1>2, <1>3, <1>4, <1>5, <1>6, ReadOnlyStep, JobIntakeConstants

(***************************************************************************)
(* A caller is answered.  What it is told decides what there is to show.   *)
(***************************************************************************)
LEMMA Answer_Inv ==
    ASSUME IntakeInv, NEW a \in Callers, NEW what \in Bodies \cup Refusals,
           caller[a].pc # "idle", Answer(a, what), UNCHANGED rows,
           what \in Bodies => what = caller[a].body /\ keyRow[caller[a].key] = caller[a].body,
           what = "conflict" => keyRow[caller[a].key] \notin {None, caller[a].body}
    PROVE  IntakeInv'
<1> DEFINE c == [caller[a] EXCEPT !.pc = "idle", !.answer = what]
<1>1. caller[a] \in CallerTypes
  BY DEF IntakeInv, IntakeTypes
<1>2. caller' = [caller EXCEPT ![a] = c]
  BY <1>1 DEF Answer, IntakeInv, IntakeTypes
<1>3. c \in CallerTypes /\ c.pc = "idle" /\ c.key = caller[a].key /\ c.body = caller[a].body /\ c.answer = what
  BY <1>1
<1>4. c.key \in Keys /\ c.body \in Bodies
  BY <1>3 DEF IntakeInv, RequestsAreKnown
<1> HIDE DEF c
<1> QED
  BY <1>2, <1>3, <1>4, ReadOnlyStep

\* A caller goes on to another point, without an answer.
LEMMA GoTo_Inv ==
    ASSUME IntakeInv, NEW a \in Callers, NEW where \in {"insert", "write", "replay"},
           caller[a].pc # "idle", GoTo(a, where), UNCHANGED rows,
           where = "write" => keyRow[caller[a].key] = None /\ ~Entered(caller[a].key),
           where = "replay" => keyRow[caller[a].key] = caller[a].body
    PROVE  IntakeInv'
<1> DEFINE c == [caller[a] EXCEPT !.pc = where]
<1>1. caller[a] \in CallerTypes
  BY DEF IntakeInv, IntakeTypes
<1>2. caller' = [caller EXCEPT ![a] = c]
  BY <1>1 DEF GoTo, IntakeInv, IntakeTypes
<1>3. c \in CallerTypes /\ c.pc = where /\ c.key = caller[a].key /\ c.body = caller[a].body /\ c.answer = caller[a].answer
  BY <1>1
<1>4. c.answer = None /\ c.key \in Keys /\ c.body \in Bodies
  BY <1>3 DEF IntakeInv, RequestsAreKnown, WorkIsOpen
<1>5. where = "write" => \A b \in Callers : ~(caller[b].pc = "write" /\ caller[b].key = c.key)
  BY <1>3 DEF Entered
<1> HIDE DEF c
<1> QED
  BY <1>2, <1>3, <1>4, <1>5, ReadOnlyStep, JobIntakeConstants

\* The first statement.
LEMMA Look_Inv == ASSUME IntakeInv, NEW a \in Callers, Look(a) PROVE IntakeInv'
<1>1. caller[a].pc = "look" /\ UNCHANGED rows
  BY DEF Look
<1>2. CASE keyRow[caller[a].key] = None
  BY <1>1, <1>2, GoTo_Inv DEF Look
<1>3. CASE keyRow[caller[a].key] # None /\ SameBody(a)
  BY <1>1, <1>3, GoTo_Inv DEF Look, SameBody
<1>4. CASE keyRow[caller[a].key] # None /\ ~SameBody(a)
  BY <1>1, <1>4, Answer_Inv, JobIntakeConstants DEF Look, SameBody
<1> QED
  BY <1>2, <1>3, <1>4

\* The unique index.
LEMMA Insert_Inv == ASSUME IntakeInv, NEW a \in Callers, Insert(a) PROVE IntakeInv'
<1>1. caller[a].pc = "insert" /\ UNCHANGED rows /\ ~Entered(caller[a].key)
  BY DEF Insert
<1>2. CASE KeyIsFree(caller[a].key)
  BY <1>1, <1>2, GoTo_Inv DEF Insert, KeyIsFree
<1>3. CASE ~KeyIsFree(caller[a].key)
  BY <1>1, <1>3, Answer_Inv, JobIntakeConstants DEF Insert
<1> QED
  BY <1>2, <1>3

\* The caller reads the job of its key: there is one, of its own payload.
LEMMA Read_Inv == ASSUME IntakeInv, NEW a \in Callers, Read(a) PROVE IntakeInv'
<1>1. /\ caller[a].pc \in {"replaying", "rereading"}
      /\ UNCHANGED rows
      /\ Answer(a, jobs[caller[a].key][1])
  BY DEF Read
<1>2. caller[a].key \in Keys /\ caller[a].body \in Bodies /\ keyRow[caller[a].key] = caller[a].body
  BY <1>1 DEF IntakeInv, RequestsAreKnown, ReadersMatch
<1>3. jobs[caller[a].key] = <<caller[a].body>>
  BY <1>2, JobIntakeConstants DEF IntakeInv, OneJobPerKey
<1>4. jobs[caller[a].key][1] = caller[a].body
  BY <1>3
<1> QED
  BY <1>1, <1>2, <1>4, Answer_Inv, JobIntakeConstants

\* The commit: the key was free, so what others were told of other keys, or of this one, stays true.
LEMMA Commit_Inv == ASSUME IntakeInv, NEW a \in Callers, Commit(a) PROVE IntakeInv'
<1> DEFINE k == caller[a].key
           b == caller[a].body
           c == [caller[a] EXCEPT !.pc = "reread"]
<1>1. caller[a].pc = "write" /\ k \in Keys /\ b \in Bodies /\ caller[a] \in CallerTypes /\ caller[a].answer = None
  BY DEF IntakeInv, IntakeTypes, RequestsAreKnown, WorkIsOpen, Commit
<1>2. keyRow[k] = None /\ jobs[k] = <<>>
  BY <1>1 DEF IntakeInv, EntriesAreSingle, OneJobPerKey
<1>3. jobs' = [jobs EXCEPT ![k] = Append(@, b)] /\ keyRow' = [keyRow EXCEPT ![k] = b]
  BY DEF Commit
<1>4. caller' = [caller EXCEPT ![a] = c] /\ c \in CallerTypes
  BY <1>1 DEF Commit, GoTo, IntakeInv, IntakeTypes
<1>5. c.pc = "reread" /\ c.key = k /\ c.body = b /\ c.answer = None
  BY <1>1
<1>6. jobs'[k] = <<b>> /\ jobs' \in [Keys -> Seq(Bodies)]
  <2>1. Append(jobs[k], b) = <<b>>
    BY <1>2
  <2>2. Append(jobs[k], b) \in Seq(Bodies)
    BY <1>1 DEF IntakeInv, IntakeTypes
  <2> QED
    BY <1>1, <1>3, <2>1, <2>2 DEF IntakeInv, IntakeTypes
<1>7. keyRow'[k] = b /\ \A x \in Keys : x # k => keyRow'[x] = keyRow[x] /\ jobs'[x] = jobs[x]
  BY <1>1, <1>3 DEF IntakeInv, IntakeTypes
<1> HIDE DEF c
<1>8. caller'[a] = c /\ \A x \in Callers : x # a => caller'[x] = caller[x]
  BY <1>4 DEF IntakeInv, IntakeTypes
<1>9. IntakeTypes'
  BY <1>1, <1>3, <1>4, <1>6 DEF IntakeInv, IntakeTypes
<1>10. RequestsAreKnown' /\ WorkIsOpen'
  BY <1>1, <1>5, <1>8 DEF IntakeInv, RequestsAreKnown, WorkIsOpen
<1>11. EntriesAreSingle'
  <2> SUFFICES ASSUME NEW x \in Callers, caller'[x].pc = "write"
               PROVE  /\ keyRow'[caller'[x].key] = None
                      /\ \A y \in Callers : caller'[y].pc = "write" /\ caller'[y].key = caller'[x].key => y = x
    BY DEF EntriesAreSingle
  <2>1. x # a /\ caller'[x] = caller[x]
    BY <1>5, <1>8
  <2>2. caller[x].key # k /\ caller[x].key \in Keys
    BY <1>1, <2>1 DEF IntakeInv, EntriesAreSingle, RequestsAreKnown
  <2> QED
    BY <1>5, <1>7, <1>8, <2>1, <2>2 DEF IntakeInv, EntriesAreSingle
<1>12. ReadersMatch'
  <2> SUFFICES ASSUME NEW x \in Callers, caller'[x].pc \in {"replay", "replaying", "reread", "rereading"}
               PROVE  keyRow'[caller'[x].key] = caller'[x].body
    BY DEF ReadersMatch
  <2>1. CASE x = a
    BY <1>5, <1>7, <1>8, <2>1
  <2>2. CASE x # a
    <3>1. caller'[x] = caller[x] /\ caller[x].key \in Keys /\ caller[x].body \in Bodies
      BY <1>8, <2>2 DEF IntakeInv, RequestsAreKnown
    <3>2. keyRow[caller[x].key] = caller[x].body
      BY <3>1 DEF IntakeInv, ReadersMatch
    <3>3. caller[x].key # k
      BY <1>2, <3>1, <3>2, JobIntakeConstants
    <3> QED
      BY <1>7, <3>1, <3>2, <3>3
  <2> QED
    BY <2>1, <2>2
<1>13. OneJobPerKey'
  BY <1>1, <1>6, <1>7, JobIntakeConstants DEF IntakeInv, OneJobPerKey
<1>14. AnswersMatch'
  <2> SUFFICES ASSUME NEW x \in Callers
               PROVE  /\ caller'[x].answer \in Bodies =>
                             caller'[x].answer = caller'[x].body /\ keyRow'[caller'[x].key] = caller'[x].body
                      /\ caller'[x].answer = "conflict" => keyRow'[caller'[x].key] \notin {None, caller'[x].body}
    BY DEF AnswersMatch
  <2>1. CASE x = a
    BY <1>5, <1>8, <2>1, JobIntakeConstants
  <2>2. CASE x # a /\ caller[x].answer \in Bodies
    <3>1. caller'[x] = caller[x] /\ caller[x].key \in Keys /\ caller[x].body \in Bodies
      BY <1>8, <2>2, JobIntakeConstants DEF IntakeInv, RequestsAreKnown
    <3>2. keyRow[caller[x].key] = caller[x].body /\ caller[x].answer = caller[x].body
      BY <2>2 DEF IntakeInv, AnswersMatch
    <3>3. caller[x].key # k
      BY <1>2, <3>1, <3>2, JobIntakeConstants
    <3> QED
      BY <1>7, <2>2, <3>1, <3>2, <3>3, JobIntakeConstants
  <2>3. CASE x # a /\ caller[x].answer = "conflict"
    <3>1. caller'[x] = caller[x] /\ caller[x].key \in Keys
      BY <1>8, <2>3, JobIntakeConstants DEF IntakeInv, RequestsAreKnown
    <3>2. keyRow[caller[x].key] \notin {None, caller[x].body}
      BY <2>3 DEF IntakeInv, AnswersMatch
    <3> QED
      BY <1>2, <1>7, <2>3, <3>1, <3>2, JobIntakeConstants
  <2> QED
    BY <1>8, <2>1, <2>2, <2>3
<1> QED
  BY <1>9, <1>10, <1>11, <1>12, <1>13, <1>14 DEF IntakeInv

\* A broken connection, or a pool that has none.
LEMMA Error_Inv == ASSUME IntakeInv, NEW a \in Callers, Break(a) \/ Timeout(a) PROVE IntakeInv'
<1>1. caller[a].pc # "idle" /\ UNCHANGED rows /\ Answer(a, "error")
  BY DEF Break, Timeout, GivesUp
<1> QED
  BY <1>1, Answer_Inv, JobIntakeConstants

\* Every step keeps the invariant.
LEMMA IntakeNext_Inv == IntakeInv /\ [IntakeNext]_intakeVars => IntakeInv'
<1> SUFFICES ASSUME IntakeInv, [IntakeNext]_intakeVars PROVE IntakeInv'
  OBVIOUS
<1>1. CASE UNCHANGED intakeVars
  BY <1>1 DEF intakeVars, rows, IntakeInv, IntakeTypes, RequestsAreKnown, WorkIsOpen, EntriesAreSingle, ReadersMatch,
              OneJobPerKey, AnswersMatch
<1>2. CASE IntakeNext
  <2>1. PICK a \in Callers : Request(a) \/ Connect(a) \/ Serve(a) \/ Break(a)
    BY <1>2 DEF IntakeNext
  <2> QED
    BY <2>1, Request_Inv, Connect_Inv, Look_Inv, Insert_Inv, Commit_Inv, Read_Inv, Error_Inv DEF Serve
<1> QED
  BY <1>1, <1>2

(***************************************************************************)
(* The pool.  A caller at one of these points holds no, one or two         *)
(* connections.                                                            *)
(***************************************************************************)
PoolInv ==
    /\ IsFiniteSet(Connections)
    /\ InUse <= PoolSize
    /\ faults \in 0..MaxFaults

LEMMA HeldIs ==
    ASSUME NEW a \in Callers, caller[a].pc \in CallerPCs
    PROVE  /\ caller[a].pc \in {"idle", "connect"} => Held(a) = 0
           /\ caller[a].pc \in {"look", "insert", "write", "replay", "reread"} => Held(a) = 1
           /\ caller[a].pc \in {"replaying", "rereading"} => Held(a) = 2
           /\ Held(a) \in 0..2
  BY DEF Held

\* The caller that moves takes one connection if one is free, or none.
LEMMA PoolStep ==
    ASSUME IntakeTypes, IntakeTypes', PoolInv, NEW a \in Callers,
           \A b \in Callers : b # a => caller'[b] = caller[b],
           Held(a)' <= Held(a) \/ (HasFree /\ Held(a)' = Held(a) + 1)
    PROVE  IsFiniteSet(Connections') /\ InUse' <= PoolSize
<1>1. Held(a) \in 0..2 /\ Held(a)' \in 0..2
  BY HeldIs DEF IntakeTypes, Held
<1>2. \A b \in Callers : b # a => Held(b)' = Held(b)
  BY DEF Held
<1>3. InUse \in Nat /\ InUse <= PoolSize /\ IsFiniteSet(Connections) /\ PoolSize \in Nat
  BY FS_CardinalityType, JobIntakeConstants DEF PoolInv, InUse
<1>4. Connections' = UNION {{b} \X (1..Held(b)') : b \in Callers}
  BY DEF Connections
<1>5. CASE Held(a)' <= Held(a)
  <2>1. Connections' \subseteq Connections
    <3> SUFFICES ASSUME NEW b \in Callers, NEW n \in 1..Held(b)' PROVE <<b, n>> \in Connections
      BY <1>4
    <3>1. n \in 1..Held(b)
      <4> HIDE DEF Held
      <4> QED
        BY <1>1, <1>2, <1>5
    <3> QED
      BY <3>1 DEF Connections
  <2> QED
    BY <1>3, <2>1, FS_Subset, FS_CardinalityType DEF InUse
<1>6. CASE HasFree /\ Held(a)' = Held(a) + 1
  <2> DEFINE new == <<a, Held(a) + 1>>
  <2>1. Connections' \subseteq Connections \cup {new}
    <3> SUFFICES ASSUME NEW b \in Callers, NEW n \in 1..Held(b)' PROVE <<b, n>> \in Connections \cup {new}
      BY <1>4
    <3>1. n \in 1..Held(b) \/ <<b, n>> = new
      BY <1>1, <1>2, <1>6
    <3> QED
      BY <3>1 DEF Connections
  <2>2. IsFiniteSet(Connections \cup {new}) /\ Cardinality(Connections \cup {new}) <= InUse + 1
    <3> HIDE DEF new
    <3>1. /\ IsFiniteSet(Connections \cup {new})
          /\ Cardinality(Connections \cup {new}) =
                 IF new \in Connections THEN Cardinality(Connections) ELSE Cardinality(Connections) + 1
      BY <1>3, FS_AddElement, Zenon
    <3> QED
      BY <1>3, <3>1 DEF InUse
  <2> HIDE DEF new
  <2>3. IsFiniteSet(Connections') /\ Cardinality(Connections') <= Cardinality(Connections \cup {new})
    BY <2>1, <2>2, FS_Subset
  <2>4. Cardinality(Connections') \in Nat /\ Cardinality(Connections \cup {new}) \in Nat
    BY <2>2, <2>3, FS_CardinalityType
  <2>5. InUse < PoolSize
    BY <1>6 DEF HasFree
  <2>6. InUse' = Cardinality(Connections')
    BY DEF InUse
  <2> QED
    BY <1>3, <2>2, <2>3, <2>4, <2>5, <2>6
<1> QED
  BY <1>5, <1>6

LEMMA PoolInit_Inv == IntakeInit => PoolInv
<1> SUFFICES ASSUME IntakeInit PROVE PoolInv
  OBVIOUS
<1>1. \A a \in Callers : Held(a) = 0
  BY DEF IntakeInit, Held
<1>2. Connections = {}
  BY <1>1 DEF Connections
<1> QED
  BY <1>2, FS_EmptySet, JobIntakeConstants DEF PoolInv, InUse, IntakeInit

\* The intake never holds more connections than the pool has (db.py: max_size).
LEMMA PoolNext_Inv == IntakeInv /\ PoolInv /\ [IntakeNext]_intakeVars => PoolInv'
<1> SUFFICES ASSUME IntakeInv, PoolInv, [IntakeNext]_intakeVars PROVE PoolInv'
  OBVIOUS
<1>1. IntakeTypes /\ IntakeTypes'
  BY IntakeNext_Inv DEF IntakeInv
<1>2. CASE UNCHANGED intakeVars
  <2>1. Connections' = Connections
    BY <1>2 DEF Connections, Held, intakeVars
  <2> QED
    BY <1>2, <2>1 DEF PoolInv, InUse, intakeVars
<1>3. CASE IntakeNext
  <2>1. PICK a \in Callers : Request(a) \/ Connect(a) \/ Serve(a) \/ Break(a)
    BY <1>3 DEF IntakeNext
  <2>2. caller[a].pc \in CallerPCs /\ caller'[a].pc \in CallerPCs
    BY <1>1 DEF IntakeTypes
  <2>3. \A b \in Callers : b # a => caller'[b] = caller[b]
    BY <1>1, <2>1
    DEF IntakeTypes, Request, Connect, Serve, Timeout, Look, Insert, Commit, Read, Break, GoTo, Answer
  <2>4. faults' \in 0..MaxFaults
    BY <2>1, JobIntakeConstants DEF PoolInv, Request, Connect, Serve, Timeout, Look, Insert, Commit, Read, Break
  <2>5. /\ Held(a) \in 0..2
        /\ caller[a].pc \in {"look", "insert", "write", "replay", "reread"} => Held(a) = 1
        /\ caller[a].pc = "connect" => Held(a) = 0
        /\ caller'[a].pc \in {"idle", "connect"} => Held(a)' = 0
        /\ caller'[a].pc \in {"look", "insert", "write", "replay", "reread"} => Held(a)' = 1
        /\ caller'[a].pc \in {"replaying", "rereading"} => Held(a)' = 2
    BY <2>2, HeldIs DEF Held
  <2>6. CASE Connect(a)
    <3>1. /\ HasFree
          /\ caller[a].pc = "connect" => caller'[a].pc = "look"
          /\ caller[a].pc = "replay" => caller'[a].pc = "replaying"
          /\ caller[a].pc = "reread" => caller'[a].pc = "rereading"
          /\ caller[a].pc \in {"connect", "replay", "reread"}
      BY <1>1, <2>6 DEF Connect, GoTo, IntakeTypes
    <3>2. Held(a)' = Held(a) + 1
      BY <2>5, <3>1
    <3> QED
      BY <1>1, <2>3, <2>4, <3>1, <3>2, PoolStep DEF PoolInv
  <2>7. CASE ~Connect(a)
    <3>1. \/ caller'[a].pc \in {"idle", "connect"}
          \/ /\ caller[a].pc \in {"look", "insert", "write"}
             /\ caller'[a].pc \in {"insert", "write", "replay", "reread"}
      BY <1>1, <2>1, <2>7
      DEF IntakeTypes, Request, Serve, Timeout, Look, Insert, Commit, Read, Break, GoTo, Answer
    <3>2. Held(a)' <= Held(a)
      BY <2>5, <3>1
    <3> QED
      BY <1>1, <2>3, <2>4, <3>2, PoolStep DEF PoolInv
  <2> QED
    BY <2>6, <2>7
<1> QED
  BY <1>2, <1>3

----------------------------------------------------------------------------
(***************************************************************************)
(* The memory.  As long as something was stored there is something to      *)
(* recall, and what is superseded has a successor that was committed       *)
(* later, also when two writers supersede the same or when the one that    *)
(* began first supersedes what the other has committed since.              *)
(***************************************************************************)
WriterTypes == {Idle} \cup [pc : {"read", "update", "audit", "commit"}, number : Numbers,
                            value : Values, supersedes : 0..MaxWrites]

\* Every transaction has a number of its own, and nothing is stored under it yet.
WritesAreNew == \A w \in Writers : writer[w] # Idle =>
    /\ writer[w].number <= begun
    /\ memories[writer[w].number] = NoRecord
    /\ \A u \in Writers : writer[u] # Idle /\ writer[u].number = writer[w].number => u = w

\* Nothing is stored that was not begun.
StoredAreBegun == \A n \in Stored : n <= begun

\* What a transaction supersedes is stored and says something else.
SupersededAreKnown == \A w \in Writers : writer[w] # Idle /\ writer[w].supersedes # 0 =>
    /\ writer[w].supersedes \in Stored
    /\ memories[writer[w].supersedes].value # writer[w].value

\* The commits are counted by what is stored, as nothing is deleted.
StoredAreCounted == \A n \in Stored : memories[n].at <= Cardinality(Stored)

\* What is about to be committed is audited.
WritesAreAudited == \A w \in Writers : writer[w].pc = "commit" => writer[w].number \in audited

\* The inductive invariant.
MemoryInv ==
    /\ MemoryTypeOK
    /\ WritesAreNew
    /\ StoredAreBegun
    /\ SupersededAreKnown
    /\ StoredAreCounted
    /\ WritesAreAudited
    /\ MemoryIsKept

\* A bounded set of natural numbers has a greatest element.
LEMMA MaxIsIn ==
    ASSUME NEW m \in Nat, NEW S, S \subseteq 1..m, S # {}
    PROVE  Max(S) \in S
<1> DEFINE T == {m - n : n \in S}
           Less == OpToRel(<, Nat)
<1>1. T \subseteq Nat /\ T # {}
  <2>1. \A n \in S : n \in 1..m /\ m - n \in Nat
    OBVIOUS
  <2> QED
    BY <2>1
<1>2. \A a, b \in Nat : <<a, b>> \in Less <=> a < b
  BY DEF OpToRel
<1>3. PICK x \in T : \A y \in T : <<y, x>> \notin Less
  <2>1. IsWellFoundedOn(Less, Nat)
    BY NatLessThanWellFounded
  <2> HIDE DEF T, Less
  <2> QED
    BY <1>1, <2>1, WFMin
<1>4. \A y \in T : x <= y
  <2> TAKE y \in T
  <2> HIDE DEF Less
  <2>1. x \in Nat /\ y \in Nat /\ ~(y < x)
    BY <1>1, <1>2, <1>3
  <2> QED
    BY <2>1
<1>5. PICK n \in S : x = m - n
  OBVIOUS
<1>6. \A k \in S : n >= k
  <2> TAKE k \in S
  <2>1. m - k \in T
    OBVIOUS
  <2>2. m - n <= m - k
    BY <1>4, <1>5, <2>1
  <2>3. n \in Nat /\ k \in Nat
    OBVIOUS
  <2> HIDE DEF T
  <2> QED
    BY <2>2, <2>3
<1> QED
  BY <1>6 DEF Max

\* What a write finds is a record that is stored.
LEMMA ExistingIsStored == ASSUME MemoryTypeOK, Existing # 0 PROVE Existing \in Stored
<1>1. Active # {} /\ Existing = Max(Active)
  BY DEF Existing
<1>2. Active \subseteq 1..MaxWrites
  BY DEF Active, Stored, Numbers
<1>3. Max(Active) \in Active
  <2> HIDE DEF Active
  <2> QED
    BY <1>1, <1>2, MaxIsIn, MemoryConstants
<1> QED
  BY <1>1, <1>3 DEF Active

\* Idle writers and writers at work are different.
LEMMA WritersTyped ==
    ASSUME MemoryTypeOK, NEW w \in Writers
    PROVE  /\ writer[w] \in WriterTypes
           /\ writer[w] # Idle <=> writer[w].pc # "idle"
           /\ writer[w] # Idle =>
                  writer[w] \in [pc : {"read", "update", "audit", "commit"}, number : Numbers,
                                 value : Values, supersedes : 0..MaxWrites]
  BY DEF MemoryTypeOK, WriterTypes, Idle

\* There are at most MaxWrites records.
LEMMA StoredAreFinite ==
    ASSUME NEW S, S \subseteq Numbers
    PROVE  IsFiniteSet(S) /\ Cardinality(S) \in Nat /\ Cardinality(S) <= MaxWrites
<1>1. IsFiniteSet(1..MaxWrites) /\ Cardinality(1..MaxWrites) = MaxWrites
  BY FS_Interval, MemoryConstants
<1>2. S \in SUBSET (1..MaxWrites)
  BY DEF Numbers
<1>3. IsFiniteSet(S) /\ Cardinality(S) <= Cardinality(1..MaxWrites)
  BY <1>1, <1>2, FS_Subset
<1> QED
  BY <1>1, <1>3, FS_CardinalityType

\* The invariant holds of an empty memory.
LEMMA MemoryInit_Inv == MemoryInit => MemoryInv
<1> SUFFICES ASSUME MemoryInit PROVE MemoryInv
  OBVIOUS
<1>1. Stored = {} /\ Active = {}
  BY DEF MemoryInit, Stored, Active
<1>2. MemoryTypeOK
  BY MemoryConstants DEF MemoryInit, MemoryTypeOK, RecordTypes
<1>3. WritesAreNew /\ StoredAreBegun /\ SupersededAreKnown /\ StoredAreCounted /\ WritesAreAudited
  BY <1>1 DEF MemoryInit, WritesAreNew, StoredAreBegun, SupersededAreKnown, StoredAreCounted, WritesAreAudited, Idle
<1> QED
  BY <1>1, <1>2, <1>3 DEF MemoryInv, MemoryIsKept

\* Records that do not change keep what MemoryIsKept says of them, if the audit forgets nothing.
LEMMA KeptUnchanged ==
    ASSUME MemoryIsKept, UNCHANGED memories, audited \subseteq audited'
    PROVE  MemoryIsKept' /\ Stored' = Stored
  BY DEF MemoryIsKept, Stored, Active

\* A transaction begins.
LEMMA Begin_Inv == ASSUME MemoryInv, NEW w \in Writers, Begin(w) PROVE MemoryInv'
<1>1. writer[w] = Idle /\ begun < MaxWrites /\ begun' = begun + 1 /\ UNCHANGED <<memories, audited>>
  BY DEF Begin
<1>2. PICK v \in Values :
        writer' = [writer EXCEPT ![w] = [pc |-> "read", number |-> begun + 1, value |-> v, supersedes |-> 0]]
  BY DEF Begin
<1> DEFINE c == [pc |-> "read", number |-> begun + 1, value |-> v, supersedes |-> 0]
<1>3. begun \in 0..MaxWrites /\ begun + 1 \in Numbers /\ begun' \in 0..MaxWrites
  BY <1>1, MemoryConstants DEF MemoryInv, MemoryTypeOK, Numbers
<1>4. c \in WriterTypes
  BY <1>3, MemoryConstants DEF WriterTypes
<1>5. writer'[w] = c /\ \A u \in Writers : u # w => writer'[u] = writer[u]
  BY <1>2 DEF MemoryInv, MemoryTypeOK
<1>6. MemoryTypeOK'
  BY <1>1, <1>2, <1>3, <1>4 DEF MemoryInv, MemoryTypeOK, WriterTypes, RecordTypes
<1>7. MemoryIsKept' /\ Stored' = Stored
  BY <1>1, KeptUnchanged DEF MemoryInv
<1>8. memories[begun + 1] = NoRecord
  BY <1>3 DEF MemoryInv, StoredAreBegun, Stored
<1>9. WritesAreNew'
  <2> SUFFICES ASSUME NEW x \in Writers, writer'[x] # Idle
               PROVE  /\ writer'[x].number <= begun'
                      /\ memories'[writer'[x].number] = NoRecord
                      /\ \A u \in Writers :
                             writer'[u] # Idle /\ writer'[u].number = writer'[x].number => u = x
    BY DEF WritesAreNew
  <2>1. \A u \in Writers : u # w /\ writer[u] # Idle => writer[u].number \in Int /\ writer[u].number <= begun
    BY WritersTyped DEF MemoryInv, MemoryTypeOK, WritesAreNew, Numbers, Idle
  <2>2. CASE x = w
    BY <1>1, <1>3, <1>5, <1>8, <2>1, <2>2
  <2>3. CASE x # w
    BY <1>1, <1>3, <1>5, <2>1, <2>3 DEF MemoryInv, WritesAreNew
  <2> QED
    BY <2>2, <2>3
<1>10. StoredAreBegun'
  BY <1>1, <1>3, <1>7 DEF MemoryInv, StoredAreBegun, Stored, Numbers
<1>11. SupersededAreKnown'
  BY <1>1, <1>5, <1>7 DEF MemoryInv, SupersededAreKnown
<1>12. StoredAreCounted'
  BY <1>1, <1>7 DEF MemoryInv, StoredAreCounted
<1>13. WritesAreAudited'
  BY <1>1, <1>5 DEF MemoryInv, WritesAreAudited
<1> QED
  BY <1>6, <1>7, <1>9, <1>10, <1>11, <1>12, <1>13 DEF MemoryInv

(***************************************************************************)
(* A writer goes on with its write: nothing changes but what it supersedes *)
(* and the audit, which has the write before it can be committed.          *)
(***************************************************************************)
LEMMA GoesOn_Inv ==
    ASSUME MemoryInv, NEW w \in Writers, NEW c \in WriterTypes,
           writer[w] # Idle, writer' = [writer EXCEPT ![w] = c],
           c # Idle, c.number = writer[w].number,
           c.supersedes # 0 => c.supersedes \in Stored /\ memories[c.supersedes].value # c.value,
           UNCHANGED <<memories, begun>>, audited \subseteq audited', audited' \subseteq Numbers,
           c.pc = "commit" => c.number \in audited'
    PROVE  MemoryInv'
<1>1. writer'[w] = c /\ \A u \in Writers : u # w => writer'[u] = writer[u]
  BY DEF MemoryInv, MemoryTypeOK
<1>2. MemoryTypeOK'
  BY DEF MemoryInv, MemoryTypeOK, WriterTypes, RecordTypes
<1>3. MemoryIsKept' /\ Stored' = Stored
  BY KeptUnchanged DEF MemoryInv
<1>4. WritesAreNew'
  BY <1>1 DEF MemoryInv, WritesAreNew
<1>5. StoredAreBegun' /\ StoredAreCounted'
  BY <1>3 DEF MemoryInv, StoredAreBegun, StoredAreCounted
<1>6. SupersededAreKnown'
  BY <1>1, <1>3 DEF MemoryInv, SupersededAreKnown
<1>7. WritesAreAudited'
  BY <1>1 DEF MemoryInv, WritesAreAudited
<1> QED
  BY <1>2, <1>3, <1>4, <1>5, <1>6, <1>7 DEF MemoryInv

\* A writer gives its transaction up, or has nothing to write.
LEMMA Stops_Inv ==
    ASSUME MemoryInv, NEW w \in Writers, writer' = [writer EXCEPT ![w] = Idle],
           UNCHANGED <<memories, audited, begun>>
    PROVE  MemoryInv'
<1>1. writer'[w] = Idle /\ \A u \in Writers : u # w => writer'[u] = writer[u]
  BY DEF MemoryInv, MemoryTypeOK
<1>2. MemoryTypeOK'
  BY DEF MemoryInv, MemoryTypeOK, RecordTypes
<1>3. MemoryIsKept' /\ Stored' = Stored
  BY KeptUnchanged DEF MemoryInv
<1>4. WritesAreNew' /\ StoredAreBegun' /\ SupersededAreKnown' /\ StoredAreCounted'
  BY <1>1, <1>3 DEF MemoryInv, WritesAreNew, StoredAreBegun, SupersededAreKnown, StoredAreCounted
<1>5. WritesAreAudited'
  BY <1>1 DEF MemoryInv, WritesAreAudited, Idle
<1> QED
  BY <1>2, <1>3, <1>4, <1>5 DEF MemoryInv

\* The record that is to be superseded is read: it is stored, and says something else.
LEMMA Select_Inv == ASSUME MemoryInv, NEW w \in Writers, Select(w) PROVE MemoryInv'
<1> DEFINE known == Existing # 0 /\ memories[Existing].value = writer[w].value
           c == [writer[w] EXCEPT !.pc = "update", !.supersedes = Existing]
<1>1. /\ writer[w].pc = "read" /\ UNCHANGED <<memories, audited, begun>>
      /\ writer' = [writer EXCEPT ![w] = IF known THEN Idle ELSE c]
  BY DEF Select, MemoryInv, MemoryTypeOK
<1>2. CASE known
  BY <1>1, <1>2, Stops_Inv
<1>3. CASE ~known
  <2>1. writer[w] # Idle
    BY <1>1 DEF Idle
  <2>2. writer[w] \in [pc : {"read", "update", "audit", "commit"}, number : Numbers,
                       value : Values, supersedes : 0..MaxWrites]
    BY <2>1, WritersTyped DEF MemoryInv
  <2>3. Existing # 0 => Existing \in Stored /\ Existing \in 1..MaxWrites
    <3>1. Existing # 0 => Existing \in Stored
      BY ExistingIsStored DEF MemoryInv
    <3>2. Stored \subseteq 1..MaxWrites
      BY DEF Stored, Numbers
    <3> QED
      BY <3>1, <3>2
  <2>4. c \in WriterTypes /\ c # Idle /\ c.pc = "update" /\ c.supersedes = Existing
        /\ c.number = writer[w].number /\ c.value = writer[w].value
    <3>1. Existing \in 0..MaxWrites
      BY <2>3, MemoryConstants
    <3>2. c \in [pc : {"read", "update", "audit", "commit"}, number : Numbers,
                 value : Values, supersedes : 0..MaxWrites]
      BY <2>2, <3>1
    <3>3. c.pc = "update" /\ c.supersedes = Existing /\ c.number = writer[w].number /\ c.value = writer[w].value
      BY <2>2
    <3>4. c # Idle
      BY <3>3 DEF Idle
    <3> HIDE DEF c
    <3> QED
      BY <3>2, <3>3, <3>4 DEF WriterTypes
  <2>5. writer' = [writer EXCEPT ![w] = c] /\ (Existing # 0 => memories[Existing].value # writer[w].value)
    BY <1>1, <1>3
  <2>6. audited' = audited /\ audited \subseteq Numbers
    BY <1>1 DEF MemoryInv, MemoryTypeOK
  <2> HIDE DEF c
  <2> QED
    BY <1>1, <2>1, <2>3, <2>4, <2>5, <2>6, GoesOn_Inv
<1> QED
  BY <1>2, <1>3

\* A writer at the next point of the same write.
LEMMA Advance_Inv ==
    ASSUME MemoryInv, NEW w \in Writers, NEW where \in {"audit", "commit"},
           writer[w] # Idle, writer' = [writer EXCEPT ![w].pc = where],
           UNCHANGED <<memories, begun>>, audited \subseteq audited', audited' \subseteq Numbers,
           where = "commit" => writer[w].number \in audited'
    PROVE  MemoryInv'
<1> DEFINE c == [writer[w] EXCEPT !.pc = where]
<1>1. writer[w] \in [pc : {"read", "update", "audit", "commit"}, number : Numbers,
                     value : Values, supersedes : 0..MaxWrites]
  BY WritersTyped DEF MemoryInv
<1>2. c \in WriterTypes /\ c # Idle /\ c.pc = where
      /\ c.number = writer[w].number /\ c.value = writer[w].value /\ c.supersedes = writer[w].supersedes
  BY <1>1 DEF WriterTypes, Idle
<1>3. writer' = [writer EXCEPT ![w] = c]
  BY DEF MemoryInv, MemoryTypeOK
<1> HIDE DEF c
<1>4. c.supersedes # 0 => c.supersedes \in Stored /\ memories[c.supersedes].value # c.value
  BY <1>2 DEF MemoryInv, SupersededAreKnown
<1> QED
  BY <1>2, <1>3, <1>4, GoesOn_Inv

\* The record that is superseded is written.
LEMMA Update_Inv == ASSUME MemoryInv, NEW w \in Writers, Update(w) PROVE MemoryInv'
<1>1. writer[w] # Idle /\ audited' \subseteq Numbers
  BY DEF Update, Idle, MemoryInv, MemoryTypeOK
<1> QED
  BY <1>1, Advance_Inv DEF Update

\* The audit, in a transaction of its own.
LEMMA Audit_Inv == ASSUME MemoryInv, NEW w \in Writers, Audit(w) PROVE MemoryInv'
<1>1. writer[w] # Idle /\ writer[w].number \in Numbers
  BY WritersTyped DEF Audit, Idle, MemoryInv
<1>2. audited' = audited \cup {writer[w].number} /\ audited' \subseteq Numbers
  BY <1>1 DEF Audit, MemoryInv, MemoryTypeOK
<1> QED
  BY <1>1, <1>2, Advance_Inv DEF Audit

\* A transaction is undone.
LEMMA Rollback_Inv == ASSUME MemoryInv, NEW w \in Writers, Rollback(w) PROVE MemoryInv'
  BY Stops_Inv DEF Rollback

(***************************************************************************)
(* The commit.  The new record is active, so there is something to recall; *)
(* it is the successor of the one it supersedes; and every other record    *)
(* that was superseded before keeps its successor, which at most becomes   *)
(* superseded itself.                                                      *)
(***************************************************************************)
LEMMA CommitWrite_Inv == ASSUME MemoryInv, NEW w \in Writers, CommitWrite(w) PROVE MemoryInv'
<1> DEFINE a == writer[w]
           new == [status |-> "active", value |-> a.value, supersedes |-> a.supersedes, at |-> Cardinality(Stored) + 1]
<1>1. /\ a.pc = "commit" /\ a # Idle
      /\ a.number \in Numbers /\ a.value \in Values /\ a.supersedes \in 0..MaxWrites
      /\ UNCHANGED <<audited, begun>> /\ writer' = [writer EXCEPT ![w] = Idle]
  BY WritersTyped DEF MemoryInv, CommitWrite, Idle
<1>2. memories[a.number] = NoRecord /\ a.number <= begun /\ a.number \notin Stored /\ a.number \in audited
  BY <1>1 DEF MemoryInv, WritesAreNew, WritesAreAudited, Stored
<1>3. a.supersedes # 0 => a.supersedes \in Stored /\ memories[a.supersedes].value # a.value
  BY <1>1 DEF MemoryInv, SupersededAreKnown
<1>4. /\ memories'[a.number] = new
      /\ a.supersedes # 0 => memories'[a.supersedes] = [memories[a.supersedes] EXCEPT !.status = "superseded"]
      /\ \A n \in Numbers : n # a.number /\ n # a.supersedes => memories'[n] = memories[n]
  <2>1. memories' = [n \in Numbers |->
               IF n = a.number THEN new
               ELSE IF n = a.supersedes THEN [memories[n] EXCEPT !.status = "superseded"]
               ELSE memories[n]]
    BY DEF CommitWrite, Replaces
  <2>2. a.supersedes # 0 => a.supersedes \in Numbers /\ a.supersedes # a.number
    BY <1>2, <1>3 DEF Stored
  <2> HIDE DEF a, new
  <2> QED
    BY <1>1, <2>1, <2>2
<1> HIDE DEF a
<1>5. memories \in [Numbers -> RecordTypes]
  BY DEF MemoryInv, MemoryTypeOK
<1>6. \A n \in Numbers : memories[n] # NoRecord =>
          memories[n] \in [status : {"active", "superseded"}, value : Values, supersedes : 0..MaxWrites, at : 1..MaxWrites]
  BY <1>5 DEF RecordTypes
<1>7. /\ new # NoRecord
      /\ a.supersedes # 0 =>
             /\ memories'[a.supersedes] \in
                    [status : {"active", "superseded"}, value : Values, supersedes : 0..MaxWrites, at : 1..MaxWrites]
             /\ memories'[a.supersedes].value = memories[a.supersedes].value
             /\ memories'[a.supersedes].supersedes = memories[a.supersedes].supersedes
             /\ memories'[a.supersedes].at = memories[a.supersedes].at
             /\ memories'[a.supersedes].status = "superseded"
             /\ memories'[a.supersedes] # NoRecord
  BY <1>3, <1>4, <1>6 DEF Stored, NoRecord
<1> HIDE DEF new
<1>8. Stored' = Stored \cup {a.number}
  <2>1. \A n \in Numbers : n = a.number \/ (n = a.supersedes /\ n # 0) \/ memories'[n] = memories[n]
    BY <1>4 DEF Numbers
  <2>2. \A n \in Numbers : memories'[n] # NoRecord <=> memories[n] # NoRecord \/ n = a.number
    BY <1>3, <1>4, <1>7, <2>1 DEF Stored
  <2> QED
    BY <1>1, <2>2 DEF Stored
<1>9. \A n \in Stored : /\ memories'[n].value = memories[n].value
                        /\ memories'[n].supersedes = memories[n].supersedes
                        /\ memories'[n].at = memories[n].at
  <2> TAKE n \in Stored
  <2>1. n \in Numbers /\ n # 0 /\ n # a.number
    BY <1>2 DEF Stored, Numbers
  <2>2. CASE n = a.supersedes
    BY <1>7, <2>1, <2>2
  <2>3. CASE n # a.supersedes
    BY <1>4, <2>1, <2>3
  <2> QED
    BY <2>2, <2>3
<1>10. Active' = (Active \ {a.supersedes}) \cup {a.number}
  <2>1. \A n \in Stored : n # a.number
    BY <1>2
  <2>2. a.supersedes # 0 => memories'[a.supersedes].status # "active"
    BY <1>7
  <2>3. new.status = "active"
    BY DEF new
  <2>4. 0 \notin Stored
    BY DEF Stored, Numbers
  <2>5. \A n \in Stored' : n \in Active' <=> n = a.number \/ (n \in Active /\ n # a.supersedes)
    BY <1>1, <1>4, <1>8, <2>1, <2>2, <2>3, <2>4 DEF Active, Stored
  <2> QED
    BY <1>8, <2>5 DEF Active
<1>11. /\ Cardinality(Stored) \in Nat /\ Cardinality(Stored') = Cardinality(Stored) + 1
       /\ Cardinality(Stored) + 1 \in 1..MaxWrites
  <2>1. Stored \subseteq Numbers /\ Stored' \subseteq Numbers
    BY DEF Stored
  <2>2. IsFiniteSet(Stored) /\ Cardinality(Stored) \in Nat /\ Cardinality(Stored') <= MaxWrites
    BY <2>1, StoredAreFinite
  <2>3. Cardinality(Stored \cup {a.number}) = Cardinality(Stored) + 1
    BY <1>2, <2>2, FS_AddElement
  <2> QED
    BY <1>8, <2>2, <2>3, MemoryConstants
<1>12. new.at = Cardinality(Stored) + 1 /\ new.supersedes = a.supersedes /\ new.value = a.value
  BY DEF new
<1>13. writer'[w] = Idle /\ \A u \in Writers : u # w => writer'[u] = writer[u]
  BY <1>1 DEF MemoryInv, MemoryTypeOK
<1>14. MemoryTypeOK'
  <2>1. memories' \in [Numbers -> RecordTypes]
    <3>1. \A n \in Numbers : memories'[n] \in RecordTypes
      <4> TAKE n \in Numbers
      <4>1. CASE n = a.number
        BY <1>1, <1>4, <1>11, <4>1 DEF RecordTypes, new
      <4>2. CASE n = a.supersedes /\ n # a.number
        BY <1>7, <4>2 DEF RecordTypes, Numbers
      <4>3. CASE n # a.supersedes /\ n # a.number
        BY <1>4, <1>5, <4>3
      <4> QED
        BY <4>1, <4>2, <4>3
    <3>2. memories' = [n \in Numbers |-> memories'[n]]
      BY DEF CommitWrite
    <3> QED
      BY <3>1, <3>2
  <2> QED
    BY <1>1, <2>1 DEF MemoryInv, MemoryTypeOK, RecordTypes
<1>15. WritesAreNew'
  <2> SUFFICES ASSUME NEW x \in Writers, writer'[x] # Idle
               PROVE  /\ writer'[x].number <= begun'
                      /\ memories'[writer'[x].number] = NoRecord
                      /\ \A u \in Writers :
                             writer'[u] # Idle /\ writer'[u].number = writer'[x].number => u = x
    BY DEF WritesAreNew
  <2>1. x # w /\ writer'[x] = writer[x]
    BY <1>13
  <2>2. writer[x].number \in Numbers /\ memories[writer[x].number] = NoRecord
    BY <2>1, WritersTyped DEF MemoryInv, WritesAreNew, WriterTypes
  <2>3. writer[x].number # a.number
    BY <1>1, <2>1 DEF MemoryInv, WritesAreNew, a
  <2>4. writer[x].number # a.supersedes
    BY <1>3, <2>2 DEF Stored, Numbers
  <2> QED
    BY <1>1, <1>4, <1>13, <2>1, <2>2, <2>3, <2>4 DEF MemoryInv, WritesAreNew
<1>16. StoredAreBegun'
  BY <1>1, <1>2, <1>8 DEF MemoryInv, StoredAreBegun
<1>17. SupersededAreKnown'
  BY <1>8, <1>9, <1>13 DEF MemoryInv, SupersededAreKnown
<1>18. WritesAreAudited'
  BY <1>1, <1>13 DEF MemoryInv, WritesAreAudited, Idle
<1>19. StoredAreCounted'
  <2>1. \A n \in Stored : memories[n].at \in Nat /\ memories[n].at <= Cardinality(Stored)
    BY <1>6 DEF MemoryInv, StoredAreCounted, Stored
  <2> QED
    BY <1>4, <1>8, <1>9, <1>11, <1>12, <2>1 DEF StoredAreCounted
<1>20. MemoryIsKept'
  <2>1. Active' # {} /\ Stored' \subseteq audited'
    BY <1>1, <1>2, <1>8, <1>10 DEF MemoryInv, MemoryIsKept
  <2>2. ASSUME NEW n \in Stored' \ Active'
        PROVE  \E s \in Stored' : /\ memories'[s].at > memories'[n].at
                                 /\ memories'[s].supersedes = n
                                 /\ memories'[s].value # memories'[n].value
    <3>1. n \in Stored /\ (n = a.supersedes \/ n \notin Active)
      BY <1>8, <1>10, <2>2
    <3>2. CASE n = a.supersedes
      <4>1. n # 0 /\ memories[n].at \in Nat /\ memories[n].at <= Cardinality(Stored)
        BY <1>6, <3>1 DEF Stored, Numbers, MemoryInv, StoredAreCounted
      <4>2. memories'[a.number].at > memories'[n].at
        BY <1>4, <1>9, <1>11, <1>12, <3>1, <4>1
      <4> QED
        BY <1>3, <1>4, <1>8, <1>9, <1>12, <3>1, <3>2, <4>1, <4>2
    <3>3. CASE n \notin Active
      <4>1. PICK s \in Stored : /\ memories[s].at > memories[n].at
                                 /\ memories[s].supersedes = n /\ memories[s].value # memories[n].value
        BY <3>1, <3>3 DEF MemoryInv, MemoryIsKept
      <4> QED
        BY <1>8, <1>9, <3>1, <4>1
    <3> QED
      BY <3>1, <3>2, <3>3
  <2> QED
    BY <2>1, <2>2 DEF MemoryIsKept
<1> QED
  BY <1>14, <1>15, <1>16, <1>17, <1>18, <1>19, <1>20 DEF MemoryInv

\* Every step keeps the invariant.
LEMMA MemoryNext_Inv == MemoryInv /\ [MemoryNext]_memoryVars => MemoryInv'
<1> SUFFICES ASSUME MemoryInv, [MemoryNext]_memoryVars PROVE MemoryInv'
  OBVIOUS
<1>1. CASE UNCHANGED memoryVars
  BY <1>1 DEF memoryVars, MemoryInv, MemoryTypeOK, RecordTypes, WritesAreNew, StoredAreBegun, SupersededAreKnown,
              StoredAreCounted, WritesAreAudited, MemoryIsKept, Stored, Active
<1>2. CASE MemoryNext
  BY <1>2, Begin_Inv, Select_Inv, Update_Inv, Audit_Inv, CommitWrite_Inv, Rollback_Inv DEF MemoryNext
<1> QED
  BY <1>1, <1>2

----------------------------------------------------------------------------
(***************************************************************************)
(* The three side by side: a step is one of the intake, of the memory or   *)
(* of the queue and leaves the other two as they are.                      *)
(***************************************************************************)
ClientsInv ==
    /\ IntakeInv
    /\ PoolInv
    /\ MemoryInv
    /\ JobInv
    /\ EndInv
    /\ part \in {"intake", "memory", "queue"}

\* The inductive invariant holds in every reachable state of the clients, whatever is fair.
THEOREM ClientsAreSound == Spec => []ClientsInv
<1>1. Init => ClientsInv
  BY IntakeInit_Inv, PoolInit_Inv, MemoryInit_Inv, InitJobInv, InitEndInv DEF Init, ClientsInv
<1>2. ASSUME ClientsInv, [Next]_vars PROVE ClientsInv'
  <2>1. [IntakeNext]_intakeVars /\ [MemoryNext]_memoryVars /\ [JobNext]_jobVars
    BY <1>2 DEF Next, InIntake, MemoryStep, InQueue, vars
  <2>2. IntakeInv' /\ PoolInv'
    BY <1>2, <2>1, IntakeNext_Inv, PoolNext_Inv DEF ClientsInv
  <2>3. MemoryInv'
    BY <1>2, <2>1, MemoryNext_Inv DEF ClientsInv
  <2>4. JobInv' /\ EndInv'
    BY <1>2, <2>1, JobNextKeeps, JobNextEnds DEF ClientsInv
  <2>5. part' = part
    BY <1>2 DEF Next, InIntake, MemoryStep, InQueue, vars
  <2> QED
    BY <1>2, <2>2, <2>3, <2>4, <2>5 DEF ClientsInv
<1> QED
  BY <1>1, <1>2, PTL DEF Spec

(***************************************************************************)
(* Types, the bounds among them: no more connections are in use than the   *)
(* pool has, although a caller takes its second one while it holds the     *)
(* first (create_or_replay, db.py).                                        *)
(***************************************************************************)
THEOREM ClientsAreTyped == Spec => []TypeOK
<1>1. ClientsInv => TypeOK
  BY DEF ClientsInv, TypeOK, IntakeInv, IntakeTypes, PoolInv, IntakeTypeOK, MemoryInv, JobInv
<1> QED
  BY <1>1, ClientsAreSound, PTL

\* However callers race for a key, it has one job at most, and only of the payload it stands for.
THEOREM KeysHaveOneJob == Spec => []OneJobPerKey
<1>1. ClientsInv => OneJobPerKey
  BY DEF ClientsInv, IntakeInv
<1> QED
  BY <1>1, ClientsAreSound, PTL

\* A caller is given a job of its own payload, and told of a conflict only if there is one.
THEOREM CallersAreTold == Spec => []AnswersMatch
<1>1. ClientsInv => AnswersMatch
  BY DEF ClientsInv, IntakeInv
<1> QED
  BY <1>1, ClientsAreSound, PTL

(***************************************************************************)
(* However many writers supersede the same record, in whatever order they  *)
(* began, something is left to recall, what is superseded has a successor  *)
(* that was committed later, and everything stored is audited (remember(), *)
(* its BEGIN apart from its SELECT).                                       *)
(***************************************************************************)
THEOREM NothingIsForgotten == Spec => []MemoryIsKept
<1>1. ClientsInv => MemoryIsKept
  BY DEF ClientsInv, MemoryInv
<1> QED
  BY <1>1, ClientsAreSound, PTL

(***************************************************************************)
(* However attempts fail, are overtaken or die, a job pays for at most one *)
(* call per attempt, and the audit log has each of them, as EXECUTED or as *)
(* FAILED, but for a mishap (the automatic retry of run_agent_job,         *)
(* invoke_tool, generate_answer).                                          *)
(***************************************************************************)
THEOREM PaymentsStayAccounted == Spec => []PaymentsAreAccounted
<1>1. ClientsInv => PaymentsAreAccounted
  BY PaidIsAccounted DEF ClientsInv
<1> QED
  BY <1>1, ClientsAreSound, PTL

\* A success of the queue is not overwritten, queued again or paid again.
THEOREM SuccessStaysFinal == Spec => SuccessIsFinal
<1>1. ClientsInv /\ [Next]_vars =>
          [\A j \in Jobs : result[j] = "SUCCESS" =>
              result'[j] = "SUCCESS" /\ message'[j] = -1 /\ paid'[j] = paid[j]]_jobVars
  <2> SUFFICES ASSUME ClientsInv, [Next]_vars, ~(UNCHANGED jobVars), NEW j \in Jobs, result[j] = "SUCCESS"
               PROVE  result'[j] = "SUCCESS" /\ message'[j] = -1 /\ paid'[j] = paid[j]
    OBVIOUS
  <2>1. JobNext
    BY DEF Next, InIntake, MemoryStep, InQueue, vars
  <2> QED
    BY <2>1, SuccessStays DEF ClientsInv
<1> QED
  BY <1>1, ClientsAreSound, PTL DEF Spec, SuccessIsFinal
=============================================================================
