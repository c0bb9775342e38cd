------------------------ MODULE RefundIntake_proofs -------------------------
(***************************************************************************)
(* The team decides on the evidence that is stored, no caller runs into a  *)
(* unique key, and a prepared case becomes at most one refund, for every   *)
(* number of specialists, coordinators, callers, requests and faults.  The *)
(* guard of run_case plays no part in it: the unique keys are enough.      *)
(***************************************************************************)
EXTENDS RefundIntake, FiniteSetTheorems, TLAPS

CoTypes == [pc : {"idle", "collect", "decide", "record"}, round : 1..2, calls : [Roles -> CallStates],
            results : Evidence]

TeamTypes ==
    /\ conflict \in BOOLEAN
    /\ case \in [status : {"COLLECTING", "READY", "BLOCKED", "SUBMITTED"}, snapshot : Evidence, workflow : BOOLEAN]
    /\ tasks \in [Slots -> {None, "RUNNING"} \cup Verdicts]
    /\ decided \in [1..2 -> [action : Actions \cup {None}, input : Evidence]]
    /\ guard \in Coordinators \cup {None}
    /\ co \in [Coordinators -> CoTypes]
    /\ faults \in 0..MaxFaults

\* CLEAR against the facts is not stored.
ConflictIsFound == conflict => tasks[<<"order", 1>>] # "CLEAR"

\* The evidence of a round is all there; it is final then.
Complete(n) == \A r \in Roles : EvidenceOf(n)[r] \in Verdicts

(***************************************************************************)
(* What a coordinator holds is stored: the verdicts of its calls, and the  *)
(* results it decides on.  Its second round follows the first decision.    *)
(***************************************************************************)
CallsStored(k) == \A r \in Roles : k.calls[r] \in Verdicts =>
    k.pc = "collect" /\ r \in RolesOf(k.round) /\ tasks[<<r, k.round>>] = k.calls[r]

ResultsStored(k) ==
    /\ k.pc \in {"decide", "record"} => Complete(k.round) /\ k.results = EvidenceOf(k.round)
    /\ k.pc = "collect" /\ k.round = 2 => Complete(1) /\ k.results = EvidenceOf(1)
    /\ k.round = 2 => decided[1].action = "FOLLOW_UP"
    /\ k.pc = "idle" => k = Resting

HeldIsStored == \A c \in Coordinators : CallsStored(co[c]) /\ ResultsStored(co[c])

\* Decisions rest on all the evidence, and a second one on the first.
DecisionsAreComplete ==
    /\ \A n \in 1..2 : decided[n].action # None => Complete(n)
    /\ decided[2].action # None => decided[1].action = "FOLLOW_UP"

SubmittedHasWorkflow == case.workflow <=> case.status = "SUBMITTED"

\* The inductive invariant of the team.
TeamInv ==
    /\ TeamTypes
    /\ ConflictIsFound
    /\ HeldIsStored
    /\ DecisionsAreComplete
    /\ SubmittedHasWorkflow
    /\ DecidedOnEvidence

USE DEF None, Verdicts, Actions, CallStates

----------------------------------------------------------------------------
\* The slots of the rounds.
LEMMA SlotFacts ==
    /\ \A r \in Roles : <<r, 1>> \in Slots
    /\ <<"risk", 2>> \in Slots /\ <<"order", 1>> \in Slots
    /\ \A n \in 1..2 : \A r \in RolesOf(n) : <<r, n>> \in Slots /\ r \in Roles
    /\ "order" \in Roles /\ "risk" \in Roles
  BY TeamConstants DEF Slots, RolesOf

\* Where the evidence of a round is.
LEMMA EvidenceAt ==
    /\ \A r \in Roles : EvidenceOf(1)[r] = tasks[<<r, 1>>]
    /\ \A r \in Roles \ {"risk"} : EvidenceOf(2)[r] = tasks[<<r, 1>>]
    /\ EvidenceOf(2)["risk"] = tasks[<<"risk", 2>>]
  BY SlotFacts DEF EvidenceOf

\* The supervisor's decision, by what it means.
LEMMA Supervised ==
    ASSUME NEW results, NEW n \in 1..2
    PROVE  /\ Supervise(results, n) \in Actions
           /\ Supervise(results, n) = "READY" => \A r \in Roles : results[r] = "CLEAR"
           /\ Supervise(results, 2) # "FOLLOW_UP"
  BY DEF Supervise

\* Nobody has asked anything.
LEMMA TeamInit_Inv == TeamInit => TeamInv
<1> SUFFICES ASSUME TeamInit PROVE TeamInv
  OBVIOUS
<1> USE DEF TeamInit, Unasked, Unopened, Resting
<1>1. TeamTypes
  BY TeamConstants DEF TeamTypes, CoTypes, Evidence
<1>2. ConflictIsFound
  BY SlotFacts DEF ConflictIsFound
<1>3. HeldIsStored
  BY DEF HeldIsStored, CallsStored, ResultsStored
<1>4. DecisionsAreComplete /\ SubmittedHasWorkflow
  BY DEF DecisionsAreComplete, SubmittedHasWorkflow
<1>5. DecidedOnEvidence
  BY SlotFacts DEF DecidedOnEvidence
<1> QED
  BY <1>1, <1>2, <1>3, <1>4, <1>5 DEF TeamInv

(***************************************************************************)
(* A step that changes only what one coordinator holds.                    *)
(***************************************************************************)
LEMMA MemoryStep ==
    ASSUME TeamInv, NEW c \in Coordinators, NEW k \in CoTypes, co' = [co EXCEPT ![c] = k],
           UNCHANGED <<conflict, case, tasks, decided>>,
           guard' \in Coordinators \cup {None}, faults' \in 0..MaxFaults,
           CallsStored(k), ResultsStored(k)
    PROVE  TeamInv'
<1>1. TeamTypes'
  BY DEF TeamInv, TeamTypes
<1>2. co'[c] = k /\ \A d \in Coordinators \ {c} : co'[d] = co[d]
  BY DEF TeamInv, TeamTypes
<1>3. \A d \in Coordinators : CallsStored(co'[d]) /\ ResultsStored(co'[d])
  BY <1>2 DEF TeamInv, HeldIsStored
<1>4. HeldIsStored'
  BY <1>3 DEF HeldIsStored, CallsStored, ResultsStored, Complete, EvidenceOf
<1>5. ConflictIsFound' /\ SubmittedHasWorkflow'
  BY DEF TeamInv, ConflictIsFound, SubmittedHasWorkflow
<1>6. DecisionsAreComplete' /\ DecidedOnEvidence'
  BY DEF TeamInv, DecisionsAreComplete, DecidedOnEvidence, Complete, EvidenceOf
<1> QED
  BY <1>1, <1>4, <1>5, <1>6 DEF TeamInv

\* A coordinator rests.
LEMMA RestingHolds == Resting \in CoTypes /\ CallsStored(Resting) /\ ResultsStored(Resting)
  BY DEF Resting, CoTypes, Unasked, Evidence, CallsStored, ResultsStored

LEMMA LeaveKeeps ==
    ASSUME TeamInv, NEW c \in Coordinators, Leave(c), UNCHANGED <<conflict, case, tasks, decided>>, faults' \in 0..MaxFaults
    PROVE  TeamInv'
<1>1. co' = [co EXCEPT ![c] = Resting] /\ guard' \in Coordinators \cup {None}
  BY DEF Leave, Free, TeamInv, TeamTypes
<1> QED
  BY <1>1, RestingHolds, MemoryStep

LEMMA RunCaseKeeps == ASSUME TeamInv, NEW c \in Coordinators, RunCase(c) PROVE TeamInv'
<1> DEFINE k == [Resting EXCEPT !.pc = "collect"]
<1>1. co[c] = Resting
  BY DEF RunCase, TeamInv, HeldIsStored, ResultsStored
<1>2. co' = [co EXCEPT ![c] = k] /\ guard' = c /\ UNCHANGED <<conflict, case, tasks, decided, faults>>
  BY <1>1 DEF RunCase, TeamInv, TeamTypes
<1>3. k \in CoTypes /\ CallsStored(k) /\ ResultsStored(k)
  BY DEF Resting, CoTypes, Unasked, Evidence, CallsStored, ResultsStored
<1>4. faults' \in 0..MaxFaults
  BY <1>2 DEF TeamInv, TeamTypes
<1> HIDE DEF k
<1> QED
  BY <1>2, <1>3, <1>4, MemoryStep

(***************************************************************************)
(* One call of the round goes on in memory: to a verdict that is stored,   *)
(* or to something that is none.                                           *)
(***************************************************************************)
LEMMA CallStep ==
    ASSUME TeamInv, NEW c \in Coordinators, NEW r \in RolesOf(co[c].round), NEW x \in CallStates,
           co[c].pc = "collect", co' = [co EXCEPT ![c].calls[r] = x],
           x \in Verdicts => tasks[Slot(c, r)] = x,
           UNCHANGED <<conflict, case, tasks, decided, guard, faults>>
    PROVE  TeamInv'
<1> DEFINE k == [co[c] EXCEPT !.calls[r] = x]
<1>1. co[c] \in CoTypes /\ r \in Roles
  BY SlotFacts DEF TeamInv, TeamTypes, CoTypes
<1>2. /\ k \in CoTypes /\ k.pc = "collect" /\ k.round = co[c].round /\ k.results = co[c].results
      /\ k.calls[r] = x /\ \A q \in Roles \ {r} : k.calls[q] = co[c].calls[q]
  BY <1>1 DEF CoTypes
<1>3. co' = [co EXCEPT ![c] = k]
  BY DEF TeamInv, TeamTypes
<1> HIDE DEF k
<1>4. CallsStored(k) /\ ResultsStored(k)
  BY <1>2 DEF TeamInv, HeldIsStored, CallsStored, ResultsStored, Slot
<1>5. guard' \in Coordinators \cup {None} /\ faults' \in 0..MaxFaults
  BY DEF TeamInv, TeamTypes
<1> QED
  BY <1>2, <1>3, <1>4, <1>5, MemoryStep

LEMMA FindTaskKeeps == ASSUME TeamInv, NEW c \in Coordinators, NEW r \in Roles, FindTask(c, r) PROVE TeamInv'
<1>1. /\ co[c].pc = "collect" /\ r \in RolesOf(co[c].round)
      /\ co' = [co EXCEPT ![c].calls[r] = Found(tasks[Slot(c, r)])]
      /\ UNCHANGED <<conflict, case, tasks, decided, guard, faults>>
  BY DEF FindTask, Calling
<1>2. Slot(c, r) \in Slots
  BY <1>1, SlotFacts DEF Slot, TeamInv, TeamTypes, CoTypes
<1>3. Found(tasks[Slot(c, r)]) \in CallStates
      /\ (Found(tasks[Slot(c, r)]) \in Verdicts => tasks[Slot(c, r)] = Found(tasks[Slot(c, r)]))
  BY <1>2 DEF Found, TeamInv, TeamTypes
<1> QED
  BY <1>1, <1>3, CallStep

(***************************************************************************)
(* A task without a verdict is written: complete evidence is not touched,  *)
(* and nothing that is stored is lost.                                     *)
(***************************************************************************)
LEMMA TasksGrow ==
    ASSUME TeamTypes, NEW s \in Slots, tasks[s] \notin Verdicts, NEW v \in {"RUNNING"} \cup Verdicts,
           tasks' = [tasks EXCEPT ![s] = v]
    PROVE  /\ tasks'[s] = v /\ \A t \in Slots \ {s} : tasks'[t] = tasks[t]
           /\ tasks' \in [Slots -> {None, "RUNNING"} \cup Verdicts]
           /\ \A t \in Slots : tasks[t] \in Verdicts => tasks'[t] = tasks[t]
           /\ \A n \in 1..2 : Complete(n) => Complete(n)' /\ EvidenceOf(n)' = EvidenceOf(n)
<1>1. /\ tasks'[s] = v /\ \A t \in Slots \ {s} : tasks'[t] = tasks[t]
      /\ tasks' \in [Slots -> {None, "RUNNING"} \cup Verdicts]
      /\ \A t \in Slots : tasks[t] \in Verdicts => tasks'[t] = tasks[t]
  BY DEF TeamTypes
<1>2. ASSUME NEW n \in 1..2, Complete(n) PROVE EvidenceOf(n)' = EvidenceOf(n)
  <2>1. CASE n = 1
    BY <1>1, <1>2, <2>1, SlotFacts DEF Complete, EvidenceOf
  <2>2. CASE n = 2
    <3>1. ASSUME NEW r \in Roles
          PROVE  (IF r = "risk" THEN tasks'[<<r, 2>>] ELSE tasks'[<<r, 1>>])
                   = IF r = "risk" THEN tasks[<<r, 2>>] ELSE tasks[<<r, 1>>]
      <4>1. EvidenceOf(2)[r] \in Verdicts
        BY <1>2, <2>2 DEF Complete
      <4>2. CASE r = "risk"
        BY <1>1, <4>1, <4>2, SlotFacts, EvidenceAt
      <4>3. CASE r # "risk"
        BY <1>1, <4>1, <4>3, SlotFacts, EvidenceAt
      <4> QED
        BY <4>2, <4>3
    <3> QED
      BY <2>2, <3>1 DEF EvidenceOf
  <2> QED
    BY <2>1, <2>2
<1>3. ASSUME NEW n \in 1..2, Complete(n) PROVE Complete(n)'
  BY <1>2, <1>3 DEF Complete
<1> QED
  BY <1>1, <1>2, <1>3

(***************************************************************************)
(* A coordinator writes the task of one of its calls, and holds what it    *)
(* wrote.                                                                  *)
(***************************************************************************)
LEMMA TaskStep ==
    ASSUME TeamInv, NEW c \in Coordinators, NEW r \in RolesOf(co[c].round), co[c].pc = "collect",
           tasks[Slot(c, r)] \notin Verdicts, NEW v \in {"RUNNING"} \cup Verdicts,
           tasks' = [tasks EXCEPT ![Slot(c, r)] = v],
           NEW x \in CallStates, co' = [co EXCEPT ![c].calls[r] = x], x \in Verdicts => x = v,
           r = "order" /\ v = "CLEAR" => ~conflict,
           UNCHANGED <<conflict, case, decided, guard, faults>>
    PROVE  TeamInv'
<1> DEFINE s == Slot(c, r)
           k == [co[c] EXCEPT !.calls[r] = x]
<1>1. co[c] \in CoTypes /\ r \in Roles /\ s = <<r, co[c].round>> /\ s \in Slots
  BY SlotFacts DEF TeamInv, TeamTypes, CoTypes, Slot
<1>2. /\ k \in CoTypes /\ k.pc = "collect" /\ k.round = co[c].round /\ k.results = co[c].results
      /\ k.calls[r] = x /\ \A q \in Roles \ {r} : k.calls[q] = co[c].calls[q]
  BY <1>1 DEF CoTypes
<1>3. co'[c] = k /\ \A d \in Coordinators \ {c} : co'[d] = co[d]
  BY DEF TeamInv, TeamTypes
<1> HIDE DEF k, s
<1>4. TeamTypes /\ tasks[s] \notin Verdicts /\ tasks' = [tasks EXCEPT ![s] = v]
  BY DEF TeamInv, s
<1>5. /\ tasks'[s] = v /\ \A t \in Slots \ {s} : tasks'[t] = tasks[t]
      /\ tasks' \in [Slots -> {None, "RUNNING"} \cup Verdicts]
      /\ \A t \in Slots : tasks[t] \in Verdicts => tasks'[t] = tasks[t]
      /\ \A n \in 1..2 : Complete(n) => Complete(n)' /\ EvidenceOf(n)' = EvidenceOf(n)
  BY <1>1, <1>4, TasksGrow
<1>6. TeamTypes'
  <2>1. co' \in [Coordinators -> CoTypes]
    BY <1>2, <1>4, <1>3 DEF TeamTypes, k
  <2> QED
    BY <1>4, <1>5, <2>1 DEF TeamTypes
<1>7. ConflictIsFound'
  BY <1>1, <1>4, <1>5, SlotFacts DEF TeamInv, ConflictIsFound
<1>8. HeldIsStored'
  <2>1. ASSUME NEW d \in Coordinators PROVE CallsStored(co[d])'
    <3>1. CASE d = c
      BY <1>1, <1>2, <1>3, <1>5, <3>1, SlotFacts DEF TeamInv, HeldIsStored, CallsStored
    <3>2. CASE d # c
      <4>1. CallsStored(co[d]) /\ co'[d] = co[d] /\ co[d].round \in 1..2
        BY <1>3, <1>4, <3>2 DEF TeamInv, HeldIsStored, TeamTypes, CoTypes
      <4>2. ASSUME NEW q \in Roles, co[d].calls[q] \in Verdicts
            PROVE  /\ co[d].pc = "collect" /\ q \in RolesOf(co[d].round)
                   /\ tasks'[<<q, co[d].round>>] = co[d].calls[q]
        <5>1. co[d].pc = "collect" /\ q \in RolesOf(co[d].round) /\ tasks[<<q, co[d].round>>] = co[d].calls[q]
          BY <4>1, <4>2 DEF CallsStored
        <5>2. <<q, co[d].round>> \in Slots
          BY <4>1, <5>1, SlotFacts
        <5> QED
          BY <1>5, <4>2, <5>1, <5>2
      <4> QED
        BY <4>1, <4>2 DEF CallsStored
    <3> QED
      BY <3>1, <3>2
  <2>2. ASSUME NEW d \in Coordinators PROVE ResultsStored(co[d])'
    <3>1. ResultsStored(co[d]) /\ co[d].round \in 1..2
      BY <1>4 DEF TeamInv, HeldIsStored, TeamTypes, CoTypes
    <3>2. /\ co'[d].pc = co[d].pc /\ co'[d].round = co[d].round /\ co'[d].results = co[d].results
          /\ co[d].pc = "idle" => co'[d] = co[d]
      BY <1>2, <1>3
    <3> QED
      BY <1>5, <3>1, <3>2 DEF ResultsStored
  <2> QED
    BY <2>1, <2>2 DEF HeldIsStored
<1>9. DecisionsAreComplete'
  BY <1>5 DEF TeamInv, DecisionsAreComplete
<1>10. SubmittedHasWorkflow'
  BY DEF TeamInv, SubmittedHasWorkflow
<1>11. DecidedOnEvidence'
  <2>1. \A n \in 1..2 : decided[n].action # None => EvidenceOf(n)' = EvidenceOf(n)
    BY <1>5 DEF TeamInv, DecisionsAreComplete
  <2>2. tasks'[<<"risk", 2>>] # None => decided[1].action = "FOLLOW_UP"
    <3>1. CASE s = <<"risk", 2>>
      BY <1>1, <1>4, <3>1 DEF TeamInv, HeldIsStored, ResultsStored
    <3>2. CASE s # <<"risk", 2>>
      BY <1>5, <3>2, SlotFacts DEF TeamInv, DecidedOnEvidence
    <3> QED
      BY <3>1, <3>2
  <2>3. \A n \in 1..2 : decided[n].action # None =>
           decided[n].input = EvidenceOf(n)' /\ decided[n].action = Supervise(EvidenceOf(n)', n)
    BY <2>1 DEF TeamInv, DecidedOnEvidence
  <2> QED
    BY <2>2, <2>3 DEF TeamInv, DecidedOnEvidence, Supervise
<1> QED
  BY <1>6, <1>7, <1>8, <1>9, <1>10, <1>11 DEF TeamInv

LEMMA OpenTaskKeeps == ASSUME TeamInv, NEW c \in Coordinators, NEW r \in Roles, OpenTask(c, r) PROVE TeamInv'
<1>1. /\ co[c].pc = "collect" /\ r \in RolesOf(co[c].round)
      /\ UNCHANGED <<conflict, case, decided, guard, faults>>
  BY DEF OpenTask, Calling
<1>2. CASE tasks[Slot(c, r)] = None
  <2>1. PICK v \in {"RUNNING"}, x \in {"asked"} :
            tasks' = [tasks EXCEPT ![Slot(c, r)] = v] /\ co' = [co EXCEPT ![c].calls[r] = x]
    BY <1>2 DEF OpenTask
  <2>2. tasks[Slot(c, r)] \notin Verdicts /\ v \in {"RUNNING"} \cup Verdicts /\ x \in CallStates /\ x \notin Verdicts
        /\ v # "CLEAR"
    BY <1>2
  <2> QED
    BY <1>1, <2>1, <2>2, TaskStep
<1>3. CASE tasks[Slot(c, r)] # None
  <2>1. PICK x \in {"failed"} : UNCHANGED tasks /\ co' = [co EXCEPT ![c].calls[r] = x]
    BY <1>3 DEF OpenTask
  <2>2. x \in CallStates /\ x \notin Verdicts
    OBVIOUS
  <2> QED
    BY <1>1, <2>1, <2>2, CallStep
<1> QED
  BY <1>2, <1>3

LEMMA StoreResultKeeps == ASSUME TeamInv, NEW c \in Coordinators, NEW r \in Roles, StoreResult(c, r) PROVE TeamInv'
<1>1. /\ co[c].pc = "collect" /\ r \in RolesOf(co[c].round)
      /\ UNCHANGED <<conflict, case, decided, guard, faults>>
  BY DEF StoreResult, Calling
<1>2. CASE Stored(Slot(c, r))
  BY <1>1, <1>2, CallStep DEF StoreResult
<1>3. CASE ~Stored(Slot(c, r))
  <2>1. PICK v \in {Valid(r, v) : v \in Answers[r]} :
            tasks' = [tasks EXCEPT ![Slot(c, r)] = v] /\ co' = [co EXCEPT ![c].calls[r] = v]
    BY <1>3 DEF StoreResult
  <2>2. v \in Verdicts /\ (r = "order" /\ v = "CLEAR" => ~conflict)
    BY TeamConstants DEF Valid
  <2> QED
    BY <1>1, <1>3, <2>1, <2>2, TaskStep DEF Stored
<1> QED
  BY <1>2, <1>3

\* The results of the calls, put together, are the evidence of the round.
LEMMA CollectKeeps == ASSUME TeamInv, NEW c \in Coordinators, Collect(c) PROVE TeamInv'
<1> DEFINE n == co[c].round
           res == [r \in Roles |-> IF r \in RolesOf(n) THEN co[c].calls[r] ELSE co[c].results[r]]
           k == [co[c] EXCEPT !.pc = "decide", !.calls = Unasked, !.results = res]
<1>1. /\ co[c].pc = "collect" /\ \A r \in RolesOf(n) : co[c].calls[r] \in Verdicts \cup {"failed"}
      /\ UNCHANGED <<conflict, case, tasks, decided, faults>>
  BY DEF Collect
<1>2. co[c] \in CoTypes /\ n \in 1..2 /\ faults' \in 0..MaxFaults /\ CallsStored(co[c]) /\ ResultsStored(co[c])
  BY <1>1 DEF TeamInv, TeamTypes, CoTypes, HeldIsStored
<1>3. CASE Raised(c)
  BY <1>1, <1>2, <1>3, LeaveKeeps DEF Collect
<1>4. CASE ~Raised(c)
  <2>1. co' = [co EXCEPT ![c] = k] /\ guard' = guard
    BY <1>1, <1>4 DEF Collect, TeamInv, TeamTypes
  <2>2. \A r \in RolesOf(n) : r \in Roles /\ co[c].calls[r] \in Verdicts /\ tasks[<<r, n>>] = co[c].calls[r]
    BY <1>1, <1>2, <1>4, SlotFacts DEF Raised, CallsStored
  <2>3. ASSUME NEW r \in Roles PROVE res[r] = EvidenceOf(n)[r] /\ res[r] \in Verdicts
    <3>1. CASE n = 1
      BY <2>2, <3>1, EvidenceAt DEF RolesOf
    <3>2. CASE n = 2 /\ r = "risk"
      BY <2>2, <3>2, EvidenceAt DEF RolesOf
    <3>3. CASE n = 2 /\ r # "risk"
      <4>1. res[r] = co[c].results[r] /\ co[c].results[r] = EvidenceOf(1)[r] /\ EvidenceOf(1)[r] \in Verdicts
        BY <1>1, <1>2, <3>3 DEF RolesOf, ResultsStored, Complete
      <4> QED
        BY <3>3, <4>1, EvidenceAt
    <3> QED
      BY <1>2, <3>1, <3>2, <3>3
  <2>4. res = EvidenceOf(n) /\ Complete(n) /\ res \in Evidence
    BY <2>3 DEF EvidenceOf, Complete, Evidence
  <2>5. /\ k \in CoTypes /\ k.pc = "decide" /\ k.round = n /\ k.results = res
        /\ \A r \in Roles : k.calls[r] \notin Verdicts
    BY <1>2, <2>4 DEF CoTypes, Unasked
  <2> HIDE DEF k, res
  <2>6. CallsStored(k) /\ ResultsStored(k)
    BY <1>2, <2>4, <2>5 DEF CallsStored, ResultsStored
  <2>7. guard' \in Coordinators \cup {None}
    BY <2>1 DEF TeamInv, TeamTypes
  <2> QED
    BY <1>1, <1>2, <2>1, <2>5, <2>6, <2>7, MemoryStep
<1> QED
  BY <1>3, <1>4

\* What a coordinator holds as it starts its second round.
LEMMA SecondRound ==
    ASSUME NEW k \in CoTypes, NEW m \in 1..2
    PROVE  LET l == [k EXCEPT !.pc = "collect", !.round = m]
           IN  l \in CoTypes /\ l.pc = "collect" /\ l.round = m /\ l.results = k.results /\ l.calls = k.calls
  BY DEF CoTypes

(***************************************************************************)
(* The decision of a round, made now or found: it is what the supervisor   *)
(* says of the evidence of the round, and the case gets it.                *)
(***************************************************************************)
LEMMA DecideStep ==
    ASSUME TeamInv, NEW c \in Coordinators, co[c].pc \in {"decide", "record"},
           NEW n \in 1..2, n = co[c].round, NEW action, action = Supervise(EvidenceOf(n), n),
           \/ decided[n].action = action /\ decided' = decided
           \/ decided[n].action = None /\ decided' = [decided EXCEPT ![n] = [action |-> action, input |-> co[c].results]],
           Conclude(c, action), action # "FOLLOW_UP" => ~Refused(c, action),
           UNCHANGED <<conflict, tasks, faults>>
    PROVE  TeamInv'
<1>1. /\ co[c] \in CoTypes /\ CallsStored(co[c]) /\ ResultsStored(co[c])
      /\ Complete(n) /\ co[c].results = EvidenceOf(n) /\ co[c].results \in Evidence
  BY DEF TeamInv, TeamTypes, HeldIsStored, ResultsStored, CoTypes
<1>2. action \in Actions /\ (n = 2 => action # "FOLLOW_UP")
  BY Supervised
<1>3. /\ decided' \in [1..2 -> [action : Actions \cup {None}, input : Evidence]]
      /\ decided'[n].action = action /\ decided'[n].input = EvidenceOf(n)
      /\ \A m \in 1..2 : m # n => decided'[m] = decided[m]
      /\ \A m \in 1..2 : decided[m].action # None => decided'[m] = decided[m]
  BY <1>1, <1>2 DEF TeamInv, TeamTypes, DecidedOnEvidence
<1>4. (n = 2 => decided[1].action = "FOLLOW_UP")
  BY <1>1 DEF ResultsStored
<1>5. UNCHANGED <<tasks>> /\ \A m \in 1..2 : EvidenceOf(m)' = EvidenceOf(m) /\ (Complete(m) <=> Complete(m)')
  BY DEF EvidenceOf, Complete
<1>6. DecisionsAreComplete'
  BY <1>1, <1>3, <1>4, <1>5 DEF TeamInv, DecisionsAreComplete
<1>7. ConflictIsFound'
  BY DEF TeamInv, ConflictIsFound
<1>8. PICK k \in CoTypes :
          /\ co' = [co EXCEPT ![c] = k] /\ guard' \in Coordinators \cup {None}
          /\ \A r \in Roles : k.calls[r] \notin Verdicts
          /\ k = Resting \/ (action = "FOLLOW_UP" /\ k.pc = "collect" /\ k.round = 2 /\ k.results = EvidenceOf(n))
  <2>1. CASE action = "FOLLOW_UP"
    <3>0. PICK m \in 1..2 : m = 2
      OBVIOUS
    <3> DEFINE k == [co[c] EXCEPT !.pc = "collect", !.round = m]
    <3>1. co' = [co EXCEPT ![c] = k] /\ guard' = guard
      BY <2>1, <3>0 DEF Conclude, TeamInv, TeamTypes
    <3>2. k \in CoTypes /\ k.pc = "collect" /\ k.round = m /\ k.results = co[c].results /\ k.calls = co[c].calls
      BY <1>1, SecondRound
    <3> HIDE DEF k
    <3>3. \A r \in Roles : k.calls[r] \notin Verdicts
      BY <1>1, <3>2 DEF CallsStored
    <3> QED
      BY <1>1, <2>1, <3>0, <3>1, <3>2, <3>3 DEF TeamInv, TeamTypes
  <2>2. CASE action # "FOLLOW_UP"
    BY <2>2, RestingHolds DEF Conclude, Leave, Free, TeamInv, TeamTypes, CoTypes, Resting, Unasked
  <2> QED
    BY <2>1, <2>2
<1>9. co'[c] = k /\ \A d \in Coordinators \ {c} : co'[d] = co[d]
  BY <1>8 DEF TeamInv, TeamTypes
<1>10. HeldIsStored'
  <2>1. CallsStored(k)' /\ ResultsStored(k)'
    BY <1>1, <1>2, <1>3, <1>5, <1>8 DEF CallsStored, ResultsStored, Resting
  <2>2. ASSUME NEW d \in Coordinators, d # c PROVE CallsStored(co[d])' /\ ResultsStored(co[d])'
    <3>1. CallsStored(co[d]) /\ ResultsStored(co[d]) /\ co[d].round \in 1..2 /\ co'[d] = co[d]
      BY <1>9, <2>2 DEF TeamInv, HeldIsStored, TeamTypes, CoTypes
    <3> QED
      BY <1>3, <1>5, <3>1 DEF CallsStored, ResultsStored
  <2> QED
    BY <1>9, <2>1, <2>2 DEF HeldIsStored, CallsStored, ResultsStored
<1>11. /\ action = "FOLLOW_UP" => case' = case
       /\ action # "FOLLOW_UP" =>
             /\ case'.status = action /\ ~case'.workflow /\ case' \in [status : {"READY", "BLOCKED"}, snapshot : Evidence, workflow : BOOLEAN]
             /\ case'.snapshot = IF action = "READY" THEN EvidenceOf(n) ELSE Unasked
  <2>1. CASE action = "FOLLOW_UP"
    BY <2>1 DEF Conclude
  <2>2. CASE action # "FOLLOW_UP"
    <3>1. case' = [case EXCEPT !.status = action, !.snapshot = IF action = "READY" THEN co[c].results ELSE Unasked]
      BY <2>2 DEF Conclude, CaseAfter
    <3>2. action \in {"READY", "BLOCKED"} /\ ~case.workflow /\ Unasked \in Evidence
      BY <1>2, <2>2 DEF Refused, Unasked, Evidence
    <3>3. case \in [status : {"COLLECTING", "READY", "BLOCKED", "SUBMITTED"}, snapshot : Evidence, workflow : BOOLEAN]
      BY DEF TeamInv, TeamTypes
    <3> QED
      BY <1>1, <2>2, <3>1, <3>2, <3>3
  <2> QED
    BY <2>1, <2>2
<1>12. TeamTypes'
  <2>1. case' \in [status : {"COLLECTING", "READY", "BLOCKED", "SUBMITTED"}, snapshot : Evidence, workflow : BOOLEAN]
    BY <1>11 DEF TeamInv, TeamTypes
  <2>2. co' \in [Coordinators -> CoTypes]
    BY <1>8 DEF TeamInv, TeamTypes
  <2> QED
    BY <1>3, <1>8, <2>1, <2>2 DEF TeamInv, TeamTypes
<1>13. SubmittedHasWorkflow'
  BY <1>2, <1>11 DEF TeamInv, SubmittedHasWorkflow
<1>14. DecidedOnEvidence'
  <2>1. \A m \in 1..2 : decided'[m].action # None =>
            decided'[m].input = EvidenceOf(m)' /\ decided'[m].action = Supervise(EvidenceOf(m)', m)
    BY <1>3, <1>5 DEF TeamInv, DecidedOnEvidence
  <2>2. tasks'[<<"risk", 2>>] # None => decided'[1].action = "FOLLOW_UP"
    BY <1>3 DEF TeamInv, DecidedOnEvidence
  <2>3. CASE action = "FOLLOW_UP"
    <3>1. case'.status # "COLLECTING" => \E m \in 1..2 :
             /\ decided'[m].action = IF case'.status = "SUBMITTED" THEN "READY" ELSE case'.status
             /\ case'.snapshot = IF case'.status = "BLOCKED" THEN Unasked ELSE decided'[m].input
      <4>1. SUFFICES ASSUME case.status # "COLLECTING"
            PROVE \E m \in 1..2 : /\ decided'[m].action = IF case.status = "SUBMITTED" THEN "READY" ELSE case.status
                                  /\ case.snapshot = IF case.status = "BLOCKED" THEN Unasked ELSE decided'[m].input
        BY <1>11, <2>3
      <4>2. PICK m \in 1..2 : /\ decided[m].action = IF case.status = "SUBMITTED" THEN "READY" ELSE case.status
                              /\ case.snapshot = IF case.status = "BLOCKED" THEN Unasked ELSE decided[m].input
        BY <4>1 DEF TeamInv, DecidedOnEvidence
      <4>3. decided[m].action # None
        BY <4>2 DEF TeamInv, TeamTypes
      <4> QED
        BY <1>3, <4>2, <4>3
    <3>2. case'.status \in {"READY", "SUBMITTED"} => (\A r \in Roles : case'.snapshot[r] = "CLEAR") /\ ~conflict'
      BY <1>11, <2>3 DEF TeamInv, DecidedOnEvidence
    <3> QED
      BY <2>1, <2>2, <3>1, <3>2 DEF DecidedOnEvidence, Supervise
  <2>4. CASE action # "FOLLOW_UP"
    <3>1. /\ decided'[n].action = IF case'.status = "SUBMITTED" THEN "READY" ELSE case'.status
          /\ case'.snapshot = IF case'.status = "BLOCKED" THEN Unasked ELSE decided'[n].input
      BY <1>2, <1>3, <1>11, <2>4
    <3>2. case'.status \in {"READY", "SUBMITTED"} => (\A r \in Roles : case'.snapshot[r] = "CLEAR") /\ ~conflict'
      <4>1. SUFFICES ASSUME action = "READY" PROVE (\A r \in Roles : EvidenceOf(n)[r] = "CLEAR") /\ ~conflict
        BY <1>2, <1>11, <2>4
      <4>2. \A r \in Roles : EvidenceOf(n)[r] = "CLEAR"
        BY <4>1, Supervised
      <4>3. tasks[<<"order", 1>>] = "CLEAR"
        BY <4>2, EvidenceAt, SlotFacts
      <4> QED
        BY <4>2, <4>3 DEF TeamInv, ConflictIsFound
    <3> QED
      BY <2>1, <2>2, <3>1, <3>2 DEF DecidedOnEvidence, Supervise
  <2> QED
    BY <2>3, <2>4
<1> QED
  BY <1>6, <1>7, <1>10, <1>12, <1>13, <1>14 DEF TeamInv

LEMMA LookForDecisionKeeps == ASSUME TeamInv, NEW c \in Coordinators, LookForDecision(c) PROVE TeamInv'
<1>1. co[c].pc = "decide" /\ UNCHANGED <<conflict, tasks, decided, faults>>
  BY DEF LookForDecision
<1>2. PICK n \in 1..2 : n = co[c].round
  BY DEF TeamInv, TeamTypes, CoTypes
<1>3. faults' \in 0..MaxFaults /\ co[c] \in CoTypes /\ CallsStored(co[c]) /\ ResultsStored(co[c])
  BY <1>1 DEF TeamInv, TeamTypes, HeldIsStored
<1>4. CASE decided[n].action = None
  <2> DEFINE k == [co[c] EXCEPT !.pc = "record"]
  <2>1. co' = [co EXCEPT ![c] = k] /\ UNCHANGED <<case, guard>>
    BY <1>2, <1>4 DEF LookForDecision, TeamInv, TeamTypes
  <2>2. k \in CoTypes /\ k.pc = "record" /\ k.round = co[c].round /\ k.results = co[c].results /\ k.calls = co[c].calls
    BY <1>3 DEF CoTypes
  <2> HIDE DEF k
  <2>3. CallsStored(k) /\ ResultsStored(k)
    BY <1>1, <1>3, <2>2 DEF CallsStored, ResultsStored
  <2>4. guard' \in Coordinators \cup {None}
    BY <2>1 DEF TeamInv, TeamTypes
  <2> QED
    BY <1>1, <1>3, <2>1, <2>2, <2>3, <2>4, MemoryStep
<1>5. CASE decided[n].action # None /\ decided[n].action # "FOLLOW_UP" /\ Refused(c, decided[n].action)
  <2>1. Leave(c) /\ UNCHANGED case
    BY <1>2, <1>5 DEF LookForDecision
  <2> QED
    BY <1>1, <1>3, <2>1, LeaveKeeps
<1>6. CASE decided[n].action # None /\ ~(decided[n].action # "FOLLOW_UP" /\ Refused(c, decided[n].action))
  <2>1. Conclude(c, decided[n].action)
    BY <1>2, <1>6 DEF LookForDecision
  <2>2. decided[n].action = Supervise(EvidenceOf(n), n)
    BY <1>6 DEF TeamInv, DecidedOnEvidence
  <2> QED
    BY <1>1, <1>2, <1>6, <2>1, <2>2, DecideStep
<1> QED
  BY <1>4, <1>5, <1>6

LEMMA RecordDecisionKeeps == ASSUME TeamInv, NEW c \in Coordinators, RecordDecision(c) PROVE TeamInv'
<1>1. co[c].pc = "record" /\ UNCHANGED <<conflict, tasks, faults>>
  BY DEF RecordDecision
<1>2. PICK n \in 1..2 : n = co[c].round
  BY DEF TeamInv, TeamTypes, CoTypes
<1>3. faults' \in 0..MaxFaults /\ co[c].results = EvidenceOf(n)
  BY <1>1, <1>2 DEF TeamInv, TeamTypes, HeldIsStored, ResultsStored
<1> DEFINE action == Supervise(EvidenceOf(n), n)
           refused == decided[n].action # None \/ (action # "FOLLOW_UP" /\ Refused(c, action))
<1>4. CASE refused
  <2>1. Leave(c) /\ UNCHANGED <<case, decided>>
    BY <1>2, <1>3, <1>4 DEF RecordDecision
  <2> QED
    BY <1>1, <1>3, <2>1, LeaveKeeps
<1>5. CASE ~refused
  <2>1. /\ decided' = [decided EXCEPT ![n] = [action |-> action, input |-> co[c].results]]
        /\ Conclude(c, action)
    BY <1>2, <1>3, <1>5 DEF RecordDecision
  <2>2. decided[n].action = None /\ (action # "FOLLOW_UP" => ~Refused(c, action))
    BY <1>5
  <2> HIDE DEF action
  <2>3. action = Supervise(EvidenceOf(n), n)
    BY DEF action
  <2> QED
    BY <1>1, <1>2, <2>1, <2>2, <2>3, DecideStep
<1> QED
  BY <1>4, <1>5

\* A guard that is lost is forgotten, and its holder goes on.
LEMMA FaultsKeep ==
    ASSUME TeamInv, NEW c \in Coordinators, CoordinatorDies(c) \/ GuardIsLost(c) PROVE TeamInv'
<1>1. faults' \in 0..MaxFaults
  BY TeamConstants DEF CoordinatorDies, GuardIsLost, Fault, TeamInv, TeamTypes
<1>2. CASE CoordinatorDies(c)
  BY <1>1, <1>2, LeaveKeeps DEF CoordinatorDies
<1>3. CASE GuardIsLost(c)
  <2>1. co' = [co EXCEPT ![c] = co[c]] /\ guard' = None /\ UNCHANGED <<conflict, case, tasks, decided>>
    BY <1>3 DEF GuardIsLost, TeamInv, TeamTypes
  <2>2. co[c] \in CoTypes /\ CallsStored(co[c]) /\ ResultsStored(co[c])
    BY DEF TeamInv, TeamTypes, HeldIsStored
  <2> QED
    BY <1>1, <2>1, <2>2, MemoryStep
<1> QED
  BY <1>2, <1>3

LEMMA TeamStepKeeps == ASSUME TeamInv, NEW c \in Coordinators, CoordinatorStep(c) PROVE TeamInv'
  BY RunCaseKeeps, FindTaskKeeps, OpenTaskKeeps, StoreResultKeeps, CollectKeeps, LookForDecisionKeeps,
     RecordDecisionKeeps DEF CoordinatorStep

\* Only the case is submitted, under the lock that a caller took on a READY one.
LEMMA SubmitKeeps ==
    ASSUME TeamInv, UNCHANGED <<conflict, tasks, decided, guard, co, faults>>,
           \/ case' = case
           \/ case.status = "READY" /\ case' = [case EXCEPT !.status = "SUBMITTED", !.workflow = TRUE]
    PROVE  TeamInv'
<1>1. /\ case' \in [status : {"COLLECTING", "READY", "BLOCKED", "SUBMITTED"}, snapshot : Evidence, workflow : BOOLEAN]
      /\ case'.snapshot = case.snapshot
      /\ case' = case \/ (case.status = "READY" /\ case'.status = "SUBMITTED" /\ case'.workflow)
  BY DEF TeamInv, TeamTypes
<1>2. TeamTypes' /\ ConflictIsFound' /\ HeldIsStored'
  BY <1>1 DEF TeamInv, TeamTypes, ConflictIsFound, HeldIsStored, CallsStored, ResultsStored, Complete, EvidenceOf
<1>3. DecisionsAreComplete' /\ SubmittedHasWorkflow'
  BY <1>1 DEF TeamInv, DecisionsAreComplete, SubmittedHasWorkflow, Complete, EvidenceOf
<1>4. DecidedOnEvidence'
  <2>1. \A n \in 1..2 : EvidenceOf(n)' = EvidenceOf(n)
    BY DEF EvidenceOf
  <2>2. \A n \in 1..2 : decided[n].action # None =>
           decided[n].input = EvidenceOf(n)' /\ decided[n].action = Supervise(EvidenceOf(n)', n)
    BY <2>1 DEF TeamInv, DecidedOnEvidence
  <2> QED
    BY <1>1, <2>2 DEF TeamInv, DecidedOnEvidence, Supervise
<1> QED
  BY <1>2, <1>3, <1>4 DEF TeamInv
----------------------------------------------------------------------------
IntakeTypes ==
    /\ workflows \subseteq Requests
    /\ keyLock \in [Keys -> Callers \cup {None}]
    /\ orderLock \in [Orders -> Callers \cup {None}]
    /\ caseLock \in Callers \cup {None}
    /\ caller \in [Callers -> [pc : CallerPCs, request : Requests \cup {NoRequest}]]

(***************************************************************************)
(* What the locks of a caller that is at work guarantee: nobody else makes *)
(* a workflow with its key, none with its order once it has the lock on    *)
(* it, and nobody touches the case it submits.                             *)
(***************************************************************************)
Guarded(a) ==
    LET q == caller[a].request
    IN  /\ caller[a].pc # "idle" =>
               q \in Requests /\ keyLock[q.key] = a /\ \A w \in workflows : w.key # q.key
        /\ caller[a].pc = "insert" => orderLock[q.order] = a /\ \A w \in workflows : w.order # q.order
        /\ caller[a].pc \in {"order", "insert"} /\ q.team => caseLock = a /\ case.status = "READY"

CallersAreGuarded == \A a \in Callers : Guarded(a)

\* The inductive invariant of the team and the intake.
IInv == TeamInv /\ IntakeTypes /\ CallersAreGuarded

LEMMA InitIInv == Init => IInv
<1>1. TeamInit => TeamInv
  BY TeamInit_Inv
<1>2. IntakeInit => IntakeTypes /\ CallersAreGuarded
  BY DEF IntakeInit, IntakeTypes, CallersAreGuarded, Guarded, CallerPCs
<1> QED
  BY <1>1, <1>2 DEF Init, IInv

\* The key and the order of a request have locks.
LEMMA RequestFacts == \A q \in Requests : q.key \in Keys /\ q.order \in Orders /\ q.team \in BOOLEAN
  BY IntakeConstants DEF Keys, Orders

(***************************************************************************)
(* The steps of coordinators: they respect the row lock on the case, and   *)
(* a case is decided once.                                                 *)
(***************************************************************************)
LEMMA CaseIsDecidedOnce ==
    ASSUME TeamInv, NEW c \in Coordinators, CoordinatorStep(c)
    PROVE  case'.status = case.status \/ (case.status = "COLLECTING" /\ case'.status \in {"READY", "BLOCKED"})
<1>1. CASE case' = case
  BY <1>1
<1>2. CASE case' # case
  <2>1. PICK n \in 1..2 : n = co[c].round
    BY DEF TeamInv, TeamTypes, CoTypes
  <2>2. PICK action : /\ co[c].pc \in {"decide", "record"} /\ action = Supervise(EvidenceOf(n), n)
                      /\ decided[n].action \in {None, action}
                      /\ Conclude(c, action) /\ (action # "FOLLOW_UP" => ~Refused(c, action))
    <3>1. LookForDecision(c) \/ RecordDecision(c)
      BY <1>2 DEF CoordinatorStep, RunCase, FindTask, OpenTask, StoreResult, Collect
    <3>2. CASE LookForDecision(c)
      <4>1. decided[n].action # None /\ Conclude(c, decided[n].action) /\ co[c].pc = "decide"
            /\ (decided[n].action # "FOLLOW_UP" => ~Refused(c, decided[n].action))
        BY <1>2, <2>1, <3>2 DEF LookForDecision
      <4>2. decided[n].action = Supervise(EvidenceOf(n), n)
        BY <4>1 DEF TeamInv, DecidedOnEvidence
      <4> QED
        BY <4>1, <4>2
    <3>3. CASE RecordDecision(c)
      <4>1. co[c].pc = "record" /\ decided[n].action = None /\ Conclude(c, Supervise(co[c].results, n))
            /\ (Supervise(co[c].results, n) # "FOLLOW_UP" => ~Refused(c, Supervise(co[c].results, n)))
        BY <1>2, <2>1, <3>3 DEF RecordDecision
      <4>2. co[c].results = EvidenceOf(n)
        BY <2>1, <4>1 DEF TeamInv, HeldIsStored, ResultsStored
      <4> QED
        BY <4>1, <4>2
    <3> QED
      BY <3>1, <3>2, <3>3
  <2>3. action \in {"READY", "BLOCKED"} /\ ~Refused(c, action)
        /\ case' = [case EXCEPT !.status = action, !.snapshot = IF action = "READY" THEN co[c].results ELSE Unasked]
    BY <1>2, <2>2, Supervised DEF Conclude, CaseAfter
  <2>4. case \in [status : {"COLLECTING", "READY", "BLOCKED", "SUBMITTED"}, snapshot : Evidence, workflow : BOOLEAN]
    BY DEF TeamInv, TeamTypes
  <2>5. case'.status = action
    BY <2>3, <2>4
  <2>6. case.status # "SUBMITTED"
    BY <2>3 DEF Refused, TeamInv, SubmittedHasWorkflow
  <2>7. CASE case.status = "READY"
    <3>1. case.snapshot["order"] = "CLEAR" /\ Unasked["order"] # "CLEAR"
      BY <2>7, SlotFacts DEF TeamInv, DecidedOnEvidence, Unasked
    <3>2. (CaseAfter(c, action)).snapshot = case.snapshot
      BY <2>3, <2>7 DEF Refused
    <3>3. (CaseAfter(c, action)).snapshot = IF action = "READY" THEN co[c].results ELSE Unasked
      BY <2>4 DEF CaseAfter
    <3> QED
      BY <2>3, <2>5, <2>7, <3>1, <3>2, <3>3
  <2>8. CASE case.status = "BLOCKED"
    <3>1. PICK m \in 1..2 : decided[m].action = "BLOCKED"
      BY <2>8 DEF TeamInv, DecidedOnEvidence
    <3>2. n = 2 => decided[1].action = "FOLLOW_UP"
      BY <2>1 DEF TeamInv, HeldIsStored, ResultsStored
    <3>3. decided[2].action # None => decided[1].action = "FOLLOW_UP"
      BY DEF TeamInv, DecisionsAreComplete
    <3>4. m = n
      BY <2>2, <2>3, <3>1, <3>2, <3>3
    <3> QED
      BY <2>2, <2>5, <2>8, <3>1, <3>4
  <2> QED
    BY <2>3, <2>4, <2>5, <2>6, <2>7, <2>8
<1> QED
  BY <1>1, <1>2

LEMMA TeamKeepsIntake ==
    ASSUME IInv, NEW c \in Coordinators, TeamStep(c) \/ ((CoordinatorDies(c) \/ GuardIsLost(c)) /\ UNCHANGED intakeVars)
    PROVE  IInv'
<1>1. TeamInv'
  BY TeamStepKeeps, FaultsKeep DEF IInv, TeamStep
<1>2. UNCHANGED intakeVars
  BY DEF TeamStep
<1>3. caseLock = None \/ case' = case
  <2>1. CASE TeamStep(c)
    BY <2>1 DEF TeamStep, CoordinatorStep, Writes, RunCase, FindTask, OpenTask, StoreResult, Collect,
                LookForDecision, RecordDecision
  <2>2. CASE CoordinatorDies(c) \/ GuardIsLost(c)
    BY <2>2 DEF CoordinatorDies, GuardIsLost
  <2> QED
    BY <2>1, <2>2
<1>4. IntakeTypes'
  BY <1>2 DEF IInv, IntakeTypes, intakeVars
<1>5. CallersAreGuarded'
  BY <1>2, <1>3, IntakeConstants DEF IInv, CallersAreGuarded, Guarded, intakeVars
<1> QED
  BY <1>1, <1>4, <1>5 DEF IInv

(***************************************************************************)
(* A caller that is answered gives back its own locks and no others.       *)
(***************************************************************************)
LEMMA AnswerKeeps ==
    ASSUME IInv, NEW a \in Callers, Answer(a), case' = case \/ caseLock = a, TeamInv',
           \/ workflows' = workflows
           \/ /\ caller[a].pc = "insert"
              /\ workflows' = workflows \cup {caller[a].request}
    PROVE  IInv'
<1>1. /\ caller'[a] = [pc |-> "idle", request |-> NoRequest]
      /\ \A b \in Callers \ {a} : caller'[b] = caller[b]
      /\ caller' \in [Callers -> [pc : CallerPCs, request : Requests \cup {NoRequest}]]
  BY DEF Answer, IInv, IntakeTypes, CallerPCs
<1>2. /\ keyLock' \in [Keys -> Callers \cup {None}] /\ orderLock' \in [Orders -> Callers \cup {None}]
      /\ caseLock' \in Callers \cup {None}
  BY DEF Answer, Without, IInv, IntakeTypes
<1>3. \A b \in Callers \ {a} :
          /\ \A k \in Keys : keyLock[k] = b => keyLock'[k] = b
          /\ \A o \in Orders : orderLock[o] = b => orderLock'[o] = b
          /\ caseLock = b => caseLock' = b /\ case' = case
  BY DEF Answer, Without, IInv, IntakeTypes
<1>4. IntakeTypes'
  BY <1>1, <1>2 DEF IInv, IntakeTypes, CallersAreGuarded, Guarded
<1>5. ASSUME NEW b \in Callers PROVE Guarded(b)'
  <2>1. CASE b = a
    BY <1>1, <2>1 DEF Guarded
  <2>2. CASE b # a
    <3>1. Guarded(b) /\ Guarded(a) /\ caller'[b] = caller[b]
      BY <1>1, <2>2 DEF IInv, CallersAreGuarded
    <3> DEFINE q == caller[b].request
    <3>2. ASSUME caller[b].pc # "idle"
          PROVE  q \in Requests /\ keyLock'[q.key] = b /\ \A w \in workflows' : w.key # q.key
      BY <1>3, <2>2, <3>1, <3>2, RequestFacts DEF Guarded
    <3>3. ASSUME caller[b].pc = "insert"
          PROVE  orderLock'[q.order] = b /\ \A w \in workflows' : w.order # q.order
      BY <1>3, <2>2, <3>1, <3>3, RequestFacts DEF Guarded
    <3>4. ASSUME caller[b].pc \in {"order", "insert"}, q.team PROVE caseLock' = b /\ case'.status = "READY"
      BY <1>3, <2>2, <3>1, <3>4 DEF Guarded
    <3> QED
      BY <3>1, <3>2, <3>3, <3>4 DEF Guarded
  <2> QED
    BY <2>1, <2>2
<1> QED
  BY <1>4, <1>5 DEF IInv, CallersAreGuarded

\* Nothing of the team changes.
LEMMA TeamStutters == ASSUME TeamInv, UNCHANGED teamVars PROVE TeamInv'
  BY SubmitKeeps DEF teamVars

LEMMA LockKeyKeeps == ASSUME IInv, NEW a \in Callers, LockKey(a) PROVE IInv'
<1>1. PICK q \in Requests :
          /\ keyLock[q.key] = None /\ \A w \in workflows : w.key # q.key
          /\ keyLock' = [keyLock EXCEPT ![q.key] = a]
          /\ caller' = [caller EXCEPT ![a] = [pc |-> IF q.team THEN "case" ELSE "order", request |-> q]]
          /\ UNCHANGED <<teamVars, workflows, orderLock, caseLock>>
  BY DEF LockKey, KeyIsFree
<1>2. TeamInv'
  BY <1>1, TeamStutters DEF IInv
<1>3. IntakeTypes'
  BY <1>1, RequestFacts DEF IInv, IntakeTypes, CallerPCs
<1>4. ASSUME NEW b \in Callers PROVE Guarded(b)'
  <2>1. CASE b = a
    BY <1>1, <2>1, RequestFacts DEF IInv, IntakeTypes, Guarded
  <2>2. CASE b # a
    BY <1>1, <2>2, RequestFacts, IntakeConstants DEF IInv, IntakeTypes, CallersAreGuarded, Guarded, teamVars
  <2> QED
    BY <2>1, <2>2
<1> QED
  BY <1>2, <1>3, <1>4 DEF IInv, CallersAreGuarded

LEMMA LockCaseKeeps == ASSUME IInv, NEW a \in Callers, LockCase(a) PROVE IInv'
<1>1. caller[a].pc = "case" /\ caseLock = None /\ UNCHANGED <<teamVars, workflows>>
  BY DEF LockCase
<1>2. TeamInv'
  BY <1>1, TeamStutters DEF IInv
<1>3. CASE case.status = "READY"
  <2>1. caseLock' = a /\ caller' = [caller EXCEPT ![a].pc = "order"] /\ UNCHANGED <<keyLock, orderLock>>
    BY <1>3 DEF LockCase, GoTo
  <2>2. IntakeTypes'
    BY <1>1, <2>1 DEF IInv, IntakeTypes, CallerPCs
  <2>3. ASSUME NEW b \in Callers PROVE Guarded(b)'
    BY <1>1, <1>3, <2>1, IntakeConstants DEF IInv, IntakeTypes, CallersAreGuarded, Guarded, teamVars
  <2> QED
    BY <1>2, <2>2, <2>3 DEF IInv, CallersAreGuarded
<1>4. CASE case.status # "READY"
  BY <1>1, <1>2, <1>4, AnswerKeeps DEF LockCase, teamVars
<1> QED
  BY <1>3, <1>4

LEMMA LockOrderKeeps == ASSUME IInv, NEW a \in Callers, LockOrder(a) PROVE IInv'
<1> DEFINE q == caller[a].request
<1>1. caller[a].pc = "order" /\ orderLock[q.order] = None /\ UNCHANGED <<teamVars, workflows>>
  BY DEF LockOrder
<1>2. TeamInv'
  BY <1>1, TeamStutters DEF IInv
<1>3. CASE \E w \in workflows : w.order = q.order
  BY <1>1, <1>2, <1>3, AnswerKeeps DEF LockOrder, teamVars
<1>4. CASE ~\E w \in workflows : w.order = q.order
  <2>1. /\ orderLock' = [orderLock EXCEPT ![q.order] = a] /\ caller' = [caller EXCEPT ![a].pc = "insert"]
        /\ UNCHANGED <<keyLock, caseLock>>
    BY <1>4 DEF LockOrder, GoTo
  <2>2. IntakeTypes'
    BY <1>1, <2>1 DEF IInv, IntakeTypes, CallerPCs
  <2>3. ASSUME NEW b \in Callers PROVE Guarded(b)'
    <3>1. CASE b = a
      <4>1. q \in Requests /\ q.order \in Orders /\ Guarded(a)
        BY <1>1, RequestFacts DEF IInv, CallersAreGuarded, Guarded
      <4>2. caller'[a].pc = "insert" /\ caller'[a].request = q /\ orderLock'[q.order] = a
        BY <2>1, <4>1 DEF IInv, IntakeTypes
      <4> QED
        BY <1>1, <1>4, <2>1, <3>1, <4>1, <4>2 DEF Guarded, teamVars
    <3>2. CASE b # a
      <4>1. Guarded(b) /\ caller'[b] = caller[b]
        BY <2>1, <3>2 DEF IInv, IntakeTypes, CallersAreGuarded
      <4>2. \A o \in Orders : orderLock[o] = b => orderLock'[o] = b
        BY <1>1, <2>1, IntakeConstants DEF IInv, IntakeTypes
      <4> QED
        BY <1>1, <2>1, <4>1, <4>2, RequestFacts DEF Guarded, teamVars
    <3> QED
      BY <3>1, <3>2
  <2> QED
    BY <1>2, <2>2, <2>3 DEF IInv, CallersAreGuarded
<1> QED
  BY <1>3, <1>4

\* The insert never meets a duplicate, and submits a case that is ready and locked.
LEMMA InsertFacts ==
    ASSUME IInv, NEW a \in Callers, InsertWorkflow(a)
    PROVE  LET q == caller[a].request
           IN  /\ q \in Requests /\ ~Duplicate(q) /\ workflows' = workflows \cup {q} /\ Answer(a)
               /\ caller[a].pc = "insert"
               /\ ~q.team => case' = case
               /\ q.team => /\ caseLock = a /\ case.status = "READY"
                            /\ case' = [case EXCEPT !.status = "SUBMITTED", !.workflow = TRUE]
               /\ UNCHANGED <<conflict, tasks, decided, guard, co, faults>>
<1>1. caller[a].pc = "insert" /\ Guarded(a)
  BY DEF InsertWorkflow, IInv, CallersAreGuarded
<1>2. ~Duplicate(caller[a].request)
  BY <1>1 DEF Duplicate, Guarded
<1> QED
  BY <1>1, <1>2 DEF InsertWorkflow, Guarded

LEMMA InsertWorkflowKeeps == ASSUME IInv, NEW a \in Callers, InsertWorkflow(a) PROVE IInv'
<1>1. TeamInv'
  BY InsertFacts, SubmitKeeps, RequestFacts DEF IInv
<1> QED
  BY <1>1, InsertFacts, AnswerKeeps, RequestFacts

LEMMA AbortKeeps == ASSUME IInv, NEW a \in Callers, Abort(a) PROVE IInv'
<1>1. UNCHANGED <<conflict, case, tasks, decided, guard, co, workflows>> /\ faults' \in 0..MaxFaults
  BY TeamConstants DEF Abort, Fault, IInv, TeamInv, TeamTypes
<1>2. TeamInv'
  BY <1>1 DEF IInv, TeamInv, TeamTypes, ConflictIsFound, HeldIsStored, CallsStored, ResultsStored, Complete, EvidenceOf,
              DecisionsAreComplete, SubmittedHasWorkflow, DecidedOnEvidence
<1> QED
  BY <1>1, <1>2, AnswerKeeps DEF Abort

LEMMA NextKeeps == IInv /\ [Next]_vars => IInv'
<1> SUFFICES ASSUME IInv, [Next]_vars PROVE IInv'
  OBVIOUS
<1>1. CASE Next
  BY <1>1, TeamKeepsIntake, LockKeyKeeps, LockCaseKeeps, LockOrderKeeps, InsertWorkflowKeeps, AbortKeeps
     DEF Next, Coordinate, Serve
<1>2. CASE UNCHANGED vars
  <2>1. TeamInv'
    BY <1>2, TeamStutters DEF IInv, vars
  <2>2. IntakeTypes' /\ CallersAreGuarded'
    BY <1>2 DEF vars, teamVars, intakeVars, IInv, IntakeTypes, CallersAreGuarded, Guarded
  <2> QED
    BY <2>1, <2>2 DEF IInv
<1> QED
  BY <1>1, <1>2

\* The inductive invariant holds in every reachable state.
THEOREM CaseIsSound == Spec => []IInv
  BY InitIInv, NextKeeps, PTL DEF Spec

\* Every variable keeps its type (the rows of the case, the locks, what is held in memory).
THEOREM CaseTyped == Spec => []TypeOK
<1>1. IInv => TypeOK
  BY DEF IInv, TeamInv, TeamTypes, CoTypes, IntakeTypes, TypeOK
<1> QED
  BY <1>1, CaseIsSound, PTL

(***************************************************************************)
(* Whatever coordinators run side by side, with or without the guard, the  *)
(* decisions are about the stored evidence, and what goes to approval is   *)
(* CLEAR (call_specialist, decide_round).                                  *)
(***************************************************************************)
THEOREM DecisionsRestOnEvidence == Spec => []DecidedOnEvidence
<1>1. IInv => DecidedOnEvidence
  BY DEF IInv, TeamInv
<1> QED
  BY <1>1, CaseIsSound, PTL

\* With both advisory locks no insert of create_request meets a unique key.
THEOREM CallersDoNotFail == Spec => []NoCallerFails
<1>1. IInv => NoCallerFails
  BY DEF IInv, CallersAreGuarded, Guarded, NoCallerFails, Duplicate
<1> QED
  BY <1>1, CaseIsSound, PTL

----------------------------------------------------------------------------
(***************************************************************************)
(* The contract: a caller that inserts finds no workflow for the order of  *)
(* the case, so there is at most one, and the case is decided once.        *)
(***************************************************************************)
LEMMA InsertRefines ==
    ASSUME IInv, NEW a \in Callers, InsertWorkflow(a)
    PROVE  [Contract!Next]_(Contract!vars)
<1> DEFINE q == caller[a].request
           own == {w \in CaseWorkflows : w.team}
<1>1. q \in Requests /\ workflows' = workflows \cup {q} /\ \A w \in workflows : w.order # q.order
  BY InsertFacts DEF Duplicate
<1>2. CASE \E p \in Requests : p.team /\ p.order = q.order
  <2>1. CaseWorkflows = {}
    BY <1>1, <1>2, IntakeConstants DEF CaseWorkflows
  <2>2. CaseWorkflows' = {q}
    BY <1>1, <1>2, <2>1 DEF CaseWorkflows
  <2>3. Cardinality(CaseWorkflows) = 0 /\ Cardinality(own) = 0 /\ Cardinality(CaseWorkflows') = 1
    <3>1. own = {}
      BY <2>1
    <3> QED
      BY <2>1, <2>2, <3>1, FS_EmptySet, FS_Singleton
  <2>4. CASE q.team
    <3>1. case.status = "READY" /\ case' = [case EXCEPT !.status = "SUBMITTED", !.workflow = TRUE]
      BY <2>4, InsertFacts
    <3>2. case'.status = "SUBMITTED"
      BY <3>1 DEF IInv, TeamInv, TeamTypes
    <3>3. {w \in CaseWorkflows' : w.team} = {q}
      BY <2>2, <2>4
    <3>4. Cardinality({w \in CaseWorkflows' : w.team}) = 1
      BY <3>3, FS_Singleton
    <3> QED
      BY <2>3, <3>1, <3>2, <3>4 DEF Contract!Next, Contract!Submit
  <2>5. CASE ~q.team
    <3>1. case' = case
      BY <2>5, InsertFacts
    <3>2. {w \in CaseWorkflows' : w.team} = {}
      BY <2>2, <2>5
    <3>3. Cardinality({w \in CaseWorkflows' : w.team}) = 0
      BY <3>2, FS_EmptySet
    <3> QED
      BY <2>3, <3>1, <3>3 DEF Contract!Next, Contract!RequestDirectly
  <2> QED
    BY <2>4, <2>5
<1>3. CASE ~\E p \in Requests : p.team /\ p.order = q.order
  <2>1. ~q.team /\ case' = case
    BY <1>1, <1>3, InsertFacts, RequestFacts
  <2>2. CaseWorkflows' = CaseWorkflows
    BY <1>1, <1>3 DEF CaseWorkflows
  <2> QED
    BY <2>1, <2>2 DEF Contract!vars
<1> QED
  BY <1>2, <1>3

\* The steps of coordinators decide the case once, and make no workflows.
LEMMA TeamRefines ==
    ASSUME IInv, Coordinate
    PROVE  [Contract!Next]_(Contract!vars)
<1>1. UNCHANGED workflows
  BY DEF Coordinate, TeamStep, intakeVars
<1>2. UNCHANGED CaseWorkflows
  BY <1>1 DEF CaseWorkflows
<1>3. case'.status = case.status \/ (case.status = "COLLECTING" /\ case'.status \in {"READY", "BLOCKED"})
  BY CaseIsDecidedOnce DEF Coordinate, TeamStep, CoordinatorDies, GuardIsLost, IInv
<1> QED
  BY <1>2, <1>3 DEF Contract!Next, Contract!Decide, Contract!vars

\* The initial state and every step of team and intake are the contract's.
THEOREM PreparedRefundIsUnique == Spec => KeepsCaseContract
<1>1. Init => Contract!Init
  <2> SUFFICES ASSUME Init PROVE Contract!Init
    OBVIOUS
  <2>1. CaseWorkflows = {} /\ {w \in CaseWorkflows : w.team} = {}
    BY DEF Init, IntakeInit, CaseWorkflows
  <2>2. Cardinality(CaseWorkflows) = 0 /\ Cardinality({w \in CaseWorkflows : w.team}) = 0
    BY <2>1, FS_EmptySet
  <2> QED
    BY <2>2 DEF Init, TeamInit, Contract!Init
<1>2. IInv /\ [Next]_vars => [Contract!Next]_(Contract!vars)
  <2> SUFFICES ASSUME IInv, [Next]_vars PROVE [Contract!Next]_(Contract!vars)
    OBVIOUS
  <2>1. CASE Coordinate
    BY <2>1, TeamRefines
  <2>2. ASSUME NEW a \in Callers, InsertWorkflow(a) PROVE [Contract!Next]_(Contract!vars)
    BY <2>2, InsertRefines
  <2>3. ASSUME NEW a \in Callers, LockKey(a) \/ LockCase(a) \/ LockOrder(a) \/ Abort(a)
        PROVE  [Contract!Next]_(Contract!vars)
    <3>1. UNCHANGED <<case, workflows>>
      BY <2>3 DEF LockKey, LockCase, LockOrder, Abort, teamVars
    <3> QED
      BY <3>1 DEF Contract!vars, CaseWorkflows
  <2>4. CASE UNCHANGED vars
    <3>1. UNCHANGED <<case, workflows>>
      BY <2>4 DEF vars, teamVars, intakeVars
    <3> QED
      BY <3>1 DEF Contract!vars, CaseWorkflows
  <2> QED
    BY <2>1, <2>2, <2>3, <2>4 DEF Next, Serve
<1> QED
  BY <1>1, <1>2, CaseIsSound, PTL DEF Spec, KeepsCaseContract, Contract!Spec
=============================================================================
