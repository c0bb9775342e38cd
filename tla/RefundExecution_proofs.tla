---------------------- MODULE RefundExecution_proofs ----------------------
(***************************************************************************)
(* Proofs about the execution of one approved refund, for every number of  *)
(* workers, operators, attempts and failures.                              *)
(***************************************************************************)
EXTENDS RefundExecution, SequenceTheorems, TLAPS

\* A thread between its claim and the end of core.execute_one.
Holding(t) == pc[t] \in {"claimed", "waiting", "answered"}

\* The types, with what posts \subseteq 1..Len(attempts) needs to be inductive.
ExecutionTypes ==
    /\ ExecutionTypeOK
    /\ \A t \in Threads : Holding(t) => t \in Workers /\ work[t].attempt \in 1..Len(attempts)

----------------------------------------------------------------------------
(***************************************************************************)
(* The shapes in which the handlers write the attempts.                    *)
(***************************************************************************)
Rewritten(n) ==
    /\ attempts' \in Seq(Attempts)
    /\ Len(attempts') = Len(attempts)
    /\ \A m \in 1..Len(attempts) : m # n => attempts'[m] = attempts[m]

Extended ==
    /\ attempts' \in Seq(Attempts)
    /\ Len(attempts') = Len(attempts) + 1
    /\ attempts'[Len(attempts) + 1] = NewAttempt

LEMMA Facts ==
    ASSUME ExecutionTypeOK
    PROVE  /\ Len(attempts) \in Nat
           /\ Len(outbox) \in Nat
           /\ attempts \in Seq(Attempts)
           /\ outbox \in Seq(Events)
           /\ \A n \in 1..Len(attempts) :
                 /\ attempts[n] \in Attempts
                 /\ attempts[n].status \in AttemptStatuses
                 /\ attempts[n].fence \in Nat
                 /\ attempts[n].expired \in BOOLEAN
                 /\ attempts[n].receipt \in Nat
           /\ \A t \in Threads :
                 /\ pc[t] \in PCs
                 /\ work[t].attempt \in Nat
                 /\ work[t].fence \in Nat
                 /\ answer[t].receipt \in Nat
                 /\ seen[t] \in Nat
<1>1. attempts \in Seq(Attempts) /\ outbox \in Seq(Events)
  BY DEF ExecutionTypeOK
<1>2. \A n \in 1..Len(attempts) : attempts[n] \in Attempts
  BY <1>1, ElementOfSeq
<1>3. Len(attempts) \in Nat /\ Len(outbox) \in Nat
  BY <1>1, LenProperties
<1>4. \A t \in Threads : answer[t] \in Answers
  BY DEF ExecutionTypeOK
<1>5. QED
  BY <1>1, <1>2, <1>3, <1>4 DEF ExecutionTypeOK, Attempts, Answers

LEMMA RewriteOne ==
    ASSUME ExecutionTypeOK, NEW n \in 1..Len(attempts), NEW a \in Attempts
    PROVE  /\ [attempts EXCEPT ![n] = a] \in Seq(Attempts)
           /\ Len([attempts EXCEPT ![n] = a]) = Len(attempts)
           /\ [attempts EXCEPT ![n] = a][n] = a
           /\ \A m \in 1..Len(attempts) : m # n => [attempts EXCEPT ![n] = a][m] = attempts[m]
BY Facts, ExceptSeq

LEMMA NewAttemptType == NewAttempt \in Attempts
BY DEF NewAttempt, NoReceipt, Attempts, AttemptStatuses

LEMMA ClaimEffect ==
    ASSUME ExecutionTypeOK, NEW t \in Threads, Claim(t)
    PROVE  \E n \in 1..Len(attempts) :
              /\ attempts[n].status = "PENDING"
              /\ Rewritten(n)
              /\ attempts'[n].status = "RUNNING"
              /\ attempts'[n].fence = attempts[n].fence + 1
              /\ attempts'[n].receipt = attempts[n].receipt
              /\ work' = [work EXCEPT ![t] = [attempt |-> n, fence |-> attempts[n].fence + 1]]
<1>1. PICK n \in 1..Len(attempts) :
          /\ attempts[n].status = "PENDING"
          /\ attempts' = [attempts EXCEPT ![n].status = "RUNNING", ![n].fence = @ + 1,
                                          ![n].expired = FALSE]
          /\ work' = [work EXCEPT ![t] = [attempt |-> n, fence |-> attempts[n].fence + 1]]
  BY DEF Claim, Latest
<1>2. attempts[n] \in Attempts /\ attempts[n].fence + 1 \in Nat
  BY Facts
<1> DEFINE a == [attempts[n] EXCEPT !.status = "RUNNING", !.fence = @ + 1, !.expired = FALSE]
<1>3. /\ a \in Attempts
      /\ a.status = "RUNNING"
      /\ a.fence = attempts[n].fence + 1
      /\ a.receipt = attempts[n].receipt
  BY <1>2 DEF Attempts, AttemptStatuses
<1>4. attempts' = [attempts EXCEPT ![n] = a]
  BY <1>1, Facts
<1> HIDE DEF a
<1>5. Rewritten(n) /\ attempts'[n] = a
  BY <1>3, <1>4, RewriteOne DEF Rewritten
<1>6. QED
  BY <1>1, <1>3, <1>5

LEMMA SettleEffect ==
    ASSUME ExecutionTypeOK, NEW n \in 1..Len(attempts),
           NEW status \in AttemptStatuses, NEW receipt \in Nat
    PROVE  LET q == Settle(n, status, receipt) IN
              /\ q \in Seq(Attempts)
              /\ Len(q) = Len(attempts)
              /\ q[n].status = status
              /\ q[n].receipt = receipt
              /\ q[n].fence = attempts[n].fence
              /\ \A m \in 1..Len(attempts) : m # n => q[m] = attempts[m]
<1>1. attempts[n] \in Attempts
  BY Facts
<1> DEFINE a == [attempts[n] EXCEPT !.status = status, !.receipt = receipt, !.expired = FALSE]
<1>2. /\ a \in Attempts
      /\ a.status = status
      /\ a.receipt = receipt
      /\ a.fence = attempts[n].fence
  BY <1>1 DEF Attempts
<1>3. Settle(n, status, receipt) = [attempts EXCEPT ![n] = a]
  BY Facts DEF Settle
<1> HIDE DEF a
<1>4. QED
  BY <1>2, <1>3, RewriteOne

LEMMA RecoverEffect ==
    ASSUME ExecutionTypeOK, NEW t \in Threads, NEW n \in 1..Len(attempts), RecoverExpired(t, n)
    PROVE  /\ Rewritten(n)
           /\ attempts'[n].status = "UNKNOWN"
           /\ attempts'[n].receipt = attempts[n].receipt
           /\ attempts'[n].fence = attempts[n].fence + 1
<1>1. attempts[n] \in Attempts /\ attempts[n].fence + 1 \in Nat
  BY Facts
<1> DEFINE a == [attempts[n] EXCEPT !.status = "UNKNOWN", !.fence = @ + 1]
<1>2. /\ a \in Attempts
      /\ a.status = "UNKNOWN"
      /\ a.receipt = attempts[n].receipt
      /\ a.fence = attempts[n].fence + 1
  BY <1>1 DEF Attempts, AttemptStatuses
<1>3. attempts' = [attempts EXCEPT ![n] = a]
  BY Facts DEF RecoverExpired
<1> HIDE DEF a
<1>4. QED
  BY <1>2, <1>3, RewriteOne DEF Rewritten

LEMMA LeaseEffect ==
    ASSUME ExecutionTypeOK, NEW n \in 1..Len(attempts), LeaseExpires(n)
    PROVE  /\ Rewritten(n)
           /\ attempts'[n].status = attempts[n].status
           /\ attempts'[n].receipt = attempts[n].receipt
           /\ attempts'[n].fence = attempts[n].fence
<1>1. attempts[n] \in Attempts
  BY Facts
<1> DEFINE a == [attempts[n] EXCEPT !.expired = TRUE]
<1>2. /\ a \in Attempts
      /\ a.status = attempts[n].status
      /\ a.receipt = attempts[n].receipt
      /\ a.fence = attempts[n].fence
  BY <1>1 DEF Attempts
<1>3. attempts' = [attempts EXCEPT ![n] = a]
  BY Facts DEF LeaseExpires
<1> HIDE DEF a
<1>4. QED
  BY <1>2, <1>3, RewriteOne DEF Rewritten

LEMMA AppendEffect ==
    ASSUME NEW q \in Seq(Attempts)
    PROVE  LET r == Append(q, NewAttempt) IN
              /\ r \in Seq(Attempts)
              /\ Len(r) = Len(q) + 1
              /\ \A m \in 1..Len(q) : r[m] = q[m]
              /\ r[Len(q) + 1] = NewAttempt
BY NewAttemptType, AppendProperties

LEMMA ApplyFoundEffect ==
    ASSUME ExecutionTypeOK, NEW t \in Threads, ApplyFound(t)
    PROVE  /\ attempts' \in Seq(Attempts)
           /\ Len(attempts') = Len(attempts)
           /\ \A n \in 1..Len(attempts) :
                 /\ attempts[n].status # "UNKNOWN" => attempts'[n] = attempts[n]
                 /\ attempts[n].status = "UNKNOWN" =>
                       /\ attempts'[n].status = "SUCCEEDED"
                       /\ attempts'[n].receipt = answer[t].receipt
<1> DEFINE a(n) == IF attempts[n].status = "UNKNOWN"
                   THEN [attempts[n] EXCEPT !.status = "SUCCEEDED",
                                            !.receipt = answer[t].receipt]
                   ELSE attempts[n]
<1>1. attempts' = [n \in 1..Len(attempts) |-> a(n)]
  BY DEF ApplyFound, Latest
<1>2. ASSUME NEW n \in 1..Len(attempts)
      PROVE  /\ a(n) \in Attempts
             /\ attempts[n].status # "UNKNOWN" => a(n) = attempts[n]
             /\ attempts[n].status = "UNKNOWN" =>
                   a(n).status = "SUCCEEDED" /\ a(n).receipt = answer[t].receipt
  <2>1. attempts[n] \in Attempts /\ answer[t].receipt \in Nat
    BY Facts
  <2>2. QED
    BY <2>1 DEF Attempts, AttemptStatuses
<1> HIDE DEF a
<1>3. Len(attempts) \in Nat
  BY Facts
<1>4. attempts' \in Seq(Attempts) /\ Len(attempts') = Len(attempts)
  BY <1>1, <1>2, <1>3
<1>5. \A n \in 1..Len(attempts) : attempts'[n] = a(n)
  BY <1>1
<1>6. QED
  BY <1>2, <1>4, <1>5

LEMMA EmitEffect ==
    ASSUME ExecutionTypeOK, NEW type \in EventTypes, NEW stage \in Nat, version' \in Nat,
           Emit(type, stage)
    PROVE  /\ outbox' \in Seq(Events)
           /\ Len(outbox') = Len(outbox) + 1
           /\ \A i \in 1..Len(outbox) : outbox'[i] = outbox[i]
<1> DEFINE e == [type |-> type, version |-> version', stage |-> stage]
<1>1. e \in Events
  BY DEF Events
<1>2. outbox' = Append(outbox, e)
  BY DEF Emit
<1> HIDE DEF e
<1>3. QED
  BY <1>1, <1>2, Facts, AppendProperties

----------------------------------------------------------------------------
(***************************************************************************)
(* Types: the parts that a step leaves alone, then the steps.              *)
(***************************************************************************)

\* What a thread does to its own variables keeps their types.
LEMMA RestTypes ==
    ASSUME ExecutionTypes, NEW t \in Threads, Rest(t)
    PROVE  /\ pc' \in [Threads -> PCs]
           /\ work' \in [Threads -> [attempt : Nat, fence : Nat]]
           /\ answer' \in [Threads -> Answers]
           /\ seen' \in [Threads -> Nat]
           /\ pc'[t] = "idle"
           /\ \A u \in Threads : u # t => pc'[u] = pc[u] /\ work'[u] = work[u]
<1>1. NoWork \in [attempt : Nat, fence : Nat] /\ Reply("none") \in Answers
  BY DEF NoWork, Reply, NoReceipt, Answers
<1>2. QED
  BY <1>1 DEF ExecutionTypes, ExecutionTypeOK, Rest, PCs

\* A step that leaves the rows, the provider and the wire alone.
LEMMA LocalTypes ==
    ASSUME ExecutionTypes, NEW t \in Threads, Rest(t),
           UNCHANGED <<storeVars, posts, ledger>>, failures' \in 0..MaxFailures
    PROVE  ExecutionTypes'
<1>1. ExecutionTypeOK'
  BY RestTypes DEF ExecutionTypes, ExecutionTypeOK, storeVars
<1>2. ASSUME NEW u \in Threads, Holding(u)'
      PROVE  u \in Workers /\ work'[u].attempt \in 1..Len(attempts')
  <2>1. u # t
    BY <1>2, RestTypes DEF Holding
  <2>2. QED
    BY <1>2, <2>1, RestTypes DEF Holding, ExecutionTypes, storeVars
<1>3. QED
  BY <1>1, <1>2 DEF ExecutionTypes

\* A thread that writes the workflow row, its attempts and perhaps an event, and rests.
LEMMA WriteTypes ==
    ASSUME ExecutionTypes, NEW t \in Threads, Rest(t),
           UNCHANGED <<request, tasks, published, posts, ledger, failures>>,
           state' \in States, version' \in Nat,
           attempts' \in Seq(Attempts), Len(attempts') >= Len(attempts),
           outbox' \in Seq(Events), Len(outbox') >= Len(outbox)
    PROVE  ExecutionTypes'
<1>0. Len(attempts) \in Nat /\ Len(attempts') \in Nat /\ Len(outbox) \in Nat /\ Len(outbox') \in Nat
  BY Facts, LenProperties DEF ExecutionTypes
<1>1. posts' \subseteq 1..Len(attempts') /\ published' \subseteq 1..Len(outbox')
  BY <1>0 DEF ExecutionTypes, ExecutionTypeOK
<1>2. ExecutionTypeOK'
  BY <1>1, RestTypes DEF ExecutionTypes, ExecutionTypeOK
<1>3. ASSUME NEW u \in Threads, Holding(u)'
      PROVE  u \in Workers /\ work'[u].attempt \in 1..Len(attempts')
  <2>1. u # t
    BY <1>3, RestTypes DEF Holding
  <2>2. u \in Workers /\ work[u].attempt \in 1..Len(attempts) /\ work'[u] = work[u]
    BY <1>3, <2>1, RestTypes DEF Holding, ExecutionTypes
  <2>3. QED
    BY <1>0, <2>2
<1>4. QED
  BY <1>2, <1>3 DEF ExecutionTypes

LEMMA ClaimTypes ==
    ASSUME ExecutionTypes, NEW t \in Workers, Claim(t)
    PROVE  ExecutionTypes'
<1>0. t \in Threads
  BY DEF Threads
<1>1. PICK n \in 1..Len(attempts) :
          /\ Rewritten(n)
          /\ work' = [work EXCEPT ![t] = [attempt |-> n, fence |-> attempts[n].fence + 1]]
  BY <1>0, ClaimEffect DEF ExecutionTypes
<1>2. n \in Nat /\ attempts[n].fence + 1 \in Nat
  BY Facts DEF ExecutionTypes
<1>3. [attempt |-> n, fence |-> attempts[n].fence + 1] \in [attempt : Nat, fence : Nat]
  BY <1>2
<1>4. work' \in [Threads -> [attempt : Nat, fence : Nat]]
  BY <1>1, <1>3 DEF ExecutionTypes, ExecutionTypeOK
<1>5. pc' \in [Threads -> PCs] /\ state' \in States /\ version' \in Nat
  <2>1. pc' \in [Threads -> PCs]
    BY DEF ExecutionTypes, ExecutionTypeOK, Claim, PCs
  <2>2. state' \in States /\ version' \in Nat
    BY DEF ExecutionTypes, ExecutionTypeOK, Claim, Transition, States
  <2>3. QED
    BY <2>1, <2>2
<1>6. ExecutionTypeOK'
  BY <1>1, <1>4, <1>5 DEF ExecutionTypes, ExecutionTypeOK, Claim, Rewritten
<1>7. ASSUME NEW u \in Threads, Holding(u)'
      PROVE  u \in Workers /\ work'[u].attempt \in 1..Len(attempts')
  <2>1. CASE u = t
    BY <1>0, <1>1, <2>1 DEF ExecutionTypes, ExecutionTypeOK, Rewritten
  <2>2. CASE u # t
    BY <1>1, <1>7, <2>2 DEF ExecutionTypes, ExecutionTypeOK, Rewritten, Claim, Holding
  <2>3. QED
    BY <2>1, <2>2
<1>8. QED
  BY <1>6, <1>7 DEF ExecutionTypes

\* Steps between the thread and the wire.
LEMMA CallTypes ==
    ASSUME ExecutionTypes, NEW t \in Threads,
           \/ Send(t)
           \/ Timeout(t)
           \/ SelectForReconcile(t)
           \/ BeginReconcile(t)
           \/ Lookup(t)
    PROVE  ExecutionTypes'
<1>1. UNCHANGED <<storeVars, work, ledger, failures>>
  BY DEF Send, Timeout, SelectForReconcile, BeginReconcile, Lookup, LookupAbsent, LookupFound,
         LookupUnavailable, Status
<1>2. pc' \in [Threads -> PCs] /\ \A u \in Threads : Holding(u)' => Holding(u)
  BY DEF ExecutionTypes, ExecutionTypeOK, Holding, PCs, Send, Timeout, SelectForReconcile,
         BeginReconcile, Lookup, LookupAbsent, LookupFound, LookupUnavailable, Status
<1>3. posts' \subseteq 1..Len(attempts)
  BY DEF ExecutionTypes, ExecutionTypeOK, Holding, Send, Timeout, SelectForReconcile,
         BeginReconcile, Lookup, LookupAbsent, LookupFound, LookupUnavailable, Status
<1>4. seen' \in [Threads -> Nat]
  BY DEF ExecutionTypes, ExecutionTypeOK, Send, Timeout, SelectForReconcile, BeginReconcile,
         Lookup, LookupAbsent, LookupFound, LookupUnavailable, Status
<1>5. answer' \in [Threads -> Answers]
  <2>1. Reply("lost") \in Answers /\ Reply("absent") \in Answers /\ Reply("unavailable") \in Answers
    BY DEF Reply, NoReceipt, Answers
  <2>2. \A e \in ledger : [kind |-> "found", receipt |-> e.receipt] \in Answers
    BY DEF ExecutionTypes, ExecutionTypeOK, Entries, Answers
  <2>3. answer' = answer \/ \E reply \in Answers : answer' = [answer EXCEPT ![t] = reply]
    <3>1. CASE Lookup(t)
      BY <2>1, <2>2, <3>1 DEF Lookup, LookupAbsent, LookupFound, LookupUnavailable, Status, Booked
    <3>2. CASE ~Lookup(t)
      BY <2>1, <3>2 DEF Send, Timeout, SelectForReconcile, BeginReconcile
    <3>3. QED
      BY <3>1, <3>2
  <2>4. QED
    BY <2>3 DEF ExecutionTypes, ExecutionTypeOK
<1>6. QED
  BY <1>1, <1>2, <1>3, <1>4, <1>5 DEF ExecutionTypes, ExecutionTypeOK, storeVars, Holding

\* What an answer on the wire may do to the threads: nobody begins to hold an attempt.
AnswerTypes ==
    /\ pc' \in [Threads -> PCs]
    /\ answer' \in [Threads -> Answers]
    /\ \A u \in Threads : Holding(u)' => Holding(u)

\* The provider's answer reaches at most one thread, which was waiting.
LEMMA RespondTypes ==
    ASSUME ExecutionTypes, NEW n, NEW reply \in Answers, Respond(n, reply)
    PROVE  AnswerTypes
<1>1. CASE UNCHANGED <<pc, answer>>
  BY <1>1 DEF ExecutionTypes, ExecutionTypeOK, Holding, AnswerTypes
<1>2. ASSUME NEW t \in Threads,
             pc[t] = "waiting",
             pc' = [pc EXCEPT ![t] = "answered"],
             answer' = [answer EXCEPT ![t] = reply]
      PROVE  AnswerTypes
  BY <1>2 DEF ExecutionTypes, ExecutionTypeOK, PCs, Holding, AnswerTypes
<1>3. QED
  BY <1>1, <1>2 DEF Respond, Threads

LEMMA ProviderTypes ==
    ASSUME ExecutionTypes, ProviderStep
    PROVE  ExecutionTypes'
<1>1. UNCHANGED <<storeVars, work, seen, failures>> /\ posts' \subseteq posts
  BY DEF ProviderStep, PostRejected, PostNotStarted, PostReplayed, PostRefunded, ProviderRestore
<1>2. AnswerTypes
  <2>1. /\ Reply("rejected") \in Answers
        /\ Reply("not_started") \in Answers
        /\ \A e \in ledger : [kind |-> "receipt", receipt |-> e.receipt] \in Answers
        /\ \A n \in posts : [kind |-> "receipt", receipt |-> n] \in Answers
    <3>1. /\ \A e \in ledger : e.receipt \in Nat
          /\ posts \subseteq Nat
      BY DEF ExecutionTypes, ExecutionTypeOK, Entries
    <3> QED
      BY <3>1, Facts DEF Reply, NoReceipt, Answers
  <2>2. ASSUME NEW n \in posts, PostRejected(n) \/ PostNotStarted(n) \/ PostReplayed(n) \/ PostRefunded(n)
        PROVE  \/ UNCHANGED <<pc, answer>>
               \/ \E reply \in Answers : Respond(n, reply)
    BY <2>1, <2>2 DEF PostRejected, PostNotStarted, PostReplayed, PostRefunded, Booked
  <2>3. ASSUME UNCHANGED <<pc, answer>>
        PROVE  AnswerTypes
    BY <2>3 DEF ExecutionTypes, ExecutionTypeOK, Holding, AnswerTypes
  <2>4. CASE ProviderRestore
    BY <2>3, <2>4 DEF ProviderRestore
  <2>5. CASE \E n \in posts : PostRejected(n) \/ PostNotStarted(n) \/ PostReplayed(n) \/ PostRefunded(n)
    BY <2>2, <2>3, <2>5, RespondTypes
  <2>6. QED
    BY <2>4, <2>5 DEF ProviderStep
<1>3. ledger' \subseteq Entries
  <2>1. CASE ProviderRestore
    <3>1. \A e \in ledger : [e EXCEPT !.fault = "none"] \in Entries
      BY DEF ExecutionTypes, ExecutionTypeOK, Entries, FaultKinds
    <3>2. QED
      BY <2>1, <3>1 DEF ProviderRestore
  <2>2. ASSUME NEW n \in posts, PostRejected(n) \/ PostNotStarted(n) \/ PostReplayed(n) \/ PostRefunded(n)
        PROVE  ledger' \subseteq Entries
    <3>1. [key |-> OperationKey(n), receipt |-> n, fault |-> request.fault] \in Entries
      BY Facts, RefundConstants DEF OperationKey, Entries, ExecutionTypes, ExecutionTypeOK, Requests
    <3>2. QED
      BY <2>2, <3>1 DEF PostRejected, PostNotStarted, PostReplayed, PostRefunded, ExecutionTypes,
                        ExecutionTypeOK
  <2>3. QED
    BY <2>1, <2>2 DEF ProviderStep
<1>4. ExecutionTypeOK'
  BY <1>1, <1>2, <1>3 DEF ExecutionTypes, ExecutionTypeOK, storeVars, AnswerTypes
<1>5. QED
  BY <1>1, <1>2, <1>4 DEF ExecutionTypes, storeVars, AnswerTypes

LEMMA FinishTypes ==
    ASSUME ExecutionTypes, NEW t \in Threads, Finish(t)
    PROVE  ExecutionTypes'
<1>1. CASE FinishStale(t)
  BY <1>1, LocalTypes DEF FinishStale, ExecutionTypes, ExecutionTypeOK
<1>2. CASE ~FinishStale(t)
  <2>0. ExecutionTypeOK
    BY DEF ExecutionTypes
  <2>1. /\ Rest(t)
        /\ UNCHANGED <<request, tasks, published, posts, ledger, failures>>
        /\ Holding(t)
    BY <1>2 DEF Finish, FinishSuccess, FinishRetry, FinishFailed,
                FinishUnknown, Finishes, Holding
  <2>2. work[t].attempt \in 1..Len(attempts)
    BY <2>1 DEF ExecutionTypes
  <2>3. version' \in Nat /\ state' \in States
    <3>1. version \in Nat
      BY <2>0 DEF ExecutionTypeOK
    <3>2. QED
      BY <1>2, <3>1 DEF Finish, FinishSuccess, FinishRetry, FinishFailed,
                        FinishUnknown, Transition, States
  <2>4. \E type \in EventTypes : Emit(type, 0)
    BY <1>2 DEF Finish, FinishSuccess, FinishRetry, FinishFailed,
                FinishUnknown, EventTypes
  <2>5. outbox' \in Seq(Events) /\ Len(outbox') >= Len(outbox)
    <3>1. Len(outbox) \in Nat
      BY <2>0, Facts
    <3>2. QED
      BY <2>0, <2>3, <2>4, <3>1, EmitEffect
  <2>6. attempts' \in Seq(Attempts) /\ Len(attempts') >= Len(attempts)
    <3>1. \E status \in AttemptStatuses, receipt \in Nat :
             LET q == Settle(work[t].attempt, status, receipt)
             IN  attempts' = q \/ attempts' = Append(q, NewAttempt)
      <4>1. answer[t].receipt \in Nat /\ NoReceipt \in Nat
        BY <2>0, Facts DEF NoReceipt
      <4>2. QED
        BY <1>2, <4>1 DEF Finish, FinishSuccess, FinishRetry, FinishFailed,
                          FinishUnknown, AttemptStatuses
    <3>2. PICK status \in AttemptStatuses, receipt \in Nat :
             LET q == Settle(work[t].attempt, status, receipt)
             IN  attempts' = q \/ attempts' = Append(q, NewAttempt)
      BY <3>1
    <3>3. Len(attempts) \in Nat
      BY <2>0, Facts
    <3> DEFINE q == Settle(work[t].attempt, status, receipt)
    <3>4. q \in Seq(Attempts) /\ Len(q) = Len(attempts)
      BY <2>0, <2>2, SettleEffect
    <3>5. attempts' = q \/ attempts' = Append(q, NewAttempt)
      BY <3>2
    <3> HIDE DEF q
    <3>6. QED
      BY <3>3, <3>4, <3>5, AppendEffect
  <2>7. QED
    BY <2>1, <2>3, <2>5, <2>6, WriteTypes
<1>3. QED
  BY <1>1, <1>2

LEMMA RecoverTypes ==
    ASSUME ExecutionTypes, NEW t \in Threads, NEW n \in 1..Len(attempts), RecoverExpired(t, n)
    PROVE  ExecutionTypes'
<1>1. Rewritten(n)
  BY RecoverEffect DEF ExecutionTypes
<1>2. version' \in Nat /\ state' \in States
  BY DEF ExecutionTypes, ExecutionTypeOK, RecoverExpired, Transition, States
<1>3. QED
  BY <1>1, <1>2 DEF ExecutionTypes, ExecutionTypeOK, RecoverExpired, Rewritten, executionVars,
                    Holding

LEMMA LeaseTypes ==
    ASSUME ExecutionTypes, NEW n \in 1..Len(attempts), LeaseExpires(n)
    PROVE  ExecutionTypes'
<1>1. Rewritten(n)
  BY LeaseEffect DEF ExecutionTypes
<1>2. QED
  BY <1>1 DEF ExecutionTypes, ExecutionTypeOK, LeaseExpires, Rewritten, executionVars, Holding

LEMMA CloseTypes ==
    ASSUME ExecutionTypes, OperatorClose
    PROVE  ExecutionTypes'
<1>1. version' \in Nat /\ state' \in States
  BY DEF ExecutionTypes, ExecutionTypeOK, OperatorClose, Transition, States
<1>2. QED
  BY <1>1 DEF ExecutionTypes, ExecutionTypeOK, OperatorClose, executionVars, Holding

LEMMA ApplyTypes ==
    ASSUME ExecutionTypes, NEW t \in Threads, ApplyReconcile(t)
    PROVE  ExecutionTypes'
<1>0. /\ ExecutionTypeOK
      /\ attempts \in Seq(Attempts)
      /\ outbox \in Seq(Events)
      /\ Len(attempts) \in Nat
      /\ Len(outbox) \in Nat
      /\ version \in Nat
      /\ state \in States
  BY Facts DEF ExecutionTypes, ExecutionTypeOK
<1>1. CASE ApplyStale(t)
  BY <1>1, LocalTypes DEF ApplyStale, ExecutionTypes, ExecutionTypeOK
<1>2. CASE ApplyFound(t)
  <2>0. Applies(t, "found") /\ Transition("COMPLETED")
    BY <1>2 DEF ApplyFound
  <2>1. version' \in Nat /\ state' \in States
    BY <1>0, <2>0 DEF Transition, States
  <2>2. Emit("workflow.completed", 0)
    BY <1>2 DEF ApplyFound
  <2>3. outbox' \in Seq(Events) /\ Len(outbox') >= Len(outbox)
    BY <1>0, <2>1, <2>2, EmitEffect DEF EventTypes
  <2>4. QED
    BY <1>0, <1>2, <2>0, <2>1, <2>3, ApplyFoundEffect, WriteTypes DEF Applies
<1>3. CASE ApplyAbsentRetry(t)
  <2>1. version' \in Nat /\ state' \in States
    BY <1>0, <1>3 DEF ApplyAbsentRetry, Transition, States
  <2>2. attempts' \in Seq(Attempts) /\ Len(attempts') >= Len(attempts)
    BY <1>0, <1>3, AppendEffect DEF ApplyAbsentRetry
  <2>3. QED
    BY <1>0, <1>3, <2>1, <2>2, WriteTypes DEF ApplyAbsentRetry, Applies
<1>4. CASE ApplyGiveUp(t)
  <2>1. version' \in Nat /\ state' \in States
    BY <1>0, <1>4 DEF ApplyGiveUp, Transition, States
  <2>2. QED
    BY <1>0, <1>4, <2>1, WriteTypes DEF ApplyGiveUp, Applies
<1>5. QED
  BY <1>1, <1>2, <1>3, <1>4 DEF ApplyReconcile

LEMMA ExecutionTypesStep == ExecutionTypes /\ ExecutionNext => ExecutionTypes'
<1> SUFFICES ASSUME ExecutionTypes, ExecutionNext PROVE ExecutionTypes'
  OBVIOUS
<1>1. ASSUME NEW t \in Threads, ThreadStep(t) PROVE ExecutionTypes'
  <2>1. CASE InjectedCrash(t) \/ SkipReconcile(t)
    BY <2>1, LocalTypes DEF InjectedCrash, SkipReconcile, ExecutionTypes, ExecutionTypeOK
  <2>2. QED
    BY <1>1, <2>1, ClaimTypes, CallTypes, FinishTypes, RecoverTypes, ApplyTypes
       DEF ThreadStep, Latest
<1>2. ASSUME NEW t \in Threads, LookupFails(t) \/ Crash(t) PROVE ExecutionTypes'
  <2>1. failures' \in 0..MaxFailures
    BY <1>2, ExecutionConstants DEF LookupFails, Crash, ExecutionTypes, ExecutionTypeOK
  <2>2. QED
    BY <1>2, <2>1, LocalTypes DEF LookupFails, Crash
<1>3. QED
  BY <1>1, <1>2, ProviderTypes, LeaseTypes, CloseTypes DEF ExecutionNext, EnvironmentStep, Latest

----------------------------------------------------------------------------
(***************************************************************************)
(* The inductive invariant.                                                *)
(***************************************************************************)

\* An attempt that the provider may hear of or has heard of.
Tried == {"RUNNING", "UNKNOWN", "SUCCEEDED"}

\* Attempt n never reached the ledger and is not on its way there.
Untouched(n) == n \notin posts /\ \A e \in ledger : e.receipt # n

\* Every attempt has one holder at most, and the holder knows where the POST is.
HeldAttempts ==
    /\ \A t \in Threads : Holding(t) => attempts[work[t].attempt].status \in Tried
    /\ \A t, u \in Threads :
          Holding(t) /\ Holding(u) /\ work[t].attempt = work[u].attempt => t = u
    /\ \A t \in Threads :
          \/ pc[t] = "claimed"
          \/ pc[t] = "answered" /\ answer[t].kind \in {"not_started", "rejected"}
          => Untouched(work[t].attempt)

\* Only tried attempts are on the wire or in the ledger, and none is in both.
WireAndLedger ==
    /\ \A n \in posts : attempts[n].status \in Tried
    /\ \A e \in ledger :
          /\ e.key = "v1"
          /\ e.receipt \in 1..Len(attempts)
          /\ e.receipt \notin posts
          /\ attempts[e.receipt].status \in Tried
    /\ OneRefund

HasReceipt(r) == \E e \in ledger : e.receipt = r

\* A receipt that a thread or a row shows is one of the ledger.
TrueReceipts ==
    /\ \A t \in Threads : answer[t].kind \in {"receipt", "found"} => HasReceipt(answer[t].receipt)
    /\ \A n \in 1..Len(attempts) :
          attempts[n].status = "SUCCEEDED" => HasReceipt(attempts[n].receipt)

\* Only the latest attempt can be active, and the state of the workflow follows it.
RowsAgree ==
    /\ \A n \in 1..Len(attempts) : Active(n) => n = Len(attempts)
    /\ ActiveExecution
    /\ state = "COMPLETED" => \E n \in 1..Len(attempts) : attempts[n].status = "SUCCEEDED"
    /\ state = "CLOSED" => \A n \in 1..Len(attempts) : attempts[n].status = "FAILED"
    /\ state \in {"RECEIVED", "WAITING_APPROVAL", "REJECTED"} => attempts = <<>>
    /\ BoundedAttempts

\* A version that is still current shows what the reconciling thread saw.
FreshReads ==
    \A t \in Threads :
        /\ seen[t] <= version
        /\ pc[t] \in {"looking", "looked"} /\ seen[t] = version =>
              state \in {"RECONCILING", "MANUAL_REVIEW"} /\ attempts # <<>>

ExecutionInv ==
    /\ ExecutionTypes
    /\ HeldAttempts
    /\ WireAndLedger
    /\ TrueReceipts
    /\ RowsAgree
    /\ FreshReads

----------------------------------------------------------------------------
(***************************************************************************)
(* Steps in which no thread starts anything: each keeps what it has or     *)
(* rests.                                                                  *)
(***************************************************************************)
Faded ==
    \A u \in Threads :
        \/ /\ pc'[u] = pc[u]
           /\ work'[u] = work[u]
           /\ answer'[u] = answer[u]
           /\ seen'[u] = seen[u]
        \/ /\ pc'[u] = "idle"
           /\ answer'[u].kind = "none"
           /\ seen'[u] = 0

LEMMA RestFades ==
    ASSUME ExecutionTypes, NEW t \in Threads, Rest(t)
    PROVE  Faded /\ pc'[t] = "idle"
<1>1. pc'[t] = "idle" /\ answer'[t].kind = "none" /\ seen'[t] = 0
  BY DEF Rest, ExecutionTypes, ExecutionTypeOK, Reply
<1>2. ASSUME NEW u \in Threads, u # t
      PROVE  pc'[u] = pc[u] /\ work'[u] = work[u] /\ answer'[u] = answer[u] /\ seen'[u] = seen[u]
  BY <1>2 DEF Rest, ExecutionTypes, ExecutionTypeOK
<1>3. QED
  BY <1>1, <1>2 DEF Faded

\* An attempt stops being tried only if it was never sent and its holder rests.
LEMMA KeepsMoney ==
    ASSUME ExecutionInv, Faded, UNCHANGED <<posts, ledger>>,
           Len(attempts') \in Nat, Len(attempts') >= Len(attempts),
           \A n \in 1..Len(attempts) : attempts[n].status \in Tried =>
              \/ attempts'[n].status \in Tried
              \/ /\ Untouched(n)
                 /\ \A u \in Threads : Holding(u) /\ work[u].attempt = n => pc'[u] = "idle"
    PROVE  HeldAttempts' /\ WireAndLedger'
<1>0. ExecutionTypeOK /\ Len(attempts) \in Nat
  BY Facts DEF ExecutionInv, ExecutionTypes
<1>1. ASSUME NEW u \in Threads, Holding(u)'
      PROVE  /\ Holding(u)
             /\ pc'[u] = pc[u]
             /\ work'[u] = work[u]
             /\ answer'[u] = answer[u]
             /\ work[u].attempt \in 1..Len(attempts)
             /\ attempts'[work[u].attempt].status \in Tried
  <2>1. /\ pc'[u] = pc[u]
        /\ work'[u] = work[u]
        /\ answer'[u] = answer[u]
        /\ Holding(u)
        /\ pc'[u] # "idle"
    BY <1>1 DEF Faded, Holding
  <2>2. work[u].attempt \in 1..Len(attempts) /\ attempts[work[u].attempt].status \in Tried
    BY <2>1 DEF ExecutionInv, ExecutionTypes, HeldAttempts
  <2>3. QED
    BY <2>1, <2>2
<1>2. HeldAttempts'
  <2>1. \A u \in Threads : Holding(u)' => attempts'[work'[u].attempt].status \in Tried
    BY <1>1
  <2>2. \A t, u \in Threads :
          Holding(t)' /\ Holding(u)' /\ work'[t].attempt = work'[u].attempt => t = u
    BY <1>1 DEF ExecutionInv, HeldAttempts
  <2>3. ASSUME NEW u \in Threads,
               \/ pc'[u] = "claimed"
               \/ pc'[u] = "answered" /\ answer'[u].kind \in {"not_started", "rejected"}
        PROVE  Untouched(work[u].attempt)' /\ work'[u] = work[u]
    <3>1. Holding(u)'
      BY <2>3 DEF Holding
    <3>2. Untouched(work[u].attempt) /\ work'[u] = work[u]
      BY <1>1, <2>3, <3>1 DEF ExecutionInv, HeldAttempts
    <3>3. QED
      BY <1>1, <3>1, <3>2 DEF Untouched
  <2>4. QED
    BY <2>1, <2>2, <2>3 DEF HeldAttempts, Untouched
<1>3. WireAndLedger'
  <2>1. \A n \in posts : n \in 1..Len(attempts) /\ attempts'[n].status \in Tried
    BY DEF ExecutionInv, ExecutionTypes, ExecutionTypeOK, WireAndLedger, Untouched
  <2>2. ASSUME NEW e \in ledger
        PROVE  /\ e.key = "v1"
               /\ e.receipt \in 1..Len(attempts')
               /\ e.receipt \notin posts
               /\ attempts'[e.receipt].status \in Tried
    <3>1. /\ e.key = "v1"
          /\ e.receipt \in 1..Len(attempts)
          /\ e.receipt \notin posts
          /\ attempts[e.receipt].status \in Tried
      BY DEF ExecutionInv, WireAndLedger
    <3>2. ~Untouched(e.receipt)
      BY DEF Untouched
    <3>3. QED
      BY <1>0, <3>1, <3>2
  <2>3. OneRefund'
    BY DEF ExecutionInv, WireAndLedger, OneRefund
  <2>4. QED
    BY <2>1, <2>2, <2>3 DEF WireAndLedger
<1>4. QED
  BY <1>2, <1>3

\* A row turns SUCCEEDED only with a receipt of the ledger.
LEMMA KeepsReceipts ==
    ASSUME ExecutionInv, Faded, UNCHANGED ledger,
           \A n \in 1..Len(attempts') : attempts'[n].status = "SUCCEEDED" =>
              \/ /\ n \in 1..Len(attempts)
                 /\ attempts[n].status = "SUCCEEDED"
                 /\ attempts'[n].receipt = attempts[n].receipt
              \/ HasReceipt(attempts'[n].receipt)
    PROVE  TrueReceipts'
<1>1. ASSUME NEW u \in Threads, answer'[u].kind \in {"receipt", "found"}
      PROVE  HasReceipt(answer'[u].receipt)
  BY <1>1 DEF Faded, ExecutionInv, TrueReceipts
<1>2. ASSUME NEW n \in 1..Len(attempts'), attempts'[n].status = "SUCCEEDED"
      PROVE  HasReceipt(attempts'[n].receipt)
  BY <1>2 DEF ExecutionInv, TrueReceipts
<1>3. QED
  BY <1>1, <1>2 DEF TrueReceipts, HasReceipt

\* Every change of the state comes with a new version.
LEMMA KeepsReads ==
    ASSUME ExecutionInv, Faded,
           \/ version' = version + 1
           \/ UNCHANGED <<state, version>> /\ (attempts # <<>> => attempts' # <<>>)
    PROVE  FreshReads'
<1>1. version \in Nat /\ \A u \in Threads : seen[u] \in Nat /\ seen[u] <= version
  BY DEF ExecutionInv, ExecutionTypes, ExecutionTypeOK, FreshReads
<1>2. ASSUME NEW u \in Threads
      PROVE  /\ seen'[u] <= version'
             /\ pc'[u] \in {"looking", "looked"} /\ seen'[u] = version' =>
                   state' \in {"RECONCILING", "MANUAL_REVIEW"} /\ attempts' # <<>>
  <2>1. CASE pc'[u] = "idle" /\ seen'[u] = 0
    BY <1>1, <2>1
  <2>2. CASE pc'[u] = pc[u] /\ seen'[u] = seen[u]
    <3>1. CASE version' = version + 1
      BY <1>1, <2>2, <3>1
    <3>2. CASE UNCHANGED <<state, version>> /\ (attempts # <<>> => attempts' # <<>>)
      BY <1>1, <2>2, <3>2 DEF ExecutionInv, FreshReads
    <3>3. QED
      BY <3>1, <3>2
  <2>3. QED
    BY <2>1, <2>2 DEF Faded
<1>3. QED
  BY <1>2 DEF FreshReads

\* The invariant is about the rows only through these.
LEMMA RowsSame ==
    ASSUME ExecutionInv, UNCHANGED <<state, attempts>>
    PROVE  RowsAgree'
BY DEF ExecutionInv, RowsAgree, ActiveExecution, Active, BoundedAttempts

LEMMA IdleInv ==
    ASSUME ExecutionInv, ExecutionTypes', Faded, UNCHANGED <<storeVars, posts, ledger>>
    PROVE  ExecutionInv'
<1>1. Len(attempts') \in Nat
  BY Facts DEF ExecutionInv, ExecutionTypes, storeVars
<1>2. HeldAttempts' /\ WireAndLedger'
  BY <1>1, KeepsMoney DEF storeVars
<1>3. TrueReceipts'
  BY KeepsReceipts DEF storeVars
<1>4. QED
  BY <1>2, <1>3, KeepsReads, RowsSame DEF ExecutionInv, storeVars

LEMMA ClaimInv ==
    ASSUME ExecutionInv, NEW t \in Workers, Claim(t)
    PROVE  ExecutionInv'
<1>0. /\ ExecutionTypes
      /\ ExecutionTypeOK
      /\ t \in Threads
      /\ Len(attempts) \in Nat
      /\ version \in Nat
      /\ pc[t] = "idle"
      /\ UNCHANGED <<answer, seen, posts, ledger>>
      /\ state \in {"READY_TO_EXECUTE", "RETRY_WAIT"}
      /\ state' = "EXECUTING"
      /\ version' = version + 1
  BY Facts DEF ExecutionInv, ExecutionTypes, ExecutionTypeOK, Threads, Claim, Transition
<1>1. PICK n \in 1..Len(attempts) :
          /\ attempts[n].status = "PENDING"
          /\ Rewritten(n)
          /\ attempts'[n].status = "RUNNING"
          /\ work' = [work EXCEPT ![t] = [attempt |-> n, fence |-> attempts[n].fence + 1]]
  BY <1>0, ClaimEffect
<1>2. /\ Len(attempts') = Len(attempts)
      /\ \A m \in 1..Len(attempts) : m # n => attempts'[m] = attempts[m]
  BY <1>1 DEF Rewritten
<1>3. /\ work'[t].attempt = n
      /\ pc'[t] = "claimed"
      /\ \A u \in Threads : u # t => pc'[u] = pc[u] /\ work'[u] = work[u]
  BY <1>0, <1>1 DEF ExecutionTypeOK, Claim
<1>4. Untouched(n)
  BY <1>1 DEF ExecutionInv, WireAndLedger, Untouched, Tried
<1>5. ASSUME NEW u \in Threads, u # t, Holding(u)'
      PROVE  /\ Holding(u)
             /\ work'[u].attempt = work[u].attempt
             /\ work[u].attempt \in 1..Len(attempts)
             /\ work[u].attempt # n
             /\ attempts'[work[u].attempt].status \in Tried
  <2>1. Holding(u) /\ work'[u] = work[u]
    BY <1>3, <1>5 DEF Holding
  <2>2. work[u].attempt \in 1..Len(attempts) /\ attempts[work[u].attempt].status \in Tried
    BY <2>1 DEF ExecutionInv, ExecutionTypes, HeldAttempts
  <2>3. QED
    BY <1>1, <1>2, <2>1, <2>2 DEF Tried
<1>6. HeldAttempts'
  <2>1. \A u \in Threads : Holding(u)' => attempts'[work'[u].attempt].status \in Tried
    BY <1>1, <1>3, <1>5 DEF Tried
  <2>2. ASSUME NEW u \in Threads, NEW v \in Threads, Holding(u)', Holding(v)',
               work'[u].attempt = work'[v].attempt
        PROVE  u = v
    BY <1>3, <1>5, <2>2 DEF ExecutionInv, HeldAttempts
  <2>3. ASSUME NEW u \in Threads,
               \/ pc'[u] = "claimed"
               \/ pc'[u] = "answered" /\ answer'[u].kind \in {"not_started", "rejected"}
        PROVE  Untouched(work'[u].attempt)
    <3>1. CASE u = t
      BY <1>3, <1>4, <3>1
    <3>2. CASE u # t
      BY <1>0, <1>3, <2>3, <3>2 DEF ExecutionInv, HeldAttempts
    <3>3. QED
      BY <3>1, <3>2
  <2>4. QED
    BY <1>0, <2>1, <2>2, <2>3 DEF HeldAttempts, Untouched
<1>7. WireAndLedger'
  <2>1. \A m \in 1..Len(attempts) : attempts[m].status \in Tried => attempts'[m].status \in Tried
    BY <1>1, <1>2 DEF Tried
  <2>2. posts \subseteq 1..Len(attempts)
    BY <1>0 DEF ExecutionTypeOK
  <2>3. QED
    BY <1>0, <1>2, <2>1, <2>2 DEF ExecutionInv, WireAndLedger, OneRefund
<1>8. TrueReceipts'
  BY <1>0, <1>1, <1>2 DEF ExecutionInv, TrueReceipts, HasReceipt
<1>9. RowsAgree'
  <2>1. n = Len(attempts) /\ \A m \in 1..Len(attempts) : m # n => ~Active(m)
    BY <1>1 DEF ExecutionInv, RowsAgree, Active
  <2>2. \A m \in 1..Len(attempts) : m # n => attempts'[m].status \notin {"PENDING", "RUNNING"}
    BY <1>2, <2>1 DEF Active
  <2>3. Len(attempts') <= MaxAttempts
    BY <1>2 DEF ExecutionInv, RowsAgree, BoundedAttempts
  <2>4. QED
    BY <1>0, <1>1, <1>2, <2>1, <2>2, <2>3 DEF RowsAgree, ActiveExecution, Active, BoundedAttempts
<1>10. FreshReads'
  <2>1. \A u \in Threads : seen'[u] = seen[u] /\ seen[u] \in Nat /\ seen[u] <= version
    BY <1>0 DEF ExecutionInv, ExecutionTypeOK, FreshReads
  <2>2. QED
    BY <1>0, <2>1 DEF FreshReads
<1>11. QED
  BY <1>0, <1>6, <1>7, <1>8, <1>9, <1>10, ClaimTypes DEF ExecutionInv

\* Timeouts, selections and lookups: a step of one thread over unchanged rows and wire.
LEMMA CallInv ==
    ASSUME ExecutionInv, NEW t \in Threads,
           \/ Timeout(t)
           \/ SelectForReconcile(t)
           \/ BeginReconcile(t)
           \/ Lookup(t)
    PROVE  ExecutionInv'
<1>0. /\ ExecutionTypes
      /\ ExecutionTypeOK
      /\ ExecutionTypes'
      /\ version \in Nat
      /\ UNCHANGED <<storeVars, work, posts, ledger>>
  BY CallTypes DEF ExecutionInv, ExecutionTypes, ExecutionTypeOK, Timeout, SelectForReconcile,
                   BeginReconcile, Lookup, LookupAbsent, LookupFound, LookupUnavailable, Status
<1>1. \A u \in Threads : u # t => pc'[u] = pc[u] /\ answer'[u] = answer[u] /\ seen'[u] = seen[u]
  BY <1>0 DEF ExecutionTypeOK, Timeout, SelectForReconcile, BeginReconcile, Lookup, LookupAbsent,
              LookupFound, LookupUnavailable, Status
<1>2. /\ pc'[t] # "claimed"
      /\ pc'[t] = "answered" => answer'[t].kind \notin {"not_started", "rejected"}
      /\ Holding(t)' => Holding(t)
  BY <1>0 DEF ExecutionTypeOK, Timeout, SelectForReconcile, BeginReconcile, Lookup, LookupAbsent,
              LookupFound, LookupUnavailable, Status, Holding, Reply
<1>3. HeldAttempts'
  <2>1. \A u \in Threads : Holding(u)' => Holding(u)
    BY <1>1, <1>2 DEF Holding
  <2>2. ASSUME NEW u \in Threads,
               \/ pc'[u] = "claimed"
               \/ pc'[u] = "answered" /\ answer'[u].kind \in {"not_started", "rejected"}
        PROVE  Untouched(work[u].attempt)
    BY <1>1, <1>2, <2>2 DEF ExecutionInv, HeldAttempts
  <2>3. QED
    BY <1>0, <2>1, <2>2 DEF ExecutionInv, HeldAttempts, Untouched, storeVars
<1>4. WireAndLedger'
  BY <1>0 DEF ExecutionInv, WireAndLedger, OneRefund, storeVars
<1>5. TrueReceipts'
  <2>1. answer'[t].kind \in {"receipt", "found"} => HasReceipt(answer'[t].receipt)
    <3>1. CASE Lookup(t)
      BY <1>0, <3>1 DEF ExecutionTypeOK, Lookup, LookupAbsent, LookupFound, LookupUnavailable,
                        Status, Reply, Booked, HasReceipt
    <3>2. CASE Timeout(t)
      BY <1>0, <3>2 DEF ExecutionTypeOK, Timeout, Reply
    <3>3. CASE SelectForReconcile(t) \/ BeginReconcile(t)
      BY <1>0, <3>3 DEF SelectForReconcile, BeginReconcile, ExecutionInv, TrueReceipts
    <3>4. QED
      BY <3>1, <3>2, <3>3
  <2>2. \A u \in Threads : answer'[u].kind \in {"receipt", "found"} => HasReceipt(answer'[u].receipt)
    BY <1>1, <2>1 DEF ExecutionInv, TrueReceipts
  <2>3. QED
    BY <1>0, <2>2 DEF ExecutionInv, TrueReceipts, HasReceipt, storeVars
<1>6. FreshReads'
  <2>1. \A u \in Threads : seen[u] \in Nat /\ seen[u] <= version
    BY <1>0 DEF ExecutionInv, ExecutionTypeOK, FreshReads
  <2>2. CASE BeginReconcile(t)
    <3>1. /\ seen'[t] = version
          /\ state \in {"RECONCILING", "MANUAL_REVIEW"}
          /\ attempts # <<>>
      BY <1>0, <2>2 DEF BeginReconcile, ExecutionTypeOK
    <3>2. QED
      BY <1>0, <1>1, <2>1, <3>1 DEF ExecutionInv, FreshReads, storeVars
  <2>3. CASE ~BeginReconcile(t)
    <3>1. seen' = seen /\ (pc'[t] \in {"looking", "looked"} => pc[t] \in {"looking", "looked"})
      BY <1>0, <2>3 DEF ExecutionTypeOK, Timeout, SelectForReconcile, Lookup, LookupAbsent,
                        LookupFound, LookupUnavailable, Status
    <3>2. QED
      BY <1>0, <1>1, <2>1, <3>1 DEF ExecutionInv, FreshReads, storeVars
  <2>4. QED
    BY <2>2, <2>3
<1>7. QED
  BY <1>0, <1>3, <1>4, <1>5, <1>6, RowsSame DEF ExecutionInv, storeVars

LEMMA SendInv ==
    ASSUME ExecutionInv, NEW t \in Threads, Send(t)
    PROVE  ExecutionInv'
<1> DEFINE n == work[t].attempt
<1>0. /\ ExecutionTypes
      /\ ExecutionTypeOK
      /\ ExecutionTypes'
      /\ UNCHANGED <<storeVars, work, answer, seen, ledger>>
      /\ posts' = posts \cup {n}
      /\ Holding(t)
      /\ pc[t] = "claimed"
      /\ pc'[t] = "waiting"
      /\ \A u \in Threads : u # t => pc'[u] = pc[u]
  BY CallTypes DEF ExecutionInv, ExecutionTypes, ExecutionTypeOK, Send, Holding
<1>1. Untouched(n) /\ attempts[n].status \in Tried
  BY <1>0 DEF ExecutionInv, HeldAttempts
<1>2. HeldAttempts'
  <2>1. \A u \in Threads : Holding(u)' => Holding(u)
    BY <1>0 DEF Holding
  <2>2. ASSUME NEW u \in Threads,
               \/ pc'[u] = "claimed"
               \/ pc'[u] = "answered" /\ answer[u].kind \in {"not_started", "rejected"}
        PROVE  Untouched(work[u].attempt)'
    <3>1. u # t /\ pc'[u] = pc[u] /\ Holding(u)
      BY <1>0, <2>2 DEF Holding
    <3>2. Untouched(work[u].attempt) /\ work[u].attempt # n
      BY <1>0, <2>2, <3>1 DEF ExecutionInv, HeldAttempts
    <3>3. QED
      BY <1>0, <3>2 DEF Untouched
  <2>3. QED
    BY <1>0, <2>1, <2>2 DEF ExecutionInv, HeldAttempts, Untouched, storeVars
<1>3. WireAndLedger'
  BY <1>0, <1>1 DEF ExecutionInv, WireAndLedger, OneRefund, Untouched, storeVars
<1>4. TrueReceipts'
  BY <1>0 DEF ExecutionInv, TrueReceipts, HasReceipt, storeVars
<1>5. FreshReads'
  BY <1>0 DEF ExecutionInv, FreshReads, storeVars
<1>6. QED
  BY <1>0, <1>2, <1>3, <1>4, <1>5, RowsSame DEF ExecutionInv, storeVars

LEMMA ProviderInv ==
    ASSUME ExecutionInv, ProviderStep
    PROVE  ExecutionInv'
<1>0. /\ ExecutionTypes
      /\ ExecutionTypeOK
      /\ ExecutionTypes'
      /\ UNCHANGED <<storeVars, work, seen>>
  BY ProviderTypes DEF ExecutionInv, ExecutionTypes, ProviderStep, PostRejected, PostNotStarted,
                       PostReplayed, PostRefunded, ProviderRestore
<1>1. CASE ProviderRestore
  <2>1. UNCHANGED <<pc, answer, posts>>
    BY <1>1 DEF ProviderRestore
  <2>2. \A f \in ledger' : \E e \in ledger : f.key = e.key /\ f.receipt = e.receipt
    <3>1. \A e \in ledger : e \in Entries
      BY <1>0 DEF ExecutionTypeOK
    <3>2. QED
      BY <1>1, <3>1 DEF ProviderRestore, Entries
  <2>3. ASSUME NEW e \in ledger
        PROVE  \E f \in ledger' : f.receipt = e.receipt
    <3> DEFINE f == [e EXCEPT !.fault = "none"]
    <3>1. f \in ledger'
      BY <1>1 DEF ProviderRestore
    <3>2. f.receipt = e.receipt
      BY <1>0 DEF ExecutionTypeOK, Entries
    <3> HIDE DEF f
    <3>3. QED
      BY <3>1, <3>2
  <2>4. HeldAttempts'
    BY <1>0, <2>1, <2>2 DEF ExecutionInv, HeldAttempts, Holding, Untouched, storeVars
  <2>5. WireAndLedger'
    BY <1>0, <2>1, <2>2 DEF ExecutionInv, WireAndLedger, OneRefund, storeVars
  <2>6. TrueReceipts'
    BY <1>0, <2>1, <2>3 DEF ExecutionInv, TrueReceipts, HasReceipt, storeVars
  <2>7. FreshReads'
    BY <1>0, <2>1 DEF ExecutionInv, FreshReads, storeVars
  <2>8. QED
    BY <1>0, <2>4, <2>5, <2>6, <2>7, RowsSame DEF ExecutionInv, storeVars
<1>2. ASSUME NEW n \in posts,
             PostRejected(n) \/ PostNotStarted(n) \/ PostReplayed(n) \/ PostRefunded(n)
      PROVE  ExecutionInv'
  <2>1. /\ posts' = posts \ {n}
        /\ \/ ledger' = ledger
           \/ /\ Booked("v1") = {}
              /\ ledger' = ledger \cup {[key |-> "v1", receipt |-> n, fault |-> request.fault]}
    BY <1>2 DEF PostRejected, PostNotStarted, PostReplayed, PostRefunded, OperationKey
  <2>2. n \in 1..Len(attempts) /\ attempts[n].status \in Tried
    BY <1>0 DEF ExecutionInv, ExecutionTypeOK, WireAndLedger
  <2>3. \A e \in ledger' \ ledger : e.key = "v1" /\ e.receipt = n
    BY <2>1
  <2>4. ledger \subseteq ledger' /\ (ledger' # ledger => ledger = {})
    BY <2>1 DEF ExecutionInv, WireAndLedger, Booked
  <2>5. \E reply \in Answers :
          /\ reply.kind \in {"receipt", "found"} => \E e \in ledger' : e.receipt = reply.receipt
          /\ Respond(n, reply)
    <3>1. CASE PostRejected(n)
      <4>1. Reply("rejected") \in Answers /\ Reply("rejected").kind = "rejected"
        BY DEF Reply, NoReceipt, Answers
      <4>2. QED
        BY <3>1, <4>1 DEF PostRejected
    <3>2. CASE PostNotStarted(n)
      <4>1. Reply("not_started") \in Answers /\ Reply("not_started").kind = "not_started"
        BY DEF Reply, NoReceipt, Answers
      <4>2. QED
        BY <3>2, <4>1 DEF PostNotStarted
    <3>3. CASE PostReplayed(n)
      <4>1. PICK e \in Booked(OperationKey(n)) :
                Respond(n, [kind |-> "receipt", receipt |-> e.receipt])
        BY <3>3 DEF PostReplayed
      <4>2. e \in ledger /\ e.receipt \in Nat
        BY <1>0, <4>1 DEF Booked, ExecutionTypeOK, Entries
      <4>3. [kind |-> "receipt", receipt |-> e.receipt] \in Answers
        BY <4>2 DEF Answers
      <4>4. QED
        BY <2>4, <4>1, <4>2, <4>3
    <3>4. CASE PostRefunded(n)
      <4>1. [kind |-> "receipt", receipt |-> n] \in Answers
        BY <2>2 DEF Answers
      <4>2. \E e \in ledger' : e.receipt = n
        <5> DEFINE f == [key |-> OperationKey(n), receipt |-> n, fault |-> request.fault]
        <5>1. f \in ledger'
          BY <3>4 DEF PostRefunded
        <5>2. f.receipt = n
          OBVIOUS
        <5> HIDE DEF f
        <5>3. QED
          BY <5>1, <5>2
      <4>3. Respond(n, [kind |-> "receipt", receipt |-> n])
        BY <3>4 DEF PostRefunded, Respond
      <4>4. QED
        BY <4>1, <4>2, <4>3
    <3>5. QED
      BY <1>2, <3>1, <3>2, <3>3, <3>4
  <2>6. PICK reply \in Answers :
          /\ reply.kind \in {"receipt", "found"} => \E e \in ledger' : e.receipt = reply.receipt
          /\ Respond(n, reply)
    BY <2>5
  <2>7. \A u \in Threads :
          \/ pc'[u] = pc[u] /\ answer'[u] = answer[u]
          \/ /\ pc[u] = "waiting"
             /\ work[u].attempt = n
             /\ pc'[u] = "answered"
             /\ answer'[u] = reply
    BY <1>0, <2>6 DEF Respond, ExecutionTypeOK
  <2>8. HeldAttempts'
    <3>1. \A u \in Threads : Holding(u)' => Holding(u)
      BY <2>7 DEF Holding
    <3>2. ASSUME NEW u \in Threads,
                 \/ pc'[u] = "claimed"
                 \/ pc'[u] = "answered" /\ answer'[u].kind \in {"not_started", "rejected"}
          PROVE  Untouched(work[u].attempt)'
      <4>1. CASE pc'[u] = pc[u] /\ answer'[u] = answer[u]
        <5>1. Untouched(work[u].attempt)
          BY <3>2, <4>1 DEF ExecutionInv, HeldAttempts
        <5>2. work[u].attempt # n
          BY <5>1, <1>2 DEF Untouched
        <5>3. QED
          BY <1>0, <2>1, <2>3, <5>1, <5>2 DEF Untouched
      <4>2. CASE pc[u] = "waiting" /\ work[u].attempt = n /\ pc'[u] = "answered" /\ answer'[u] = reply
        <5>1. PostRejected(n) \/ PostNotStarted(n)
          <6>1. CASE PostReplayed(n)
            BY <1>0, <3>2, <4>2, <6>1 DEF PostReplayed, Respond, ExecutionTypeOK
          <6>2. CASE PostRefunded(n)
            BY <1>0, <3>2, <4>2, <6>2 DEF PostRefunded, Respond, ExecutionTypeOK
          <6>3. QED
            BY <1>2, <6>1, <6>2
        <5>2. ledger' = ledger
          BY <5>1 DEF PostRejected, PostNotStarted
        <5>3. \A e \in ledger : e.receipt # n
          BY <1>2 DEF ExecutionInv, WireAndLedger
        <5>4. QED
          BY <1>0, <2>1, <4>2, <5>2, <5>3 DEF Untouched
      <4>3. QED
        BY <2>7, <4>1, <4>2
    <3>3. QED
      BY <1>0, <3>1, <3>2 DEF ExecutionInv, HeldAttempts, Untouched, storeVars
  <2>9. WireAndLedger'
    <3>1. \A e \in ledger' :
            /\ e.key = "v1"
            /\ e.receipt \in 1..Len(attempts)
            /\ e.receipt \notin posts'
            /\ attempts[e.receipt].status \in Tried
      BY <2>1, <2>2, <2>3 DEF ExecutionInv, WireAndLedger
    <3>2. OneRefund'
      BY <2>3, <2>4 DEF ExecutionInv, WireAndLedger, OneRefund
    <3>3. QED
      BY <1>0, <2>1, <3>1, <3>2 DEF ExecutionInv, WireAndLedger, storeVars
  <2>10. TrueReceipts'
    BY <1>0, <2>4, <2>6, <2>7 DEF ExecutionInv, TrueReceipts, HasReceipt, storeVars
  <2>11. FreshReads'
    BY <1>0, <2>7 DEF ExecutionInv, FreshReads, storeVars
  <2>12. QED
    BY <1>0, <2>8, <2>9, <2>10, <2>11, RowsSame DEF ExecutionInv, storeVars
<1>3. QED
  BY <1>1, <1>2 DEF ProviderStep

\* What core.finish does to the rows when the worker still owns its attempt.
FinishesWith(t, status, receipt, next) ==
    /\ Holding(t)
    /\ Rest(t)
    /\ UNCHANGED <<posts, ledger>>
    /\ version' = version + 1
    /\ state' = next
    /\ attempts' = Settle(work[t].attempt, status, receipt)

LEMMA OwnedIsLast ==
    ASSUME ExecutionInv, NEW t \in Threads, Holding(t), Owns(t)
    PROVE  /\ work[t].attempt \in 1..Len(attempts)
           /\ work[t].attempt = Len(attempts)
           /\ attempts[work[t].attempt].status = "RUNNING"
           /\ \A n \in 1..Len(attempts) : n # work[t].attempt => ~Active(n)
BY DEF ExecutionInv, ExecutionTypes, RowsAgree, Owns, Active

\* The four endings of core.finish that leave the number of attempts as it is.
LEMMA FinishOneInv ==
    ASSUME ExecutionInv, ExecutionTypes', NEW t \in Threads, Owns(t),
           NEW status \in {"SUCCEEDED", "RETRY", "FAILED", "UNKNOWN"},
           NEW receipt \in Nat, NEW next \in {"COMPLETED", "MANUAL_REVIEW", "RECONCILING"},
           FinishesWith(t, status, receipt, next),
           status = "SUCCEEDED" <=> next = "COMPLETED",
           status = "SUCCEEDED" => HasReceipt(receipt),
           status \in {"RETRY", "FAILED"} => Untouched(work[t].attempt)
    PROVE  ExecutionInv'
<1> DEFINE n == work[t].attempt
<1>0. /\ ExecutionTypes
      /\ ExecutionTypeOK
      /\ Len(attempts) \in Nat
      /\ state' = next
      /\ version' = version + 1
      /\ UNCHANGED <<posts, ledger>>
      /\ Rest(t)
      /\ Holding(t)
  BY Facts DEF ExecutionInv, ExecutionTypes, FinishesWith
<1>1. /\ n \in 1..Len(attempts)
      /\ n = Len(attempts)
      /\ \A m \in 1..Len(attempts) : m # n => ~Active(m)
      /\ attempts[n].status = "RUNNING"
  BY <1>0, OwnedIsLast
<1>2. /\ Len(attempts') = Len(attempts)
      /\ attempts'[n].status = status
      /\ attempts'[n].receipt = receipt
      /\ \A m \in 1..Len(attempts) : m # n => attempts'[m] = attempts[m]
  <2>1. status \in AttemptStatuses
    BY DEF AttemptStatuses
  <2>2. ExecutionTypeOK /\ n \in 1..Len(attempts) /\ receipt \in Nat
    BY <1>0, <1>1
  <2> DEFINE q == Settle(n, status, receipt)
  <2> HIDE DEF n
  <2>3. /\ Len(q) = Len(attempts)
        /\ q[n].status = status
        /\ q[n].receipt = receipt
        /\ \A m \in 1..Len(attempts) : m # n => q[m] = attempts[m]
    BY <2>1, <2>2, SettleEffect
  <2>4. attempts' = q
    BY DEF FinishesWith, n
  <2> HIDE DEF q
  <2>5. QED
    BY <2>3, <2>4
<1>3. Faded /\ pc'[t] = "idle"
  BY <1>0, RestFades
<1>4. HeldAttempts' /\ WireAndLedger'
  <2>1. \A u \in Threads : Holding(u) /\ work[u].attempt = n => pc'[u] = "idle"
    BY <1>0, <1>3 DEF ExecutionInv, HeldAttempts
  <2>2. status \in Tried \/ Untouched(n)
    BY DEF Tried
  <2>3. QED
    BY <1>0, <1>2, <1>3, <2>1, <2>2, KeepsMoney
<1>5. TrueReceipts'
  BY <1>0, <1>2, <1>3, KeepsReceipts
<1>6. FreshReads'
  BY <1>0, <1>3, KeepsReads
<1>7. RowsAgree'
  <2>1. \A m \in 1..Len(attempts) : attempts'[m].status \notin {"PENDING", "RUNNING"}
    BY <1>1, <1>2 DEF Active
  <2>2. Len(attempts') <= MaxAttempts
    BY <1>2 DEF ExecutionInv, RowsAgree, BoundedAttempts
  <2>3. QED
    BY <1>0, <1>1, <1>2, <2>1, <2>2 DEF RowsAgree, ActiveExecution, Active, BoundedAttempts
<1>8. QED
  BY <1>4, <1>5, <1>6, <1>7 DEF ExecutionInv

LEMMA FinishInv ==
    ASSUME ExecutionInv, NEW t \in Threads, Finish(t)
    PROVE  ExecutionInv'
<1>0. ExecutionTypes /\ ExecutionTypeOK /\ ExecutionTypes'
  BY FinishTypes DEF ExecutionInv, ExecutionTypes
<1> DEFINE n == work[t].attempt
<1>1. CASE FinishStale(t)
  BY <1>0, <1>1, RestFades, IdleInv DEF FinishStale
<1>2. CASE FinishSuccess(t)
  <2>1. Owns(t) /\ FinishesWith(t, "SUCCEEDED", answer[t].receipt, "COMPLETED")
    BY <1>2 DEF FinishSuccess, Finishes, Transition, FinishesWith, Holding
  <2>2. HasReceipt(answer[t].receipt) /\ answer[t].receipt \in Nat
    BY <1>0, <1>2, Facts DEF FinishSuccess, Finishes, ExecutionInv, TrueReceipts
  <2>3. QED
    BY <1>0, <2>1, <2>2, FinishOneInv
<1>3. CASE FinishRetry(t) /\ ~(work[t].attempt < MaxAttempts)
  <2>1. Owns(t) /\ FinishesWith(t, "RETRY", 0, "MANUAL_REVIEW")
    BY <1>3 DEF FinishRetry, Finishes, Transition, FinishesWith, Holding, NoReceipt
  <2>2. Untouched(n)
    BY <1>3 DEF FinishRetry, Finishes, ExecutionInv, HeldAttempts
  <2>3. QED
    BY <1>0, <2>1, <2>2, FinishOneInv
<1>4. CASE FinishFailed(t)
  <2>1. Owns(t) /\ FinishesWith(t, "FAILED", 0, "MANUAL_REVIEW")
    BY <1>4 DEF FinishFailed, Finishes, Transition, FinishesWith, Holding, NoReceipt
  <2>2. Untouched(n)
    BY <1>4 DEF FinishFailed, Finishes, ExecutionInv, HeldAttempts
  <2>3. QED
    BY <1>0, <2>1, <2>2, FinishOneInv
<1>5. CASE FinishUnknown(t)
  <2>1. Owns(t) /\ FinishesWith(t, "UNKNOWN", 0, "RECONCILING")
    BY <1>5 DEF FinishUnknown, Finishes, Transition, FinishesWith, Holding, NoReceipt
  <2>2. QED
    BY <1>0, <2>1, FinishOneInv
<1>6. CASE FinishRetry(t) /\ work[t].attempt < MaxAttempts
  <2> DEFINE q == Settle(n, "RETRY", NoReceipt)
  <2>0. /\ Owns(t)
        /\ Holding(t)
        /\ Rest(t)
        /\ UNCHANGED <<posts, ledger>>
        /\ n < MaxAttempts
        /\ attempts' = Append(q, NewAttempt)
        /\ state' = "RETRY_WAIT"
        /\ version' = version + 1
        /\ Untouched(n)
        /\ Len(attempts) \in Nat
    BY <1>0, <1>6, Facts DEF FinishRetry, Finishes, Transition, Holding, ExecutionInv, HeldAttempts
  <2>1. /\ n \in 1..Len(attempts)
        /\ n = Len(attempts)
        /\ \A m \in 1..Len(attempts) : m # n => ~Active(m)
        /\ attempts[n].status = "RUNNING"
    BY <2>0, OwnedIsLast
  <2>2. /\ q \in Seq(Attempts)
        /\ Len(q) = Len(attempts)
        /\ q[n].status = "RETRY"
        /\ \A m \in 1..Len(attempts) : m # n => q[m] = attempts[m]
    BY <1>0, <2>1, SettleEffect DEF AttemptStatuses, NoReceipt
  <2> HIDE DEF q
  <2>3. /\ Len(attempts') = n + 1
        /\ attempts'[n].status = "RETRY"
        /\ attempts'[n + 1].status = "PENDING"
        /\ \A m \in 1..n : m # n => attempts'[m] = attempts[m]
    <3>1. /\ Len(attempts') = Len(q) + 1
          /\ \A m \in 1..Len(q) : attempts'[m] = q[m]
          /\ attempts'[Len(q) + 1] = NewAttempt
      BY <2>0, <2>2, AppendEffect
    <3>2. QED
      BY <2>1, <2>2, <3>1 DEF NewAttempt
  <2>4. Faded /\ pc'[t] = "idle"
    BY <1>0, <2>0, RestFades
  <2>5. HeldAttempts' /\ WireAndLedger'
    <3>1. \A u \in Threads : Holding(u) /\ work[u].attempt = n => pc'[u] = "idle"
      BY <2>0, <2>4 DEF ExecutionInv, HeldAttempts
    <3>2. QED
      BY <2>0, <2>1, <2>3, <2>4, <3>1, KeepsMoney
  <2>6. TrueReceipts'
    <3>1. \A m \in 1..Len(attempts') : m \in 1..n \/ m = n + 1
      BY <2>0, <2>1, <2>3
    <3>2. QED
      BY <2>0, <2>1, <2>3, <2>4, <3>1, KeepsReceipts
  <2>7. FreshReads'
    BY <2>0, <2>4, KeepsReads
  <2>8. RowsAgree'
    <3>1. \A m \in 1..n : attempts'[m].status \notin {"PENDING", "RUNNING"}
      BY <2>1, <2>3 DEF Active
    <3>2. \A m \in 1..Len(attempts') : m \in 1..n \/ m = n + 1
      BY <2>0, <2>1, <2>3
    <3>3. Len(attempts') <= MaxAttempts
      BY <2>0, <2>1, <2>3, RefundConstants
    <3>4. n + 1 \in 1..Len(attempts')
      BY <2>0, <2>1, <2>3
    <3>5. QED
      BY <2>0, <2>3, <3>1, <3>2, <3>3, <3>4 DEF RowsAgree, ActiveExecution, Active, BoundedAttempts
  <2>9. QED
    BY <1>0, <2>5, <2>6, <2>7, <2>8 DEF ExecutionInv
<1>7. QED
  BY <1>1, <1>2, <1>3, <1>4, <1>5, <1>6 DEF Finish

LEMMA RecoverInv ==
    ASSUME ExecutionInv, NEW t \in Threads, NEW n \in 1..Len(attempts), RecoverExpired(t, n)
    PROVE  ExecutionInv'
<1>0. /\ ExecutionTypes
      /\ ExecutionTypeOK
      /\ ExecutionTypes'
      /\ Len(attempts) \in Nat
      /\ UNCHANGED <<pc, work, answer, seen, posts, ledger>>
      /\ attempts[n].status = "RUNNING"
      /\ state' = "RECONCILING"
      /\ version' = version + 1
  BY RecoverTypes, Facts DEF ExecutionInv, ExecutionTypes, RecoverExpired, Transition, executionVars
<1>1. /\ Len(attempts') = Len(attempts)
      /\ attempts'[n].status = "UNKNOWN"
      /\ \A m \in 1..Len(attempts) : m # n => attempts'[m] = attempts[m]
  BY <1>0, RecoverEffect DEF Rewritten
<1>2. Faded
  BY <1>0 DEF Faded
<1>3. HeldAttempts' /\ WireAndLedger'
  <2>1. \A m \in 1..Len(attempts) : attempts[m].status \in Tried => attempts'[m].status \in Tried
    BY <1>1 DEF Tried
  <2>2. QED
    BY <1>0, <1>1, <1>2, <2>1, KeepsMoney
<1>4. TrueReceipts'
  BY <1>0, <1>1, <1>2, KeepsReceipts
<1>5. FreshReads'
  BY <1>0, <1>2, KeepsReads
<1>6. RowsAgree'
  <2>1. \A m \in 1..Len(attempts) : attempts'[m].status \notin {"PENDING", "RUNNING"}
    BY <1>0, <1>1 DEF ExecutionInv, RowsAgree, Active
  <2>2. Len(attempts') <= MaxAttempts
    BY <1>1 DEF ExecutionInv, RowsAgree, BoundedAttempts
  <2>3. QED
    BY <1>0, <1>1, <2>1, <2>2 DEF RowsAgree, ActiveExecution, Active, BoundedAttempts
<1>7. QED
  BY <1>0, <1>3, <1>4, <1>5, <1>6 DEF ExecutionInv

LEMMA LeaseInv ==
    ASSUME ExecutionInv, NEW n \in 1..Len(attempts), LeaseExpires(n)
    PROVE  ExecutionInv'
<1>0. /\ ExecutionTypes
      /\ ExecutionTypeOK
      /\ ExecutionTypes'
      /\ Len(attempts) \in Nat
      /\ UNCHANGED <<state, version, pc, work, answer, seen, posts, ledger>>
  BY LeaseTypes, Facts DEF ExecutionInv, ExecutionTypes, LeaseExpires, executionVars
<1>1. /\ Len(attempts') = Len(attempts)
      /\ attempts' \in Seq(Attempts)
      /\ \A m \in 1..Len(attempts) : attempts'[m].status = attempts[m].status
                                   /\ attempts'[m].receipt = attempts[m].receipt
  BY <1>0, LeaseEffect DEF Rewritten
<1>2. Faded
  BY <1>0 DEF Faded
<1>3. HeldAttempts' /\ WireAndLedger'
  BY <1>0, <1>1, <1>2, KeepsMoney
<1>4. TrueReceipts'
  BY <1>0, <1>1, <1>2, KeepsReceipts
<1>5. attempts # <<>> /\ attempts' # <<>>
  BY <1>0, <1>1, EmptySeq
<1>6. FreshReads'
  BY <1>0, <1>2, <1>5, KeepsReads
<1>7. RowsAgree'
  BY <1>0, <1>1, <1>5 DEF ExecutionInv, RowsAgree, ActiveExecution, Active, BoundedAttempts
<1>8. QED
  BY <1>0, <1>3, <1>4, <1>6, <1>7 DEF ExecutionInv

LEMMA CloseInv ==
    ASSUME ExecutionInv, OperatorClose
    PROVE  ExecutionInv'
<1>0. /\ ExecutionTypes
      /\ ExecutionTypeOK
      /\ ExecutionTypes'
      /\ Len(attempts) \in Nat
      /\ UNCHANGED <<attempts, pc, work, answer, seen, posts, ledger>>
      /\ state' = "CLOSED"
      /\ version' = version + 1
      /\ \A n \in 1..Len(attempts) : attempts[n].status = "FAILED"
  BY CloseTypes, Facts DEF ExecutionInv, ExecutionTypes, OperatorClose, Transition, Latest,
                           executionVars
<1>1. Faded
  BY <1>0 DEF Faded
<1>2. HeldAttempts' /\ WireAndLedger'
  BY <1>0, <1>1, KeepsMoney
<1>3. TrueReceipts'
  BY <1>0, <1>1, KeepsReceipts
<1>4. FreshReads'
  BY <1>0, <1>1, KeepsReads
<1>5. RowsAgree'
  BY <1>0 DEF ExecutionInv, RowsAgree, ActiveExecution, Active, BoundedAttempts
<1>6. QED
  BY <1>0, <1>2, <1>3, <1>4, <1>5 DEF ExecutionInv

\* While a reconciliation is fresh nothing is active, and a booked attempt is UNKNOWN or SUCCEEDED.
LEMMA FreshIsQuiet ==
    ASSUME ExecutionInv, NEW t \in Threads, pc[t] = "looked", version = seen[t]
    PROVE  /\ state \in {"RECONCILING", "MANUAL_REVIEW"}
           /\ \A n \in 1..Len(attempts) : ~Active(n)
           /\ \A e \in ledger : /\ e.receipt \in 1..Len(attempts)
                               /\ attempts[e.receipt].status \in {"UNKNOWN", "SUCCEEDED"}
<1>1. state \in {"RECONCILING", "MANUAL_REVIEW"}
  BY DEF ExecutionInv, FreshReads
<1>2. \A n \in 1..Len(attempts) : ~Active(n)
  BY <1>1 DEF ExecutionInv, RowsAgree, ActiveExecution, Active
<1>3. QED
  BY <1>1, <1>2 DEF ExecutionInv, WireAndLedger, Tried, Active

LEMMA ApplyFoundInv ==
    ASSUME ExecutionInv, NEW t \in Threads, ApplyFound(t)
    PROVE  ExecutionInv'
<1>0. Applies(t, "found") /\ Transition("COMPLETED")
  BY DEF ApplyFound
<1>1. /\ ExecutionTypes
      /\ ExecutionTypeOK
      /\ ExecutionTypes'
      /\ Len(attempts) \in Nat
      /\ Rest(t)
      /\ UNCHANGED <<posts, ledger>>
      /\ state' = "COMPLETED"
      /\ version' = version + 1
      /\ pc[t] = "looked"
      /\ version = seen[t]
      /\ HasReceipt(answer[t].receipt)
  BY <1>0, ApplyTypes, Facts DEF ExecutionInv, ExecutionTypes, Applies, Transition, ApplyReconcile,
                                 TrueReceipts
<1>2. /\ Len(attempts') = Len(attempts)
      /\ \A n \in 1..Len(attempts) :
            /\ attempts[n].status # "UNKNOWN" => attempts'[n] = attempts[n]
            /\ attempts[n].status = "UNKNOWN" =>
                  /\ attempts'[n].status = "SUCCEEDED"
                  /\ attempts'[n].receipt = answer[t].receipt
  BY <1>1, ApplyFoundEffect
<1>3. Faded
  BY <1>1, RestFades
<1>4. HeldAttempts' /\ WireAndLedger'
  <2>1. \A m \in 1..Len(attempts) : attempts[m].status \in Tried => attempts'[m].status \in Tried
    BY <1>2 DEF Tried
  <2>2. QED
    BY <1>1, <1>2, <1>3, <2>1, KeepsMoney
<1>5. TrueReceipts'
  BY <1>1, <1>2, <1>3, KeepsReceipts
<1>6. FreshReads'
  BY <1>1, <1>3, KeepsReads
<1>7. RowsAgree'
  <2>1. \A m \in 1..Len(attempts) : attempts'[m].status \notin {"PENDING", "RUNNING"}
    BY <1>1, <1>2, FreshIsQuiet DEF Active
  <2>2. \E m \in 1..Len(attempts) : attempts'[m].status = "SUCCEEDED"
    BY <1>1, <1>2, FreshIsQuiet DEF HasReceipt
  <2>3. Len(attempts') <= MaxAttempts
    BY <1>2 DEF ExecutionInv, RowsAgree, BoundedAttempts
  <2>4. QED
    BY <1>1, <1>2, <2>1, <2>2, <2>3 DEF RowsAgree, ActiveExecution, Active, BoundedAttempts
<1>8. QED
  BY <1>1, <1>4, <1>5, <1>6, <1>7 DEF ExecutionInv

LEMMA ApplyAbsentRetryInv ==
    ASSUME ExecutionInv, NEW t \in Threads, ApplyAbsentRetry(t)
    PROVE  ExecutionInv'
<1>1. /\ ExecutionTypes
      /\ ExecutionTypeOK
      /\ ExecutionTypes'
      /\ Len(attempts) \in Nat
      /\ attempts \in Seq(Attempts)
      /\ Rest(t)
      /\ UNCHANGED <<posts, ledger>>
      /\ state' = "RETRY_WAIT"
      /\ version' = version + 1
      /\ pc[t] = "looked"
      /\ version = seen[t]
      /\ Len(attempts) < MaxAttempts
      /\ attempts' = Append(attempts, NewAttempt)
  BY ApplyTypes, Facts DEF ExecutionInv, ExecutionTypes, Applies, Transition, ApplyReconcile,
                           ApplyAbsentRetry, RetryLeft, Latest
<1>2. /\ Len(attempts') = Len(attempts) + 1
      /\ \A m \in 1..Len(attempts) : attempts'[m] = attempts[m]
      /\ attempts'[Len(attempts) + 1].status = "PENDING"
  BY <1>1, AppendEffect DEF NewAttempt
<1>3. Faded
  BY <1>1, RestFades
<1>4. \A m \in 1..Len(attempts') : m \in 1..Len(attempts) \/ m = Len(attempts) + 1
  BY <1>1, <1>2
<1>5. HeldAttempts' /\ WireAndLedger'
  BY <1>1, <1>2, <1>3, KeepsMoney
<1>6. TrueReceipts'
  BY <1>1, <1>2, <1>3, <1>4, KeepsReceipts
<1>7. FreshReads'
  BY <1>1, <1>3, KeepsReads
<1>8. RowsAgree'
  <2>1. \A m \in 1..Len(attempts) : attempts'[m].status \notin {"PENDING", "RUNNING"}
    BY <1>1, <1>2, FreshIsQuiet DEF Active
  <2>2. Len(attempts') <= MaxAttempts
    BY <1>1, <1>2, RefundConstants
  <2>3. Len(attempts) + 1 \in 1..Len(attempts')
    BY <1>1, <1>2
  <2>4. QED
    BY <1>1, <1>2, <1>4, <2>1, <2>2, <2>3 DEF RowsAgree, ActiveExecution, Active, BoundedAttempts
<1>9. QED
  BY <1>1, <1>5, <1>6, <1>7, <1>8 DEF ExecutionInv

LEMMA ApplyGiveUpInv ==
    ASSUME ExecutionInv, NEW t \in Threads, ApplyGiveUp(t)
    PROVE  ExecutionInv'
<1>1. /\ ExecutionTypes
      /\ ExecutionTypes'
      /\ Len(attempts) \in Nat
      /\ Rest(t)
      /\ UNCHANGED <<attempts, posts, ledger>>
      /\ pc[t] = "looked"
      /\ version = seen[t]
      /\ \/ state' = "MANUAL_REVIEW" /\ version' = version + 1
         \/ UNCHANGED <<state, version>>
  BY ApplyTypes, Facts DEF ExecutionInv, ExecutionTypes, Applies, Transition, ApplyReconcile,
                           ApplyGiveUp
<1>2. Faded
  BY <1>1, RestFades
<1>3. HeldAttempts' /\ WireAndLedger'
  BY <1>1, <1>2, KeepsMoney
<1>4. TrueReceipts'
  BY <1>1, <1>2, KeepsReceipts
<1>5. FreshReads'
  BY <1>1, <1>2, KeepsReads
<1>6. RowsAgree'
  <2>1. \A n \in 1..Len(attempts) : ~Active(n)
    BY <1>1, FreshIsQuiet
  <2>2. QED
    BY <1>1, <2>1 DEF ExecutionInv, RowsAgree, ActiveExecution, Active, BoundedAttempts
<1>7. QED
  BY <1>1, <1>3, <1>4, <1>5, <1>6 DEF ExecutionInv

LEMMA ExecutionInvStep == ExecutionInv /\ ExecutionNext => ExecutionInv'
<1> SUFFICES ASSUME ExecutionInv, ExecutionNext PROVE ExecutionInv'
  OBVIOUS
<1>0. ExecutionTypes /\ ExecutionTypes'
  BY ExecutionTypesStep DEF ExecutionInv
<1>1. ASSUME NEW t \in Threads, ThreadStep(t) PROVE ExecutionInv'
  <2>1. CASE InjectedCrash(t) \/ SkipReconcile(t) \/ ApplyStale(t)
    BY <1>0, <2>1, RestFades, IdleInv DEF InjectedCrash, SkipReconcile, ApplyStale
  <2>2. CASE ApplyReconcile(t)
    BY <2>1, <2>2, ApplyFoundInv, ApplyAbsentRetryInv, ApplyGiveUpInv DEF ApplyReconcile
  <2>3. QED
    BY <1>1, <2>1, <2>2, ClaimInv, SendInv, CallInv, FinishInv, RecoverInv DEF ThreadStep, Latest
<1>2. ASSUME NEW t \in Threads, LookupFails(t) \/ Crash(t) PROVE ExecutionInv'
  BY <1>0, <1>2, RestFades, IdleInv DEF LookupFails, Crash
<1>3. QED
  BY <1>1, <1>2, ProviderInv, LeaseInv, CloseInv DEF ExecutionNext, EnvironmentStep, Latest

----------------------------------------------------------------------------
LEMMA ExecutionInit_Inv == ApprovedInit => ExecutionInv
<1> SUFFICES ASSUME ApprovedInit PROVE ExecutionInv
  OBVIOUS
<1>1. tasks \in Seq(Tasks)
  <2>1. request.amount \in Nat
    BY RefundConstants DEF ApprovedInit, Requests
  <2>2. RequiredRole(request.amount) \in ApprovalRoles
    BY <2>1 DEF RequiredRole, ApprovalRoles, LeadLimit, ManagerLimit
  <2>3. PICK a \in Actors :
            /\ RoleOf[a] = RequiredRole(request.amount)
            /\ tasks = <<[NewTask(RoleOf[a]) EXCEPT !.status = "APPROVED",
                                                   !.timer = "CANCELLED", !.by = a]>>
    BY DEF ApprovedInit
  <2> DEFINE task == [NewTask(RoleOf[a]) EXCEPT !.status = "APPROVED",
                                                !.timer = "CANCELLED", !.by = a]
  <2>4. task \in Tasks
    BY <2>2, <2>3 DEF NewTask, Tasks, TaskStatuses, TimerStatuses
  <2>5. tasks = <<task>>
    BY <2>3
  <2> HIDE DEF task
  <2>6. QED
    BY <2>4, <2>5
<1>2. /\ attempts \in Seq(Attempts)
      /\ Len(attempts) = 1
      /\ attempts[1].status = "PENDING"
  BY NewAttemptType DEF ApprovedInit, NewAttempt
<1>3. ExecutionTypes
  <2>1. NoWork \in [attempt : Nat, fence : Nat] /\ Reply("none") \in Answers
    BY DEF NoWork, Reply, NoReceipt, Answers
  <2>2. outbox \in Seq(Events) /\ published \subseteq 1..Len(outbox)
    BY DEF ApprovedInit
  <2>3. failures \in 0..MaxFailures
    BY ExecutionConstants DEF ApprovedInit, ExecutionInit
  <2>4. state \in States /\ version \in Nat
    BY DEF ApprovedInit, States
  <2>5. QED
    BY <1>1, <1>2, <2>1, <2>2, <2>3, <2>4
       DEF ApprovedInit, ExecutionInit, ExecutionTypes, ExecutionTypeOK, PCs, Holding
<1>4. HeldAttempts /\ WireAndLedger /\ TrueReceipts /\ FreshReads
  BY <1>2 DEF ApprovedInit, ExecutionInit, HeldAttempts, WireAndLedger, TrueReceipts, FreshReads,
              OneRefund, Holding, Reply
<1>5. RowsAgree
  BY <1>2, RefundConstants DEF ApprovedInit, RowsAgree, ActiveExecution, Active, BoundedAttempts
<1>6. QED
  BY <1>3, <1>4, <1>5 DEF ExecutionInv

LEMMA ExecutionStutter == ExecutionInv /\ UNCHANGED execVars => ExecutionInv'
<1> SUFFICES ASSUME ExecutionInv, UNCHANGED execVars PROVE ExecutionInv'
  OBVIOUS
<1>1. Faded /\ UNCHANGED <<storeVars, posts, ledger>>
  BY DEF execVars, executionVars, Faded
<1>2. ExecutionTypes'
  BY DEF ExecutionInv, ExecutionTypes, ExecutionTypeOK, execVars, executionVars, storeVars, Holding
<1>3. QED
  BY <1>1, <1>2, IdleInv

(***************************************************************************)
(* The invariant holds in every reachable state: the rows, the threads,    *)
(* the wire and the provider's ledger never contradict each other          *)
(* (core.py claim, finish, recover_expired, reconcile, operator_close;     *)
(* erp.refund).                                                            *)
(***************************************************************************)
THEOREM ExecutionIsSound == ExecutionSpec => []ExecutionInv
<1>1. ExecutionInv /\ [ExecutionNext]_execVars => ExecutionInv'
  BY ExecutionInvStep, ExecutionStutter
<1>2. QED
  BY ExecutionInit_Inv, <1>1, PTL DEF ExecutionSpec

(***************************************************************************)
(* Every variable keeps its type, and only numbered attempts travel.       *)
(***************************************************************************)
THEOREM ExecutionTyped == ExecutionSpec => []ExecutionTypeOK
<1>1. ExecutionInv => ExecutionTypeOK
  BY DEF ExecutionInv, ExecutionTypes
<1>2. QED
  BY ExecutionIsSound, <1>1, PTL

LEMMA InvImplies ==
    ASSUME ExecutionInv
    PROVE  /\ OneRefund
           /\ CompletedIsPaid
           /\ RefusedIsNotPaid
           /\ DefiniteOutcome
           /\ ActiveExecution
           /\ BoundedAttempts
<1>1. OneRefund /\ ActiveExecution /\ BoundedAttempts
  BY DEF ExecutionInv, WireAndLedger, RowsAgree
<1>2. CompletedIsPaid
  BY DEF ExecutionInv, RowsAgree, TrueReceipts, HasReceipt, CompletedIsPaid
<1>3. RefusedIsNotPaid
  <2>1. ASSUME NEW e \in ledger
        PROVE  e.receipt \in 1..Len(attempts) /\ attempts[e.receipt].status \in Tried
    BY DEF ExecutionInv, WireAndLedger
  <2>2. state \in {"REJECTED", "CLOSED"} =>
          \A n \in 1..Len(attempts) : attempts[n].status = "FAILED"
    BY DEF ExecutionInv, RowsAgree
  <2>3. QED
    BY <2>1, <2>2 DEF RefusedIsNotPaid, Tried
<1>4. DefiniteOutcome
  BY DEF ExecutionInv, WireAndLedger, DefiniteOutcome, Tried
<1>5. QED
  BY <1>1, <1>2, <1>3, <1>4

(***************************************************************************)
(* The provider books at most one refund, however many workers, retries,   *)
(* lease expiries and late POSTs there are (core.operation_key).           *)
(***************************************************************************)
THEOREM AtMostOneRefund == ExecutionSpec => []OneRefund
BY ExecutionIsSound, InvImplies, PTL

(***************************************************************************)
(* COMPLETED is reported only over a receipt of the provider's ledger.     *)
(***************************************************************************)
THEOREM CompletionIsPaid == ExecutionSpec => []CompletedIsPaid
BY ExecutionIsSound, InvImplies, PTL

(***************************************************************************)
(* A closed workflow was not paid, not even by a POST still travelling.    *)
(***************************************************************************)
THEOREM RefusalIsUnpaid == ExecutionSpec => []RefusedIsNotPaid
BY ExecutionIsSound, InvImplies, PTL

(***************************************************************************)
(* FAILED and RETRY are definite: the provider will never book them.       *)
(***************************************************************************)
THEOREM OutcomesAreDefinite == ExecutionSpec => []DefiniteOutcome
BY ExecutionIsSound, InvImplies, PTL

(***************************************************************************)
(* The workflow row and its attempts agree, and only one attempt is ever   *)
(* active (core.claim, core.finish, core.reconcile).                       *)
(***************************************************************************)
THEOREM OneActiveExecution == ExecutionSpec => []ActiveExecution
BY ExecutionIsSound, InvImplies, PTL

(***************************************************************************)
(* core.finish and core.reconcile, which both count the attempts, keep the *)
(* budget between them.                                                    *)
(***************************************************************************)
THEOREM AttemptsAreBounded == ExecutionSpec => []BoundedAttempts
BY ExecutionIsSound, InvImplies, PTL

----------------------------------------------------------------------------
\* A step that rewrites one attempt, which was not settled, or none.
LEMMA RewriteKeeps ==
    ASSUME ExecutionTypeOK, Len(attempts') \in Nat, Len(attempts') >= Len(attempts),
           \A n \in 1..Len(attempts) :
              attempts[n].status \in {"PENDING", "RUNNING"} \/ attempts'[n] = attempts[n]
    PROVE  KeepsSettled
BY Facts DEF KeepsSettled

LEMMA FinishKeeps ==
    ASSUME ExecutionInv, NEW t \in Threads, Finish(t), ~FinishStale(t)
    PROVE  /\ KeepsSettled
           /\ state = "EXECUTING"
<1> DEFINE n == work[t].attempt
<1>0. ExecutionTypeOK /\ Len(attempts) \in Nat
  BY Facts DEF ExecutionInv, ExecutionTypes
<1>1. /\ Owns(t)
      /\ Holding(t)
      /\ \E status \in AttemptStatuses, receipt \in Nat :
            LET q == Settle(n, status, receipt)
            IN  attempts' = q \/ attempts' = Append(q, NewAttempt)
  <2>1. answer[t].receipt \in Nat /\ NoReceipt \in Nat
    BY <1>0, Facts DEF NoReceipt
  <2>2. QED
    BY <2>1 DEF Finish, FinishSuccess, FinishRetry, FinishFailed, FinishUnknown,
                Finishes, Holding, AttemptStatuses
<1>2. n \in 1..Len(attempts) /\ attempts[n].status = "RUNNING"
  BY <1>1, OwnedIsLast
<1>3. PICK status \in AttemptStatuses, receipt \in Nat :
          LET q == Settle(n, status, receipt)
          IN  attempts' = q \/ attempts' = Append(q, NewAttempt)
  BY <1>1
<1> DEFINE q == Settle(n, status, receipt)
<1> HIDE DEF n
<1>4. /\ q \in Seq(Attempts)
      /\ Len(q) = Len(attempts)
      /\ \A m \in 1..Len(attempts) : m # n => q[m] = attempts[m]
  BY <1>0, <1>2, SettleEffect
<1>5. attempts' = q \/ attempts' = Append(q, NewAttempt)
  BY <1>3
<1> HIDE DEF q
<1>6. /\ Len(attempts') \in Nat
      /\ Len(attempts') >= Len(attempts)
      /\ \A m \in 1..Len(attempts) : m # n => attempts'[m] = attempts[m]
  BY <1>0, <1>4, <1>5, AppendEffect
<1>7. KeepsSettled
  BY <1>0, <1>2, <1>6, RewriteKeeps
<1>8. QED
  BY <1>1, <1>7 DEF Owns

\* What every step but those of core.finish and core.reconcile does to settled attempts.
LEMMA OtherStepsKeep ==
    ASSUME ExecutionInv, ExecutionNext,
           \A t \in Threads : ~Finish(t) /\ ~ApplyReconcile(t)
    PROVE  KeepsSettled /\ (state \in Final => state' = state)
<1>0. ExecutionTypeOK /\ Len(attempts) \in Nat
  BY Facts DEF ExecutionInv, ExecutionTypes
<1>1. CASE UNCHANGED <<state, attempts>>
  BY <1>0, <1>1, RewriteKeeps
<1>2. ASSUME NEW t \in Threads, Claim(t)
      PROVE  KeepsSettled /\ state \notin Final
  <2>1. PICK n \in 1..Len(attempts) : attempts[n].status = "PENDING" /\ Rewritten(n)
    BY <1>0, <1>2, ClaimEffect
  <2>2. KeepsSettled
    BY <1>0, <2>1, RewriteKeeps DEF Rewritten
  <2>3. QED
    BY <1>2, <2>2 DEF Claim, Final
<1>3. ASSUME NEW t \in Threads, NEW n \in 1..Len(attempts), RecoverExpired(t, n)
      PROVE  KeepsSettled /\ state \notin Final
  <2>1. attempts[n].status = "RUNNING" /\ Rewritten(n)
    BY <1>0, <1>3, RecoverEffect DEF RecoverExpired
  <2>2. KeepsSettled
    BY <1>0, <2>1, RewriteKeeps DEF Rewritten
  <2>3. state = "EXECUTING"
    BY <2>1 DEF ExecutionInv, RowsAgree, ActiveExecution
  <2>4. QED
    BY <2>2, <2>3 DEF Final
<1>4. ASSUME NEW n \in 1..Len(attempts), LeaseExpires(n)
      PROVE  KeepsSettled /\ UNCHANGED state
  <2>1. attempts[n].status = "RUNNING" /\ Rewritten(n) /\ UNCHANGED state
    BY <1>0, <1>4, LeaseEffect DEF LeaseExpires
  <2>2. KeepsSettled
    BY <1>0, <2>1, RewriteKeeps DEF Rewritten
  <2>3. QED
    BY <2>1, <2>2
<1>5. CASE OperatorClose
  <2>1. UNCHANGED attempts /\ state \notin Final
    BY <1>5 DEF OperatorClose, Final
  <2>2. QED
    BY <1>0, <2>1, RewriteKeeps
<1>6. CASE ProviderStep
  <2>1. UNCHANGED <<state, attempts>>
    BY <1>6 DEF ProviderStep, PostRejected, PostNotStarted, PostReplayed, PostRefunded,
                ProviderRestore, storeVars
  <2>2. QED
    BY <1>1, <2>1
<1>7. ASSUME NEW t \in Threads,
             \/ Send(t)
             \/ Timeout(t)
             \/ InjectedCrash(t)
             \/ SelectForReconcile(t)
             \/ BeginReconcile(t)
             \/ SkipReconcile(t)
             \/ Lookup(t)
             \/ LookupFails(t)
             \/ Crash(t)
      PROVE  UNCHANGED <<state, attempts>>
  BY <1>7 DEF Send, Timeout, InjectedCrash, SelectForReconcile, BeginReconcile, SkipReconcile,
              Lookup, LookupAbsent, LookupFound, LookupUnavailable, Status, LookupFails, Crash,
              storeVars
<1>8. QED
  BY <1>1, <1>2, <1>3, <1>4, <1>5, <1>6, <1>7
     DEF ExecutionNext, ThreadStep, EnvironmentStep, Latest

LEMMA ReconcileKeeps ==
    ASSUME ExecutionInv, NEW t \in Threads, ApplyReconcile(t)
    PROVE  KeepsSettled /\ (state \in Final => state' = state)
<1>0. ExecutionTypeOK /\ attempts \in Seq(Attempts) /\ Len(attempts) \in Nat
  BY Facts DEF ExecutionInv, ExecutionTypes
<1>1. CASE ApplyStale(t)
  <2>1. UNCHANGED <<state, attempts>>
    BY <1>1 DEF ApplyStale, storeVars
  <2>2. QED
    BY <1>0, <2>1, RewriteKeeps
<1>2. CASE ~ApplyStale(t)
  <2>1. pc[t] = "looked" /\ version = seen[t]
    BY <1>2 DEF ApplyReconcile, ApplyFound, ApplyAbsentRetry, ApplyGiveUp, Applies
  <2>2. state \notin Final
    BY <2>1, FreshIsQuiet DEF Final
  <2>3. CASE ApplyFound(t)
    <3>1. Applies(t, "found")
      BY <2>3 DEF ApplyFound
    <3>2. HasReceipt(answer[t].receipt)
      BY <3>1 DEF Applies, ExecutionInv, TrueReceipts
    <3>3. QED
      BY <1>0, <2>2, <2>3, <3>2, ApplyFoundEffect DEF KeepsSettled, HasReceipt
  <2>4. CASE ApplyAbsentRetry(t)
    <3>1. attempts' = Append(attempts, NewAttempt)
      BY <2>4 DEF ApplyAbsentRetry
    <3>2. QED
      BY <1>0, <2>2, <3>1, AppendEffect, RewriteKeeps
  <2>5. CASE ApplyGiveUp(t)
    <3>1. UNCHANGED attempts
      BY <2>5 DEF ApplyGiveUp
    <3>2. QED
      BY <1>0, <2>2, <3>1, RewriteKeeps
  <2>6. QED
    BY <1>2, <2>3, <2>4, <2>5 DEF ApplyReconcile
<1>3. QED
  BY <1>1, <1>2

LEMMA StepKeeps ==
    ASSUME ExecutionInv, ExecutionNext
    PROVE  KeepsSettled /\ (state \in Final => state' = state)
<1>0. ExecutionTypeOK /\ Len(attempts) \in Nat
  BY Facts DEF ExecutionInv, ExecutionTypes
<1>1. ASSUME NEW t \in Threads, Finish(t)
      PROVE  KeepsSettled /\ (state \in Final => state' = state)
  <2>1. CASE FinishStale(t)
    <3>1. UNCHANGED <<state, attempts>>
      BY <2>1 DEF FinishStale, storeVars
    <3>2. QED
      BY <1>0, <3>1, RewriteKeeps
  <2>2. CASE ~FinishStale(t)
    BY <1>1, <2>2, FinishKeeps DEF Final
  <2>3. QED
    BY <2>1, <2>2
<1>2. QED
  BY <1>1, OtherStepsKeep, ReconcileKeeps

(***************************************************************************)
(* No step of a worker, of the recovery or of a reconciliation rewrites a  *)
(* settled attempt, except UNKNOWN to SUCCEEDED with a booked receipt.     *)
(***************************************************************************)
THEOREM HistoryIsKept == ExecutionSpec => AttemptHistory
<1>1. ExecutionInv /\ [ExecutionNext]_execVars => [KeepsSettled]_execVars
  BY StepKeeps
<1>2. QED
  BY ExecutionIsSound, <1>1, PTL DEF ExecutionSpec, AttemptHistory

(***************************************************************************)
(* COMPLETED, REJECTED and CLOSED are never left.                          *)
(***************************************************************************)
THEOREM FinalStays == ExecutionSpec => FinalIsFinal
<1>1. ExecutionInv /\ [ExecutionNext]_execVars => [(state \in Final) => (state' = state)]_execVars
  BY StepKeeps
<1>2. QED
  BY ExecutionIsSound, <1>1, PTL DEF ExecutionSpec, FinalIsFinal
=============================================================================
