--------------------------- MODULE AgentJob_proofs --------------------------
(***************************************************************************)
(* The payments of a job are bounded and accounted for, for every number   *)
(* of jobs, workers, retries and mishaps: at any time a job has one        *)
(* message or one attempt that goes on, never both.                        *)
(***************************************************************************)
EXTENDS AgentJob, FiniteSetTheorems, TLAPS

Busy == {"retrieve", "generate", "audit", "report", "validate", "completed", "raised"}

Attempt == [pc : {"retrieve", "generate", "audit", "report", "validate", "completed", "raised", "mark"},
            job : Jobs, retries : 0..MaxRetries]

\* An attempt that has not published its retry.
On(w, j) == worker[w].pc \in Busy /\ worker[w].job = j

Recording(w, j) == worker[w].pc \in {"audit", "report"} /\ worker[w].job = j

IsRecording(j) == \E w \in Workers : Recording(w, j)

\* The records of the calls that were answered.
Noted(j) == executed[j] + failed[j]

\* There is one message or one attempt, and none before the submission.
OneToken(j) ==
    /\ \A v, w \in Workers : On(v, j) /\ On(w, j) => v = w
    /\ (\E w \in Workers : On(w, j)) => message[j] = -1
    /\ result[j] = "NONE" => /\ message[j] = -1 /\ paid[j] = 0 /\ executed[j] = 0 /\ failed[j] = 0
                             /\ ~\E w \in Workers : On(w, j)

\* Each retry pays for at most one call.
Budgeted(j) ==
    /\ paid[j] <= MaxRetries + 1
    /\ message[j] >= 0 => paid[j] <= message[j]
    /\ \A w \in Workers : On(w, j) =>
           paid[j] <= worker[w].retries + (IF worker[w].pc \in {"retrieve", "generate"} THEN 0 ELSE 1)

\* What is paid is recorded, or about to be, or was lost in a mishap.
Recorded(j) ==
    /\ IsRecording(j) => Noted(j) + 1 <= paid[j] /\ paid[j] <= Noted(j) + 1 + mishaps
    /\ ~IsRecording(j) => Noted(j) <= paid[j] /\ paid[j] <= Noted(j) + mishaps
    /\ \A w \in Workers : On(w, j) /\ worker[w].pc \in {"validate", "completed"} => executed[j] > 0
    /\ result[j] = "SUCCESS" => executed[j] > 0

Accounts(j) == OneToken(j) /\ Budgeted(j) /\ Recorded(j)

\* The inductive invariant of the queue.
JobInv == JobTypeOK /\ \A j \in Jobs : Accounts(j)

----------------------------------------------------------------------------
LEMMA InitJobInv == ASSUME JobInit PROVE JobInv
<1>1. JobTypeOK
  BY AgentJobConstants DEF JobInit, JobTypeOK, Available
<1>2. ASSUME NEW j \in Jobs PROVE Accounts(j)
  BY AgentJobConstants DEF JobInit, Accounts, OneToken, Budgeted, Recorded, Noted, On, IsRecording, Recording,
                           Available, Busy
<1> QED
  BY <1>1, <1>2 DEF JobInv

LEMMA WorkerTypes == ASSUME JobTypeOK, NEW w \in Workers
  PROVE /\ worker[w] = Available \/ worker[w] \in Attempt
        /\ Available.pc = "waiting"
        /\ worker[w].pc # "waiting" => worker[w] \in Attempt /\ worker[w].job \in Jobs
  BY DEF JobTypeOK, Attempt, Busy, Available

(***************************************************************************)
(* A job that a step is not about: its rows and its attempts are the same. *)
(***************************************************************************)
LEMMA Elsewhere ==
    ASSUME JobInv, NEW j \in Jobs, mishaps' \in Nat, mishaps' >= mishaps,
           message'[j] = message[j], result'[j] = result[j],
           paid'[j] = paid[j], executed'[j] = executed[j], failed'[j] = failed[j],
           \A w \in Workers : worker'[w] = worker[w] \/ (~On(w, j) /\ ~On(w, j)')
    PROVE  Accounts(j)'
<1>1. \A w \in Workers : /\ On(w, j)' <=> On(w, j)
                         /\ On(w, j) => worker'[w] = worker[w]
                         /\ Recording(w, j)' <=> Recording(w, j)
  BY DEF On, Recording, Busy
<1>2. Accounts(j) /\ paid[j] \in Nat /\ executed[j] \in Nat /\ failed[j] \in Nat /\ mishaps \in Nat
  BY DEF JobInv, JobTypeOK
<1>3. OneToken(j)'
  BY <1>1, <1>2 DEF Accounts, OneToken
<1>4. Budgeted(j)'
  BY <1>1, <1>2 DEF Accounts, Budgeted
<1>5. Recorded(j)'
  BY <1>1, <1>2 DEF Accounts, Recorded, Noted, IsRecording
<1> QED
  BY <1>3, <1>4, <1>5 DEF Accounts

\* A step of one worker about one job.
Only(w, i) ==
    /\ \A v \in Workers \ {w} : worker'[v] = worker[v]
    /\ \A j \in Jobs \ {i} : /\ message'[j] = message[j] /\ result'[j] = result[j]
                             /\ paid'[j] = paid[j] /\ executed'[j] = executed[j] /\ failed'[j] = failed[j]
    /\ mishaps' >= mishaps

LEMMA OtherJobs ==
    ASSUME JobInv, NEW w \in Workers, NEW i \in Jobs, Only(w, i), JobTypeOK',
           worker[w].pc = "waiting" \/ worker[w].job = i,
           worker'[w].pc = "waiting" \/ worker'[w].job = i
    PROVE  \A j \in Jobs \ {i} : Accounts(j)'
<1> SUFFICES ASSUME NEW j \in Jobs \ {i} PROVE Accounts(j)'
  OBVIOUS
<1>1. \A v \in Workers : worker'[v] = worker[v] \/ (~On(v, j) /\ ~On(v, j)')
  BY DEF Only, On, Busy
<1>2. mishaps' \in Nat
  BY DEF JobTypeOK
<1> QED
  BY <1>1, <1>2, Elsewhere DEF Only

LEMMA SubmitKeeps == ASSUME JobInv, NEW i \in Jobs, Submit(i) PROVE JobInv'
<1>1. JobTypeOK'
  BY AgentJobConstants DEF Submit, JobInv, JobTypeOK
<1>2. ASSUME NEW j \in Jobs, j # i PROVE Accounts(j)'
  BY <1>2, Elsewhere DEF Submit, JobInv, JobTypeOK
<1>3. Accounts(i)'
  BY DEF Submit, JobInv, JobTypeOK, Accounts, OneToken, Budgeted, Recorded, Noted, On, IsRecording, Recording
<1> QED
  BY <1>1, <1>2, <1>3 DEF JobInv

LEMMA TakeKeeps == ASSUME JobInv, NEW w \in Workers, Take(w) PROVE JobInv'
<1>1. PICK i \in Jobs :
          /\ worker[w].pc = "waiting" /\ message[i] >= 0 /\ message' = [message EXCEPT ![i] = -1]
          /\ result' = [result EXCEPT ![i] = "STARTED"]
          /\ worker' = [worker EXCEPT ![w] = [pc |-> "retrieve", job |-> i, retries |-> message[i]]]
          /\ UNCHANGED <<paid, executed, failed, lost, mishaps>>
  BY DEF Take, At
<1> DEFINE k == [pc |-> "retrieve", job |-> i, retries |-> message[i]]
<1>2. message[i] \in 0..MaxRetries
  BY <1>1 DEF JobInv, JobTypeOK
<1>3. k \in Attempt /\ k.pc = "retrieve" /\ k.job = i /\ k.retries = message[i] /\ worker' = [worker EXCEPT ![w] = k]
  BY <1>1, <1>2 DEF Attempt
<1> HIDE DEF k
<1>4. JobTypeOK'
  <2>1. worker' \in [Workers -> {Available} \cup Attempt]
    BY <1>3 DEF JobInv, JobTypeOK, Attempt
  <2>2. message' \in [Jobs -> -1..MaxRetries]
    BY AgentJobConstants, <1>1 DEF JobInv, JobTypeOK
  <2> QED
    BY <1>1, <2>1, <2>2 DEF JobInv, JobTypeOK, Attempt
<1>5. \A j \in Jobs \ {i} : Accounts(j)'
  <2>1. Only(w, i)
    BY <1>1, <1>3 DEF JobInv, JobTypeOK, Only
  <2>2. worker'[w] = k
    BY <1>3 DEF JobInv, JobTypeOK
  <2> QED
    BY <1>1, <1>3, <1>4, <2>1, <2>2, OtherJobs
<1>6. worker'[w] = k /\ (\A v \in Workers \ {w} : worker'[v] = worker[v]) /\ message'[i] = -1 /\ result'[i] = "STARTED"
  BY <1>1, <1>3 DEF JobInv, JobTypeOK
<1>7. Accounts(i) /\ ~\E v \in Workers : On(v, i)
  BY <1>1, <1>2 DEF JobInv, Accounts, OneToken
<1>8. ~IsRecording(i) /\ ~IsRecording(i)'
  BY <1>3, <1>6, <1>7 DEF IsRecording, Recording, On, Busy
<1>9. Accounts(i)'
  BY <1>1, <1>2, <1>3, <1>6, <1>7, <1>8 DEF JobInv, JobTypeOK, Accounts, OneToken, Budgeted, Recorded, Noted, On, Busy
<1> QED
  BY <1>4, <1>5, <1>9 DEF JobInv

(***************************************************************************)
(* An attempt goes on, or ends: what it pays, records and publishes is as  *)
(* the accounts of its job allow.                                          *)
(***************************************************************************)
LEMMA AttemptStep ==
    ASSUME JobInv, NEW w \in Workers, NEW i \in Jobs, worker[w].pc \in Busy, worker[w].job = i,
           JobTypeOK', Only(w, i),
           worker'[w].pc # "waiting" => worker'[w].job = i /\ worker'[w].retries = worker[w].retries,
           worker'[w].pc \in Busy => message'[i] = -1,
           result'[i] # "NONE",
           paid'[i] <= worker[w].retries + 1,
           message'[i] >= 0 => paid'[i] <= message'[i],
           worker'[w].pc \in {"retrieve", "generate"} => paid'[i] <= worker[w].retries,
           worker'[w].pc \in {"audit", "report"} => Noted(i)' + 1 <= paid'[i] /\ paid'[i] <= Noted(i)' + 1 + mishaps',
           worker'[w].pc \notin {"audit", "report"} => Noted(i)' <= paid'[i] /\ paid'[i] <= Noted(i)' + mishaps',
           worker'[w].pc \in {"validate", "completed"} \/ result'[i] = "SUCCESS" => executed'[i] > 0
    PROVE  JobInv'
<1>1. worker[w].retries \in 0..MaxRetries
  BY WorkerTypes DEF JobInv, Busy, Attempt
<1>2. \A j \in Jobs \ {i} : Accounts(j)'
  BY OtherJobs
<1>3. Accounts(i) /\ On(w, i) /\ \A v \in Workers \ {w} : ~On(v, i) /\ ~On(v, i)'
  BY DEF JobInv, Accounts, OneToken, On, Only
<1>4. On(w, i)' => worker'[w].pc \in Busy /\ worker'[w].retries = worker[w].retries
  BY DEF On, Busy
<1>5. OneToken(i)'
  BY <1>3, <1>4 DEF OneToken
<1>6. Budgeted(i)'
  <2>1. paid'[i] \in Nat
    BY DEF JobTypeOK
  <2> QED
    BY AgentJobConstants, <1>1, <1>3, <1>4, <2>1 DEF Budgeted
<1>7. Recorded(i)'
  <2>1. IsRecording(i)' <=> worker'[w].pc \in {"audit", "report"}
    BY <1>3 DEF IsRecording, Recording, On, Busy
  <2> QED
    BY <1>3, <2>1 DEF Recorded
<1> QED
  BY <1>2, <1>5, <1>6, <1>7 DEF JobInv, Accounts

(***************************************************************************)
(* What the accounts of its job say of an attempt that goes on.            *)
(***************************************************************************)
LEMMA AttemptFacts ==
    ASSUME JobInv, NEW w \in Workers, worker[w].pc \in Busy
    PROVE  LET i == worker[w].job
               pc == worker[w].pc
           IN  /\ i \in Jobs /\ worker[w] \in Attempt /\ worker[w].retries \in 0..MaxRetries
               /\ message[i] = -1 /\ result[i] # "NONE"
               /\ paid[i] \in Nat /\ executed[i] \in Nat /\ failed[i] \in Nat /\ mishaps \in 0..MaxMishaps
               /\ paid[i] <= worker[w].retries + 1
               /\ pc \in {"retrieve", "generate"} => paid[i] <= worker[w].retries
               /\ pc \in {"audit", "report"} => Noted(i) + 1 <= paid[i] /\ paid[i] <= Noted(i) + 1 + mishaps
               /\ pc \notin {"audit", "report"} => Noted(i) <= paid[i] /\ paid[i] <= Noted(i) + mishaps
               /\ pc \in {"validate", "completed"} \/ result[i] = "SUCCESS" => executed[i] > 0
<1> DEFINE i == worker[w].job
<1>1. i \in Jobs /\ worker[w] \in Attempt /\ worker[w].retries \in 0..MaxRetries /\ On(w, i)
  BY WorkerTypes DEF JobInv, Busy, Attempt, On
<1>2. paid[i] \in Nat /\ executed[i] \in Nat /\ failed[i] \in Nat /\ mishaps \in 0..MaxMishaps
  BY <1>1 DEF JobInv, JobTypeOK
<1>3. Accounts(i)
  BY <1>1 DEF JobInv
<1>4. message[i] = -1 /\ result[i] # "NONE"
  BY <1>1, <1>3 DEF Accounts, OneToken
<1>5. paid[i] <= worker[w].retries + 1 /\ (worker[w].pc \in {"retrieve", "generate"} => paid[i] <= worker[w].retries)
  BY <1>1, <1>2, <1>3 DEF Accounts, Budgeted
<1>6. IsRecording(i) <=> worker[w].pc \in {"audit", "report"}
  BY <1>1, <1>3 DEF Accounts, OneToken, IsRecording, Recording, On, Busy
<1> QED
  BY <1>1, <1>2, <1>3, <1>4, <1>5, <1>6 DEF Accounts, Recorded

\* An attempt as it goes on, and as it ends.
LEMMA GoOn ==
    ASSUME JobTypeOK, NEW w \in Workers, worker[w] \in Attempt,
           NEW where \in {"retrieve", "generate", "audit", "report", "validate", "completed", "raised", "mark"},
           Go(w, where)
    PROVE  /\ worker' \in [Workers -> {Available} \cup Attempt]
           /\ \A v \in Workers \ {w} : worker'[v] = worker[v]
           /\ worker'[w].pc = where /\ worker'[w].job = worker[w].job /\ worker'[w].retries = worker[w].retries
<1> DEFINE k == [worker[w] EXCEPT !.pc = where]
<1>1. k \in Attempt /\ k.pc = where /\ k.job = worker[w].job /\ k.retries = worker[w].retries
  BY DEF Attempt
<1>2. worker' = [worker EXCEPT ![w] = k] /\ worker \in [Workers -> {Available} \cup Attempt]
  BY DEF Go, JobTypeOK, Attempt
<1> HIDE DEF k
<1> QED
  BY <1>1, <1>2

LEMMA EndsWaiting ==
    ASSUME JobTypeOK, NEW w \in Workers, worker' = [worker EXCEPT ![w] = Available]
    PROVE  /\ worker' \in [Workers -> {Available} \cup Attempt]
           /\ \A v \in Workers \ {w} : worker'[v] = worker[v]
           /\ worker'[w].pc = "waiting"
<1>1. worker \in [Workers -> {Available} \cup Attempt] /\ Available.pc = "waiting"
  BY DEF JobTypeOK, Attempt, Available
<1> QED
  BY <1>1

\* The rows of the jobs after a step of an attempt.
LEMMA RowsAfter ==
    ASSUME JobTypeOK, NEW i \in Jobs, worker' \in [Workers -> {Available} \cup Attempt],
           message' = message \/ \E m \in 0..MaxRetries : message' = [message EXCEPT ![i] = m],
           result' = result \/ \E x \in {"PROGRESS", "SUCCESS", "FAILURE"} : result' = [result EXCEPT ![i] = x],
           paid' = paid \/ paid' = [paid EXCEPT ![i] = @ + 1],
           executed' = executed \/ executed' = [executed EXCEPT ![i] = @ + 1],
           failed' = failed \/ failed' = [failed EXCEPT ![i] = @ + 1],
           lost' \subseteq Jobs, mishaps' \in 0..MaxMishaps
    PROVE  JobTypeOK' /\ \A j \in Jobs \ {i} : /\ message'[j] = message[j] /\ result'[j] = result[j]
                                               /\ paid'[j] = paid[j] /\ executed'[j] = executed[j]
                                               /\ failed'[j] = failed[j]
<1>1. message' \in [Jobs -> -1..MaxRetries] /\ \A j \in Jobs \ {i} : message'[j] = message[j]
  BY DEF JobTypeOK
<1>2. /\ result' \in [Jobs -> {"NONE", "PENDING", "STARTED", "PROGRESS", "RETRY", "SUCCESS", "FAILURE"}]
      /\ \A j \in Jobs \ {i} : result'[j] = result[j]
  BY DEF JobTypeOK
<1>3. paid' \in [Jobs -> Nat] /\ \A j \in Jobs \ {i} : paid'[j] = paid[j]
  BY DEF JobTypeOK
<1>4. executed' \in [Jobs -> Nat] /\ \A j \in Jobs \ {i} : executed'[j] = executed[j]
  BY DEF JobTypeOK
<1>5. failed' \in [Jobs -> Nat] /\ \A j \in Jobs \ {i} : failed'[j] = failed[j]
  BY DEF JobTypeOK
<1> QED
  BY <1>1, <1>2, <1>3, <1>4, <1>5 DEF JobTypeOK, Attempt

\* The steps between the calls.
LEMMA StepsKeep ==
    ASSUME JobInv, NEW w \in Workers, Retrieve(w) \/ Validate(w) PROVE JobInv'
<1>0. worker[w].pc \in Busy
  BY DEF Retrieve, Validate, At, Busy
<1> PICK i \in Jobs : i = worker[w].job
  BY <1>0, AttemptFacts
<1>1. JobTypeOK /\ worker[w].pc \in Busy /\ worker[w].pc \notin {"audit", "report"}
      /\ UNCHANGED <<message, paid, executed, failed, lost, mishaps>>
      /\ result' = [result EXCEPT ![i] = "PROGRESS"]
  BY DEF Retrieve, Validate, At, Busy, JobInv, Progress, JobOf
<1>2. lost' \subseteq Jobs /\ mishaps' \in 0..MaxMishaps /\ mishaps' >= mishaps
  BY <1>1 DEF JobTypeOK
<1>3. \/ worker[w].pc = "retrieve" /\ Go(w, "generate")
      \/ worker[w].pc = "validate" /\ (Go(w, "completed") \/ Go(w, "raised"))
  BY DEF Retrieve, Validate, At
<1>4. /\ worker' \in [Workers -> {Available} \cup Attempt]
      /\ \A v \in Workers \ {w} : worker'[v] = worker[v]
      /\ worker'[w].job = i /\ worker'[w].retries = worker[w].retries
      /\ \/ worker[w].pc = "retrieve" /\ worker'[w].pc = "generate"
         \/ worker[w].pc = "validate" /\ worker'[w].pc \in {"completed", "raised"}
  BY <1>1, <1>3, GoOn, AttemptFacts
<1>5. i \in Jobs /\ JobTypeOK' /\ Only(w, i)
  <2>1. i \in Jobs
    BY <1>1, AttemptFacts
  <2>2. JobTypeOK' /\ \A j \in Jobs \ {i} : /\ message'[j] = message[j] /\ result'[j] = result[j]
                                            /\ paid'[j] = paid[j] /\ executed'[j] = executed[j]
                                            /\ failed'[j] = failed[j]
    BY <1>1, <1>2, <1>4, <2>1, RowsAfter
  <2> QED
    BY <1>2, <1>4, <2>1, <2>2 DEF Only
<1>6. /\ message'[i] = message[i] /\ paid'[i] = paid[i] /\ result'[i] = "PROGRESS"
      /\ Noted(i)' = Noted(i) /\ executed'[i] = executed[i]
  BY <1>1, <1>5 DEF JobTypeOK, Noted
<1>7. /\ worker[w].job = i /\ message'[i] = -1 /\ result'[i] # "NONE" /\ paid'[i] <= worker[w].retries + 1
      /\ worker'[w].pc \in {"retrieve", "generate"} => paid'[i] <= worker[w].retries
      /\ Noted(i)' <= paid'[i] /\ paid'[i] <= Noted(i)' + mishaps'
      /\ worker'[w].pc \in {"validate", "completed"} \/ result'[i] = "SUCCESS" => executed'[i] > 0
  BY <1>1, <1>4, <1>6, AttemptFacts
<1>8. worker'[w].pc \notin {"audit", "report"} /\ ~(message'[i] >= 0)
  BY <1>4, <1>7
<1> QED
  BY <1>1, <1>4, <1>5, <1>7, <1>8, AttemptStep

\* The record of a call that was answered, as EXECUTED or as FAILED.
LEMMA RecordsKeep ==
    ASSUME JobInv, NEW w \in Workers, AuditCall(w) \/ ReportCall(w) PROVE JobInv'
<1>0. worker[w].pc \in Busy
  BY DEF AuditCall, ReportCall, At, Busy
<1> PICK i \in Jobs : i = worker[w].job
  BY <1>0, AttemptFacts
<1>1. JobTypeOK /\ worker[w].pc \in Busy /\ worker[w].pc \in {"audit", "report"}
      /\ UNCHANGED <<message, result, paid, lost, mishaps>>
  BY DEF AuditCall, ReportCall, At, Busy, JobInv
<1>2. lost' \subseteq Jobs /\ mishaps' \in 0..MaxMishaps /\ mishaps' >= mishaps
  BY <1>1 DEF JobTypeOK
<1>3. \/ executed' = [executed EXCEPT ![i] = @ + 1] /\ failed' = failed /\ Go(w, "validate")
      \/ failed' = [failed EXCEPT ![i] = @ + 1] /\ executed' = executed /\ Go(w, "raised")
  BY DEF AuditCall, ReportCall, JobOf
<1>4. /\ worker' \in [Workers -> {Available} \cup Attempt]
      /\ \A v \in Workers \ {w} : worker'[v] = worker[v]
      /\ worker'[w].job = i /\ worker'[w].retries = worker[w].retries
      /\ \/ executed' = [executed EXCEPT ![i] = @ + 1] /\ failed' = failed /\ worker'[w].pc = "validate"
         \/ failed' = [failed EXCEPT ![i] = @ + 1] /\ executed' = executed /\ worker'[w].pc = "raised"
  BY <1>1, <1>3, GoOn, AttemptFacts
<1>5. i \in Jobs /\ JobTypeOK' /\ Only(w, i)
  <2>1. i \in Jobs
    BY <1>1, AttemptFacts
  <2>2. JobTypeOK' /\ \A j \in Jobs \ {i} : /\ message'[j] = message[j] /\ result'[j] = result[j]
                                            /\ paid'[j] = paid[j] /\ executed'[j] = executed[j]
                                            /\ failed'[j] = failed[j]
    BY <1>1, <1>2, <1>4, <2>1, RowsAfter
  <2> QED
    BY <1>2, <1>4, <2>1, <2>2 DEF Only
<1>6. /\ message'[i] = message[i] /\ paid'[i] = paid[i] /\ result'[i] = result[i]
      /\ \/ executed'[i] = executed[i] + 1 /\ failed'[i] = failed[i] /\ worker'[w].pc = "validate"
         \/ executed'[i] = executed[i] /\ failed'[i] = failed[i] + 1 /\ worker'[w].pc = "raised"
  BY <1>1, <1>4, <1>5 DEF JobTypeOK
<1>7. executed[i] \in Nat /\ failed[i] \in Nat
  BY <1>1, AttemptFacts
<1>8. Noted(i)' = Noted(i) + 1 /\ executed'[i] >= executed[i] /\ (worker'[w].pc = "validate" => executed'[i] > 0)
  BY <1>6, <1>7 DEF Noted
<1>9. /\ worker[w].job = i /\ message'[i] = -1 /\ result'[i] # "NONE" /\ paid'[i] <= worker[w].retries + 1
      /\ worker'[w].pc \in {"validate", "raised"}
      /\ Noted(i)' <= paid'[i] /\ paid'[i] <= Noted(i)' + mishaps'
      /\ worker'[w].pc \in {"validate", "completed"} \/ result'[i] = "SUCCESS" => executed'[i] > 0
  BY <1>1, <1>6, <1>7, <1>8, AttemptFacts
<1>10. worker'[w].pc \notin {"retrieve", "generate", "audit", "report"} /\ ~(message'[i] >= 0)
  BY <1>9
<1> QED
  BY <1>1, <1>4, <1>5, <1>9, <1>10, AttemptStep

\* The call of the model: what is paid for is to be recorded.
LEMMA GenerateKeeps == ASSUME JobInv, NEW w \in Workers, Generate(w) PROVE JobInv'
<1>0. worker[w].pc \in Busy
  BY DEF Generate, At, Busy
<1> PICK i \in Jobs : i = worker[w].job
  BY <1>0, AttemptFacts
<1>1. JobTypeOK /\ worker[w].pc \in Busy /\ worker[w].pc = "generate"
      /\ UNCHANGED <<message, executed, failed, lost, mishaps>>
      /\ result' = [result EXCEPT ![i] = "PROGRESS"]
  BY DEF Generate, At, Busy, JobInv, Progress, JobOf
<1>2. lost' \subseteq Jobs /\ mishaps' \in 0..MaxMishaps /\ mishaps' >= mishaps
  BY <1>1 DEF JobTypeOK
<1>3. \/ paid' = [paid EXCEPT ![i] = @ + 1] /\ (Go(w, "audit") \/ Go(w, "report"))
      \/ Go(w, "raised") /\ paid' = paid
  BY DEF Generate, JobOf
<1>4. /\ worker' \in [Workers -> {Available} \cup Attempt]
      /\ \A v \in Workers \ {w} : worker'[v] = worker[v]
      /\ worker'[w].job = i /\ worker'[w].retries = worker[w].retries
      /\ \/ paid' = [paid EXCEPT ![i] = @ + 1] /\ worker'[w].pc \in {"audit", "report"}
         \/ paid' = paid /\ worker'[w].pc = "raised"
  BY <1>1, <1>3, GoOn, AttemptFacts
<1>5. i \in Jobs /\ JobTypeOK' /\ Only(w, i)
  <2>1. i \in Jobs
    BY <1>1, AttemptFacts
  <2>2. JobTypeOK' /\ \A j \in Jobs \ {i} : /\ message'[j] = message[j] /\ result'[j] = result[j]
                                            /\ paid'[j] = paid[j] /\ executed'[j] = executed[j]
                                            /\ failed'[j] = failed[j]
    BY <1>1, <1>2, <1>4, <2>1, RowsAfter
  <2> QED
    BY <1>2, <1>4, <2>1, <2>2 DEF Only
<1>6. /\ message'[i] = message[i] /\ result'[i] = "PROGRESS" /\ Noted(i)' = Noted(i)
      /\ paid'[i] = IF worker'[w].pc \in {"audit", "report"} THEN paid[i] + 1 ELSE paid[i]
  BY <1>1, <1>4, <1>5 DEF JobTypeOK, Noted
<1>7. /\ worker[w].job = i /\ message'[i] = -1 /\ paid'[i] <= worker[w].retries + 1
      /\ worker'[w].pc \in {"audit", "report", "raised"}
      /\ worker'[w].pc \in {"audit", "report"} => Noted(i)' + 1 <= paid'[i] /\ paid'[i] <= Noted(i)' + 1 + mishaps'
      /\ worker'[w].pc \notin {"audit", "report"} => Noted(i)' <= paid'[i] /\ paid'[i] <= Noted(i)' + mishaps'
  <2>1. Noted(i) \in Nat
    BY <1>1, AttemptFacts DEF Noted
  <2> QED
    BY <1>1, <1>4, <1>6, <2>1, AttemptFacts
<1>8. ~(message'[i] >= 0) /\ result'[i] # "NONE" /\ result'[i] # "SUCCESS"
      /\ worker'[w].pc \notin {"retrieve", "generate", "validate", "completed"}
  BY <1>6, <1>7
<1> QED
  BY <1>1, <1>4, <1>5, <1>7, <1>8, AttemptStep

\* The ends of an attempt: success, failure, and the publication of its retry.
LEMMA EndsKeep ==
    ASSUME JobInv, NEW w \in Workers, Complete(w) \/ Retry(w) \/ GiveUp(w) PROVE JobInv'
<1>0. worker[w].pc \in Busy
  BY DEF Complete, Retry, GiveUp, At, Busy
<1> PICK i \in Jobs : i = worker[w].job
  BY <1>0, AttemptFacts
<1>1. JobTypeOK /\ worker[w].pc \in {"completed", "raised"} /\ worker[w].pc \in Busy
      /\ UNCHANGED <<paid, executed, failed, lost, mishaps>>
  BY DEF Complete, Retry, GiveUp, At, Busy, JobInv
<1>2. lost' \subseteq Jobs /\ mishaps' \in 0..MaxMishaps /\ mishaps' >= mishaps
  BY <1>1 DEF JobTypeOK
<1>3. \/ /\ worker[w].pc = "completed" /\ message' = message /\ result' = [result EXCEPT ![i] = "SUCCESS"]
         /\ worker' = [worker EXCEPT ![w] = Available]
      \/ /\ message' = message /\ result' = [result EXCEPT ![i] = "FAILURE"] /\ worker' = [worker EXCEPT ![w] = Available]
      \/ /\ message' = [message EXCEPT ![i] = worker[w].retries + 1] /\ result' = result /\ Go(w, "mark")
         /\ worker[w].retries < MaxRetries
  BY DEF Complete, Retry, GiveUp, Again, MayRetry, JobOf, At
<1>4. /\ worker' \in [Workers -> {Available} \cup Attempt]
      /\ \A v \in Workers \ {w} : worker'[v] = worker[v]
      /\ worker'[w].pc \in {"waiting", "mark"}
      /\ worker'[w].pc # "waiting" => worker'[w].job = i /\ worker'[w].retries = worker[w].retries
  BY <1>1, <1>3, GoOn, EndsWaiting, AttemptFacts
<1>5. i \in Jobs /\ JobTypeOK' /\ Only(w, i)
  <2>1. i \in Jobs /\ worker[w].retries \in 0..MaxRetries
    BY <1>1, AttemptFacts
  <2>2. message' = message \/ \E m \in 0..MaxRetries : message' = [message EXCEPT ![i] = m]
    <3>1. worker[w].retries < MaxRetries => worker[w].retries + 1 \in 0..MaxRetries
      BY AgentJobConstants, <2>1
    <3> QED
      BY <1>3, <3>1
  <2>3. JobTypeOK' /\ \A j \in Jobs \ {i} : /\ message'[j] = message[j] /\ result'[j] = result[j]
                                            /\ paid'[j] = paid[j] /\ executed'[j] = executed[j]
                                            /\ failed'[j] = failed[j]
    BY <1>1, <1>2, <1>3, <1>4, <2>1, <2>2, RowsAfter
  <2> QED
    BY <1>2, <1>4, <2>1, <2>3 DEF Only
<1>6. /\ paid'[i] = paid[i] /\ executed'[i] = executed[i] /\ Noted(i)' = Noted(i)
      /\ message'[i] \in {message[i], worker[w].retries + 1}
      /\ result'[i] \in {result[i], "FAILURE"} \/ (result'[i] = "SUCCESS" /\ worker[w].pc = "completed")
  BY <1>1, <1>3, <1>5 DEF JobTypeOK, Noted
<1>7. /\ worker[w].job = i /\ result'[i] # "NONE" /\ paid'[i] <= worker[w].retries + 1
      /\ message'[i] >= 0 => paid'[i] <= message'[i]
      /\ Noted(i)' <= paid'[i] /\ paid'[i] <= Noted(i)' + mishaps'
      /\ result'[i] = "SUCCESS" => executed'[i] > 0
  BY <1>1, <1>6, AttemptFacts
<1>8. worker'[w].pc \notin Busy /\ worker'[w].pc \notin {"audit", "report", "retrieve", "generate", "validate", "completed"}
  BY <1>4 DEF Busy
<1> QED
  BY <1>1, <1>4, <1>5, <1>7, <1>8, AttemptStep

\* A record that fails, or the death of a worker, is a mishap that pays for one missing record.
LEMMA MishapsKeep ==
    ASSUME JobInv, NEW w \in Workers, worker[w].pc \in Busy, StepFails(w) \/ Die(w) PROVE JobInv'
<1> PICK i \in Jobs : i = worker[w].job
  BY AttemptFacts
<1>1. JobTypeOK /\ mishaps' = mishaps + 1 /\ mishaps < MaxMishaps
      /\ UNCHANGED <<message, result, paid, executed, failed>>
      /\ lost' \in {lost, lost \cup {i}}
      /\ \/ worker[w].pc = "audit" /\ Go(w, "report")
         \/ Go(w, "raised")
         \/ worker' = [worker EXCEPT ![w] = Available]
  BY DEF JobInv, StepFails, Die, Mishap, JobOf, At
<1>2. mishaps' \in 0..MaxMishaps /\ mishaps' >= mishaps
  BY AgentJobConstants, <1>1 DEF JobTypeOK
<1>3. i \in Jobs /\ lost' \subseteq Jobs
  BY <1>1, AttemptFacts DEF JobTypeOK
<1>4. /\ worker' \in [Workers -> {Available} \cup Attempt]
      /\ \A v \in Workers \ {w} : worker'[v] = worker[v]
      /\ worker'[w].pc \in {"waiting", "raised"} \/ (worker'[w].pc = "report" /\ worker[w].pc = "audit")
      /\ worker'[w].pc # "waiting" => worker'[w].job = i /\ worker'[w].retries = worker[w].retries
  BY <1>1, GoOn, EndsWaiting, AttemptFacts
<1>5. JobTypeOK' /\ Only(w, i)
  <2>1. JobTypeOK' /\ \A j \in Jobs \ {i} : /\ message'[j] = message[j] /\ result'[j] = result[j]
                                            /\ paid'[j] = paid[j] /\ executed'[j] = executed[j]
                                            /\ failed'[j] = failed[j]
    BY <1>1, <1>2, <1>3, <1>4, RowsAfter
  <2> QED
    BY <1>2, <1>4, <2>1 DEF Only
<1>6. /\ Noted(i) \in Nat /\ Noted(i)' = Noted(i)
      /\ worker[w].pc \notin {"audit", "report"} => Noted(i) <= paid[i] /\ paid[i] <= Noted(i) + mishaps
      /\ worker[w].pc \in {"audit", "report"} => Noted(i) + 1 <= paid[i] /\ paid[i] <= Noted(i) + 1 + mishaps
  BY <1>1, AttemptFacts DEF Noted
<1>7. /\ worker[w].job = i /\ message'[i] = -1 /\ result'[i] # "NONE" /\ paid'[i] <= worker[w].retries + 1
      /\ paid[i] \in Nat /\ paid' = paid /\ mishaps \in Nat
      /\ result'[i] = "SUCCESS" => executed'[i] > 0
  BY <1>1, AttemptFacts
<1>8. /\ worker'[w].pc \in {"audit", "report"} => Noted(i)' + 1 <= paid'[i] /\ paid'[i] <= Noted(i)' + 1 + mishaps'
      /\ worker'[w].pc \notin {"audit", "report"} => Noted(i)' <= paid'[i] /\ paid'[i] <= Noted(i)' + mishaps'
  BY <1>1, <1>4, <1>6, <1>7
<1>9. ~(message'[i] >= 0) /\ worker'[w].pc \notin {"retrieve", "generate", "validate", "completed"}
  BY <1>4, <1>7
<1> QED
  BY <1>3, <1>4, <1>5, <1>7, <1>8, <1>9, AttemptStep

\* A worker that has published its retry marks the job, or dies: its attempt is over already.
LEMMA OverKeeps ==
    ASSUME JobInv, NEW w \in Workers, worker[w].pc = "mark", Mark(w) \/ Die(w) PROVE JobInv'
<1> DEFINE i == worker[w].job
<1>1. i \in Jobs /\ worker' = [worker EXCEPT ![w] = Available] /\ UNCHANGED <<message, paid, executed, failed, lost>>
      /\ mishaps' \in 0..MaxMishaps /\ mishaps' >= mishaps
  BY AgentJobConstants, WorkerTypes DEF Mark, Die, Mishap, At, JobInv, JobTypeOK
<1>2. (result'[i] = "NONE" => result[i] = "NONE") /\ (result'[i] = "SUCCESS" => result[i] = "SUCCESS")
      /\ (\A j \in Jobs \ {i} : result'[j] = result[j])
      /\ result' \in [Jobs -> {"NONE", "PENDING", "STARTED", "PROGRESS", "RETRY", "SUCCESS", "FAILURE"}]
  BY <1>1 DEF Mark, Marked, Die, At, JobOf, JobInv, JobTypeOK
<1>3. JobTypeOK'
  BY <1>1, <1>2 DEF JobInv, JobTypeOK
<1>4. \A j \in Jobs, v \in Workers : /\ On(v, j)' <=> On(v, j)
                                     /\ On(v, j) => worker'[v] = worker[v]
                                     /\ Recording(v, j)' <=> Recording(v, j)
  BY <1>1 DEF On, Recording, Busy, Available, JobInv, JobTypeOK
<1>5. ASSUME NEW j \in Jobs PROVE Accounts(j)'
  <2>1. Accounts(j) /\ (result'[j] = "NONE" => result[j] = "NONE") /\ (result'[j] = "SUCCESS" => result[j] = "SUCCESS")
        /\ paid[j] \in Nat /\ executed[j] \in Nat /\ failed[j] \in Nat /\ mishaps \in Nat
    BY <1>2 DEF JobInv, JobTypeOK
  <2>2. OneToken(j)'
    BY <1>1, <1>4, <2>1 DEF Accounts, OneToken
  <2>3. Budgeted(j)'
    BY <1>1, <1>4, <2>1 DEF Accounts, Budgeted
  <2>4. Recorded(j)'
    BY <1>1, <1>4, <2>1 DEF Accounts, Recorded, Noted, IsRecording
  <2> QED
    BY <2>2, <2>3, <2>4 DEF Accounts
<1> QED
  BY <1>3, <1>5 DEF JobInv

LEMMA JobNextKeeps == ASSUME JobInv, [JobNext]_jobVars PROVE JobInv'
<1>1. CASE \E i \in Jobs : Submit(i)
  BY <1>1, SubmitKeeps
<1>2. ASSUME NEW w \in Workers, Work(w) PROVE JobInv'
  <2>1. Mark(w) => worker[w].pc = "mark"
    BY DEF Mark, At
  <2> QED
    BY <1>2, <2>1, TakeKeeps, StepsKeep, RecordsKeep, GenerateKeeps, EndsKeep, OverKeeps DEF Work
<1>3. ASSUME NEW w \in Workers, StepFails(w) \/ Die(w) PROVE JobInv'
  <2>1. worker[w].pc \in Busy \/ (worker[w].pc = "mark" /\ Die(w))
    BY <1>3, WorkerTypes DEF StepFails, Die, At, JobInv, Attempt, Busy
  <2> QED
    BY <1>3, <2>1, MishapsKeep, OverKeeps
<1>4. CASE UNCHANGED jobVars
  BY <1>4 DEF jobVars, JobInv, JobTypeOK, Accounts, OneToken, Budgeted, Recorded, Noted, On, IsRecording, Recording
<1> QED
  BY <1>1, <1>2, <1>3, <1>4 DEF JobNext

----------------------------------------------------------------------------
\* The inductive invariant holds in every reachable state of the queue.
THEOREM QueueIsSound == JobSpec => []JobInv
<1>1. JobInit => JobInv
  BY InitJobInv
<1>2. JobInv /\ [JobNext]_jobVars => JobInv'
  BY JobNextKeeps
<1> QED
  BY <1>1, <1>2, PTL DEF JobSpec

----------------------------------------------------------------------------
(***************************************************************************)
(* How a job ends: one that succeeded has no message and no attempt; and   *)
(* one that is waited for has one or the other, unless it was lost.        *)
(***************************************************************************)
Ended(j) == result[j] = "SUCCESS" => message[j] = -1 /\ \A w \in Workers : ~On(w, j)

Carried(j) == result[j] \in {"PENDING", "STARTED", "PROGRESS"} =>
    j \in lost \/ message[j] >= 0 \/ \E w \in Workers : On(w, j)

JobsAreCarried == \A j \in Jobs : Carried(j)

EndInv == \A j \in Jobs : Ended(j) /\ Carried(j)

LEMMA InitEndInv == ASSUME JobInit PROVE EndInv
  BY DEF JobInit, EndInv, Ended, Carried, On, Available, Busy

\* A step of one worker about one job: the other jobs are as they were.
LEMMA EndStep ==
    ASSUME EndInv, NEW w \in Workers, NEW i \in Jobs, lost \subseteq lost',
           \A v \in Workers \ {w} : worker'[v] = worker[v],
           \A j \in Jobs \ {i} : message'[j] = message[j] /\ result'[j] = result[j],
           worker[w].pc \notin Busy \/ worker[w].job = i,
           worker'[w].pc \notin Busy \/ worker'[w].job = i,
           Ended(i)', Carried(i)'
    PROVE  EndInv'
<1> SUFFICES ASSUME NEW j \in Jobs, j # i PROVE Ended(j)' /\ Carried(j)'
  BY DEF EndInv
<1>1. \A v \in Workers : On(v, j)' <=> On(v, j)
  BY DEF On
<1>2. Ended(j) /\ Carried(j) /\ message'[j] = message[j] /\ result'[j] = result[j]
  BY DEF EndInv
<1> QED
  BY <1>1, <1>2 DEF Ended, Carried

\* An attempt that is on has the only token of its job, and no other worker has one.
LEMMA Alone ==
    ASSUME JobInv, EndInv, NEW w \in Workers, worker[w].pc \in Busy
    PROVE  /\ worker[w].job \in Jobs /\ worker[w] \in Attempt /\ On(w, worker[w].job)
           /\ message[worker[w].job] = -1 /\ result[worker[w].job] # "SUCCESS"
           /\ \A v \in Workers \ {w} : ~On(v, worker[w].job)
<1>1. worker[w].job \in Jobs /\ worker[w] \in Attempt /\ On(w, worker[w].job)
  BY WorkerTypes DEF JobInv, On, Busy
<1> QED
  BY <1>1 DEF JobInv, Accounts, OneToken, EndInv, Ended

LEMMA SubmitEnds == ASSUME JobInv, EndInv, NEW i \in Jobs, Submit(i) PROVE EndInv'
<1>1. \A w \in Workers, j \in Jobs : On(w, j)' <=> On(w, j)
  BY DEF On, Submit
<1>2. message'[i] = 0 /\ result'[i] = "PENDING"
      /\ \A j \in Jobs \ {i} : message'[j] = message[j] /\ result'[j] = result[j]
  BY DEF Submit, JobInv, JobTypeOK
<1>3. lost' = lost
  BY DEF Submit
<1> QED
  BY <1>1, <1>2, <1>3 DEF EndInv, Ended, Carried

LEMMA TakeEnds == ASSUME JobInv, EndInv, NEW w \in Workers, Take(w) PROVE EndInv'
<1>1. PICK i \in Jobs :
          /\ worker[w].pc = "waiting" /\ message' = [message EXCEPT ![i] = -1]
          /\ result' = [result EXCEPT ![i] = "STARTED"]
          /\ worker' = [worker EXCEPT ![w] = [pc |-> "retrieve", job |-> i, retries |-> message[i]]]
          /\ lost' = lost
  BY DEF Take, At
<1>2. /\ worker'[w].pc = "retrieve" /\ worker'[w].job = i /\ result'[i] = "STARTED"
      /\ \A v \in Workers \ {w} : worker'[v] = worker[v]
      /\ \A j \in Jobs \ {i} : message'[j] = message[j] /\ result'[j] = result[j]
  BY <1>1 DEF JobInv, JobTypeOK
<1>3. Ended(i)' /\ Carried(i)'
  BY <1>2 DEF Ended, Carried, On, Busy
<1> QED
  BY <1>1, <1>2, <1>3, EndStep DEF Busy

\* An attempt goes on, or the last thing it does is to report how it ended.
LEMMA AttemptEnds ==
    ASSUME JobInv, EndInv, NEW w \in Workers,
           \/ Retrieve(w) \/ Generate(w) \/ AuditCall(w) \/ ReportCall(w) \/ Validate(w)
           \/ Complete(w) \/ GiveUp(w) \/ StepFails(w)
    PROVE  EndInv'
<1>1. worker[w].pc \in Busy /\ UNCHANGED <<message, lost>> /\ JobTypeOK
  BY DEF Retrieve, Generate, AuditCall, ReportCall, Validate, Complete, GiveUp, StepFails, At, Busy, JobInv
<1> PICK i \in Jobs : i = worker[w].job
  BY <1>1, Alone
<1>2. i \in Jobs /\ worker[w] \in Attempt /\ message[i] = -1 /\ result[i] # "SUCCESS" /\ On(w, i)
      /\ \A v \in Workers \ {w} : ~On(v, i)
  BY <1>1, Alone
<1>3. \/ /\ \E where \in Busy : Go(w, where)
         /\ result' = result \/ result' = [result EXCEPT ![i] = "PROGRESS"]
      \/ /\ worker' = [worker EXCEPT ![w] = Available]
         /\ \E x \in {"SUCCESS", "FAILURE"} : result' = [result EXCEPT ![i] = x]
  BY DEF Retrieve, Generate, AuditCall, ReportCall, Validate, Complete, GiveUp, StepFails, Progress, JobOf, Busy
<1>4. \A j \in Jobs \ {i} : message'[j] = message[j] /\ result'[j] = result[j]
  BY <1>1, <1>2, <1>3 DEF JobTypeOK
<1>5. CASE \E where \in Busy : Go(w, where) /\ (result' = result \/ result' = [result EXCEPT ![i] = "PROGRESS"])
  <2>1. worker'[w].pc \in Busy /\ worker'[w].job = i /\ \A v \in Workers \ {w} : worker'[v] = worker[v]
    BY <1>1, <1>2, <1>5, GoOn DEF Busy
  <2>2. result'[i] # "SUCCESS"
    BY <1>1, <1>2, <1>5 DEF JobTypeOK
  <2>3. Ended(i)' /\ Carried(i)'
    BY <2>1, <2>2 DEF Ended, Carried, On
  <2> QED
    BY <1>1, <1>2, <1>4, <2>1, <2>3, EndStep
<1>6. CASE /\ worker' = [worker EXCEPT ![w] = Available]
           /\ \E x \in {"SUCCESS", "FAILURE"} : result' = [result EXCEPT ![i] = x]
  <2>1. worker'[w].pc \notin Busy /\ \A v \in Workers \ {w} : worker'[v] = worker[v]
    BY <1>1, <1>6, EndsWaiting DEF Busy
  <2>2. result'[i] \in {"SUCCESS", "FAILURE"}
    BY <1>1, <1>2, <1>6 DEF JobTypeOK
  <2>3. Ended(i)' /\ Carried(i)'
    BY <1>1, <1>2, <2>1, <2>2 DEF Ended, Carried, On
  <2> QED
    BY <1>1, <1>2, <1>4, <2>1, <2>3, EndStep
<1> QED
  BY <1>3, <1>5, <1>6

\* The message of the retry is there when the attempt is over.
LEMMA RetryEnds == ASSUME JobInv, EndInv, NEW w \in Workers, Retry(w) PROVE EndInv'
<1> PICK i \in Jobs : i = worker[w].job
  BY Alone DEF Retry, At, Busy
<1>1. /\ worker[w].pc \in Busy /\ JobTypeOK /\ lost' = lost /\ result' = result /\ Go(w, "mark")
      /\ message' = [message EXCEPT ![i] = worker[w].retries + 1]
  BY DEF Retry, At, Busy, JobInv, Again, JobOf
<1>2. i \in Jobs /\ worker[w] \in Attempt /\ result[i] # "SUCCESS"
  BY <1>1, Alone
<1>3. worker'[w].pc = "mark" /\ \A v \in Workers \ {w} : worker'[v] = worker[v]
  BY <1>1, <1>2, GoOn
<1>4. worker[w].retries \in 0..MaxRetries /\ MaxRetries \in Nat
  BY <1>2, AgentJobConstants DEF Attempt
<1>5. message'[i] = worker[w].retries + 1 /\ \A j \in Jobs \ {i} : message'[j] = message[j] /\ result'[j] = result[j]
  BY <1>1, <1>2 DEF JobTypeOK
<1>6. message'[i] >= 0
  BY <1>4, <1>5
<1>7. Ended(i)' /\ Carried(i)'
  BY <1>1, <1>2, <1>6 DEF Ended, Carried
<1> QED
  BY <1>1, <1>2, <1>3, <1>5, <1>7, EndStep DEF Busy

\* Whose attempt is over marks its job; whoever dies in an attempt loses it.
LEMMA MarkEnds == ASSUME JobInv, EndInv, NEW w \in Workers, Mark(w) \/ Die(w) PROVE EndInv'
<1> PICK i \in Jobs : i = worker[w].job
  BY WorkerTypes DEF Mark, Die, At, JobInv
<1>1. /\ JobTypeOK /\ worker[w].pc # "waiting" /\ message' = message /\ lost \subseteq lost'
      /\ worker' = [worker EXCEPT ![w] = Available]
  BY DEF Mark, Die, At, JobInv
<1>2. i \in Jobs /\ worker[w] \in Attempt
  BY <1>1, WorkerTypes
<1>3. worker'[w].pc \notin Busy /\ \A v \in Workers \ {w} : worker'[v] = worker[v]
  BY <1>1, EndsWaiting DEF Busy
<1>4. CASE Mark(w)
  <2>1. /\ worker[w].pc = "mark" /\ \A j \in Jobs \ {i} : message'[j] = message[j] /\ result'[j] = result[j]
        /\ result'[i] = IF result[i] = "SUCCESS" THEN "SUCCESS" ELSE "RETRY"
    BY <1>1, <1>2, <1>4 DEF Mark, Marked, JobOf, At, JobTypeOK
  <2>2. \A v \in Workers : On(v, i)' => On(v, i)
    BY <1>3 DEF On
  <2>3. Ended(i)' /\ Carried(i)'
    BY <1>1, <1>2, <2>1, <2>2 DEF EndInv, Ended, Carried
  <2> QED
    BY <1>1, <1>2, <1>3, <2>1, <2>3, EndStep
<1>5. CASE Die(w)
  <2>1. result' = result /\ (worker[w].pc # "mark" => i \in lost')
    BY <1>5 DEF Die, At, JobOf
  <2>2. \A v \in Workers : On(v, i)' => On(v, i)
    BY <1>3 DEF On
  <2>3. worker[w].pc = "mark" => \A v \in Workers : On(v, i)' <=> On(v, i)
    BY <1>3 DEF On, Busy
  <2>4. Ended(i)' /\ Carried(i)'
    BY <1>1, <1>2, <2>1, <2>2, <2>3 DEF EndInv, Ended, Carried
  <2> QED
    BY <1>1, <1>2, <1>3, <2>1, <2>4, EndStep
<1> QED
  BY <1>4, <1>5

LEMMA JobNextEnds == ASSUME JobInv, EndInv, [JobNext]_jobVars PROVE EndInv'
<1>1. CASE UNCHANGED jobVars
  BY <1>1 DEF jobVars, EndInv, Ended, Carried, On
<1>2. CASE JobNext
  BY <1>2, SubmitEnds, TakeEnds, AttemptEnds, RetryEnds, MarkEnds DEF JobNext, Work
<1> QED
  BY <1>1, <1>2

\* Only attempts and messages write the rows of a job, and after a success there is none.
LEMMA SuccessStays ==
    ASSUME JobInv, EndInv, JobNext, NEW j \in Jobs, result[j] = "SUCCESS"
    PROVE  result'[j] = "SUCCESS" /\ message'[j] = -1 /\ paid'[j] = paid[j]
<1>1. JobTypeOK /\ message[j] = -1 /\ \A w \in Workers : ~On(w, j)
  BY DEF JobInv, EndInv, Ended
<1>2. CASE \E i \in Jobs : Submit(i)
  BY <1>1, <1>2 DEF Submit, JobTypeOK
<1>3. ASSUME NEW w \in Workers, Take(w) PROVE result'[j] = "SUCCESS" /\ message'[j] = -1 /\ paid'[j] = paid[j]
  BY <1>1, <1>3 DEF Take, JobTypeOK
<1>4. ASSUME NEW w \in Workers, Mark(w) \/ Die(w)
      PROVE  result'[j] = "SUCCESS" /\ message'[j] = -1 /\ paid'[j] = paid[j]
  BY <1>1, <1>4 DEF Mark, Marked, Die, JobOf, JobTypeOK
<1>5. ASSUME NEW w \in Workers, Work(w) \/ StepFails(w), ~Take(w), ~Mark(w)
      PROVE  result'[j] = "SUCCESS" /\ message'[j] = -1 /\ paid'[j] = paid[j]
  <2>1. worker[w].pc \in Busy
    BY <1>5 DEF Work, StepFails, Retrieve, Generate, AuditCall, ReportCall, Validate, Complete, Retry, GiveUp, At, Busy
  <2>2. JobOf(w) # j
    BY <1>1, <2>1 DEF On, JobOf
  <2> QED
    BY <1>1, <1>5, <2>2
    DEF Work, StepFails, Retrieve, Generate, AuditCall, ReportCall, Validate, Complete, Retry, GiveUp,
        Progress, Again, JobTypeOK
<1> QED
  BY <1>2, <1>3, <1>4, <1>5 DEF JobNext, Work

\* What is counted by the audit in progress: one call, or none.
LEMMA OneAudit == ASSUME JobInv, NEW j \in Jobs
  PROVE Cardinality(Auditing(j)) = IF IsRecording(j) THEN 1 ELSE 0
<1>1. CASE IsRecording(j)
  <2>1. PICK w \in Workers : Recording(w, j)
    BY <1>1 DEF IsRecording
  <2>2. \A v \in Workers : Recording(v, j) => v = w
    BY <2>1 DEF JobInv, Accounts, OneToken, On, Recording, Busy
  <2>3. Auditing(j) = {w}
    BY <2>1, <2>2 DEF Auditing, At, JobOf, Recording
  <2> QED
    BY <1>1, <2>3, FS_Singleton
<1>2. CASE ~IsRecording(j)
  <2>1. Auditing(j) = {}
    BY <1>2 DEF Auditing, At, JobOf, IsRecording, Recording
  <2> QED
    BY <1>2, <2>1, FS_EmptySet
<1> QED
  BY <1>1, <1>2

\* What the invariant says of one job is what is promised of its payments.
LEMMA PaidIsAccounted == JobInv => PaymentsAreAccounted
<1> SUFFICES ASSUME JobInv, NEW j \in Jobs
    PROVE  /\ paid[j] <= MaxRetries + 1
           /\ executed[j] + failed[j] + Cardinality(Auditing(j)) \in (paid[j] - mishaps)..paid[j]
           /\ result[j] = "SUCCESS" => executed[j] > 0
  BY DEF PaymentsAreAccounted
<1>1. Accounts(j) /\ paid[j] \in Nat /\ executed[j] \in Nat /\ failed[j] \in Nat /\ mishaps \in Nat
  BY DEF JobInv, JobTypeOK
<1> QED
  BY <1>1, OneAudit DEF Accounts, Budgeted, Recorded, Noted

(***************************************************************************)
(* However attempts fail, are overtaken or die, a job pays for at most one *)
(* call per attempt, and the audit log has each of them, as EXECUTED or as *)
(* FAILED (an answer that is empty is paid for too), but for a mishap (the *)
(* automatic retry of run_agent_job, invoke_tool, generate_answer).        *)
(***************************************************************************)
THEOREM PaidCallsAreAccounted == JobSpec => []PaymentsAreAccounted
<1> QED
  BY PaidIsAccounted, QueueIsSound, PTL

\* The invariant of the ends of jobs holds in every reachable state of the queue.
THEOREM JobsEndOnce == JobSpec => []EndInv
<1>1. JobInit => EndInv
  BY InitEndInv
<1>2. JobInv /\ EndInv /\ [JobNext]_jobVars => EndInv'
  BY JobNextEnds
<1> QED
  BY <1>1, <1>2, QueueIsSound, PTL DEF JobSpec

(***************************************************************************)
(* What a job that is queued or in progress can still hope for: a message, *)
(* an attempt, or the note that it was lost with its worker.  It is what   *)
(* JobsSettle rests on besides fairness (run_agent_job, its retries).      *)
(***************************************************************************)
THEOREM JobsAreNotForgotten == JobSpec => []JobsAreCarried
<1>1. EndInv => JobsAreCarried
  BY DEF EndInv, JobsAreCarried
<1> QED
  BY <1>1, JobsEndOnce, PTL

\* A success is not overwritten, queued again or paid again, whatever attempts or marks come late.
THEOREM SuccessLasts == JobSpec => SuccessIsFinal
<1>1. JobInv /\ EndInv /\ [JobNext]_jobVars =>
          [\A j \in Jobs : result[j] = "SUCCESS" =>
              result'[j] = "SUCCESS" /\ message'[j] = -1 /\ paid'[j] = paid[j]]_jobVars
  BY SuccessStays
<1> QED
  BY <1>1, QueueIsSound, JobsEndOnce, PTL DEF JobSpec, SuccessIsFinal
=============================================================================
