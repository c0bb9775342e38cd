------------------------ MODULE GovernedAgent_proofs ------------------------
(***************************************************************************)
(* The governed refund agent makes no refund without an approval, tells    *)
(* its callers the truth and forgets what it told in two ways only, for    *)
(* every number of sessions, requests, refunds, failing writes, deaths of  *)
(* the process and files it cannot read.                                   *)
(***************************************************************************)
EXTENDS GovernedAgent, TLAPS

\* A call that has its refund: the one it names has the arguments of the proposal.
HasRefund == call.pc \in {"save", "audit"} \/ (call.pc = "done" /\ call.result = "succeeded")

CallIsTrue == HasRefund =>
    /\ call.refund \in 1..Len(refunds)
    /\ refunds[call.refund].request = call.proposal.request
    /\ Entitled(call.proposal)
    /\ call.pc = "done" => KeyOf(call.proposal.request) \in audit

\* What a call in progress holds is what its key stands for.
CallIsCurrent ==
    /\ call.pc \in {"save", "audit"} => memory[KeyOf(call.proposal.request)] = call.refund
    /\ call.pc = "audit" => call.refund \in unsaved \/ file[KeyOf(call.proposal.request)] = call.refund

\* Memory is ahead of the file by the refunds whose save failed, and the one that is being saved.
FileFollows == \A k \in Keys : memory[k] # 0 =>
    memory[k] \in unsaved \/ file[k] = memory[k] \/ (call.pc = "save" /\ call.refund = memory[k])

\* A result of approval_required was given to a proposal that is entitled.
AskedIsEntitled == call.pc = "done" /\ call.result = "approval_required" => Entitled(call.proposal)

\* The session that runs is the one whose proposal is in execution.
RunningIsCalled == \A s \in Sessions : session[s].phase = "running" =>
    call.pc # "none" /\ session[s].proposal = call.proposal

RefundsAreBounded == Len(refunds) <= MaxRefunds

\* The inductive invariant.
AgentInv ==
    /\ TypeOK
    /\ RefundsAreBounded
    /\ CallIsTrue
    /\ CallIsCurrent
    /\ FileFollows
    /\ AskedIsEntitled
    /\ RunningIsCalled
    /\ RefundsAreApproved
    /\ ToldIsKept

----------------------------------------------------------------------------
\* The fields of a call, by its place.
LEMMA CallFields ==
    ASSUME call \in Calls
    PROVE  /\ call.pc \in {"none", "execute", "save", "audit", "done"}
           /\ call.pc = "none" <=> call = NoCall
           /\ call.pc # "none" => call.proposal \in Proposals
           /\ call.pc \in {"save", "audit"} => call.refund \in 1..MaxRefunds
           /\ call.pc = "done" => call.result \in Results \cup {"succeeded"}
  BY DEF Calls, NoCall, Results

\* The fields of a session.
LEMMA SessionFields ==
    ASSUME NEW c \in {Idle} \cup [phase : {"running", "await"}, proposal : Proposals]
    PROVE  /\ c.phase = "idle" <=> c = Idle
           /\ c.phase \in {"idle", "running", "await"}
           /\ c.phase # "idle" => c.proposal \in Proposals
  BY DEF Idle

\* evaluate allows a proposal only under an approval that covers it.
LEMMA VerdictIsDeserved ==
    ASSUME NEW p
    PROVE  /\ Verdict(p) = "allow" =>
                  WellFormed(p) /\ Entitled(p) /\ p.approval # None /\ Covers(p)
           /\ Verdict(p) = "approval_required" => Entitled(p)
           /\ Verdict(p) \in {"invalid", "denied", "approval_required", "allow"}
<1>1. CASE ~WellFormed(p)
  BY <1>1 DEF Verdict
<1>2. CASE WellFormed(p) /\ ~Entitled(p)
  BY <1>2 DEF Verdict
<1>3. CASE WellFormed(p) /\ Entitled(p) /\ p.approval = None
  BY <1>3 DEF Verdict
<1>4. CASE WellFormed(p) /\ Entitled(p) /\ p.approval # None
  BY <1>4 DEF Verdict
<1> QED
  BY <1>1, <1>2, <1>3, <1>4

\* What passes without refusal is allowed, and a known key has the same arguments.
LEMMA PassedIsAllowed ==
    ASSUME NEW p
    PROVE  /\ Refusal(p) = None =>
                  /\ Verdict(p) = "allow"
                  /\ memory[KeyOf(p.request)] # 0 => SameArguments(p, memory[KeyOf(p.request)])
           /\ Refusal(p) # None => Refusal(p) \in Results
           /\ Refusal(p) = "approval_required" => Verdict(p) = "approval_required"
  BY VerdictIsDeserved, GatewayConstants DEF Refusal, Results

----------------------------------------------------------------------------
\* What is left of the type invariant when a step keeps the sessions.
SessionTypes ==
    /\ session \in [Sessions -> {Idle} \cup [phase : {"running", "await"}, proposal : Proposals]]
    /\ submitted \in 0..MaxProposals
    /\ \A s, t \in Sessions : session[s].phase = "running" /\ session[t].phase = "running" => s = t

LEMMA TypeParts == TypeOK <=> GatewayTypeOK /\ SessionTypes
  BY DEF TypeOK, SessionTypes

\* Nothing has happened.
LEMMA AgentInit_Inv == Init => AgentInv
<1>1. SUFFICES ASSUME Init PROVE AgentInv
  OBVIOUS
<1>2. TypeOK
  BY <1>1, GatewayConstants, AgentConstants DEF Init, GatewayInit, GatewayTypeOK, TypeOK, Calls, Idle
<1>3. RefundsAreBounded /\ CallIsTrue /\ CallIsCurrent /\ FileFollows /\ AskedIsEntitled /\ RunningIsCalled
  BY <1>1, GatewayConstants
  DEF Init, GatewayInit, NoCall, Idle, HasRefund, RefundsAreBounded, CallIsTrue, CallIsCurrent, FileFollows,
      AskedIsEntitled, RunningIsCalled
<1>4. RefundsAreApproved /\ ToldIsKept
  BY <1>1 DEF Init, GatewayInit, Idle, RefundsAreApproved, ToldIsKept
<1> QED
  BY <1>2, <1>3, <1>4 DEF AgentInv

(***************************************************************************)
(* A step of the gateway that makes no refund: what is left to show of the *)
(* sessions, the refunds and the bound.                                    *)
(***************************************************************************)
LEMMA GatewayFrame ==
    ASSUME AgentInv, UNCHANGED agentVars, refunds' = refunds,
           call.pc # "none", call'.pc # "none", call'.proposal = call.proposal
    PROVE  SessionTypes' /\ RefundsAreBounded' /\ RunningIsCalled' /\ RefundsAreApproved'
<1>1. SessionTypes'
  BY TypeParts DEF AgentInv, agentVars, SessionTypes
<1>2. RefundsAreBounded' /\ RunningIsCalled'
  BY DEF AgentInv, agentVars, RefundsAreBounded, RunningIsCalled
<1>3. RefundsAreApproved'
  BY DEF AgentInv, agentVars, RefundsAreApproved
<1> QED
  BY <1>1, <1>2, <1>3

\* A proposal in execution.
LEMMA CallOfPc ==
    ASSUME AgentInv
    PROVE  /\ call.pc \in {"none", "execute", "save", "audit", "done"}
           /\ call.pc = "none" <=> call = NoCall
           /\ call.pc # "none" => /\ call.proposal \in Proposals
                                  /\ call.proposal.request \in Requests
                                  /\ KeyOf(call.proposal.request) \in Keys
           /\ call.pc \in {"save", "audit"} => call.refund \in 1..MaxRefunds
           /\ call.pc = "done" => call.result \in Results \cup {"succeeded"}
<1>1. call \in Calls
  BY DEF AgentInv, TypeOK, GatewayTypeOK
<1>2. \A p \in Proposals : p.request \in Requests /\ KeyOf(p.request) \in Keys
  BY DEF Proposals, Keys
<1> QED
  BY <1>1, <1>2, CallFields

\* The call ends with a result other than success; memory and file stay.
LEMMA RefuseKeeps == ASSUME AgentInv, Refuse, UNCHANGED agentVars PROVE AgentInv'
<1> DEFINE p == call.proposal
           r == Refusal(p)
<1>1. /\ call.pc = "execute" /\ r # None
      /\ call' = [pc |-> "done", proposal |-> p, result |-> r]
      /\ UNCHANGED <<memory, file, audit, refunds, unsaved, unread, forgotten, told, faults>>
  BY DEF Refuse, Returns
<1>2. r \in Results /\ p \in Proposals
  BY <1>1, PassedIsAllowed, CallOfPc
<1>3. r = "approval_required" => Entitled(p)
  BY PassedIsAllowed, VerdictIsDeserved
<1> HIDE DEF p, r
<1>4. call'.pc = "done" /\ call'.proposal = p /\ call'.result = r /\ r # "succeeded"
  BY <1>1, <1>2 DEF Results
<1>5. GatewayTypeOK'
  BY <1>1, <1>2 DEF AgentInv, TypeOK, GatewayTypeOK, Calls
<1>6. SessionTypes' /\ RefundsAreBounded' /\ RunningIsCalled' /\ RefundsAreApproved'
  BY <1>1, <1>4, GatewayFrame DEF p
<1>7. CallIsTrue' /\ CallIsCurrent' /\ AskedIsEntitled'
  BY <1>3, <1>4 DEF HasRefund, CallIsTrue, CallIsCurrent, AskedIsEntitled, Entitled
<1>8. FileFollows' /\ ToldIsKept'
  BY <1>1, <1>4 DEF AgentInv, FileFollows, ToldIsKept
<1> QED
  BY <1>5, <1>6, <1>7, <1>8 DEF AgentInv, TypeOK, SessionTypes

LEMMA ReplayKeeps == ASSUME AgentInv, Replay, UNCHANGED agentVars PROVE AgentInv'
<1> DEFINE p == call.proposal
           n == memory[KeyOf(p.request)]
<1>1. /\ call.pc = "execute" /\ Refusal(p) = None /\ n # 0
      /\ call' = [pc |-> "audit", proposal |-> p, refund |-> n]
      /\ UNCHANGED <<memory, file, audit, refunds, unsaved, unread, forgotten, told, faults>>
  BY DEF Replay, GoOn
<1>2. p \in Proposals /\ KeyOf(p.request) \in Keys
  BY <1>1, CallOfPc
<1>3. Entitled(p) /\ refunds[n].request = p.request
  BY <1>1, PassedIsAllowed, VerdictIsDeserved DEF SameArguments
<1>4. n \in 1..Len(refunds) /\ n \in 1..MaxRefunds
  BY <1>1, <1>2, GatewayConstants DEF AgentInv, TypeOK, GatewayTypeOK, RefundsAreBounded
<1>5. n \in unsaved \/ file[KeyOf(p.request)] = n
  BY <1>1, <1>2 DEF AgentInv, FileFollows
<1>6. n = memory[KeyOf(p.request)]
  OBVIOUS
<1> HIDE DEF p, n
<1>7. call'.pc = "audit" /\ call'.proposal = p /\ call'.refund = n
  BY <1>1
<1>8. GatewayTypeOK'
  BY <1>1, <1>2, <1>4 DEF AgentInv, TypeOK, GatewayTypeOK, Calls
<1>9. SessionTypes' /\ RefundsAreBounded' /\ RunningIsCalled' /\ RefundsAreApproved'
  BY <1>1, <1>7, GatewayFrame DEF p
<1>10. CallIsTrue' /\ CallIsCurrent' /\ AskedIsEntitled'
  BY <1>1, <1>3, <1>4, <1>5, <1>6, <1>7 DEF HasRefund, CallIsTrue, CallIsCurrent, AskedIsEntitled, Entitled
<1>11. FileFollows' /\ ToldIsKept'
  BY <1>1, <1>7 DEF AgentInv, FileFollows, ToldIsKept
<1> QED
  BY <1>8, <1>9, <1>10, <1>11 DEF AgentInv, TypeOK, SessionTypes

\* The refund that is made is approved, and its key stood for nothing.
LEMMA RefundKeeps == ASSUME AgentInv, Refund, UNCHANGED agentVars PROVE AgentInv'
<1> DEFINE p == call.proposal
           key == KeyOf(p.request)
           n == Len(refunds) + 1
<1>1. /\ call.pc = "execute" /\ Refusal(p) = None /\ memory[key] = 0 /\ n <= MaxRefunds
      /\ refunds' = Append(refunds, p)
      /\ memory' = [memory EXCEPT ![key] = n]
      /\ call' = [pc |-> "save", proposal |-> p, refund |-> n]
      /\ UNCHANGED <<file, audit, unsaved, unread, forgotten, told, faults>>
  BY DEF Refund, GoOn
<1>2. p \in Proposals /\ p.request \in Requests /\ key \in Keys
  BY <1>1, CallOfPc
<1>3. WellFormed(p) /\ Entitled(p) /\ p.approval # None /\ Covers(p)
  BY <1>1, PassedIsAllowed, VerdictIsDeserved
<1>4. refunds \in Seq(Proposals) /\ memory \in [Keys -> 0..Len(refunds)] /\ file \in [Keys -> 0..Len(refunds)]
      /\ unsaved \subseteq 1..Len(refunds) /\ unread \subseteq 1..Len(refunds)
      /\ forgotten \subseteq 1..Len(refunds) /\ told \subseteq 1..Len(refunds) /\ Len(refunds) \in Nat
  BY DEF AgentInv, TypeOK, GatewayTypeOK
<1>5. key = KeyOf(p.request) /\ n = Len(refunds) + 1
  OBVIOUS
<1>6. p = call.proposal
  OBVIOUS
<1> HIDE DEF p, key, n
<1>7. call'.pc = "save" /\ call'.proposal = p /\ call'.refund = n
  BY <1>1
<1>8. /\ refunds' \in Seq(Proposals) /\ Len(refunds') = n /\ n \in 1..MaxRefunds /\ refunds'[n] = p
      /\ \A i \in 1..Len(refunds) : refunds'[i] = refunds[i]
  BY <1>1, <1>2, <1>4, <1>5, GatewayConstants
<1>9. /\ memory'[key] = n
      /\ \A k \in Keys \ {key} : memory'[k] = memory[k]
      /\ memory' \in [Keys -> 0..Len(refunds')]
  BY <1>1, <1>2, <1>4, <1>5, <1>8
<1>10. GatewayTypeOK'
  <2>1. call' \in Calls
    BY <1>1, <1>2, <1>8 DEF Calls
  <2>2. file' \in [Keys -> 0..Len(refunds')] /\ unsaved' \subseteq 1..Len(refunds')
        /\ unread' \subseteq 1..Len(refunds') /\ forgotten' \subseteq 1..Len(refunds')
        /\ told' \subseteq 1..Len(refunds')
    BY <1>1, <1>4, <1>5, <1>8
  <2> QED
    BY <1>1, <1>8, <1>9, <2>1, <2>2 DEF AgentInv, TypeOK, GatewayTypeOK
<1>11. SessionTypes' /\ RefundsAreBounded' /\ RunningIsCalled'
  BY <1>1, <1>6, <1>7, <1>8, TypeParts, GatewayConstants
  DEF AgentInv, agentVars, SessionTypes, RefundsAreBounded, RunningIsCalled
<1>12. CallIsTrue' /\ CallIsCurrent' /\ AskedIsEntitled'
  BY <1>3, <1>5, <1>7, <1>8, <1>9 DEF HasRefund, CallIsTrue, CallIsCurrent, AskedIsEntitled, Entitled
<1>13. FileFollows'
  BY <1>1, <1>7, <1>9 DEF AgentInv, FileFollows
<1>14. RefundsAreApproved'
  <2>1. /\ p.approval # None /\ p.approval.role = "finance_manager" /\ p.approval.fresh
        /\ p.approval.by # p.actor.id /\ p.request.tenant = p.actor.tenant
        /\ p.request.amount \in 1..Limit /\ p.request.amount <= p.approval.amount
    BY <1>2, <1>3, GatewayConstants DEF WellFormed, Entitled, Covers
  <2>2. ASSUME NEW i \in 1..Len(refunds')
        PROVE  /\ refunds'[i].approval # None
               /\ refunds'[i].approval.role = "finance_manager" /\ refunds'[i].approval.fresh
               /\ refunds'[i].approval.by # refunds'[i].actor.id
               /\ refunds'[i].request.amount \in 1..Limit
               /\ refunds'[i].request.amount <= refunds'[i].approval.amount
               /\ refunds'[i].request.tenant = refunds'[i].actor.tenant
    <3>1. CASE i = n
      BY <2>1, <3>1, <1>8
    <3>2. CASE i # n
      <4>1. i \in 1..Len(refunds) /\ refunds'[i] = refunds[i]
        BY <3>2, <1>4, <1>5, <1>8
      <4> QED
        BY <4>1 DEF AgentInv, RefundsAreApproved
    <3> QED
      BY <3>1, <3>2
  <2>3. \A s \in Sessions : session'[s].phase = "await" =>
            Entitled(session'[s].proposal) /\ session'[s].proposal.approval = None
    BY DEF AgentInv, agentVars, RefundsAreApproved
  <2> QED
    BY <2>2, <2>3 DEF RefundsAreApproved, Entitled
<1>15. ToldIsKept'
  <2>1. ASSUME NEW i \in told \ forgotten
        PROVE  /\ i \in unread \/ memory'[KeyOf(refunds'[i].request)] = i
               /\ i \in unsaved \/ file[KeyOf(refunds'[i].request)] = i
    <3>1. i \in 1..Len(refunds) /\ refunds'[i] = refunds[i] /\ refunds[i] \in Proposals /\ i # 0
      BY <1>4, <1>8, <2>1
    <3>2. KeyOf(refunds[i].request) \in Keys
      BY <3>1 DEF Proposals, Keys
    <3>3. /\ i \in unread \/ memory[KeyOf(refunds[i].request)] = i
          /\ i \in unsaved \/ file[KeyOf(refunds[i].request)] = i
      BY <2>1 DEF AgentInv, ToldIsKept
    <3> QED
      BY <1>1, <1>9, <3>1, <3>2, <3>3
  <2> QED
    BY <1>1, <2>1 DEF ToldIsKept
<1> QED
  BY <1>10, <1>11, <1>12, <1>13, <1>14, <1>15 DEF AgentInv, TypeOK, SessionTypes

\* What was in memory is in the file; what could not be read is in neither, and forgotten.
LEMMA SaveKeeps == ASSUME AgentInv, Save, UNCHANGED agentVars PROVE AgentInv'
<1>1. /\ call.pc = "save" /\ file' = memory
      /\ unsaved' = {} /\ unread' = {} /\ forgotten' = forgotten \cup unread
      /\ call' = [pc |-> "audit", proposal |-> call.proposal, refund |-> call.refund]
      /\ UNCHANGED <<memory, audit, refunds, told, faults>>
  BY DEF Save, GoOn, Written
<1>2. call'.pc = "audit" /\ call'.proposal = call.proposal /\ call'.refund = call.refund
  BY <1>1
<1>3. GatewayTypeOK'
  BY <1>1, CallOfPc DEF AgentInv, TypeOK, GatewayTypeOK, Calls
<1>4. SessionTypes' /\ RefundsAreBounded' /\ RunningIsCalled' /\ RefundsAreApproved'
  BY <1>1, <1>2, GatewayFrame
<1>5. CallIsTrue' /\ CallIsCurrent' /\ AskedIsEntitled'
  BY <1>1, <1>2 DEF AgentInv, HasRefund, CallIsTrue, CallIsCurrent, AskedIsEntitled, Entitled
<1>6. FileFollows'
  BY <1>1 DEF FileFollows
<1>7. ToldIsKept'
  <2>1. ASSUME NEW n \in told, n \notin forgotten \cup unread
        PROVE  memory[KeyOf(refunds[n].request)] = n
    BY <2>1 DEF AgentInv, ToldIsKept
  <2> QED
    BY <1>1, <2>1 DEF ToldIsKept
<1> QED
  BY <1>3, <1>4, <1>5, <1>6, <1>7 DEF AgentInv, TypeOK, SessionTypes

\* The caller is told of what its key stands for, in memory and, unless its save failed, in the file.
LEMMA AuditKeeps == ASSUME AgentInv, Audit, UNCHANGED agentVars PROVE AgentInv'
<1> DEFINE key == KeyOf(call.proposal.request)
<1>1. /\ call.pc = "audit" /\ audit' = audit \cup {key} /\ told' = told \cup {call.refund}
      /\ call' = [pc |-> "done", proposal |-> call.proposal, result |-> "succeeded", refund |-> call.refund]
      /\ UNCHANGED <<memory, file, refunds, unsaved, unread, forgotten, faults>>
  BY DEF Audit
<1>2. /\ call'.pc = "done" /\ call'.proposal = call.proposal /\ call'.refund = call.refund
      /\ call'.result = "succeeded"
  BY <1>1
<1>3. call.refund \in 1..Len(refunds) /\ refunds[call.refund].request = call.proposal.request
      /\ Entitled(call.proposal) /\ key \in Keys
  BY <1>1, CallOfPc DEF AgentInv, HasRefund, CallIsTrue
<1>4. GatewayTypeOK'
  <2>1. call' \in Calls
    BY <1>1, CallOfPc DEF Calls
  <2> QED
    BY <1>1, <1>3, <2>1 DEF AgentInv, TypeOK, GatewayTypeOK
<1>5. SessionTypes' /\ RefundsAreBounded' /\ RunningIsCalled' /\ RefundsAreApproved'
  BY <1>1, <1>2, GatewayFrame
<1>6. CallIsTrue' /\ CallIsCurrent' /\ AskedIsEntitled'
  BY <1>1, <1>2, <1>3 DEF HasRefund, CallIsTrue, CallIsCurrent, AskedIsEntitled, Entitled
<1>7. FileFollows'
  BY <1>1, <1>2 DEF AgentInv, FileFollows
<1>8. ToldIsKept'
  <2>1. memory[key] = call.refund /\ (call.refund \in unsaved \/ file[key] = call.refund)
    BY <1>1 DEF AgentInv, CallIsCurrent
  <2>2. KeyOf(refunds[call.refund].request) = key
    BY <1>3
  <2> QED
    BY <1>1, <2>1, <2>2 DEF AgentInv, ToldIsKept
<1> QED
  BY <1>4, <1>5, <1>6, <1>7, <1>8 DEF AgentInv, TypeOK, SessionTypes

\* A failing save adds its refund to the unsaved ones.
LEMMA WriteFailsKeeps == ASSUME AgentInv, WriteFails, UNCHANGED agentVars PROVE AgentInv'
<1>1. /\ call.pc \in {"save", "audit", "execute"} /\ faults < MaxFaults /\ faults' = faults + 1
      /\ unsaved' = IF call.pc = "save" THEN unsaved \cup {call.refund} ELSE unsaved
      /\ call' = [pc |-> "done", proposal |-> call.proposal, result |-> "raised"]
      /\ UNCHANGED <<memory, file, audit, refunds, unread, forgotten, told>>
  BY DEF WriteFails, Returns
<1>2. call'.pc = "done" /\ call'.proposal = call.proposal /\ call'.result = "raised"
  BY <1>1
<1>3. call.pc = "save" => call.refund \in 1..Len(refunds)
  BY DEF AgentInv, HasRefund, CallIsTrue
<1>4. GatewayTypeOK'
  <2>1. call' \in Calls
    BY <1>1, CallOfPc DEF Calls, Results
  <2>2. faults' \in 0..MaxFaults
    BY <1>1, GatewayConstants DEF AgentInv, TypeOK, GatewayTypeOK
  <2>3. unsaved' \subseteq 1..Len(refunds)
    BY <1>1, <1>3 DEF AgentInv, TypeOK, GatewayTypeOK
  <2> QED
    BY <1>1, <2>1, <2>2, <2>3 DEF AgentInv, TypeOK, GatewayTypeOK
<1>5. SessionTypes' /\ RefundsAreBounded' /\ RunningIsCalled' /\ RefundsAreApproved'
  BY <1>1, <1>2, GatewayFrame
<1>6. CallIsTrue' /\ CallIsCurrent' /\ AskedIsEntitled'
  BY <1>2 DEF HasRefund, CallIsTrue, CallIsCurrent, AskedIsEntitled
<1>7. FileFollows' /\ ToldIsKept'
  BY <1>1, <1>2 DEF AgentInv, FileFollows, ToldIsKept
<1> QED
  BY <1>4, <1>5, <1>6, <1>7 DEF AgentInv, TypeOK, SessionTypes

\* The next process knows what was saved, or has it in the file it could not read.
LEMMA DiesKeeps == ASSUME AgentInv, Dies PROVE AgentInv'
<1>1. PICK skipped \in SUBSET {k \in Keys : file[k] # 0} :
          memory' = Loaded(skipped) /\ unread' = {file[k] : k \in skipped}
  BY DEF Dies, Restart
<1>2. /\ faults < MaxFaults /\ faults' = faults + 1 /\ call' = NoCall
      /\ unsaved' = {} /\ forgotten' = forgotten \cup unsaved
      /\ UNCHANGED <<file, audit, refunds, told, submitted>>
      /\ session' = [s \in Sessions |-> Idle]
  BY DEF Dies, Restart
<1>3. call'.pc = "none"
  BY <1>2 DEF NoCall
<1>4. /\ file \in [Keys -> 0..Len(refunds)] /\ Len(refunds) \in Nat /\ refunds \in Seq(Proposals)
      /\ told \subseteq 1..Len(refunds) /\ unsaved \subseteq 1..Len(refunds) /\ forgotten \subseteq 1..Len(refunds)
  BY DEF AgentInv, TypeOK, GatewayTypeOK
<1>5. memory' = [k \in Keys |-> IF k \in skipped THEN 0 ELSE file[k]]
  BY <1>1 DEF Loaded
<1>6. GatewayTypeOK'
  <2>1. memory' \in [Keys -> 0..Len(refunds)]
    BY <1>4, <1>5
  <2>2. unread' \subseteq 1..Len(refunds)
    BY <1>1, <1>4
  <2>3. faults' \in 0..MaxFaults
    BY <1>2, GatewayConstants DEF AgentInv, TypeOK, GatewayTypeOK
  <2> QED
    BY <1>2, <1>4, <2>1, <2>2, <2>3 DEF AgentInv, TypeOK, GatewayTypeOK, Calls
<1>7. SessionTypes' /\ RefundsAreBounded' /\ RunningIsCalled'
  BY <1>2 DEF AgentInv, TypeOK, SessionTypes, RefundsAreBounded, RunningIsCalled, Idle
<1>8. CallIsTrue' /\ CallIsCurrent' /\ AskedIsEntitled'
  BY <1>3 DEF HasRefund, CallIsTrue, CallIsCurrent, AskedIsEntitled
<1>9. FileFollows'
  BY <1>2, <1>5 DEF FileFollows
<1>10. ToldIsKept'
  <2>1. ASSUME NEW n \in told, n \notin forgotten \cup unsaved
        PROVE  /\ n \in unread' \/ memory'[KeyOf(refunds[n].request)] = n
               /\ file[KeyOf(refunds[n].request)] = n
    <3>1. refunds[n] \in Proposals
      BY <1>4, <2>1
    <3>2. KeyOf(refunds[n].request) \in Keys
      BY <3>1 DEF Proposals, Keys
    <3>3. file[KeyOf(refunds[n].request)] = n
      BY <2>1 DEF AgentInv, ToldIsKept
    <3> QED
      BY <1>1, <1>5, <3>2, <3>3
  <2> QED
    BY <1>2, <2>1 DEF ToldIsKept
<1>11. RefundsAreApproved'
  BY <1>2 DEF AgentInv, RefundsAreApproved, Idle
<1> QED
  BY <1>6, <1>7, <1>8, <1>9, <1>10, <1>11 DEF AgentInv, TypeOK, SessionTypes

(***************************************************************************)
(* A proposal is assembled for a session while no call is in execution:    *)
(* by propose_node, or with the answer to its approval.                    *)
(***************************************************************************)
LEMMA AssembleKeeps ==
    ASSUME AgentInv, NEW s \in Sessions, NEW p \in Proposals, Free, Assemble(p),
           session' = [session EXCEPT ![s] = [phase |-> "running", proposal |-> p]],
           submitted' \in 0..MaxProposals
    PROVE  AgentInv'
<1>1. /\ call' = [pc |-> "execute", proposal |-> p] /\ call.pc = "none"
      /\ UNCHANGED <<memory, file, audit, refunds, unsaved, unread, forgotten, told, faults>>
  BY DEF Assemble, Free, NoCall
<1>2. call'.pc = "execute" /\ call'.proposal = p
  BY <1>1
<1>3. session'[s] = [phase |-> "running", proposal |-> p] /\ \A t \in Sessions \ {s} : session'[t] = session[t]
  BY DEF AgentInv, TypeOK
<1>4. \A t \in Sessions : session[t].phase # "running"
  BY <1>1 DEF AgentInv, RunningIsCalled
<1>5. GatewayTypeOK'
  BY <1>1 DEF AgentInv, TypeOK, GatewayTypeOK, Calls
<1>6. SessionTypes'
  <2>1. session' \in [Sessions -> {Idle} \cup [phase : {"running", "await"}, proposal : Proposals]]
    BY DEF AgentInv, TypeOK
  <2> QED
    BY <1>3, <1>4, <2>1 DEF SessionTypes
<1>7. RefundsAreBounded' /\ RunningIsCalled'
  BY <1>1, <1>2, <1>3, <1>4 DEF AgentInv, RefundsAreBounded, RunningIsCalled
<1>8. CallIsTrue' /\ CallIsCurrent' /\ AskedIsEntitled'
  BY <1>2 DEF HasRefund, CallIsTrue, CallIsCurrent, AskedIsEntitled
<1>9. FileFollows' /\ ToldIsKept'
  BY <1>1, <1>2 DEF AgentInv, FileFollows, ToldIsKept
<1>10. RefundsAreApproved'
  <2>1. \A t \in Sessions : session'[t].phase = "await" =>
            Entitled(session'[t].proposal) /\ session'[t].proposal.approval = None
    BY <1>3 DEF AgentInv, RefundsAreApproved
  <2> QED
    BY <1>1, <2>1 DEF AgentInv, RefundsAreApproved, Entitled
<1> QED
  BY <1>5, <1>6, <1>7, <1>8, <1>9, <1>10 DEF AgentInv, TypeOK, SessionTypes

LEMMA ProposeKeeps == ASSUME AgentInv, NEW s \in Sessions, Propose(s) PROVE AgentInv'
<1>1. PICK a \in Actors, q \in Requests :
          LET p == [actor |-> a, request |-> q, approval |-> None]
          IN  session' = [session EXCEPT ![s] = [phase |-> "running", proposal |-> p]] /\ Assemble(p)
  BY DEF Propose
<1>2. [actor |-> a, request |-> q, approval |-> None] \in Proposals
  BY DEF Proposals
<1>3. Free /\ submitted' \in 0..MaxProposals
  BY AgentConstants DEF Propose, AgentInv, TypeOK
<1> QED
  BY <1>1, <1>2, <1>3, AssembleKeeps

LEMMA ResumeKeeps == ASSUME AgentInv, NEW s \in Sessions, Resume(s) PROVE AgentInv'
<1>1. PICK a \in Approvals :
          LET p == [session[s].proposal EXCEPT !.approval = a]
          IN  session' = [session EXCEPT ![s] = [phase |-> "running", proposal |-> p]] /\ Assemble(p)
  BY DEF Resume
<1>2. session[s].proposal \in Proposals
  BY SessionFields DEF AgentInv, TypeOK, Resume
<1>3. [session[s].proposal EXCEPT !.approval = a] \in Proposals
  BY <1>2 DEF Proposals
<1>4. Free /\ submitted' \in 0..MaxProposals
  BY DEF Resume, AgentInv, TypeOK
<1> QED
  BY <1>1, <1>3, <1>4, AssembleKeeps

\* A session that starts to wait was asked for an approval its proposal did not have.
LEMMA RouteKeeps == ASSUME AgentInv, NEW s \in Sessions, Route(s) PROVE AgentInv'
<1>1. /\ session[s].phase = "running" /\ call.pc = "done" /\ call' = NoCall
      /\ session' = [session EXCEPT ![s] = IF MayAsk(s) THEN [session[s] EXCEPT !.phase = "await"] ELSE Idle]
      /\ UNCHANGED <<memory, file, audit, refunds, unsaved, unread, forgotten, told, faults, submitted>>
  BY DEF Route
<1>2. call'.pc = "none"
  BY <1>1 DEF NoCall
<1>3. session[s].proposal = call.proposal /\ session[s].proposal \in Proposals
      /\ session[s] \in [phase : {"running", "await"}, proposal : Proposals]
  BY <1>1 DEF AgentInv, RunningIsCalled, TypeOK, Idle
<1>4. \A t \in Sessions \ {s} : session'[t] = session[t] /\ session[t].phase # "running"
  BY <1>1 DEF AgentInv, TypeOK
<1>5. \/ session'[s] = Idle
      \/ MayAsk(s) /\ session'[s] = [phase |-> "await", proposal |-> session[s].proposal]
  BY <1>1, <1>3 DEF AgentInv, TypeOK
<1>6. GatewayTypeOK'
  BY <1>1 DEF AgentInv, TypeOK, GatewayTypeOK, Calls
<1>7. SessionTypes'
  <2>1. session'[s] \in {Idle} \cup [phase : {"running", "await"}, proposal : Proposals]
    BY <1>3, <1>5
  <2>2. session' \in [Sessions -> {Idle} \cup [phase : {"running", "await"}, proposal : Proposals]]
    BY <1>1, <2>1 DEF AgentInv, TypeOK
  <2>3. session'[s].phase # "running"
    BY <1>5 DEF Idle
  <2> QED
    BY <1>1, <1>4, <2>2, <2>3 DEF AgentInv, TypeOK, SessionTypes
<1>8. RefundsAreBounded' /\ RunningIsCalled'
  BY <1>1, <1>4, <1>5 DEF AgentInv, RefundsAreBounded, RunningIsCalled, Idle
<1>9. CallIsTrue' /\ CallIsCurrent' /\ AskedIsEntitled'
  BY <1>2 DEF HasRefund, CallIsTrue, CallIsCurrent, AskedIsEntitled
<1>10. FileFollows' /\ ToldIsKept'
  BY <1>1, <1>2 DEF AgentInv, FileFollows, ToldIsKept
<1>11. RefundsAreApproved'
  <2>1. ASSUME NEW t \in Sessions, session'[t].phase = "await"
        PROVE  Entitled(session'[t].proposal) /\ session'[t].proposal.approval = None
    <3>1. CASE t # s
      BY <1>4, <2>1, <3>1 DEF AgentInv, RefundsAreApproved
    <3>2. CASE t = s
      <4>1. MayAsk(s) /\ session'[s].proposal = call.proposal
        BY <1>3, <1>5, <2>1, <3>2 DEF Idle
      <4> QED
        BY <1>1, <1>3, <3>2, <4>1 DEF MayAsk, AgentInv, AskedIsEntitled
    <3> QED
      BY <3>1, <3>2
  <2> QED
    BY <1>1, <2>1 DEF AgentInv, RefundsAreApproved, Entitled
<1> QED
  BY <1>6, <1>7, <1>8, <1>9, <1>10, <1>11 DEF AgentInv, TypeOK, SessionTypes

----------------------------------------------------------------------------
\* No step breaks the invariant.
LEMMA AgentNext_Inv == AgentInv /\ [Next]_vars => AgentInv'
<1> SUFFICES ASSUME AgentInv, [Next]_vars PROVE AgentInv'
  OBVIOUS
<1>1. CASE Gateway
  <2>1. UNCHANGED agentVars
    BY <1>1 DEF Gateway
  <2> QED
    BY <1>1, <2>1, RefuseKeeps, ReplayKeeps, RefundKeeps, SaveKeeps, AuditKeeps, WriteFailsKeeps
    DEF Gateway, Execute
<1>2. CASE Dies
  BY <1>2, DiesKeeps
<1>3. ASSUME NEW s \in Sessions, Propose(s) \/ Route(s) \/ Resume(s) PROVE AgentInv'
  BY <1>3, ProposeKeeps, RouteKeeps, ResumeKeeps
<1>4. CASE UNCHANGED vars
  BY <1>4
  DEF vars, gatewayVars, agentVars, AgentInv, TypeOK, GatewayTypeOK, RefundsAreBounded, CallIsTrue, CallIsCurrent,
      FileFollows, AskedIsEntitled, RunningIsCalled, RefundsAreApproved, ToldIsKept, HasRefund, Entitled
<1> QED
  BY <1>1, <1>2, <1>3, <1>4 DEF Next

(***************************************************************************)
(* The invariant holds in every reachable state of the agent: of execute,  *)
(* the policy, the refund store and the graph around them.                 *)
(***************************************************************************)
THEOREM AgentIsSound == Spec => []AgentInv
<1>1. Init => AgentInv
  BY AgentInit_Inv
<1>2. AgentInv /\ [Next]_vars => AgentInv'
  BY AgentNext_Inv
<1> QED
  BY <1>1, <1>2, PTL DEF Spec

\* Every variable of gateway and graph keeps its type, and at most one session runs.
THEOREM AgentTyped == Spec => []TypeOK
<1>1. AgentInv => TypeOK
  BY DEF AgentInv
<1> QED
  BY <1>1, AgentIsSound, PTL

(***************************************************************************)
(* issue_refund never runs without an approval by another person of        *)
(* finance that covers the amount, and nobody is asked to approve what the *)
(* policy denies (policy.evaluate, graph.after_enforce).                   *)
(***************************************************************************)
THEOREM NoRefundWithoutApproval == Spec => []RefundsAreApproved
<1>1. AgentInv => RefundsAreApproved
  BY DEF AgentInv
<1> QED
  BY <1>1, AgentIsSound, PTL

(***************************************************************************)
(* A success that execute reports is of a refund with the arguments        *)
(* proposed, in the actor's tenant, and it is in the audit log.            *)
(***************************************************************************)
THEOREM SuccessIsTrue == Spec => []AnswersAreTrue
<1>1. AgentInv => AnswersAreTrue
  BY DEF AgentInv, AnswersAreTrue, CallIsTrue, HasRefund, Entitled
<1> QED
  BY <1>1, AgentIsSound, PTL

(***************************************************************************)
(* A refund a caller was told of keeps its key, in memory and in the file, *)
(* over restarts; the two ways to forget it are a death before a save has  *)
(* succeeded and a save after a load that has failed (_load_store and      *)
(* _save_store of tools.py).                                               *)
(***************************************************************************)
THEOREM ToldStaysKept == Spec => []ToldIsKept
<1>1. AgentInv => ToldIsKept
  BY DEF AgentInv
<1> QED
  BY <1>1, AgentIsSound, PTL
=============================================================================
