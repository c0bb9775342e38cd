---------------------------- MODULE ToolGateway -----------------------------
(***************************************************************************)
(* The write path of src/Tool-Gateway/src/support_agent: execute of        *)
(* gateway.py with the policy, the refund backend that remembers its       *)
(* idempotency keys in a JSON file, and the audit log.  The process has    *)
(* one thread, so at most one proposal is being executed; what interferes  *)
(* is a write that fails, a process that dies between two writes, and a    *)
(* file that the next one cannot read.                                     *)
(*                                                                         *)
(* A proposal is [actor, request, approval].  A request is [tenant, order, *)
(* amount, spelled, reason]: its amount in cents, 0 if it is missing or    *)
(* not valid, and the way the model spelled it.  The read tool has no      *)
(* effect and is left out.                                                 *)
(***************************************************************************)
EXTENDS Integers, Sequences

CONSTANTS
    Actors,      \* [id, role, tenant]: the trusted identity of a session
    Requests,    \* what the model may propose
    Approvals,   \* [by, role, amount, fresh]: what people may answer
    Limit,       \* amount_limit of issue_refund
    MaxRefunds,  \* bound: refunds made
    MaxFaults,   \* bound: failing writes and deaths of the process
    None         \* no value

ASSUME GatewayConstants ==
    /\ MaxRefunds \in Nat /\ MaxFaults \in Nat /\ Limit \in Nat
    /\ \A q \in Requests : q.amount \in Nat
    /\ None \notin Approvals /\ None \notin {"invalid", "denied", "approval_required", "failed"}

VARIABLES
    memory,   \* refund_by_key: the refund each key stands for, 0 if there is none
    file,     \* the JSON file, as the last save left it
    audit,    \* audit.jsonl: the keys of which an execution is recorded
    refunds,  \* the side effects: the proposals that were executed, in order
    unsaved,  \* the refunds that are in memory only, because their save failed
    unread,   \* the refunds that are in the file only, because this process could not read them
    forgotten, \* history: the refunds that were unsaved at a death or unread at a save
    told,     \* the refunds some caller was told of
    call,     \* the proposal in execution, how far it is, and its result
    faults    \* how many faults have happened

gatewayVars == <<memory, file, audit, refunds, unsaved, unread, forgotten, told, call, faults>>

\* default_idempotency_key of assemble.py: neither the tenant nor the reason is part of it.
KeyOf(request) == <<request.order, request.spelled>>

Keys == {KeyOf(q) : q \in Requests}

NoCall == [pc |-> "none"]

GatewayInit ==
    /\ memory = [k \in Keys |-> 0]
    /\ file = memory
    /\ audit = {}
    /\ refunds = <<>>
    /\ unsaved = {}
    /\ unread = {}
    /\ forgotten = {}
    /\ told = {}
    /\ call = NoCall
    /\ faults = 0

----------------------------------------------------------------------------
(***************************************************************************)
(* evaluate of policy.py, after the validation of proposal and input.      *)
(***************************************************************************)
WellFormed(p) ==
    /\ p.request.amount > 0
    /\ p.approval # None => p.approval.amount > 0

Entitled(p) ==
    /\ p.actor.role \in {"support_agent", "support_manager"}
    /\ p.request.tenant = p.actor.tenant
    /\ p.request.amount <= Limit

\* A mutant of Covers: the amount of the approval is not compared.
CoversAny(p) ==
    /\ p.approval.role = "finance_manager"
    /\ p.approval.by # p.actor.id
    /\ p.approval.fresh

Covers(p) ==
    /\ p.approval.role = "finance_manager"
    /\ p.approval.by # p.actor.id
    /\ p.approval.fresh
    /\ p.request.amount <= p.approval.amount

Verdict(p) ==
    IF ~WellFormed(p) THEN "invalid"
    ELSE IF ~Entitled(p) THEN "denied"
    ELSE IF p.approval = None THEN "approval_required"
    ELSE IF Covers(p) THEN "allow" ELSE "denied"

\* A mutant of SameArguments: the fingerprint is not compared.
SameArgumentsAlways(p, n) == TRUE

\* The fingerprint: all arguments, as they were spelled.
SameArguments(p, n) == refunds[n].request = p.request

----------------------------------------------------------------------------
Returns(result) == call' = [pc |-> "done", proposal |-> call.proposal, result |-> result]

GoOn(where, n) == call' = [pc |-> where, proposal |-> call.proposal, refund |-> n]

\* What execute returns without any effect, once it is audited; also for a key used with other arguments.
Refusal(p) ==
    LET n == memory[KeyOf(p.request)]
    IN  IF Verdict(p) # "allow" THEN Verdict(p)
        ELSE IF n # 0 /\ ~SameArguments(p, n) THEN "failed" ELSE None

Refuse ==
    /\ call.pc = "execute"
    /\ Refusal(call.proposal) # None
    /\ Returns(Refusal(call.proposal))
    /\ UNCHANGED <<memory, file, audit, refunds, unsaved, unread, forgotten, told, faults>>

\* issue_refund with a key that is known.
Replay ==
    LET p == call.proposal
        n == memory[KeyOf(p.request)]
    IN  /\ call.pc = "execute"
        /\ Refusal(p) = None
        /\ n # 0
        /\ GoOn("audit", n)
        /\ UNCHANGED <<memory, file, audit, refunds, unsaved, unread, forgotten, told, faults>>

\* issue_refund with a new key: the effect, remembered in memory first.
Refund ==
    LET p == call.proposal
        n == Len(refunds) + 1
    IN  /\ call.pc = "execute"
        /\ Refusal(p) = None
        /\ memory[KeyOf(p.request)] = 0
        /\ n <= MaxRefunds
        /\ refunds' = Append(refunds, p)
        /\ memory' = [memory EXCEPT ![KeyOf(p.request)] = n]
        /\ GoOn("save", n)
        /\ UNCHANGED <<file, audit, unsaved, unread, forgotten, told, faults>>

\* A mutant of Written: only the refund that is saved.
WrittenAlone == [k \in Keys |-> IF memory[k] = call.refund THEN call.refund ELSE 0]

Written == memory

(***************************************************************************)
(* _save_store: the whole memory is written to a new file, which then      *)
(* takes the place of the old one, with everything the old one had.        *)
(***************************************************************************)
Save ==
    /\ call.pc = "save"
    /\ file' = Written
    /\ unsaved' = {}
    /\ unread' = {}
    /\ forgotten' = forgotten \cup unread
    /\ GoOn("audit", call.refund)
    /\ UNCHANGED <<memory, audit, refunds, told, faults>>

Audit ==
    /\ call.pc = "audit"
    /\ audit' = audit \cup {KeyOf(call.proposal.request)}
    /\ told' = told \cup {call.refund}
    /\ call' = [pc |-> "done", proposal |-> call.proposal, result |-> "succeeded", refund |-> call.refund]
    /\ UNCHANGED <<memory, file, refunds, unsaved, unread, forgotten, faults>>

\* A write to a file fails: the exception leaves execute, and what is in memory stays there.
WriteFails ==
    /\ call.pc \in {"save", "audit"} \/ (call.pc = "execute" /\ Refusal(call.proposal) # None)
    /\ faults < MaxFaults
    /\ faults' = faults + 1
    /\ unsaved' = IF call.pc = "save" THEN unsaved \cup {call.refund} ELSE unsaved
    /\ Returns("raised")
    /\ UNCHANGED <<memory, file, audit, refunds, unread, forgotten, told>>

Execute == Refuse \/ Replay \/ Refund \/ Save \/ Audit \/ WriteFails

\* _load_store: a file that cannot be read, or items of another shape, are passed over in silence.
Loaded(skipped) == [k \in Keys |-> IF k \in skipped THEN 0 ELSE file[k]]

\* The process dies, and the next one loads the file: all of it, some items, or nothing.
Restart ==
    /\ faults < MaxFaults
    /\ faults' = faults + 1
    /\ \E skipped \in SUBSET {k \in Keys : file[k] # 0} :
           /\ memory' = Loaded(skipped)
           /\ unread' = {file[k] : k \in skipped}
    /\ unsaved' = {}
    /\ forgotten' = forgotten \cup unsaved
    /\ call' = NoCall
    /\ UNCHANGED <<file, audit, refunds, told>>

----------------------------------------------------------------------------
Proposals == [actor : Actors, request : Requests, approval : Approvals \cup {None}]

Results == {"invalid", "denied", "approval_required", "failed", "raised"}

Calls ==
    {NoCall}
    \cup [pc : {"execute"}, proposal : Proposals]
    \cup [pc : {"save", "audit"}, proposal : Proposals, refund : 1..MaxRefunds]
    \cup [pc : {"done"}, proposal : Proposals, result : Results]
    \cup [pc : {"done"}, proposal : Proposals, result : {"succeeded"}, refund : 1..MaxRefunds]

GatewayTypeOK ==
    /\ memory \in [Keys -> 0..Len(refunds)]
    /\ file \in [Keys -> 0..Len(refunds)]
    /\ audit \subseteq Keys
    /\ refunds \in Seq(Proposals)
    /\ unsaved \subseteq 1..Len(refunds)
    /\ unread \subseteq 1..Len(refunds)
    /\ forgotten \subseteq 1..Len(refunds)
    /\ told \subseteq 1..Len(refunds)
    /\ call \in Calls
    /\ faults \in 0..MaxFaults

(***************************************************************************)
(* A caller that is told a refund succeeded is told of one with the        *)
(* arguments it proposed, of its own tenant, although neither tenant nor   *)
(* reason is part of the key; and the execution is in the audit log.       *)
(***************************************************************************)
AnswersAreTrue ==
    call.pc = "done" /\ call.result = "succeeded" =>
        /\ refunds[call.refund].request = call.proposal.request
        /\ refunds[call.refund].request.tenant = call.proposal.actor.tenant
        /\ KeyOf(call.proposal.request) \in audit

(***************************************************************************)
(* A refund somebody was told of is what its key stands for from then on,  *)
(* in memory and in the file, so nobody is told of another one for the     *)
(* same key.  A failing save leaves it in memory only, and a failing load  *)
(* in the file only; it is forgotten in two ways and no other: the process *)
(* dies before a save succeeds, or it saves what it could not load over.   *)
(***************************************************************************)
ToldIsKept == \A n \in told \ forgotten :
    /\ n \in unread \/ memory[KeyOf(refunds[n].request)] = n
    /\ n \in unsaved \/ file[KeyOf(refunds[n].request)] = n
=============================================================================
