--------------------------- MODULE GovernedAgent ----------------------------
(***************************************************************************)
(* The graph of src/Tool-Gateway/src/governed_llm_agent that surrounds the *)
(* gateway: the model proposes, the gateway enforces, a write without      *)
(* approval pauses until a person answers, and the proposal is assembled   *)
(* again with that answer.  Sessions are threads of the graph's            *)
(* checkpointer, which lives in memory; while one waits for its approval   *)
(* others may run.                                                         *)
(***************************************************************************)
EXTENDS ToolGateway

CONSTANTS
    Sessions,    \* threads of the graph
    MaxProposals \* bound: requests submitted

ASSUME AgentConstants == MaxProposals \in Nat

VARIABLES
    session,    \* the checkpoint of each session: its phase, actor and proposal
    submitted   \* how many requests were submitted

agentVars == <<session, submitted>>

vars == <<gatewayVars, agentVars>>

Idle == [phase |-> "idle"]

Init ==
    /\ GatewayInit
    /\ session = [s \in Sessions |-> Idle]
    /\ submitted = 0

\* assemble_node hands the proposal to enforce_node.
Assemble(p) ==
    /\ call' = [pc |-> "execute", proposal |-> p]
    /\ UNCHANGED <<memory, file, audit, refunds, unsaved, unread, forgotten, told, faults>>

\* A mutant of Free: another thread of the program may start while one has a result to route.
FreeEarly == call.pc \in {"none", "done"}

\* The thread of the program is not in the graph.
Free == call = NoCall

(***************************************************************************)
(* run_text_request: propose_node, assemble_node.  The actor comes from    *)
(* the frontend's session, the request from the model.                     *)
(***************************************************************************)
Propose(s) ==
    /\ session[s] = Idle
    /\ Free
    /\ submitted < MaxProposals
    /\ submitted' = submitted + 1
    /\ \E a \in Actors, q \in Requests :
           LET p == [actor |-> a, request |-> q, approval |-> None]
           IN  session' = [session EXCEPT ![s] = [phase |-> "running", proposal |-> p]] /\ Assemble(p)

\* after_enforce
MayAsk(s) == call.result = "approval_required" /\ session[s].proposal.approval = None

\* await_approval_node, or narrate_node and the end; an exception ends the run as well.
Route(s) ==
    /\ session[s].phase = "running"
    /\ call.pc = "done"
    /\ session' = [session EXCEPT ![s] = IF MayAsk(s) THEN [@ EXCEPT !.phase = "await"] ELSE Idle]
    /\ call' = NoCall
    /\ UNCHANGED <<memory, file, audit, refunds, unsaved, unread, forgotten, told, faults, submitted>>

\* Somebody answers, and the proposal is assembled again with the answer.
Resume(s) ==
    /\ session[s].phase = "await"
    /\ Free
    /\ \E a \in Approvals :
           LET p == [session[s].proposal EXCEPT !.approval = a]
           IN  session' = [session EXCEPT ![s] = [phase |-> "running", proposal |-> p]] /\ Assemble(p)
    /\ UNCHANGED submitted

Gateway == Execute /\ UNCHANGED agentVars

\* The process dies with all its checkpoints.
Dies == Restart /\ session' = [s \in Sessions |-> Idle] /\ UNCHANGED submitted

Next == Gateway \/ Dies \/ \E s \in Sessions : Propose(s) \/ Route(s) \/ Resume(s)

Spec == Init /\ [][Next]_vars

----------------------------------------------------------------------------
TypeOK ==
    /\ GatewayTypeOK
    /\ session \in [Sessions -> {Idle} \cup [phase : {"running", "await"}, proposal : Proposals]]
    /\ submitted \in 0..MaxProposals
    /\ \A s, t \in Sessions : session[s].phase = "running" /\ session[t].phase = "running" => s = t

(***************************************************************************)
(* Every refund that was made has an approval by another person, of        *)
(* finance, that was valid and covers the amount; it is within the limit   *)
(* and of the tenant of its actor; and no session waits for an approval    *)
(* of something that the policy would not let anybody do.                  *)
(***************************************************************************)
RefundsAreApproved ==
    /\ \A n \in 1..Len(refunds) :
           LET p == refunds[n]
           IN  /\ p.approval # None
               /\ p.approval.role = "finance_manager" /\ p.approval.fresh
               /\ p.approval.by # p.actor.id
               /\ p.request.amount \in 1..Limit /\ p.request.amount <= p.approval.amount
               /\ p.request.tenant = p.actor.tenant
    /\ \A s \in Sessions : session[s].phase = "await" =>
           Entitled(session[s].proposal) /\ session[s].proposal.approval = None
=============================================================================
