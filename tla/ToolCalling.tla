---------------------------- MODULE ToolCalling -----------------------------
(***************************************************************************)
(* The two projects in which the tool calls of a model pass a gateway: the *)
(* governed refund agent, and the search with rate limit, breaker and      *)
(* fallback.  They are different programs, so a behaviour is one of the    *)
(* agent or one of the search.                                             *)
(***************************************************************************)
EXTENDS GovernedAgent, ReliableSearch

VARIABLE part   \* the program a behaviour is of

callingVars == <<vars, searchVars, part>>

CallingInit == Init /\ SearchInit /\ part \in {"agent", "search"}

AgentStep == part = "agent" /\ Next /\ UNCHANGED <<searchVars, part>>

SearchStep == part = "search" /\ SearchNext /\ UNCHANGED <<vars, part>>

CallingNext == AgentStep \/ SearchStep

CallingSpec == CallingInit /\ [][CallingNext]_callingVars

CallingTypeOK == TypeOK /\ SearchTypeOK /\ part \in {"agent", "search"}
=============================================================================
