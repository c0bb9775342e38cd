------------------------- MODULE MCRefundExecution -------------------------
(***************************************************************************)
(* A small instance of RefundExecution for TLC: one approved workflow, two *)
(* interchangeable tick threads, one operator.                             *)
(***************************************************************************)
EXTENDS RefundExecution, TLC

MCActors == {"requester", "lead"}

MCRoleOf == [a \in MCActors |-> IF a = "lead" THEN "support_lead" ELSE "requester"]

ThreadSymmetry == Permutations(Workers)
=============================================================================
