------------------------- MODULE MCRefundWorkflow -------------------------
(* A small instance of RefundWorkflow for TLC. *)
EXTENDS RefundWorkflow

MCActors == {"fm_requester", "lead", "fm", "director"}

MCRoleOf == [a \in MCActors |->
    CASE a = "lead"      -> "support_lead"
      [] a = "director"  -> "finance_director"
      [] OTHER           -> "finance_manager"]
=============================================================================
