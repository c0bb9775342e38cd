--------------------------- MODULE MCRefundIntake ---------------------------
(***************************************************************************)
(* An instance of RefundIntake for TLC: a request that submits the case,   *)
(* a direct request for its order, and one for another order that uses the *)
(* key of the direct one.                                                  *)
(***************************************************************************)
EXTENDS RefundIntake

MCAnswers == [r \in Roles |-> IF r = "order" THEN {"CLEAR", "BLOCK", "ERROR"} ELSE {"CLEAR", "ERROR"}]

MCRequests ==
    {[key |-> "team", order |-> "o1", team |-> TRUE],
     [key |-> "direct", order |-> "o1", team |-> FALSE],
     [key |-> "direct", order |-> "o2", team |-> FALSE]}
=============================================================================
