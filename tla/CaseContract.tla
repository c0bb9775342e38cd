---------------------------- MODULE CaseContract ----------------------------
(***************************************************************************)
(* What the requester of a prepared refund is promised: the case is        *)
(* decided once, a blocked case never becomes a refund request, a ready    *)
(* one becomes at most one, and the order of the case never has two,       *)
(* whether they come from the case or were made directly.                  *)
(***************************************************************************)
EXTENDS Naturals

VARIABLES
    stage,    \* COLLECTING, READY, BLOCKED or SUBMITTED
    refunds,  \* refund workflows of the order of the case
    own       \* those of them that were made from the case

vars == <<stage, refunds, own>>

Init == stage = "COLLECTING" /\ refunds = 0 /\ own = 0

Decide ==
    /\ stage = "COLLECTING"
    /\ stage' \in {"READY", "BLOCKED"}
    /\ UNCHANGED <<refunds, own>>

Submit ==
    /\ stage = "READY"
    /\ refunds = 0
    /\ stage' = "SUBMITTED"
    /\ refunds' = 1
    /\ own' = 1

RequestDirectly ==
    /\ refunds = 0
    /\ refunds' = 1
    /\ UNCHANGED <<stage, own>>

Next == Decide \/ Submit \/ RequestDirectly

Spec == Init /\ [][Next]_vars
=============================================================================
