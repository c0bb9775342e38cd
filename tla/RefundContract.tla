--------------------------- MODULE RefundContract ---------------------------
(***************************************************************************)
(* What a refund workflow promises to the people who own the money,        *)
(* whatever workers, timers and messages do: nothing is paid before        *)
(* somebody entitled to has approved it, at most one payment is made, a    *)
(* refund is reported complete only when it was paid, and a workflow that  *)
(* was rejected or closed was not paid and never will be.                  *)
(***************************************************************************)
CONSTANT Receipts

VARIABLES
    authorised,  \* a person has approved the refund
    payments,    \* the receipts of the payments made
    verdict      \* what the workflow reports: "open", or how it ended

contractVars == <<authorised, payments, verdict>>

Init ==
    /\ authorised = FALSE
    /\ payments = {}
    /\ verdict \in {"open", "rejected"}

Authorise ==
    /\ verdict = "open"
    /\ ~authorised
    /\ authorised' = TRUE
    /\ UNCHANGED <<payments, verdict>>

Pay ==
    /\ verdict = "open"
    /\ authorised
    /\ payments = {}
    /\ \E r \in Receipts : payments' = {r}
    /\ UNCHANGED <<authorised, verdict>>

Complete ==
    /\ verdict = "open"
    /\ payments # {}
    /\ verdict' = "completed"
    /\ UNCHANGED <<authorised, payments>>

Reject ==
    /\ verdict = "open"
    /\ ~authorised
    /\ verdict' = "rejected"
    /\ UNCHANGED <<authorised, payments>>

Close ==
    /\ verdict = "open"
    /\ payments = {}
    /\ verdict' = "closed"
    /\ UNCHANGED <<authorised, payments>>

Next == Authorise \/ Pay \/ Complete \/ Reject \/ Close

Spec == Init /\ [][Next]_contractVars
=============================================================================
