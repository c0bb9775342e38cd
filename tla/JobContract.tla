---------------------------- MODULE JobContract -----------------------------
(***************************************************************************)
(* What the job service promises its callers: the steps of a job are done  *)
(* in order and once, SUCCEEDED means all of them, a job ends once, and    *)
(* one whose cancellation was accepted can end in no other way.  Work that *)
(* is under way when the job is cancelled may still be recorded.           *)
(***************************************************************************)
EXTENDS Integers

CONSTANT NumSteps

VARIABLES
    outcome,   \* how the job ended, or "open"
    asked,     \* its cancellation was accepted
    done       \* the steps whose output is recorded

contractVars == <<outcome, asked, done>>

Init ==
    /\ outcome = "open"
    /\ asked = FALSE
    /\ done = {}

Advance ==
    /\ outcome \in {"open", "cancelled"}
    /\ \E n \in 1..NumSteps : done = 1..(n - 1) /\ done' = 1..n
    /\ UNCHANGED <<outcome, asked>>

Ask ==
    /\ outcome = "open"
    /\ ~asked
    /\ asked' = TRUE
    /\ UNCHANGED <<outcome, done>>

Succeed ==
    /\ outcome = "open"
    /\ ~asked
    /\ done = 1..NumSteps
    /\ outcome' = "succeeded"
    /\ UNCHANGED <<asked, done>>

GiveUp ==
    /\ outcome = "open"
    /\ ~asked
    /\ outcome' \in {"failed", "dead_lettered"}
    /\ UNCHANGED <<asked, done>>

Cancel ==
    /\ outcome = "open"
    /\ asked
    /\ outcome' = "cancelled"
    /\ UNCHANGED <<asked, done>>

Next == Advance \/ Ask \/ Succeed \/ GiveUp \/ Cancel

Spec == Init /\ [][Next]_contractVars
=============================================================================
