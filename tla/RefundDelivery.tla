--------------------------- MODULE RefundDelivery ---------------------------
(***************************************************************************)
(* The transactional outbox of the refund workflow, the Celery broker and  *)
(* the consumer with its inbox: app/runtime.py publish_one,                *)
(* app/celery_app.py handle_event, core.consume and                        *)
(* exercises.handle_event_and_recover.  An event is the position of its    *)
(* row in the outbox.                                                      *)
(***************************************************************************)
EXTENDS RefundApproval

CONSTANTS
    MaxLostEvents,    \* bound: events a failing consumer drops in a behaviour
    MaxRedeliveries   \* bound: redelivery drills of the operator in a behaviour

ASSUME DeliveryConstants ==
    /\ MaxLostEvents \in Nat
    /\ MaxRedeliveries \in Nat

VARIABLES
    broker,     \* events a Celery worker has yet to take, in no order
    inbox,      \* inbox_events of the consumer 'workflow'
    lostEvents, \* how many events a failing consumer has dropped
    redelivered \* how many redelivery drills there were

deliveryVars == <<broker, inbox, lostEvents, redelivered>>

DeliveryInit ==
    /\ broker = {}
    /\ inbox = {}
    /\ lostEvents = 0
    /\ redelivered = 0

\* The publisher takes the oldest row whose published_at is NULL.
NextUnpublished(i) ==
    /\ i \notin published
    /\ \A j \in 1..Len(outbox) : j < i => j \in published

\* A mutant of Publish: the row is marked even when the send did not happen.
PublishMaybeSent(i) ==
    /\ NextUnpublished(i)
    /\ broker' \in {broker, broker \cup {i}}
    /\ published' = published \cup {i}
    /\ UNCHANGED <<request, state, version, tasks, attempts, outbox, inbox, lostEvents,
                   redelivered>>

\* runtime.publish_one: the message leaves inside the transaction that marks the row.
Publish(i) ==
    /\ NextUnpublished(i)
    /\ broker' = broker \cup {i}
    /\ published' = published \cup {i}
    /\ UNCHANGED <<request, state, version, tasks, attempts, outbox, inbox, lostEvents,
                   redelivered>>

\* The publisher dies between delay() and the commit: sent, and to be sent again.
PublishWithoutMark(i) ==
    /\ NextUnpublished(i)
    /\ broker' = broker \cup {i}
    /\ UNCHANGED <<storeVars, inbox, lostEvents, redelivered>>

\* api.redeliver, the operator's lab drill.
Redeliver ==
    /\ redelivered < MaxRedeliveries
    /\ redelivered' = redelivered + 1
    /\ \E i \in published : outbox[i].type = "approval.accepted"
    /\ published' = {i \in published : outbox[i].type # "approval.accepted"}
    /\ UNCHANGED <<request, state, version, tasks, attempts, outbox, broker, inbox,
                   lostEvents>>

----------------------------------------------------------------------------
(***************************************************************************)
(* handle_event_and_recover.  The inbox row and the effect of the event    *)
(* commit together.  A delivery whose inbox row exists changes nothing, so *)
(* a worker that dies after the commit and gets the message again is the   *)
(* duplicate branch.                                                       *)
(***************************************************************************)
Take(i) ==
    /\ broker' = broker \ {i}
    /\ inbox' = inbox \cup {i}
    /\ UNCHANGED <<published, request, lostEvents, redelivered>>

First(i) == i \in broker /\ i \notin inbox

ConsumeDuplicate(i) ==
    /\ i \in broker \cap inbox
    /\ broker' = broker \ {i}
    /\ UNCHANGED <<storeVars, inbox, lostEvents, redelivered>>

ConsumeSubmitted(i) ==
    /\ First(i)
    /\ outbox[i].type = "workflow.submitted"
    /\ PauseForApproval
    /\ Take(i)

\* The event still describes the workflow: nothing has moved it since the approval.
IsCurrent(event) ==
    /\ tasks[event.stage].status = "APPROVED"
    /\ event.version = version
    /\ state = "READY_TO_EXECUTE"

ConsumeAccepted(i) ==
    /\ First(i)
    /\ outbox[i].type = "approval.accepted"
    /\ IsCurrent(outbox[i])
    /\ attempts' = IF attempts = <<>> THEN <<NewAttempt>> ELSE attempts
    /\ Take(i)
    /\ UNCHANGED <<state, version, tasks, outbox>>

\* A stale approval.accepted is audited, every other event observed.
ConsumeOther(i) ==
    /\ First(i)
    /\ ~(outbox[i].type = "workflow.submitted" /\ state = "RECEIVED")
    /\ ~(outbox[i].type = "approval.accepted" /\ IsCurrent(outbox[i]))
    /\ Take(i)
    /\ UNCHANGED <<state, version, tasks, attempts, outbox>>

Consume(i) ==
    \/ ConsumeDuplicate(i)
    \/ ConsumeSubmitted(i)
    \/ ConsumeAccepted(i)
    \/ ConsumeOther(i)

(***************************************************************************)
(* The handler raises something other than the three exceptions it         *)
(* catches, say because the database is away.  The transaction rolls back, *)
(* and Celery acknowledges the failed task: the row stays published and    *)
(* the message is gone.                                                    *)
(***************************************************************************)
ConsumerFails(i) ==
    /\ i \in broker
    /\ lostEvents < MaxLostEvents
    /\ lostEvents' = lostEvents + 1
    /\ broker' = broker \ {i}
    /\ UNCHANGED <<storeVars, inbox, redelivered>>
=============================================================================
