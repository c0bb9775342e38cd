----------------------------- MODULE JobOutbox ------------------------------
(***************************************************************************)
(* Delivery of a job to the workers: celery_app.publish_outbox over the    *)
(* outbox claims of app/store.py, and the Redis broker behind it.  A       *)
(* publisher claims rows, then sends and confirms one after the other; any *)
(* exception releases the row at hand and abandons the rest of its batch.  *)
(***************************************************************************)
EXTENDS JobStore

CONSTANT MaxMishaps   \* bound: failures and late claims in a behaviour

ASSUME OutboxConstants == MaxMishaps \in Nat

VARIABLES
    batch,     \* rows each publisher has claimed and not dealt with
    sent,      \* the row it has sent and not confirmed, or NoRow
    broker,    \* messages for the job that wait at the broker
    mishaps    \* failures so far, of publishers and of workers

outboxVars == <<batch, sent, broker, mishaps>>

NoRow == 0

OutboxInit ==
    /\ batch = [p \in Publishers |-> {}]
    /\ sent = [p \in Publishers |-> NoRow]
    /\ broker = 0
    /\ mishaps = 0

Mishap == mishaps < MaxMishaps /\ mishaps' = mishaps + 1

----------------------------------------------------------------------------
\* A mutant of Claimable: a claim lasts for ever.
ClaimableOnce(i) ==
    /\ ~outbox[i].published
    /\ outbox[i].due
    /\ outbox[i].claim = NobodyClaims

Claimable(i) ==
    /\ ~outbox[i].published
    /\ outbox[i].due
    /\ outbox[i].claim = NobodyClaims \/ outbox[i].stale

(***************************************************************************)
(* claim_unpublished_outbox: SKIP LOCKED leaves out the candidates another *)
(* transaction is writing, hence any part of them.                         *)
(***************************************************************************)
Claim(p) ==
    /\ batch[p] = {}
    /\ \E rows \in SUBSET {i \in 1..Len(outbox) : Claimable(i)} :
          /\ rows # {}
          /\ batch' = [batch EXCEPT ![p] = rows]
          /\ outbox' = [i \in 1..Len(outbox) |->
                           IF i \in rows THEN [outbox[i] EXCEPT !.claim = p, !.stale = FALSE]
                                         ELSE outbox[i]]
    /\ UNCHANGED <<job, effects, sent, broker, mishaps>>

\* run_agent_job.delay
Send(p) ==
    /\ sent[p] = NoRow
    /\ \E i \in batch[p] : sent' = [sent EXCEPT ![p] = i]
    /\ broker' = broker + 1
    /\ UNCHANGED <<jobVars, batch, mishaps>>

Claims(p, i) == outbox[i].claim = p /\ ~outbox[i].published

Abandon(p) ==
    /\ batch' = [batch EXCEPT ![p] = {}]
    /\ sent' = [sent EXCEPT ![p] = NoRow]

\* mark_outbox_published
Mark(p) ==
    /\ sent[p] # NoRow
    /\ Claims(p, sent[p])
    /\ outbox' = [outbox EXCEPT ![sent[p]].published = TRUE, ![sent[p]].claim = NobodyClaims,
                                ![sent[p]].stale = FALSE]
    /\ batch' = [batch EXCEPT ![p] = @ \ {sent[p]}]
    /\ sent' = [sent EXCEPT ![p] = NoRow]
    /\ UNCHANGED <<job, effects, broker, mishaps>>

\* "outbox claim was lost before publish confirmation": nothing is left to release.
MarkLost(p) ==
    /\ sent[p] # NoRow
    /\ ~Claims(p, sent[p])
    /\ Abandon(p)
    /\ UNCHANGED <<jobVars, broker, mishaps>>

\* delay or the confirmation raises: release_outbox_claim, and the cycle ends.
PublishFails(p) ==
    /\ Mishap
    /\ \E i \in IF sent[p] = NoRow THEN batch[p] ELSE {sent[p]} :
          outbox' = IF Claims(p, i)
                    THEN [outbox EXCEPT ![i].claim = NobodyClaims, ![i].stale = FALSE]
                    ELSE outbox
    /\ Abandon(p)
    /\ UNCHANGED <<job, effects, broker>>

PublisherDies(p) ==
    /\ Mishap
    /\ batch[p] # {}
    /\ Abandon(p)
    /\ UNCHANGED <<jobVars, broker>>

PublisherStep(p) == Claim(p) \/ Send(p) \/ Mark(p) \/ MarkLost(p)

----------------------------------------------------------------------------
\* available_at of a retry comes.
RetryComesDue(i) ==
    /\ ~outbox[i].due
    /\ outbox' = [outbox EXCEPT ![i].due = TRUE]
    /\ UNCHANGED <<job, effects, outboxVars>>

(***************************************************************************)
(* outbox_claim_timeout_seconds pass.  For a claim whose publisher is      *)
(* still busy with it that is a mishap.                                    *)
(***************************************************************************)
Held(i) == \E p \in Publishers : outbox[i].claim = p /\ i \in batch[p]

ClaimTimesOut(i) ==
    /\ outbox[i].claim # NobodyClaims
    /\ ~outbox[i].stale
    /\ IF Held(i) THEN Mishap ELSE UNCHANGED mishaps
    /\ outbox' = [outbox EXCEPT ![i].stale = TRUE]
    /\ UNCHANGED <<job, effects, batch, sent, broker>>

PublishNext ==
    \/ \E p \in Publishers : PublisherStep(p) \/ PublishFails(p) \/ PublisherDies(p)
    \/ \E i \in 1..Len(outbox) : RetryComesDue(i) \/ ClaimTimesOut(i)
=============================================================================
