--------------------------- MODULE ReliableSearch ---------------------------
(***************************************************************************)
(* search of src/Reliable-Tool-Calling/reliability.py: rate limit, cache,  *)
(* circuit breaker, retries and fallback.  The agent runs the tool calls   *)
(* of one model answer in parallel threads over one gateway, and nothing   *)
(* locks it.  A thread of CPython may be switched where it calls: clock,   *)
(* dict.get and _transition are the calls between two accesses.            *)
(*                                                                         *)
(* One tenant, since limits and cached results are kept by tenant.         *)
(***************************************************************************)
EXTENDS Integers, Sequences, FiniteSets

CONSTANTS
    Threads,      \* tool calls that may run at once
    RequestIds,   \* request ids of the searches
    RateLimit,    \* the limiter's limit and window
    Window,
    Threshold,    \* the breaker's failure_threshold and recovery_timeout
    Recovery,
    MaxAttempts,  \* the retry policy's max_attempts
    MaxTime,      \* bound: the clock
    MaxSearches,  \* bound: searches
    NoTime        \* opened_at before the breaker opened

ASSUME SearchConstants ==
    /\ RateLimit \in Nat /\ Window \in Nat /\ Threshold \in Nat /\ Recovery \in Nat
    /\ MaxAttempts \in Nat \ {0} /\ MaxTime \in Nat /\ MaxSearches \in Nat
    /\ NoTime \notin 0..MaxTime

VARIABLES
    clock,      \* monotonic time
    window,     \* _windows of the tenant: start and count; a count of 0 stands for no entry
    state,      \* CircuitBreaker: state, consecutive_failures, opened_at
    failures,
    openedAt,
    cached,     \* _cache: the request ids that have a result
    thread,     \* progress of each thread
    searches,   \* how many searches were started
    admitted,   \* when searches were admitted, in that order
    failed      \* how many calls failed

shared == <<window, state, failures, openedAt, cached>>

history == <<searches, admitted, failed>>

searchVars == <<clock, shared, thread, history>>

AtRest == [pc |-> "idle"]

SearchInit ==
    /\ clock = 0
    /\ window = [start |-> 0, count |-> 0]
    /\ state = "closed"
    /\ failures = 0
    /\ openedAt = NoTime
    /\ cached = {}
    /\ thread = [t \in Threads |-> AtRest]
    /\ searches = 0
    /\ admitted = <<>>
    /\ failed = 0

At(t, where) == thread[t].pc = where

\* The thread goes on with all its variables, or with those it still needs, or it leaves search.
Go(t, where) == thread' = [thread EXCEPT ![t].pc = where]

Enter(t, where) == thread' = [thread EXCEPT ![t] = [pc |-> where, id |-> @.id]]

Leave(t) == thread' = [thread EXCEPT ![t] = AtRest]

Stay(vs) == UNCHANGED <<vs, clock, searches>>

----------------------------------------------------------------------------
(***************************************************************************)
(* FixedWindowRateLimiter.check: the time, the entry as it was read, and   *)
(* the entry that is written.                                              *)
(***************************************************************************)
Search(t) ==
    /\ At(t, "idle")
    /\ searches < MaxSearches
    /\ searches' = searches + 1
    /\ \E r \in RequestIds : thread' = [thread EXCEPT ![t] = [pc |-> "check", id |-> r, now |-> clock]]
    /\ UNCHANGED <<clock, shared, admitted, failed>>

\* A mutant of Entry: an expired window is not begun anew.
EntryKept(t) == IF window.count = 0 THEN [start |-> thread[t].now, count |-> 0] ELSE window

Entry(t) ==
    IF window.count = 0 \/ thread[t].now - window.start >= Window
    THEN [start |-> thread[t].now, count |-> 0]
    ELSE window

ReadWindow(t) ==
    /\ At(t, "check")
    /\ IF Entry(t).count >= RateLimit
       THEN Go(t, "limited")
       ELSE thread' = [thread EXCEPT ![t] = [pc |-> "admit", id |-> @.id, entry |-> Entry(t)]]
    /\ Stay(<<shared, admitted, failed>>)

WriteWindow(t) ==
    /\ At(t, "admit")
    /\ window' = [thread[t].entry EXCEPT !.count = @ + 1]
    /\ admitted' = Append(admitted, clock)
    /\ Enter(t, "cache")
    /\ Stay(<<state, failures, openedAt, cached, failed>>)

\* search: a result that is cached is returned.
ReadCache(t) ==
    /\ At(t, "cache")
    /\ thread' = [thread EXCEPT ![t] = IF @.id \in cached THEN AtRest ELSE [pc |-> "before", id |-> @.id, attempt |-> 1]]
    /\ Stay(<<shared, admitted, failed>>)

----------------------------------------------------------------------------
\* before_call: an open breaker is asked for its time, and becomes half open.
BeforeCall(t) ==
    /\ At(t, "before")
    /\ IF state # "open" THEN Go(t, "call")
       ELSE IF openedAt = NoTime THEN Leave(t)   \* the assertion fails
       ELSE Go(t, "timer")
    /\ Stay(<<shared, admitted, failed>>)

ReadTimer(t) ==
    /\ At(t, "timer")
    /\ IF openedAt = NoTime THEN Leave(t)        \* TypeError
       ELSE IF clock - openedAt >= Recovery THEN Go(t, "half")
       ELSE Enter(t, "rejected")
    /\ Stay(<<shared, admitted, failed>>)

HalfOpen(t) ==
    /\ At(t, "half")
    /\ state' = "half_open"
    /\ Go(t, "call")
    /\ Stay(<<window, failures, openedAt, cached, admitted, failed>>)

(***************************************************************************)
(* retry_call around the adapter: success, a failure that is retried while *)
(* attempts are left, or one that is not worth it.  What is no             *)
(* IntegrationError passes the breaker by.                                 *)
(***************************************************************************)
Call(t) ==
    /\ At(t, "call")
    /\ \/ Enter(t, "succeeded")
       \/ thread[t].attempt < MaxAttempts /\ thread' = [thread EXCEPT ![t].attempt = @ + 1]
       \/ thread[t].attempt = MaxAttempts /\ Enter(t, "failed")
       \/ Enter(t, "refused")
       \/ Leave(t)
    /\ Stay(<<shared, admitted, failed>>)

\* record_success: up to the call of _transition, and the transition.
RecordSuccess(t) ==
    /\ At(t, "succeeded")
    /\ failures' = 0
    /\ openedAt' = NoTime
    /\ Enter(t, IF state # "closed" THEN "close" ELSE "answer")
    /\ Stay(<<window, state, cached, admitted, failed>>)

Close(t) ==
    /\ At(t, "close")
    /\ state' = "closed"
    /\ Enter(t, "answer")
    /\ Stay(<<window, failures, openedAt, cached, admitted, failed>>)

\* After record_failure: a retryable failure falls back, another one is raised.
FallBack(t, retryable) == IF retryable THEN Enter(t, "fallback") ELSE Leave(t)

\* record_failure, up to the clock and the call of _transition.
RecordFailure(t) ==
    /\ At(t, "failed") \/ At(t, "refused")
    /\ failures' = failures + 1
    /\ failed' = failed + 1
    /\ IF state = "half_open" \/ failures' >= Threshold
       THEN thread' = [thread EXCEPT ![t] = [pc |-> "opening", id |-> @.id, retryable |-> At(t, "failed")]]
       ELSE FallBack(t, At(t, "failed"))
    /\ Stay(<<window, state, openedAt, cached, admitted>>)

SetTimer(t) ==
    /\ At(t, "opening")
    /\ openedAt' = clock
    /\ IF state # "open" THEN Go(t, "open") ELSE FallBack(t, thread[t].retryable)
    /\ Stay(<<window, state, failures, cached, admitted, failed>>)

Open(t) ==
    /\ At(t, "open")
    /\ state' = "open"
    /\ FallBack(t, thread[t].retryable)
    /\ Stay(<<window, failures, openedAt, cached, admitted, failed>>)

\* The result, of the adapter or of the direct one that stands in, is cached and returned.
Answer(t) ==
    /\ thread[t].pc \in {"answer", "fallback", "rejected"}
    /\ cached' = cached \cup {thread[t].id}
    /\ Leave(t)
    /\ Stay(<<window, state, failures, openedAt, admitted, failed>>)

\* An error leaves search: the limit, the direct adapter's, or a result that breaks the contract.
Raise(t) ==
    /\ thread[t].pc \in {"limited", "answer", "fallback", "rejected"}
    /\ Leave(t)
    /\ Stay(<<shared, admitted, failed>>)

Tick == clock < MaxTime /\ clock' = clock + 1 /\ UNCHANGED <<shared, thread, history>>

Step(t) ==
    \/ Search(t) \/ ReadWindow(t) \/ WriteWindow(t) \/ ReadCache(t)
    \/ BeforeCall(t) \/ ReadTimer(t) \/ HalfOpen(t) \/ Call(t)
    \/ RecordSuccess(t) \/ Close(t) \/ RecordFailure(t) \/ SetTimer(t) \/ Open(t)
    \/ Answer(t) \/ Raise(t)

SearchNext == Tick \/ \E t \in Threads : Step(t)

SearchSpec == SearchInit /\ [][SearchNext]_searchVars

----------------------------------------------------------------------------
Entries == [start : 0..MaxTime, count : 0..RateLimit]

ThreadStates ==
    {AtRest}
    \cup [pc : {"check", "limited"}, id : RequestIds, now : 0..MaxTime]
    \cup [pc : {"admit"}, id : RequestIds, entry : Entries]
    \cup [pc : {"before", "timer", "half", "call"}, id : RequestIds, attempt : 1..MaxAttempts]
    \cup [pc : {"cache", "rejected", "succeeded", "failed", "refused", "close", "fallback", "answer"}, id : RequestIds]
    \cup [pc : {"opening", "open"}, id : RequestIds, retryable : BOOLEAN]

SearchTypeOK ==
    /\ clock \in 0..MaxTime
    /\ window \in Entries
    /\ state \in {"closed", "open", "half_open"}
    /\ failures \in Nat
    /\ openedAt \in 0..MaxTime \cup {NoTime}
    /\ cached \subseteq RequestIds
    /\ thread \in [Threads -> ThreadStates]
    /\ searches \in 0..MaxSearches
    /\ admitted \in Seq(0..MaxTime)
    /\ failed \in Nat

\* How many searches were admitted after a time.
AdmittedSince(from) == Cardinality({n \in 1..Len(admitted) : admitted[n] > from})

(***************************************************************************)
(* Updates of the window and of the breaker may be lost, but nobody is     *)
(* turned away for nothing: who is told of the limit comes after RateLimit *)
(* admissions within the window, and who is told of an open circuit comes  *)
(* after Threshold calls have failed (check, before_call).                 *)
(***************************************************************************)
RejectionsAreDeserved == \A t \in Threads :
    /\ At(t, "limited") => AdmittedSince(thread[t].now - Window) >= RateLimit
    /\ At(t, "rejected") => failed >= Threshold

(***************************************************************************)
(* The assertion of before_call, for a thread that is alone in the gateway *)
(* : an open breaker knows when it was opened.                             *)
(***************************************************************************)
OpenHasTime == \A t \in Threads :
    At(t, "before") /\ state = "open" /\ (\A u \in Threads \ {t} : At(u, "idle")) => openedAt # NoTime
=============================================================================
