------------------------- MODULE ToolCalling_proofs -------------------------
(***************************************************************************)
(* The search turns nobody away for nothing, for every number of threads,  *)
(* limits, windows and thresholds and for any interleaving of its          *)
(* unlocked updates; and with the invariant of the agent, which is in      *)
(* GovernedAgent_proofs, what is promised of both programs.                *)
(*                                                                         *)
(* Updates of the window and of the failure count may be lost.  The        *)
(* invariant therefore compares them in one direction only: no counter is  *)
(* ahead of what has really happened.                                      *)
(***************************************************************************)
EXTENDS ToolCalling, GovernedAgent_proofs, FiniteSetTheorems

\* The admissions of a log from a time on, and those after it, and how many there are.
From(log, time) == {n \in 1..Len(log) : log[n] >= time}

After(log, time) == {n \in 1..Len(log) : log[n] > time}

CountFrom(log, time) == Cardinality(From(log, time))

CountAfter(log, time) == Cardinality(After(log, time))

\* An entry counts no search that was not admitted in its window, which has begun.
Honest(entry, log, now) == entry.start <= now /\ entry.count <= CountFrom(log, entry.start)

\* Threads know a time that has come; and those told of the limit were told the truth.
TimesHaveCome == \A t \in Threads : thread[t].pc \in {"check", "limited"} => thread[t].now <= clock

EntriesAreHonest == \A t \in Threads : At(t, "admit") =>
    Honest(thread[t].entry, admitted, clock) /\ thread[t].entry.count < RateLimit

LimitIsReached == \A t \in Threads : At(t, "limited") =>
    CountAfter(admitted, thread[t].now - Window) >= RateLimit

\* Threads that found the breaker open, or that are about to open it.
KnowsOpen == {"timer", "half", "rejected", "opening", "open"}

\* The breaker leaves its closed state for Threshold failures, and so do those who act on it.
BreakerHasCause ==
    /\ failures <= failed
    /\ state # "closed" => failed >= Threshold
    /\ \A t \in Threads : thread[t].pc \in KnowsOpen => failed >= Threshold

\* The inductive invariant of the search.
SearchInv ==
    /\ SearchTypeOK
    /\ Honest(window, admitted, clock)
    /\ TimesHaveCome
    /\ EntriesAreHonest
    /\ LimitIsReached
    /\ BreakerHasCause

----------------------------------------------------------------------------
\* The records of threads, by their place.
Checking == [pc : {"check", "limited"}, id : RequestIds, now : 0..MaxTime]

Admitting == [pc : {"admit"}, id : RequestIds, entry : Entries]

Calling == [pc : {"before", "timer", "half", "call"}, id : RequestIds, attempt : 1..MaxAttempts]

Ending == [pc : {"cache", "rejected", "succeeded", "failed", "refused", "close", "fallback", "answer"}, id : RequestIds]

Opening == [pc : {"opening", "open"}, id : RequestIds, retryable : BOOLEAN]

LEMMA ThreadFields ==
    ASSUME SearchTypeOK, NEW t \in Threads
    PROVE  /\ thread[t].pc \in {"check", "limited"} => thread[t] \in Checking
           /\ thread[t].pc = "admit" => thread[t] \in Admitting
           /\ thread[t].pc \in {"before", "timer", "half", "call"} => thread[t] \in Calling
           /\ thread[t].pc \in {"cache", "rejected", "succeeded", "failed", "refused", "close", "fallback", "answer"}
                  => thread[t] \in Ending
           /\ thread[t].pc \in {"opening", "open"} => thread[t] \in Opening
           /\ thread[t].pc # "idle" => thread[t].id \in RequestIds
  BY DEF SearchTypeOK, ThreadStates, AtRest, Checking, Admitting, Calling, Ending, Opening

LEMMA ThreadKinds == ThreadStates = {AtRest} \cup Checking \cup Admitting \cup Calling \cup Ending \cup Opening
  BY DEF ThreadStates, Checking, Admitting, Calling, Ending, Opening

\* Every admission has its time.
LEMMA AdmissionTimes ==
    ASSUME NEW log \in Seq(0..MaxTime)
    PROVE  Len(log) \in Nat /\ \A n \in 1..Len(log) : log[n] \in 0..MaxTime /\ log[n] \in Int
<1>1. ASSUME NEW S, NEW s \in Seq(S) PROVE Len(s) \in Nat /\ \A n \in 1..Len(s) : s[n] \in S
  OBVIOUS
<1>2. \A n \in 0..MaxTime : n \in Int
  BY SearchConstants
<1> QED
  BY <1>1, <1>2

\* Admissions are counted by natural numbers; those after a time are among those from it on.
LEMMA CountsAreNumbers ==
    ASSUME NEW log \in Seq(0..MaxTime), NEW time
    PROVE  /\ IsFiniteSet(From(log, time)) /\ CountFrom(log, time) \in Nat
           /\ IsFiniteSet(After(log, time)) /\ CountAfter(log, time) \in Nat
<1>1. Len(log) \in Nat
  BY AdmissionTimes
<1>2. IsFiniteSet(1..Len(log))
  BY <1>1, FS_Interval
<1>3. IsFiniteSet(From(log, time)) /\ IsFiniteSet(After(log, time))
  BY <1>2, FS_Subset DEF From, After
<1> QED
  BY <1>3, FS_CardinalityType DEF CountFrom, CountAfter

\* Admissions from a time later than another are after that one.
LEMMA LaterIsFewer ==
    ASSUME NEW log \in Seq(0..MaxTime), NEW early \in Int, NEW late \in Int, early < late
    PROVE  CountFrom(log, late) <= CountAfter(log, early)
<1>1. \A n \in 1..Len(log) : log[n] \in Int
  BY AdmissionTimes
<1>2. From(log, late) \subseteq After(log, early)
  BY <1>1 DEF From, After
<1> QED
  BY <1>2, CountsAreNumbers, FS_Subset DEF CountFrom, CountAfter

\* An admission adds one to every count that has begun, and takes none away.
LEMMA AdmissionCounts ==
    ASSUME NEW log \in Seq(0..MaxTime), NEW now \in 0..MaxTime, NEW time \in Int
    PROVE  /\ Append(log, now) \in Seq(0..MaxTime)
           /\ CountFrom(log, time) <= CountFrom(Append(log, now), time)
           /\ time <= now => CountFrom(Append(log, now), time) = CountFrom(log, time) + 1
           /\ CountAfter(log, time) <= CountAfter(Append(log, now), time)
<1> DEFINE last == Len(log) + 1
           new  == Append(log, now)
<1>1. Len(log) \in Nat /\ \A n \in 1..Len(log) : log[n] \in Int
  BY AdmissionTimes
<1>2. /\ Len(new) = last /\ new[last] = now
      /\ \A n \in 1..Len(log) : new[n] = log[n]
  BY <1>1
<1>3. new \in Seq(0..MaxTime)
  <2>1. ASSUME NEW S, NEW q \in Seq(S), NEW x \in S PROVE Append(q, x) \in Seq(S)
    OBVIOUS
  <2> QED
    BY <2>1
<1> HIDE DEF new
<1>4. now \in Int
  BY SearchConstants
<1>5. From(new, time) = From(log, time) \cup (IF time <= now THEN {last} ELSE {})
  BY <1>1, <1>2, <1>4 DEF From
<1>6. After(new, time) = After(log, time) \cup (IF time < now THEN {last} ELSE {})
  BY <1>1, <1>2, <1>4 DEF After
<1>7. last \notin From(log, time) /\ last \notin After(log, time)
  BY <1>1 DEF From, After
<1> HIDE DEF last
<1>8. /\ Cardinality(From(log, time) \cup {last}) = CountFrom(log, time) + 1
      /\ Cardinality(After(log, time) \cup {last}) = CountAfter(log, time) + 1
  BY <1>7, CountsAreNumbers, FS_AddElement, Zenon DEF CountFrom, CountAfter
<1>9. CountFrom(log, time) \in Nat /\ CountAfter(log, time) \in Nat
  BY CountsAreNumbers
<1>10. CountFrom(new, time) = IF time <= now THEN CountFrom(log, time) + 1 ELSE CountFrom(log, time)
  <2>1. CASE time <= now
    BY <1>5, <1>8, <2>1 DEF CountFrom
  <2>2. CASE ~(time <= now)
    <3>1. From(new, time) = From(log, time)
      BY <1>5, <2>2
    <3> QED
      BY <2>2, <3>1 DEF CountFrom
  <2> QED
    BY <2>1, <2>2
<1>11. CountAfter(new, time) = IF time < now THEN CountAfter(log, time) + 1 ELSE CountAfter(log, time)
  <2>1. CASE time < now
    BY <1>6, <1>8, <2>1 DEF CountAfter
  <2>2. CASE ~(time < now)
    <3>1. After(new, time) = After(log, time)
      BY <1>6, <2>2
    <3> QED
      BY <2>2, <3>1 DEF CountAfter
  <2> QED
    BY <2>1, <2>2
<1> QED
  BY <1>3, <1>9, <1>10, <1>11 DEF new

----------------------------------------------------------------------------
\* The invariant holds when nothing was searched.
LEMMA SearchInit_Inv == SearchInit => SearchInv
<1> SUFFICES ASSUME SearchInit PROVE SearchInv
  OBVIOUS
<1>1. SearchTypeOK
  <2>1. [t \in Threads |-> AtRest] \in [Threads -> ThreadStates]
    BY ThreadKinds
  <2>2. [start |-> 0, count |-> 0] \in Entries
    BY SearchConstants DEF Entries
  <2> QED
    BY <2>1, <2>2, SearchConstants DEF SearchInit, SearchTypeOK
<1>2. Honest(window, admitted, clock)
  <2>1. window.start = 0 /\ window.count = 0 /\ clock = 0
    BY DEF SearchInit
  <2>2. CountFrom(admitted, 0) \in Nat
    BY <1>1, CountsAreNumbers DEF SearchTypeOK
  <2> QED
    BY <2>1, <2>2 DEF Honest
<1>3. \A t \in Threads : thread[t].pc = "idle"
  BY DEF SearchInit, AtRest
<1>4. TimesHaveCome /\ EntriesAreHonest /\ LimitIsReached
  BY <1>3 DEF TimesHaveCome, EntriesAreHonest, LimitIsReached, At
<1>5. BreakerHasCause
  BY <1>3 DEF SearchInit, BreakerHasCause, KnowsOpen
<1> QED
  BY <1>1, <1>2, <1>4, <1>5 DEF SearchInv

(***************************************************************************)
(* A step of one thread that admits nothing: what has to be shown of that  *)
(* thread and of the breaker.                                              *)
(***************************************************************************)
LEMMA ThreadStep ==
    ASSUME SearchInv, NEW t \in Threads, NEW c \in ThreadStates,
           thread' = [thread EXCEPT ![t] = c], UNCHANGED <<clock, window, admitted>>,
           state' \in {"closed", "open", "half_open"}, failures' \in Nat, failed' \in Nat,
           openedAt' \in 0..MaxTime \cup {NoTime}, cached' \subseteq RequestIds, searches' \in 0..MaxSearches,
           failed <= failed', failures' <= failed',
           state' # "closed" => failed' >= Threshold,
           c.pc \in KnowsOpen => failed' >= Threshold,
           c.pc \in {"check", "limited"} => c.now <= clock,
           c.pc = "admit" => Honest(c.entry, admitted, clock) /\ c.entry.count < RateLimit,
           c.pc = "limited" => CountAfter(admitted, c.now - Window) >= RateLimit
    PROVE  SearchInv'
<1>1. thread'[t] = c /\ \A u \in Threads : u # t => thread'[u] = thread[u]
  BY DEF SearchInv, SearchTypeOK
<1>2. SearchTypeOK'
  <2>1. thread' \in [Threads -> ThreadStates]
    BY DEF SearchInv, SearchTypeOK
  <2>2. ThreadStates' = ThreadStates /\ Entries' = Entries
    BY DEF ThreadStates, Entries, AtRest
  <2> QED
    BY <2>1, <2>2 DEF SearchInv, SearchTypeOK
<1>3. Honest(window, admitted, clock)'
  BY DEF SearchInv
<1>4. TimesHaveCome'
  BY <1>1 DEF SearchInv, TimesHaveCome
<1>5. EntriesAreHonest'
  BY <1>1 DEF SearchInv, EntriesAreHonest, At
<1>6. LimitIsReached'
  BY <1>1 DEF SearchInv, LimitIsReached, At
<1>7. BreakerHasCause'
  BY <1>1, SearchConstants DEF SearchInv, SearchTypeOK, BreakerHasCause
<1> QED
  BY <1>2, <1>3, <1>4, <1>5, <1>6, <1>7 DEF SearchInv

\* What is known of the breaker before a step.
LEMMA BreakerFacts ==
    ASSUME SearchInv
    PROVE  /\ state \in {"closed", "open", "half_open"} /\ failures \in Nat /\ failed \in Nat
           /\ openedAt \in 0..MaxTime \cup {NoTime} /\ cached \subseteq RequestIds /\ searches \in 0..MaxSearches
           /\ failures <= failed /\ (state # "closed" => failed >= Threshold) /\ clock \in 0..MaxTime
  BY DEF SearchInv, SearchTypeOK, BreakerHasCause

\* A step of one thread that changes nothing but the thread.
LEMMA QuietStep ==
    ASSUME SearchInv, NEW t \in Threads, NEW c \in ThreadStates,
           thread' = [thread EXCEPT ![t] = c], Stay(<<shared, admitted, failed>>),
           c.pc \in KnowsOpen => failed >= Threshold,
           c.pc \notin {"check", "limited", "admit"}
    PROVE  SearchInv'
<1>1. UNCHANGED <<clock, window, admitted, state, failures, openedAt, cached, failed, searches>>
  BY DEF Stay, shared
<1>2. /\ state' \in {"closed", "open", "half_open"} /\ failures' \in Nat /\ failed' \in Nat
      /\ openedAt' \in 0..MaxTime \cup {NoTime} /\ cached' \subseteq RequestIds /\ searches' \in 0..MaxSearches
      /\ failed <= failed' /\ failures' <= failed' /\ (state' # "closed" => failed' >= Threshold)
  BY <1>1, BreakerFacts
<1>3. UNCHANGED <<clock, window, admitted>> /\ failed' = failed
  BY <1>1
<1> QED
  BY <1>2, <1>3, ThreadStep

\* Where threads go: the records they take along are of their place.
LEMMA GoesOn ==
    ASSUME SearchInv, NEW t \in Threads, NEW where
    PROVE  /\ thread[t].pc \in {"before", "timer", "half", "call"} /\ where \in {"before", "timer", "half", "call"}
                  => [thread[t] EXCEPT !.pc = where] \in Calling
           /\ thread[t].pc \in {"opening", "open"} /\ where \in {"opening", "open"}
                  => [thread[t] EXCEPT !.pc = where] \in Opening
           /\ thread[t].pc \in {"check", "limited"} /\ where \in {"check", "limited"}
                  => [thread[t] EXCEPT !.pc = where] \in Checking
           /\ thread[t].pc # "idle" /\ where \in {"cache", "rejected", "succeeded", "failed", "refused", "close", "fallback", "answer"}
                  => [pc |-> where, id |-> thread[t].id] \in Ending
           /\ Go(t, where) => thread' = [thread EXCEPT ![t] = [thread[t] EXCEPT !.pc = where]]
           /\ Enter(t, where) => thread' = [thread EXCEPT ![t] = [pc |-> where, id |-> thread[t].id]]
<1>1. /\ thread[t].pc \in {"before", "timer", "half", "call"} => thread[t] \in Calling
      /\ thread[t].pc \in {"opening", "open"} => thread[t] \in Opening
      /\ thread[t].pc \in {"check", "limited"} => thread[t] \in Checking
      /\ thread[t].pc # "idle" => thread[t].id \in RequestIds
  BY ThreadFields DEF SearchInv
<1>2. ASSUME thread[t] \in Calling, where \in {"before", "timer", "half", "call"}
      PROVE  [thread[t] EXCEPT !.pc = where] \in Calling
  BY <1>2 DEF Calling
<1>3. ASSUME thread[t] \in Opening, where \in {"opening", "open"}
      PROVE  [thread[t] EXCEPT !.pc = where] \in Opening
  BY <1>3 DEF Opening
<1>4. ASSUME thread[t] \in Checking, where \in {"check", "limited"}
      PROVE  [thread[t] EXCEPT !.pc = where] \in Checking
  BY <1>4 DEF Checking
<1>5. ASSUME thread[t].id \in RequestIds,
             where \in {"cache", "rejected", "succeeded", "failed", "refused", "close", "fallback", "answer"}
      PROVE  [pc |-> where, id |-> thread[t].id] \in Ending
  BY <1>5 DEF Ending
<1>6. thread \in [Threads -> ThreadStates]
  BY DEF SearchInv, SearchTypeOK
<1>7. Go(t, where) => thread' = [thread EXCEPT ![t] = [thread[t] EXCEPT !.pc = where]]
  BY <1>6 DEF Go
<1>8. Enter(t, where) => thread' = [thread EXCEPT ![t] = [pc |-> where, id |-> thread[t].id]]
  BY <1>6 DEF Enter
<1> QED
  BY <1>1, <1>2, <1>3, <1>4, <1>5, <1>7, <1>8

\* A thread leaves search.
LEMMA LeaveKeeps ==
    ASSUME SearchInv, NEW t \in Threads, Leave(t), UNCHANGED <<clock, window, admitted, searches>>,
           state' = state, failures' = failures, openedAt' = openedAt, cached' \subseteq RequestIds, failed' = failed
    PROVE  SearchInv'
<1>1. AtRest \in ThreadStates /\ AtRest.pc = "idle"
  BY ThreadKinds DEF AtRest
<1>2. "idle" \notin KnowsOpen
  BY DEF KnowsOpen
<1>3. /\ state' \in {"closed", "open", "half_open"} /\ failures' \in Nat /\ failed' \in Nat
      /\ openedAt' \in 0..MaxTime \cup {NoTime} /\ cached' \subseteq RequestIds /\ searches' \in 0..MaxSearches
      /\ failed <= failed' /\ failures' <= failed' /\ (state' # "closed" => failed' >= Threshold)
  BY BreakerFacts
<1> QED
  BY <1>1, <1>2, <1>3, ThreadStep DEF Leave

----------------------------------------------------------------------------
\* A search begins with the time it reads.
LEMMA Search_Inv == ASSUME SearchInv, NEW t \in Threads, Search(t) PROVE SearchInv'
<1>1. PICK r \in RequestIds : thread' = [thread EXCEPT ![t] = [pc |-> "check", id |-> r, now |-> clock]]
  BY DEF Search
<1> DEFINE c == [pc |-> "check", id |-> r, now |-> clock]
<1>2. c \in ThreadStates /\ c.pc = "check" /\ c.now = clock /\ thread' = [thread EXCEPT ![t] = c]
  BY <1>1, ThreadKinds, BreakerFacts DEF Checking
<1>3. UNCHANGED <<clock, window, admitted>>
  BY DEF Search, shared
<1>4. /\ state' \in {"closed", "open", "half_open"} /\ failures' \in Nat /\ failed' \in Nat
      /\ openedAt' \in 0..MaxTime \cup {NoTime} /\ cached' \subseteq RequestIds /\ searches' \in 0..MaxSearches
      /\ failed <= failed' /\ failures' <= failed' /\ (state' # "closed" => failed' >= Threshold)
  BY BreakerFacts, SearchConstants DEF Search, shared
<1>5. c.pc \notin KnowsOpen /\ c.now <= clock
  BY <1>2, BreakerFacts DEF KnowsOpen
<1> HIDE DEF c
<1> QED
  BY <1>2, <1>3, <1>4, <1>5, ThreadStep

(***************************************************************************)
(* The window is read.  Where it has reached the limit, what it counts was *)
(* admitted after the time that is a window ago.                           *)
(***************************************************************************)
LEMMA ReadWindow_Inv == ASSUME SearchInv, NEW t \in Threads, ReadWindow(t) PROVE SearchInv'
<1>1. /\ thread[t] \in Checking /\ thread[t].now <= clock
      /\ thread[t].pc = "check" /\ thread[t].id \in RequestIds /\ thread[t].now \in 0..MaxTime
  BY ThreadFields DEF SearchInv, TimesHaveCome, ReadWindow, At, Checking
<1>2. UNCHANGED <<clock, window, admitted, state, failures, openedAt, cached, failed, searches>>
  BY DEF ReadWindow, Stay, shared
<1>3. /\ state' \in {"closed", "open", "half_open"} /\ failures' \in Nat /\ failed' \in Nat
      /\ openedAt' \in 0..MaxTime \cup {NoTime} /\ cached' \subseteq RequestIds /\ searches' \in 0..MaxSearches
      /\ failed <= failed' /\ failures' <= failed' /\ (state' # "closed" => failed' >= Threshold)
  BY <1>2, BreakerFacts
<1>4. Honest(window, admitted, clock) /\ admitted \in Seq(0..MaxTime) /\ window \in Entries /\ window.start \in 0..MaxTime /\ window.count \in 0..RateLimit
  BY DEF SearchInv, SearchTypeOK, Entries
<1>5. Entry(t) \in Entries /\ Honest(Entry(t), admitted, clock)
  <2>1. CASE Entry(t) = window
    BY <1>4, <2>1
  <2>2. CASE Entry(t) = [start |-> thread[t].now, count |-> 0]
    <3>1. Entry(t) \in Entries /\ Entry(t).start = thread[t].now /\ Entry(t).count = 0
      BY <1>1, <2>2, SearchConstants DEF Entries
    <3>2. CountFrom(admitted, Entry(t).start) \in Nat
      BY <1>4, CountsAreNumbers
    <3> QED
      BY <1>1, <3>1, <3>2 DEF Honest
  <2> QED
    BY <2>1, <2>2 DEF Entry
<1>6. CASE Entry(t).count >= RateLimit
  <2> DEFINE c == [thread[t] EXCEPT !.pc = "limited"]
  <2>1. thread' = [thread EXCEPT ![t] = c] /\ c \in Checking
    BY <1>1, <1>6, GoesOn DEF ReadWindow
  <2>2. c.pc = "limited" /\ c.now = thread[t].now
    BY <1>1 DEF Checking
  <2>3. CountAfter(admitted, c.now - Window) >= RateLimit
    <3>1. CountAfter(admitted, thread[t].now - Window) \in Nat
      BY <1>4, CountsAreNumbers
    <3>2. CASE RateLimit = 0
      BY <2>2, <3>1, <3>2
    <3>3. CASE RateLimit # 0
      <4>1. Entry(t) = window /\ thread[t].now - window.start < Window
        BY <1>1, <1>4, <1>6, <3>3, SearchConstants DEF Entry
      <4>2. thread[t].now - Window \in Int /\ window.start \in Int /\ thread[t].now - Window < window.start
        BY <1>1, <1>4, <4>1, SearchConstants
      <4>3. CountFrom(admitted, window.start) <= CountAfter(admitted, thread[t].now - Window)
        BY <1>4, <4>2, LaterIsFewer
      <4>4. CountFrom(admitted, window.start) \in Nat /\ RateLimit <= CountFrom(admitted, window.start)
        BY <1>4, <1>6, <4>1, CountsAreNumbers, SearchConstants DEF Honest
      <4> QED
        BY <2>2, <3>1, <4>3, <4>4, SearchConstants
    <3> QED
      BY <3>2, <3>3
  <2>4. c \in ThreadStates /\ c.pc \notin KnowsOpen /\ c.now <= clock
    BY <1>1, <2>1, <2>2, ThreadKinds DEF KnowsOpen
  <2> HIDE DEF c
  <2> QED
    BY <1>2, <1>3, <2>1, <2>2, <2>3, <2>4, ThreadStep
<1>7. CASE ~(Entry(t).count >= RateLimit)
  <2> DEFINE c == [pc |-> "admit", id |-> thread[t].id, entry |-> Entry(t)]
  <2>1. thread' = [thread EXCEPT ![t] = c]
    BY <1>7 DEF ReadWindow, SearchInv, SearchTypeOK
  <2>2. c \in ThreadStates /\ c.pc = "admit" /\ c.entry = Entry(t)
    BY <1>1, <1>5, ThreadKinds DEF Admitting
  <2>3. Entry(t).count < RateLimit
    BY <1>5, <1>7, SearchConstants DEF Entries
  <2>4. c.pc \notin KnowsOpen
    BY <2>2 DEF KnowsOpen
  <2> HIDE DEF c
  <2> QED
    BY <1>2, <1>3, <1>5, <2>1, <2>2, <2>3, <2>4, ThreadStep
<1> QED
  BY <1>6, <1>7

(***************************************************************************)
(* The window is written: over whatever other threads wrote since it was   *)
(* read, but it counts this admission and those its entry counted.         *)
(***************************************************************************)
LEMMA WriteWindow_Inv == ASSUME SearchInv, NEW t \in Threads, WriteWindow(t) PROVE SearchInv'
<1> DEFINE e == thread[t].entry
           w == [e EXCEPT !.count = @ + 1]
           c == [pc |-> "cache", id |-> thread[t].id]
<1>1. /\ thread[t].pc = "admit" /\ thread[t].id \in RequestIds /\ e \in Entries
      /\ Honest(e, admitted, clock) /\ e.count < RateLimit
  BY ThreadFields DEF SearchInv, EntriesAreHonest, WriteWindow, At, Admitting
<1>2. /\ UNCHANGED <<clock, state, failures, openedAt, cached, failed, searches>>
      /\ admitted' = Append(admitted, clock) /\ window' = w /\ thread' = [thread EXCEPT ![t] = c]
  BY DEF WriteWindow, Enter, Stay, SearchInv, SearchTypeOK
<1>3. /\ e.start \in 0..MaxTime /\ e.count \in 0..RateLimit /\ clock \in 0..MaxTime
      /\ admitted \in Seq(0..MaxTime)
      /\ e.start <= clock /\ e.count <= CountFrom(admitted, e.start)
  BY <1>1, BreakerFacts DEF Honest, Entries, SearchInv, SearchTypeOK
<1>4. c \in ThreadStates /\ c.pc = "cache"
  BY <1>1, ThreadKinds DEF Ending
<1>5. w \in Entries /\ w.start = e.start /\ w.count = e.count + 1
  <2>1. ASSUME NEW x \in Entries, x.count < RateLimit
        PROVE  /\ [x EXCEPT !.count = @ + 1] \in Entries
               /\ [x EXCEPT !.count = @ + 1].start = x.start /\ [x EXCEPT !.count = @ + 1].count = x.count + 1
    BY <2>1, SearchConstants DEF Entries
  <2> QED
    BY <1>1, <2>1
<1> HIDE DEF e, w, c
<1>6. thread'[t] = c /\ \A u \in Threads : u # t => thread'[u] = thread[u]
  BY <1>2 DEF SearchInv, SearchTypeOK
<1>7. ASSUME NEW time \in Int
      PROVE  /\ admitted' \in Seq(0..MaxTime)
             /\ CountFrom(admitted, time) \in Nat /\ CountAfter(admitted, time) \in Nat
             /\ CountFrom(admitted', time) \in Nat /\ CountAfter(admitted', time) \in Nat
             /\ CountFrom(admitted, time) <= CountFrom(admitted', time)
             /\ time <= clock => CountFrom(admitted', time) = CountFrom(admitted, time) + 1
             /\ CountAfter(admitted, time) <= CountAfter(admitted', time)
  <2>1. /\ admitted' \in Seq(0..MaxTime)
        /\ CountFrom(admitted, time) <= CountFrom(admitted', time)
        /\ time <= clock => CountFrom(admitted', time) = CountFrom(admitted, time) + 1
        /\ CountAfter(admitted, time) <= CountAfter(admitted', time)
    BY <1>2, <1>3, AdmissionCounts
  <2> QED
    BY <1>3, <2>1, CountsAreNumbers
<1>8. SearchTypeOK'
  <2>1. ThreadStates' = ThreadStates /\ Entries' = Entries
    BY DEF ThreadStates, Entries, AtRest
  <2>2. thread' \in [Threads -> ThreadStates]
    BY <1>2, <1>4 DEF SearchInv, SearchTypeOK
  <2>3. admitted' \in Seq(0..MaxTime)
    BY <1>7
  <2> QED
    BY <1>2, <1>5, <2>1, <2>2, <2>3 DEF SearchInv, SearchTypeOK
<1>9. Honest(window, admitted, clock)'
  <2>1. e.start \in Int /\ e.count \in Int
    BY <1>3, SearchConstants
  <2>2. CountFrom(admitted, e.start) \in Nat /\ CountFrom(admitted', e.start) = CountFrom(admitted, e.start) + 1
    BY <1>3, <1>7, <2>1
  <2>3. e.count + 1 <= CountFrom(admitted', e.start)
    BY <1>3, <2>1, <2>2
  <2> QED
    BY <1>2, <1>3, <1>5, <2>3 DEF Honest
<1>10. TimesHaveCome'
  BY <1>2, <1>4, <1>6 DEF SearchInv, TimesHaveCome
<1>11. EntriesAreHonest'
  <2> SUFFICES ASSUME NEW u \in Threads, thread'[u].pc = "admit"
               PROVE  Honest(thread'[u].entry, admitted', clock') /\ thread'[u].entry.count < RateLimit
    BY DEF EntriesAreHonest, At
  <2>1. thread'[u] = thread[u]
    BY <1>4, <1>6
  <2> DEFINE d == thread[u].entry
  <2>2. d \in Entries /\ Honest(d, admitted, clock) /\ d.count < RateLimit
    BY <2>1, ThreadFields DEF SearchInv, EntriesAreHonest, At, Admitting
  <2>3. d.start \in 0..MaxTime /\ d.count \in 0..RateLimit
    BY <2>2 DEF Entries
  <2> HIDE DEF d
  <2>4. Honest(d, admitted', clock)
    <3>1. d.start \in Int /\ d.count \in Int
      BY <2>3, SearchConstants
    <3>2. d.start <= clock /\ d.count <= CountFrom(admitted, d.start)
      BY <2>2 DEF Honest
    <3>3. /\ CountFrom(admitted, d.start) \in Nat /\ CountFrom(admitted', d.start) \in Nat
          /\ CountFrom(admitted, d.start) <= CountFrom(admitted', d.start)
      BY <1>7, <3>1
    <3>4. d.count <= CountFrom(admitted', d.start)
      BY <3>1, <3>2, <3>3
    <3> QED
      BY <3>2, <3>4 DEF Honest
  <2> QED
    BY <1>2, <2>1, <2>2, <2>4 DEF d
<1>12. LimitIsReached'
  <2> SUFFICES ASSUME NEW u \in Threads, thread'[u].pc = "limited"
               PROVE  CountAfter(admitted', thread'[u].now - Window) >= RateLimit
    BY DEF LimitIsReached, At
  <2>1. thread'[u] = thread[u]
    BY <1>4, <1>6
  <2> DEFINE from == thread[u].now - Window
  <2>2. from \in Int
    BY <2>1, ThreadFields, SearchConstants DEF SearchInv, Checking
  <2>3. CountAfter(admitted, from) >= RateLimit
    BY <2>1 DEF SearchInv, LimitIsReached, At
  <2> HIDE DEF from
  <2>4. /\ CountAfter(admitted, from) \in Nat /\ CountAfter(admitted', from) \in Nat
        /\ CountAfter(admitted, from) <= CountAfter(admitted', from)
    BY <1>7, <2>2
  <2>5. CountAfter(admitted', from) >= RateLimit
    BY <2>3, <2>4, SearchConstants
  <2> QED
    BY <2>1, <2>5 DEF from
<1>13. BreakerHasCause'
  BY <1>2, <1>4, <1>6 DEF SearchInv, BreakerHasCause, KnowsOpen
<1> QED
  BY <1>8, <1>9, <1>10, <1>11, <1>12, <1>13 DEF SearchInv

\* The cache is read: the search returns, or it goes on to its first attempt.
LEMMA ReadCache_Inv == ASSUME SearchInv, NEW t \in Threads, ReadCache(t) PROVE SearchInv'
<1> DEFINE c == IF thread[t].id \in cached THEN AtRest ELSE [pc |-> "before", id |-> thread[t].id, attempt |-> 1]
<1>1. thread[t].id \in RequestIds /\ Stay(<<shared, admitted, failed>>)
  BY ThreadFields DEF SearchInv, ReadCache, At
<1>2. thread' = [thread EXCEPT ![t] = c]
  BY DEF ReadCache, SearchInv, SearchTypeOK
<1>3. c \in ThreadStates /\ c.pc \in {"idle", "before"}
  BY <1>1, ThreadKinds, SearchConstants DEF AtRest, Calling
<1> HIDE DEF c
<1> QED
  BY <1>1, <1>2, <1>3, QuietStep DEF KnowsOpen

----------------------------------------------------------------------------
\* A breaker that is found open has had its failures, and who asks for its time knows.
LEMMA BeforeCall_Inv == ASSUME SearchInv, NEW t \in Threads, BeforeCall(t) PROVE SearchInv'
<1>1. thread[t].pc = "before" /\ Stay(<<shared, admitted, failed>>)
  BY DEF BeforeCall, At
<1>2. CASE Leave(t)
  BY <1>1, <1>2, LeaveKeeps, BreakerFacts DEF Stay, shared
<1>3. CASE (state # "open" /\ Go(t, "call")) \/ (state = "open" /\ Go(t, "timer"))
  <2>1. PICK where \in {"call", "timer"} : Go(t, where) /\ (where = "timer" => state = "open")
    BY <1>3
  <2> DEFINE c == [thread[t] EXCEPT !.pc = where]
  <2>2. thread' = [thread EXCEPT ![t] = c] /\ c \in Calling
    BY <1>1, <2>1, GoesOn
  <2>3. c.pc = where
    BY <1>1, ThreadFields DEF SearchInv, Calling
  <2>4. c \in ThreadStates /\ (where = "timer" => failed >= Threshold)
    BY <2>1, <2>2, ThreadKinds, BreakerFacts
  <2> HIDE DEF c
  <2> QED
    BY <1>1, <2>1, <2>2, <2>3, <2>4, QuietStep DEF KnowsOpen
<1> QED
  BY <1>2, <1>3 DEF BeforeCall

\* The time of the breaker.
LEMMA ReadTimer_Inv == ASSUME SearchInv, NEW t \in Threads, ReadTimer(t) PROVE SearchInv'
<1>1. thread[t].pc = "timer" /\ Stay(<<shared, admitted, failed>>) /\ failed >= Threshold
  BY DEF ReadTimer, At, SearchInv, BreakerHasCause, KnowsOpen
<1>2. CASE Leave(t)
  BY <1>1, <1>2, LeaveKeeps, BreakerFacts DEF Stay, shared
<1>3. CASE Go(t, "half")
  <2> DEFINE c == [thread[t] EXCEPT !.pc = "half"]
  <2>1. thread' = [thread EXCEPT ![t] = c] /\ c \in ThreadStates /\ c.pc = "half"
    BY <1>1, <1>3, GoesOn, ThreadKinds, ThreadFields DEF SearchInv, Calling
  <2> HIDE DEF c
  <2> QED
    BY <1>1, <2>1, QuietStep
<1>4. CASE Enter(t, "rejected")
  <2> DEFINE c == [pc |-> "rejected", id |-> thread[t].id]
  <2>1. thread' = [thread EXCEPT ![t] = c] /\ c \in ThreadStates /\ c.pc = "rejected"
    BY <1>1, <1>4, GoesOn, ThreadKinds
  <2> HIDE DEF c
  <2> QED
    BY <1>1, <2>1, QuietStep
<1> QED
  BY <1>2, <1>3, <1>4 DEF ReadTimer

\* The trial call of a half open breaker.
LEMMA HalfOpen_Inv == ASSUME SearchInv, NEW t \in Threads, HalfOpen(t) PROVE SearchInv'
<1> DEFINE c == [thread[t] EXCEPT !.pc = "call"]
<1>1. thread[t].pc = "half" /\ failed >= Threshold
  BY DEF HalfOpen, At, SearchInv, BreakerHasCause, KnowsOpen
<1>2. thread' = [thread EXCEPT ![t] = c] /\ c \in ThreadStates /\ c.pc = "call"
  BY <1>1, GoesOn, ThreadKinds, ThreadFields DEF SearchInv, Calling, HalfOpen
<1>3. /\ state' \in {"closed", "open", "half_open"} /\ failures' \in Nat /\ failed' \in Nat
      /\ openedAt' \in 0..MaxTime \cup {NoTime} /\ cached' \subseteq RequestIds /\ searches' \in 0..MaxSearches
      /\ failed <= failed' /\ failures' <= failed' /\ (state' # "closed" => failed' >= Threshold)
  BY <1>1, BreakerFacts DEF HalfOpen, Stay
<1>4. UNCHANGED <<clock, window, admitted>>
  BY DEF HalfOpen, Stay
<1> HIDE DEF c
<1> QED
  BY <1>2, <1>3, <1>4, ThreadStep DEF KnowsOpen

\* The adapter is called, perhaps again.
LEMMA Call_Inv == ASSUME SearchInv, NEW t \in Threads, Call(t) PROVE SearchInv'
<1>1. thread[t].pc = "call" /\ Stay(<<shared, admitted, failed>>) /\ thread[t] \in Calling
  BY ThreadFields DEF Call, At, SearchInv
<1>2. CASE Leave(t)
  BY <1>1, <1>2, LeaveKeeps, BreakerFacts DEF Stay, shared
<1>3. CASE Enter(t, "succeeded") \/ Enter(t, "failed") \/ Enter(t, "refused")
  <2>1. PICK where \in {"succeeded", "failed", "refused"} : Enter(t, where)
    BY <1>3
  <2> DEFINE c == [pc |-> where, id |-> thread[t].id]
  <2>2. thread' = [thread EXCEPT ![t] = c] /\ c \in ThreadStates /\ c.pc = where
    BY <1>1, <2>1, GoesOn, ThreadKinds
  <2> HIDE DEF c
  <2> QED
    BY <1>1, <2>2, QuietStep DEF KnowsOpen
<1>4. CASE thread[t].attempt < MaxAttempts /\ thread' = [thread EXCEPT ![t].attempt = @ + 1]
  <2> DEFINE c == [thread[t] EXCEPT !.attempt = @ + 1]
  <2>1. thread' = [thread EXCEPT ![t] = c]
    BY <1>4 DEF SearchInv, SearchTypeOK
  <2>2. c \in Calling /\ c.pc = "call"
    BY <1>1, <1>4, SearchConstants DEF Calling
  <2>3. c \in ThreadStates
    BY <2>2, ThreadKinds
  <2> HIDE DEF c
  <2> QED
    BY <1>1, <2>1, <2>2, <2>3, QuietStep DEF KnowsOpen
<1> QED
  BY <1>2, <1>3, <1>4 DEF Call

\* A success takes failures from the count, never from what has happened.
LEMMA Succeeds_Inv == ASSUME SearchInv, NEW t \in Threads, RecordSuccess(t) \/ Close(t) PROVE SearchInv'
<1>1. PICK where \in {"close", "answer"} : Enter(t, where)
  BY DEF RecordSuccess, Close
<1> DEFINE c == [pc |-> where, id |-> thread[t].id]
<1>2. thread[t].pc # "idle"
  BY DEF RecordSuccess, Close, At
<1>3. thread' = [thread EXCEPT ![t] = c] /\ c \in ThreadStates /\ c.pc = where
  BY <1>1, <1>2, GoesOn, ThreadKinds
<1>4. /\ state' \in {"closed", "open", "half_open"} /\ failures' \in Nat /\ failed' \in Nat
      /\ openedAt' \in 0..MaxTime \cup {NoTime} /\ cached' \subseteq RequestIds /\ searches' \in 0..MaxSearches
      /\ failed <= failed' /\ failures' <= failed' /\ (state' # "closed" => failed' >= Threshold)
  BY BreakerFacts, SearchConstants DEF RecordSuccess, Close, Stay
<1>5. UNCHANGED <<clock, window, admitted>>
  BY DEF RecordSuccess, Close, Stay
<1> HIDE DEF c
<1> QED
  BY <1>3, <1>4, <1>5, ThreadStep DEF KnowsOpen

\* After a failure a thread falls back or leaves.
LEMMA FallBackKeeps ==
    ASSUME SearchInv, NEW t \in Threads, NEW retryable, FallBack(t, retryable), thread[t].pc # "idle",
           UNCHANGED <<clock, window, admitted>>,
           /\ state' \in {"closed", "open", "half_open"} /\ failures' \in Nat /\ failed' \in Nat
           /\ openedAt' \in 0..MaxTime \cup {NoTime} /\ cached' \subseteq RequestIds /\ searches' \in 0..MaxSearches
           /\ failed <= failed' /\ failures' <= failed' /\ (state' # "closed" => failed' >= Threshold)
    PROVE  SearchInv'
<1>1. CASE Leave(t)
  <2>1. AtRest \in ThreadStates /\ AtRest.pc = "idle" /\ thread' = [thread EXCEPT ![t] = AtRest]
    BY <1>1, ThreadKinds DEF AtRest, Leave
  <2> QED
    BY <2>1, ThreadStep DEF KnowsOpen
<1>2. CASE Enter(t, "fallback")
  <2> DEFINE c == [pc |-> "fallback", id |-> thread[t].id]
  <2>1. thread' = [thread EXCEPT ![t] = c] /\ c \in ThreadStates /\ c.pc = "fallback"
    BY <1>2, GoesOn, ThreadKinds
  <2> HIDE DEF c
  <2> QED
    BY <2>1, ThreadStep DEF KnowsOpen
<1> QED
  BY <1>1, <1>2 DEF FallBack

(***************************************************************************)
(* A failure is counted, and opens the breaker if it was the last one that *)
(* was missing, or the trial of a half open one.                           *)
(***************************************************************************)
LEMMA RecordFailure_Inv == ASSUME SearchInv, NEW t \in Threads, RecordFailure(t) PROVE SearchInv'
<1>1. thread[t].pc \in {"failed", "refused"} /\ thread[t].id \in RequestIds
  BY ThreadFields DEF RecordFailure, At, SearchInv
<1>2. /\ state' \in {"closed", "open", "half_open"} /\ failures' \in Nat /\ failed' \in Nat
      /\ openedAt' \in 0..MaxTime \cup {NoTime} /\ cached' \subseteq RequestIds /\ searches' \in 0..MaxSearches
      /\ failed <= failed' /\ failures' <= failed' /\ (state' # "closed" => failed' >= Threshold)
  BY BreakerFacts, SearchConstants DEF RecordFailure, Stay
<1>3. UNCHANGED <<clock, window, admitted>>
  BY DEF RecordFailure, Stay
<1>4. CASE state = "half_open" \/ failures' >= Threshold
  <2> DEFINE c == [pc |-> "opening", id |-> thread[t].id, retryable |-> At(t, "failed")]
  <2>1. thread' = [thread EXCEPT ![t] = c]
    BY <1>4 DEF RecordFailure, SearchInv, SearchTypeOK
  <2>2. c \in ThreadStates /\ c.pc = "opening"
    BY <1>1, ThreadKinds DEF Opening, At
  <2>3. failed' >= Threshold
    BY <1>2, <1>4, BreakerFacts, SearchConstants DEF RecordFailure
  <2> HIDE DEF c
  <2> QED
    BY <1>2, <1>3, <2>1, <2>2, <2>3, ThreadStep
<1>5. CASE ~(state = "half_open" \/ failures' >= Threshold)
  <2>1. FallBack(t, At(t, "failed"))
    BY <1>5 DEF RecordFailure
  <2> QED
    BY <1>1, <1>2, <1>3, <2>1, FallBackKeeps
<1> QED
  BY <1>4, <1>5

\* The breaker opens: first its time is set, then its state.
LEMMA Opens_Inv == ASSUME SearchInv, NEW t \in Threads, SetTimer(t) \/ Open(t) PROVE SearchInv'
<1>1. thread[t].pc \in {"opening", "open"} /\ failed >= Threshold
  BY DEF SetTimer, Open, At, SearchInv, BreakerHasCause, KnowsOpen
<1>2. /\ state' \in {"closed", "open", "half_open"} /\ failures' \in Nat /\ failed' \in Nat
      /\ openedAt' \in 0..MaxTime \cup {NoTime} /\ cached' \subseteq RequestIds /\ searches' \in 0..MaxSearches
      /\ failed <= failed' /\ failures' <= failed' /\ (state' # "closed" => failed' >= Threshold)
  BY <1>1, BreakerFacts, SearchConstants DEF SetTimer, Open, Stay
<1>3. UNCHANGED <<clock, window, admitted>> /\ failed' = failed
  BY DEF SetTimer, Open, Stay
<1>4. CASE FallBack(t, thread[t].retryable)
  BY <1>1, <1>2, <1>3, <1>4, FallBackKeeps
<1>5. CASE Go(t, "open")
  <2> DEFINE c == [thread[t] EXCEPT !.pc = "open"]
  <2>1. thread' = [thread EXCEPT ![t] = c] /\ c \in Opening
    BY <1>1, <1>5, GoesOn
  <2>2. c \in ThreadStates /\ c.pc = "open"
    BY <1>1, <2>1, ThreadKinds, ThreadFields DEF SearchInv, Opening
  <2> HIDE DEF c
  <2> QED
    BY <1>1, <1>2, <1>3, <2>1, <2>2, ThreadStep
<1> QED
  BY <1>4, <1>5 DEF SetTimer, Open

\* The search returns, with a result or an error.
LEMMA Returns_Inv == ASSUME SearchInv, NEW t \in Threads, Answer(t) \/ Raise(t) PROVE SearchInv'
<1>1. thread[t].id \in RequestIds
  BY ThreadFields DEF SearchInv, Answer, Raise
<1>2. cached' \subseteq RequestIds
  BY <1>1, BreakerFacts DEF Answer, Raise, Stay, shared
<1> QED
  BY <1>2, LeaveKeeps DEF Answer, Raise, Stay, shared

\* Time passes: what has begun stays begun.
LEMMA Tick_Inv == ASSUME SearchInv, Tick PROVE SearchInv'
<1>1. /\ clock \in 0..MaxTime /\ clock' = clock + 1 /\ clock' \in 0..MaxTime
      /\ UNCHANGED <<window, state, failures, openedAt, cached, thread, searches, admitted, failed>>
  BY BreakerFacts, SearchConstants DEF Tick, shared, history
<1>2. SearchTypeOK'
  BY <1>1 DEF SearchInv, SearchTypeOK, ThreadStates, Entries, AtRest
<1>3. ASSUME NEW e \in Entries, Honest(e, admitted, clock) PROVE Honest(e, admitted, clock')
  BY <1>1, <1>3, SearchConstants DEF Honest, Entries
<1>4. Honest(window, admitted, clock)'
  BY <1>1, <1>3 DEF SearchInv, SearchTypeOK
<1>5. TimesHaveCome'
  BY <1>1, ThreadFields, SearchConstants DEF SearchInv, TimesHaveCome, Checking
<1>6. EntriesAreHonest'
  BY <1>1, <1>3, ThreadFields DEF SearchInv, EntriesAreHonest, At, Admitting
<1>7. LimitIsReached' /\ BreakerHasCause'
  BY <1>1 DEF SearchInv, LimitIsReached, At, BreakerHasCause
<1> QED
  BY <1>2, <1>4, <1>5, <1>6, <1>7 DEF SearchInv

\* Every step keeps the invariant.
LEMMA SearchNext_Inv == SearchInv /\ [SearchNext]_searchVars => SearchInv'
<1> SUFFICES ASSUME SearchInv, [SearchNext]_searchVars PROVE SearchInv'
  OBVIOUS
<1>1. CASE UNCHANGED searchVars
  BY <1>1
  DEF searchVars, shared, history, SearchInv, SearchTypeOK, ThreadStates, Entries, AtRest, TimesHaveCome,
      EntriesAreHonest, LimitIsReached, BreakerHasCause, At
<1>2. CASE Tick
  BY <1>2, Tick_Inv
<1>3. ASSUME NEW t \in Threads, Step(t) PROVE SearchInv'
  BY <1>3, Search_Inv, ReadWindow_Inv, WriteWindow_Inv, ReadCache_Inv, BeforeCall_Inv, ReadTimer_Inv, HalfOpen_Inv, Call_Inv,
     Succeeds_Inv, RecordFailure_Inv, Opens_Inv, Returns_Inv DEF Step
<1> QED
  BY <1>1, <1>2, <1>3 DEF SearchNext

\* The inductive invariant holds in every reachable state of the search.
THEOREM SearchIsSound == SearchSpec => []SearchInv
<1> QED
  BY SearchInit_Inv, SearchNext_Inv, PTL DEF SearchSpec

----------------------------------------------------------------------------
(***************************************************************************)
(* Both programs: a behaviour is one of the agent or one of the search,    *)
(* and a step of one leaves the other as it is.                            *)
(***************************************************************************)
CallingInv == AgentInv /\ SearchInv /\ part \in {"agent", "search"}

\* The inductive invariant holds in every reachable state of the two programs.
THEOREM CallingIsSound == CallingSpec => []CallingInv
<1>1. CallingInit => CallingInv
  BY AgentInit_Inv, SearchInit_Inv DEF CallingInit, CallingInv
<1>2. ASSUME CallingInv, [CallingNext]_callingVars PROVE CallingInv'
  <2>1. [Next]_vars /\ [SearchNext]_searchVars /\ part' = part
    BY <1>2 DEF CallingNext, AgentStep, SearchStep, callingVars
  <2>2. AgentInv'
    BY <1>2, <2>1, AgentNext_Inv DEF CallingInv
  <2>3. SearchInv'
    BY <1>2, <2>1, SearchNext_Inv DEF CallingInv
  <2> QED
    BY <1>2, <2>1, <2>2, <2>3 DEF CallingInv
<1> QED
  BY <1>1, <1>2, PTL DEF CallingSpec

\* Every variable of the two programs keeps its type.
THEOREM CallingIsTyped == CallingSpec => []CallingTypeOK
<1>1. CallingInv => CallingTypeOK
  BY DEF CallingInv, CallingTypeOK, AgentInv, SearchInv
<1> QED
  BY <1>1, CallingIsSound, PTL

(***************************************************************************)
(* Whatever updates of the window and of the breaker are lost between      *)
(* threads, who is told of the limit comes after RateLimit admissions      *)
(* within the window, and who is told of an open circuit comes after       *)
(* Threshold failed calls (check, before_call, record_failure).            *)
(***************************************************************************)
THEOREM NobodyIsTurnedAwayForNothing == CallingSpec => []RejectionsAreDeserved
<1>1. CallingInv => RejectionsAreDeserved
  BY DEF CallingInv, SearchInv, LimitIsReached, BreakerHasCause, KnowsOpen, RejectionsAreDeserved, At,
         CountAfter, After, AdmittedSince
<1> QED
  BY <1>1, CallingIsSound, PTL

(***************************************************************************)
(* What is proved of the agent holds of the two programs: issue_refund     *)
(* never runs without an approval, callers are told the truth, and what    *)
(* they were told is kept (execute, policy.evaluate, issue_refund).        *)
(***************************************************************************)
THEOREM CallingKeepsItsWord == CallingSpec => [](RefundsAreApproved /\ AnswersAreTrue /\ ToldIsKept)
<1>1. CallingInv => RefundsAreApproved /\ AnswersAreTrue /\ ToldIsKept
  BY DEF CallingInv, AgentInv, AnswersAreTrue, CallIsTrue, HasRefund, Entitled
<1> QED
  BY <1>1, CallingIsSound, PTL
=============================================================================
