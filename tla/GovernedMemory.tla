--------------------------- MODULE GovernedMemory ---------------------------
(***************************************************************************)
(* The memories of one user under one key, and workers whose persist step  *)
(* calls remember() of app/memory.py.  A write is one transaction, which   *)
(* reads the newest active record without a lock, supersedes it and adds   *)
(* its own; the audit record is committed on another connection before     *)
(* the transaction is.  Reads change nothing but the audit.                *)
(*                                                                         *)
(* A record is known by the order in which the transactions began, which   *)
(* is the order of created_at (now() is fixed by BEGIN); its SELECT sees   *)
(* what is committed when it is sent (READ COMMITTED), so a writer may     *)
(* find, and supersede, a record that is newer than its own.  The          *)
(* rejections of policy are a function of the arguments and end the call   *)
(* before it reads anything.  The field "at" of a record is history: the   *)
(* position of its commit among the commits.                               *)
(***************************************************************************)
EXTENDS Integers, FiniteSets, FiniteSetsExt

CONSTANTS
    Writers,    \* workers that may be in remember() at once
    Values,     \* values of the key, up to case and white space
    MaxWrites   \* bound: the transactions that may begin

ASSUME MemoryConstants == MaxWrites \in Nat

VARIABLES
    memories,  \* memories: the committed records by number, NoRecord for the others
    audited,   \* memory_audit: the records said to be stored
    begun,     \* how many transactions have begun
    writer     \* progress of each writer, the record it adds and the one it supersedes

memoryVars == <<memories, audited, begun, writer>>

Numbers == 1..MaxWrites

NoRecord == [status |-> "none"]

Stored == {n \in Numbers : memories[n] # NoRecord}

Active == {n \in Stored : memories[n].status = "active"}

Idle == [pc |-> "idle"]

MemoryInit ==
    /\ memories = [n \in Numbers |-> NoRecord]
    /\ audited = {}
    /\ begun = 0
    /\ writer = [w \in Writers |-> Idle]

----------------------------------------------------------------------------
\* The record a write supersedes: the newest active one, 0 if there is none.
Existing == IF Active = {} THEN 0 ELSE Max(Active)

\* BEGIN, a round trip of its own.
Begin(w) ==
    /\ writer[w] = Idle
    /\ begun < MaxWrites
    /\ \E v \in Values : writer' = [writer EXCEPT ![w] =
           [pc |-> "read", number |-> begun + 1, value |-> v, supersedes |-> 0]]
    /\ begun' = begun + 1
    /\ UNCHANGED <<memories, audited>>

\* The SELECT; a value that is stored already ends the transaction, audited as deduplicated.
Select(w) ==
    /\ writer[w].pc = "read"
    /\ writer' = [writer EXCEPT ![w] =
           IF Existing # 0 /\ memories[Existing].value = @.value THEN Idle
           ELSE [@ EXCEPT !.pc = "update", !.supersedes = Existing]]
    /\ UNCHANGED <<memories, audited, begun>>

\* The row lock of the UPDATE; another writer that supersedes the same record waits for it.
Locked(n) == n # 0 /\ \E u \in Writers : writer[u].pc \in {"audit", "commit"} /\ writer[u].supersedes = n

Update(w) ==
    /\ writer[w].pc = "update"
    /\ ~Locked(writer[w].supersedes)
    /\ writer' = [writer EXCEPT ![w].pc = "audit"]
    /\ UNCHANGED <<memories, audited, begun>>

Audit(w) ==
    /\ writer[w].pc = "audit"
    /\ audited' = audited \cup {writer[w].number}
    /\ writer' = [writer EXCEPT ![w].pc = "commit"]
    /\ UNCHANGED <<memories, begun>>

\* A mutant of Replaces: the UPDATE is of all active records of the key.
ReplacesAll(a, n) == a.supersedes # 0 /\ memories[n].status = "active"

Replaces(a, n) == n = a.supersedes

\* The commit of both writes.
CommitWrite(w) ==
    LET a == writer[w]
    IN  /\ a.pc = "commit"
        /\ memories' = [n \in Numbers |->
               IF n = a.number
                   THEN [status |-> "active", value |-> a.value, supersedes |-> a.supersedes,
                         at |-> Cardinality(Stored) + 1]
               ELSE IF Replaces(a, n) THEN [memories[n] EXCEPT !.status = "superseded"]
               ELSE memories[n]]
        /\ writer' = [writer EXCEPT ![w] = Idle]
        /\ UNCHANGED <<audited, begun>>

\* The transaction is rolled back: a lost connection, or a worker that dies.
Rollback(w) ==
    /\ writer[w] # Idle
    /\ writer' = [writer EXCEPT ![w] = Idle]
    /\ UNCHANGED <<memories, audited, begun>>

MemoryNext == \E w \in Writers : Begin(w) \/ Select(w) \/ Update(w) \/ Audit(w) \/ CommitWrite(w) \/ Rollback(w)

MemorySpec == MemoryInit /\ [][MemoryNext]_memoryVars

----------------------------------------------------------------------------
RecordTypes ==
    {NoRecord} \cup [status : {"active", "superseded"}, value : Values, supersedes : 0..MaxWrites,
                     at : 1..MaxWrites]

MemoryTypeOK ==
    /\ memories \in [Numbers -> RecordTypes]
    /\ audited \subseteq Numbers
    /\ begun \in 0..MaxWrites
    /\ writer \in [Writers -> {Idle} \cup [pc : {"read", "update", "audit", "commit"}, number : Numbers,
                                           value : Values, supersedes : 0..MaxWrites]]

(***************************************************************************)
(* However many writers supersede the same record, and whichever began     *)
(* first: as long as anything was stored, there is a record to recall;     *)
(* what is superseded has a successor that names it, says something else   *)
(* and was committed later (not always one that is newer by created_at),   *)
(* so no records supersede each other in a circle; and what is stored is   *)
(* audited, although the audit is not part of the write.                   *)
(***************************************************************************)
MemoryIsKept ==
    /\ Stored # {} => Active # {}
    /\ \A n \in Stored \ Active : \E s \in Stored :
           /\ memories[s].at > memories[n].at
           /\ memories[s].supersedes = n
           /\ memories[s].value # memories[n].value
    /\ Stored \subseteq audited
=============================================================================
