------------------------------ MODULE SyncTable -------------------------------
(***************************************************************************)
(* The tables that dbproxy keeps for the engine of a user: go/sql and the  *)
(* requests of go/dbproxy.  Every statement is restricted to the user of   *)
(* the access token, so that there is one user here, and one synchronised  *)
(* table, user_device.                                                     *)
(*                                                                         *)
(* A synchronised table has a journal beside it: for every row the time of *)
(* its last change, and for every row that was deleted the time of that.   *)
(* An entry is a row of the journal joined with the row of the table.      *)
(*                                                                         *)
(* A transaction of MySQL (REPEATABLE READ) reads a snapshot, which its    *)
(* first query takes, and waits for locks when it writes: it is two steps, *)
(* one that reads and decides, and its commit.  Times are those of the     *)
(* devices and of the servers of dbproxy, whose clocks do not agree.       *)
(***************************************************************************)
EXTENDS Naturals, Sequences, FiniteSets

CONSTANTS Keys, Values, NoValue,
          LocalKeys,    \* the keys of the local tables
          Replicas,     \* devices that keep a copy with SyncAt
          Clients,      \* other requests
          MaxTime,      \* bound: times, 0 for none
          MaxPush       \* bound: records of one request

ASSUME SyncAssumption ==
    /\ NoValue \notin Values
    /\ Replicas \cap Clients = {}
    /\ MaxTime \in Nat /\ MaxPush \in Nat

VARIABLES db,           \* the table and its journal
          local,        \* a local table
          tx,           \* the open transactions
          copy, since,  \* of a replica: what it was told, and up to when
          disorder      \* a write was committed that is not later than all before it

syncVars == <<db, local, tx, copy, since, disorder>>

Time == 0..MaxTime
Entry == [value : Values \cup {NoValue}, time : Time]
Rows == [Keys -> Values \cup {NoValue}]
NoEntry == [value |-> NoValue, time |-> 0]

\* A pushed record: one without its discriminator is a deletion.
Change == [key : Keys, value : Values \cup {NoValue}, time : 1..MaxTime]
Changes == UNION {[1..n -> Change] : n \in 0..MaxPush}

\* A transaction: the entries it writes and its answer to a replica.
Writes == UNION {[K -> Entry] : K \in SUBSET Keys}
NoTx == [open |-> FALSE, writes |-> <<>>, copy |-> [k \in Keys |-> NoValue], since |-> 0]
Tx == [open : BOOLEAN, writes : Writes, copy : Rows, since : Time]

SyncInit == /\ db = [k \in Keys |-> NoEntry]
        /\ local = [k \in LocalKeys |-> NoValue]
        /\ tx = [c \in Replicas \cup Clients |-> NoTx]
        /\ copy = [r \in Replicas |-> [k \in Keys |-> NoValue]]
        /\ since = [r \in Replicas |-> 0]
        /\ disorder = FALSE

-----------------------------------------------------------------------------
(* Queries.                                                                 *)

\* GetAll, GetOne
AllRows(d) == [k \in Keys |-> d[k].value]

\* A bug to detect: an inner join, that has no row for a deletion.
ChangesApplied_InnerJoin(d, t, c) ==
    [k \in Keys |-> IF d[k].time > t /\ d[k].value # NoValue THEN d[k].value ELSE c[k]]

\* getChangesAfter, a left outer join of the journal with the table, applied
\* to a copy.
ChangesApplied(d, t, c) ==
    [k \in Keys |-> IF d[k].time > t THEN d[k].value ELSE c[k]]

\* getLastModified, and a bug to detect: it sees the changes just pushed.
Later(d, w) == [k \in Keys |-> IF k \in DOMAIN w THEN w[k] ELSE d[k]]
NewestTime(d) == IF \A k \in Keys : d[k].time = 0 THEN 0
             ELSE CHOOSE t \in Time : /\ \E k \in Keys : d[k].time = t
                                      /\ \A k \in Keys : d[k].time <= t
LastModified_AfterPush(d, w) == NewestTime(Later(d, w))
LastModified(d, w) == NewestTime(d)

\* insertIfRecent, deleteIfRecent
Recent(d, change) == change.time > d[change.key].time

\* handleChanges, in one transaction that sees its own writes: of the changes
\* to a key, the first of those with the latest time is left.
Winner(changes, k, i) ==
    /\ changes[i].key = k
    /\ \A j \in DOMAIN changes :
          changes[j].key = k => \/ changes[j].time < changes[i].time
                                \/ changes[j].time = changes[i].time /\ i <= j
EntryOf(change) == [value |-> change.value, time |-> change.time]
Pushed(d, changes) ==
    [k \in {changes[i].key : i \in {j \in DOMAIN changes : Recent(d, changes[j])}} |->
        EntryOf(changes[CHOOSE i \in DOMAIN changes : Winner(changes, k, i)])]

\* ReplaceAll, which leaves no tombstone: the last record of a key is inserted,
\* deletions are skipped, and no records at all are no request.
Last(S) == CHOOSE i \in S : \A j \in S : j <= i
Replaced(changes) ==
    IF changes = <<>> THEN <<>>
    ELSE [k \in Keys |->
            LET inserts == {i \in DOMAIN changes : /\ changes[i].key = k
                                                   /\ changes[i].value # NoValue}
            IN  IF inserts = {} THEN NoEntry ELSE EntryOf(changes[Last(inserts)])]

-----------------------------------------------------------------------------
(* Requests: synctable.                                                     *)

Reads(c, writes, rows, time) ==
    /\ ~tx[c].open
    /\ tx' = [tx EXCEPT ![c] = [open |-> TRUE, writes |-> writes, copy |-> rows, since |-> time]]
    /\ UNCHANGED <<db, local, copy, since, disorder>>

StartsWriting(c, writes) == Reads(c, writes, NoTx.copy, NoTx.since)

HandleChanges(c) == \E changes \in Changes : StartsWriting(c, Pushed(db, changes))

\* Of one row.
InsertIfRecent(c) == \E ch \in Change : ch.value # NoValue /\ StartsWriting(c, Pushed(db, <<ch>>))
DeleteIfRecent(c) == \E ch \in Change : ch.value = NoValue /\ StartsWriting(c, Pushed(db, <<ch>>))

\* With the time of the server, whatever is in the journal.
InsertOne(c) ==
    \E k \in Keys, v \in Values, now \in 1..MaxTime :
        StartsWriting(c, [j \in {k} |-> [value |-> v, time |-> now]])
DeleteOne(c) ==
    \E k \in Keys, now \in 1..MaxTime :
        StartsWriting(c, [j \in {k} |-> [value |-> NoValue, time |-> now]])

ReplaceAll(c) == \E changes \in Changes : StartsWriting(c, Replaced(changes))

\* SyncAt: the changes since the last time, the time of the last of all, and
\* the changes of the replica applied to the table.
SyncAt(r, changes) ==
    LET pushed == Pushed(db, changes)
    IN  Reads(r, pushed, ChangesApplied(db, since[r], copy[r]), LastModified(db, pushed))

\* The replica reads the changes since it last synchronised, or everything the
\* journal knows of.  Neither tells it a time to ask about next.
Told(r, rows) ==
    /\ ~tx[r].open
    /\ copy' = [copy EXCEPT ![r] = rows]
    /\ UNCHANGED <<db, local, tx, since, disorder>>
GetChangesAfter(r) == Told(r, ChangesApplied(db, since[r], copy[r]))
GetRaw(r) == Told(r, ChangesApplied(db, 0, copy[r]))

(* The end of a transaction.                                                *)

CommitSync(c) ==
    LET w == tx[c].writes
    IN  /\ tx[c].open
        /\ tx' = [tx EXCEPT ![c] = NoTx]
        /\ db' = Later(db, w)
        /\ disorder' = (disorder \/ \E k \in DOMAIN w, j \in Keys : w[k].time <= db[j].time)
        /\ UNCHANGED local

\* The answer arrives, or it is lost after the commit.
Answered(r) ==
    /\ CommitSync(r)
    /\ copy' = [copy EXCEPT ![r] = tx[r].copy]
    /\ since' = [since EXCEPT ![r] = tx[r].since]

Unanswered(c) == CommitSync(c) /\ UNCHANGED <<copy, since>>

\* An error: the transaction is rolled back, and the answer is 500.
Fails(c) == /\ tx[c].open
            /\ tx' = [tx EXCEPT ![c] = NoTx]
            /\ UNCHANGED <<db, local, copy, since, disorder>>

-----------------------------------------------------------------------------
(* Requests: localtable.                                                    *)

LocalInsertOne(k, v) ==
    local' = [local EXCEPT ![k] = v] /\ UNCHANGED <<db, tx, copy, since, disorder>>

LocalDeleteOne(k) ==
    local' = [local EXCEPT ![k] = NoValue] /\ UNCHANGED <<db, tx, copy, since, disorder>>

-----------------------------------------------------------------------------
ClientRequest(c) ==
    \/ HandleChanges(c) \/ InsertIfRecent(c) \/ DeleteIfRecent(c)
    \/ InsertOne(c) \/ DeleteOne(c) \/ ReplaceAll(c)

SyncNext ==
    \/ \E c \in Clients : ClientRequest(c)
    \/ \E r \in Replicas, changes \in Changes : SyncAt(r, changes)
    \/ \E r \in Replicas : Answered(r) \/ GetChangesAfter(r) \/ GetRaw(r)
    \/ \E c \in Replicas \cup Clients : Unanswered(c) \/ Fails(c)
    \/ \E k \in LocalKeys, v \in Values : LocalInsertOne(k, v) \/ LocalDeleteOne(k)

SyncSpec == SyncInit /\ [][SyncNext]_syncVars

\* A replica synchronises again and again, and not every answer is lost.
SyncFairness ==
    \A r \in Replicas : /\ WF_syncVars(\E changes \in Changes : SyncAt(r, changes))
                        /\ SF_syncVars(Answered(r))

SyncFairSpec == SyncSpec /\ SyncFairness

-----------------------------------------------------------------------------
SyncTypeOK ==
    /\ db \in [Keys -> Entry]
    /\ local \in [LocalKeys -> Values \cup {NoValue}]
    /\ tx \in [Replicas \cup Clients -> Tx]
    /\ copy \in [Replicas -> Rows]
    /\ since \in [Replicas -> Time]
    /\ disorder \in BOOLEAN

\* SyncAt: what a replica was told is what the table says of every row that is
\* not newer than the time the replica will ask about next, and so it misses
\* nothing, as long as no write is committed with a time that is not later than
\* all times before it (and ReplaceAll is not used).
NothingMissed ==
    disorder \/ \A r \in Replicas, k \in Keys :
                    db[k].time <= since[r] => copy[r][k] = db[k].value

\* Under the same condition a replica that keeps synchronising gets the whole
\* table, its own changes among it, whatever answers are lost.
Converges == \A r \in Replicas : []<>(disorder \/ copy[r] = AllRows(db))
===============================================================================
