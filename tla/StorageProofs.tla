----------------------------- MODULE StorageProofs -----------------------------
(* Theorems about what is stored and fetched again, for any numbers of        *)
(* replicas, keys and values, of clients and requests.                        *)
EXTENDS SyncTable, NlpServer, Learning, Upload, Bootstrap, Catalogue, Translations, Manifest,
        FiniteSetTheorems, WellFoundedInduction, TLAPS

-----------------------------------------------------------------------------
(* Synchronised tables.                                                       *)

\* There is a least of some numbers.
LEMMA SmallestExists ==
    ASSUME NEW S \in SUBSET Nat, S # {}
    PROVE  \E x \in S : \A y \in S : x <= y
<1> DEFINE R == {p \in Nat \X Nat : p[1] < p[2]}
<1>1. IsWellFoundedOn(R, Nat)
  BY NatLessThanWellFounded DEF OpToRel
<1> HIDE DEF R
<1>2. PICK x \in S : \A y \in S : <<y, x>> \notin R
  BY <1>1, WFMin
<1>3. ASSUME NEW y \in S PROVE x <= y
  <2>1. ~(y < x)
    BY <1>2 DEF R
  <2> QED
    BY <2>1
<1> QED
  BY <1>3

\* There is a latest of some times, and a last of some positions.
LEMMA LargestExists ==
    ASSUME NEW n \in Nat, NEW S \in SUBSET (0..n), S # {}
    PROVE  \E x \in S : \A y \in S : y <= x
<1> DEFINE Distances == {n - y : y \in S}
<1>1. Distances \in SUBSET Nat /\ Distances # {}
  <2>1. \A y \in S : n - y \in Nat
    OBVIOUS
  <2> QED
    BY <2>1
<1>2. PICK d \in Distances : \A e \in Distances : d <= e
  BY <1>1, SmallestExists
<1>3. PICK x \in S : d = n - x
  OBVIOUS
<1>4. ASSUME NEW y \in S PROVE y <= x
  BY <1>2, <1>3
<1> QED
  BY <1>4

\* getLastModified answers a time that no entry is later than, and that one has
\* unless the table is empty.
LEMMA NewestTimeIsLast ==
    ASSUME NEW d \in [Keys -> Entry]
    PROVE  /\ NewestTime(d) \in Time
           /\ \A k \in Keys : d[k].time <= NewestTime(d)
           /\ Keys # {} => \E k \in Keys : NewestTime(d) <= d[k].time
<1> USE SyncAssumption DEF Time, Entry
<1> DEFINE S == {d[k].time : k \in Keys}
<1>1. CASE \A k \in Keys : d[k].time = 0
  BY <1>1 DEF NewestTime
<1>2. CASE ~\A k \in Keys : d[k].time = 0
  <2>1. S \in SUBSET (0..MaxTime) /\ S # {}
    BY <1>2
  <2>2. \E t \in S : \A u \in S : u <= t
    BY <2>1, LargestExists
  <2>3. \E t \in Time : /\ \E k \in Keys : d[k].time = t
                        /\ \A k \in Keys : d[k].time <= t
    BY <2>1, <2>2
  <2> QED
    BY <1>2, <2>3 DEF NewestTime
<1> QED
  BY <1>1, <1>2

\* Of the changes to a key there is one that wins.
LEMMA WinnerExists ==
    ASSUME NEW changes \in Seq(Change), NEW i \in DOMAIN changes
    PROVE  \E w \in DOMAIN changes : Winner(changes, changes[i].key, w)
<1> USE SyncAssumption
<1>1. PICK n \in Nat : changes \in [1..n -> Change]
  OBVIOUS
<1> DEFINE k == changes[i].key
           Of == {j \in DOMAIN changes : changes[j].key = k}
           Times == {changes[j].time : j \in Of}
<1>2. \A j \in Of : changes[j].time \in 1..MaxTime
  BY <1>1 DEF Change
<1>3. Times \in SUBSET (0..MaxTime) /\ Times # {}
  BY <1>2
<1>4. PICK t \in Times : \A u \in Times : u <= t
  BY <1>3, LargestExists
<1> DEFINE Latest == {j \in Of : changes[j].time = t}
<1>5. Latest \in SUBSET Nat /\ Latest # {}
  BY <1>1, <1>4
<1>6. PICK w \in Latest : \A j \in Latest : w <= j
  BY <1>5, SmallestExists
<1>7. ASSUME NEW j \in DOMAIN changes, changes[j].key = k
      PROVE  \/ changes[j].time < changes[w].time
             \/ changes[j].time = changes[w].time /\ w <= j
  <2>1. changes[j].time <= t
    BY <1>4, <1>7
  <2>2. changes[w].time = t
    BY <1>6
  <2>3. changes[j].time = t => w <= j
    BY <1>6, <1>7
  <2>4. t \in Nat /\ changes[j].time \in Nat
    BY <1>2, <1>3, <1>7, SMTT(60)
  <2> QED
    BY <2>1, <2>2, <2>3, <2>4
<1> QED
  BY <1>6, <1>7 DEF Winner

\* handleChanges writes entries.
LEMMA PushedType ==
    ASSUME NEW d \in [Keys -> Entry], NEW changes \in Seq(Change)
    PROVE  Pushed(d, changes) \in Writes
<1> USE SyncAssumption
<1>1. PICK n \in Nat : changes \in [1..n -> Change]
  OBVIOUS
<1> DEFINE K == {changes[i].key : i \in {j \in DOMAIN changes : Recent(d, changes[j])}}
           W(k) == EntryOf(changes[CHOOSE i \in DOMAIN changes : Winner(changes, k, i)])
<1>2. K \in SUBSET Keys
  BY <1>1 DEF Change
<1>3. ASSUME NEW k \in K PROVE W(k) \in Entry
  <2>1. PICK i \in DOMAIN changes : changes[i].key = k
    OBVIOUS
  <2>2. \E w \in DOMAIN changes : Winner(changes, k, w)
    BY <2>1, WinnerExists
  <2>3. (CHOOSE w \in DOMAIN changes : Winner(changes, k, w)) \in DOMAIN changes
    BY <2>2
  <2>4. \A w \in DOMAIN changes : EntryOf(changes[w]) \in Entry
    BY <1>1, SMTT(60) DEF Change, EntryOf, Entry, Time
  <2> QED
    BY <2>3, <2>4
<1>4. [k \in K |-> W(k)] \in [K -> Entry]
  BY <1>3
<1> QED
  BY <1>2, <1>4 DEF Pushed, Writes

LEMMA ReplacedType ==
    ASSUME NEW changes \in Changes
    PROVE  Replaced(changes) \in Writes
<1> USE SyncAssumption
<1>1. PICK n \in 0..MaxPush : changes \in [1..n -> Change]
  BY DEF Changes
<1> DEFINE Ins(k) == {i \in DOMAIN changes : changes[i].key = k /\ changes[i].value # NoValue}
           R(k) == IF Ins(k) = {} THEN NoEntry ELSE EntryOf(changes[Last(Ins(k))])
<1>2. NoEntry \in Entry
  BY DEF NoEntry, Entry, Time
<1>3. ASSUME NEW k \in Keys PROVE R(k) \in Entry
  <2>1. CASE Ins(k) = {}
    BY <2>1, <1>2
  <2>2. CASE Ins(k) # {}
    <3>1. n \in Nat /\ Ins(k) \in SUBSET (0..n)
      BY <1>1
    <3>2. \E x \in Ins(k) : \A y \in Ins(k) : y <= x
      BY <2>2, <3>1, LargestExists
    <3>3. Last(Ins(k)) \in DOMAIN changes
      BY <3>2 DEF Last
    <3>4. EntryOf(changes[Last(Ins(k))]) \in Entry
      BY <1>1, <3>3 DEF Change, EntryOf, Entry, Time
    <3> QED
      BY <2>2, <3>4
  <2> QED
    BY <2>1, <2>2
<1>4. CASE changes = <<>>
  <2>1. <<>> \in [{} -> Entry]
    OBVIOUS
  <2> QED
    BY <1>4, <2>1 DEF Replaced, Writes
<1>5. CASE changes # <<>>
  <2>1. Replaced(changes) = [k \in Keys |-> R(k)]
    BY <1>5 DEF Replaced
  <2> QED
    BY <1>3, <2>1 DEF Writes
<1> QED
  BY <1>4, <1>5
\* A key or two that are written get their entries, the others keep theirs.
LEMMA LaterType ==
    ASSUME NEW d \in [Keys -> Entry], NEW w \in Writes
    PROVE  /\ Later(d, w) \in [Keys -> Entry]
           /\ DOMAIN w \in SUBSET Keys
           /\ \A k \in DOMAIN w : w[k] \in Entry /\ Later(d, w)[k] = w[k]
           /\ \A k \in Keys \ DOMAIN w : Later(d, w)[k] = d[k]
BY DEF Later, Writes

(* What a replica was told, and what it is about to be told, agrees with the   *)
(* table up to the time that goes with it, and that time is no later than the  *)
(* last one in the table: so that a write in order is later than both.         *)
Agrees(held, t) == \A k \in Keys : db[k].time <= t => held[k] = db[k].value
Reached(t) == Keys # {} => \E k \in Keys : t <= db[k].time

SyncInv ==
    /\ SyncTypeOK
    /\ disorder \/ \A r \in Replicas :
          /\ Agrees(copy[r], since[r]) /\ Reached(since[r])
          /\ tx[r].open => Agrees(tx[r].copy, tx[r].since) /\ Reached(tx[r].since)

\* A write in order leaves an agreement as it is.
LEMMA InOrderKeepsAgreement ==
    ASSUME db \in [Keys -> Entry], NEW w \in Writes, db' = Later(db, w),
           \A k \in DOMAIN w, j \in Keys : ~(w[k].time <= db[j].time),
           NEW held, NEW t \in Time, Agrees(held, t), Reached(t)
    PROVE  Agrees(held, t)' /\ Reached(t)'
<1> USE SyncAssumption DEF Entry, Time
<1>1. \A k \in DOMAIN w : k \in Keys /\ w[k] \in Entry /\ db'[k] = w[k]
  BY LaterType
<1>2. \A k \in Keys \ DOMAIN w : db'[k] = db[k]
  BY LaterType
<1>3. \A k \in DOMAIN w : ~(db'[k].time <= t)
  <2> SUFFICES ASSUME NEW k \in DOMAIN w PROVE ~(db'[k].time <= t)
    OBVIOUS
  <2>1. PICK j \in Keys : t <= db[j].time
    BY <1>1 DEF Reached
  <2>2. db'[k].time \in 0..MaxTime /\ db[j].time \in 0..MaxTime
    BY <1>1
  <2>3. ~(db'[k].time <= db[j].time)
    BY <1>1
  <2> QED
    BY <2>1, <2>2, <2>3
<1>4. ASSUME NEW k \in Keys, db'[k].time <= t PROVE held[k] = db'[k].value
  BY <1>2, <1>3, <1>4 DEF Agrees
<1>5. ASSUME NEW k \in Keys PROVE db[k].time <= db'[k].time
  BY <1>1, <1>2
<1>6. Reached(t)'
  <2>1. CASE Keys = {}
    BY <2>1 DEF Reached
  <2>2. CASE Keys # {}
    <3>1. PICK k \in Keys : t <= db[k].time
      BY <2>2 DEF Reached
    <3>2. db[k].time \in 0..MaxTime /\ db'[k].time \in 0..MaxTime
      BY <1>1, <1>2
    <3>3. t <= db'[k].time
      BY <1>5, <3>1, <3>2
    <3> QED
      BY <3>3 DEF Reached
  <2> QED
    BY <2>1, <2>2
<1> QED
  BY <1>4, <1>6 DEF Agrees

LEMMA NoTxType == NoTx \in Tx /\ NoTx.copy \in Rows /\ NoTx.since \in Time
<1>1. <<>> \in [{} -> Entry]
  OBVIOUS
<1>2. <<>> \in Writes
  BY <1>1 DEF Writes
<1> QED
  BY <1>2, SyncAssumption DEF NoTx, Tx, Rows, Time

LEMMA SyncInitInv == SyncInit => SyncInv
<1> SUFFICES ASSUME SyncInit PROVE SyncInv
  OBVIOUS
<1>1. SyncTypeOK
  <2>1. NoEntry \in Entry /\ 0 \in Time /\ [k \in Keys |-> NoValue] \in Rows
    BY SyncAssumption DEF NoEntry, Entry, Time, Rows
  <2> QED
    BY <2>1, NoTxType DEF SyncInit, SyncTypeOK
<1>2. \A r \in Replicas : Agrees(copy[r], since[r]) /\ Reached(since[r]) /\ ~tx[r].open
  BY DEF SyncInit, Agrees, Reached, NoEntry, NoTx
<1> QED
  BY <1>1, <1>2 DEF SyncInv

\* A transaction that begins: it has entries to write and, of a replica, an answer.
LEMMA ReadsKeepsInv ==
    ASSUME SyncInv, NEW c \in Replicas \cup Clients,
           NEW w \in Writes, NEW held \in Rows, NEW t \in Time, Reads(c, w, held, t),
           c \in Replicas /\ ~disorder => Agrees(held, t) /\ Reached(t)
    PROVE  SyncInv'
<1>1. SyncTypeOK'
  BY DEF SyncInv, SyncTypeOK, Reads, Tx
<1>2. ASSUME ~disorder', NEW r \in Replicas
      PROVE  /\ Agrees(copy[r], since[r])' /\ Reached(since[r])'
             /\ tx'[r].open => Agrees(tx[r].copy, tx[r].since)' /\ Reached(tx[r].since)'
  BY <1>2 DEF SyncInv, SyncTypeOK, Reads, Agrees, Reached
<1> QED
  BY <1>1, <1>2 DEF SyncInv

\* Requests that are not of replicas have no answer that matters.
LEMMA WritingKeepsInv ==
    ASSUME SyncInv, NEW c \in Clients, NEW w \in Writes, StartsWriting(c, w)
    PROVE  SyncInv'
<1>1. c \notin Replicas
  BY SyncAssumption
<1> QED
  BY <1>1, NoTxType, ReadsKeepsInv DEF StartsWriting

LEMMA ChangesAreSequences ==
    /\ Changes \subseteq Seq(Change)
    /\ \A ch \in Change : <<ch>> \in Seq(Change)
BY SyncAssumption DEF Changes
\* SyncAt answers everything up to the newest time there is.
LEMMA SyncAtKeepsInv ==
    ASSUME SyncInv, NEW r \in Replicas, NEW changes \in Changes, SyncAt(r, changes)
    PROVE  SyncInv'
<1> USE DEF SyncInv, SyncTypeOK
<1> DEFINE w == Pushed(db, changes)
           held == ChangesApplied(db, since[r], copy[r])
           t == NewestTime(db)
<1>1. w \in Writes
  BY PushedType, ChangesAreSequences
<1>2. held \in Rows
  BY DEF ChangesApplied, Rows, Entry
<1>3. t \in Time /\ \A k \in Keys : db[k].time <= t
  BY NewestTimeIsLast
<1>4. Reached(t)
  BY NewestTimeIsLast DEF Reached
<1>5. ASSUME ~disorder PROVE Agrees(held, t)
  <2> SUFFICES ASSUME NEW k \in Keys PROVE held[k] = db[k].value
    BY DEF Agrees
  <2>1. db[k].time \in 0..MaxTime /\ since[r] \in 0..MaxTime
    BY DEF Entry, Time
  <2>2. CASE db[k].time > since[r]
    BY <2>2 DEF ChangesApplied
  <2>3. CASE db[k].time <= since[r]
    BY <1>5, <2>1, <2>3, SyncAssumption DEF ChangesApplied, Agrees
  <2> QED
    BY <2>1, <2>2, <2>3, SyncAssumption
<1>6. Reads(r, w, held, t)
  BY DEF SyncAt, LastModified
<1> QED
  BY <1>1, <1>2, <1>3, <1>4, <1>5, <1>6, ReadsKeepsInv

\* What a replica reads beside is not older than what it has.
LEMMA ToldKeepsInv ==
    ASSUME SyncInv, NEW r \in Replicas, GetChangesAfter(r) \/ GetRaw(r)
    PROVE  SyncInv'
<1> USE SyncAssumption DEF SyncInv, SyncTypeOK
<1> DEFINE Rows0(t) == ChangesApplied(db, t, copy[r])
<1>1. PICK t \in {0, since[r]} : Told(r, Rows0(t))
  BY DEF GetChangesAfter, GetRaw
<1>2. t \in Time /\ t <= since[r]
  BY DEF Time
<1>3. Rows0(t) \in Rows
  BY DEF ChangesApplied, Rows, Entry
<1>4. ASSUME ~disorder PROVE Agrees(Rows0(t), since[r])
  <2> SUFFICES ASSUME NEW k \in Keys, db[k].time <= since[r] PROVE Rows0(t)[k] = db[k].value
    BY DEF Agrees
  <2>1. copy[r][k] = db[k].value
    BY <1>4 DEF Agrees
  <2> QED
    BY <2>1 DEF ChangesApplied
<1>5. SyncTypeOK'
  BY <1>1, <1>3 DEF Told
<1>6. ASSUME ~disorder', NEW q \in Replicas
      PROVE  /\ Agrees(copy[q], since[q])' /\ Reached(since[q])'
             /\ tx'[q].open => Agrees(tx[q].copy, tx[q].since)' /\ Reached(tx[q].since)'
  <2>1. UNCHANGED <<db, tx, since, disorder>> /\ copy' = [copy EXCEPT ![r] = Rows0(t)]
    BY <1>1 DEF Told
  <2>2. Agrees(copy'[q], since[q])
    BY <1>4, <1>6, <2>1
  <2> QED
    BY <1>6, <2>1, <2>2, SMTT(60) DEF Agrees, Reached
<1> QED
  BY <1>5, <1>6

\* A commit keeps what was agreed, or it is out of order.
LEMMA SyncCommitKeepsInv ==
    ASSUME SyncInv, NEW c \in Replicas \cup Clients,
           Unanswered(c) \/ (c \in Replicas /\ Answered(c))
    PROVE  SyncInv'
<1> USE DEF SyncInv, SyncTypeOK
<1> DEFINE w == tx[c].writes
<1>1. CommitSync(c)
  BY DEF Unanswered, Answered
<1>2. w \in Writes /\ DOMAIN w \in SUBSET Keys /\ db' = Later(db, w) /\ tx[c].open
  BY <1>1, LaterType DEF CommitSync, Tx
<1>3. /\ copy' = copy /\ since' = since
      \/ /\ c \in Replicas
         /\ copy' = [copy EXCEPT ![c] = tx[c].copy] /\ since' = [since EXCEPT ![c] = tx[c].since]
  BY DEF Unanswered, Answered
<1>4. SyncTypeOK'
  <2>1. db' \in [Keys -> Entry]
    BY <1>2, LaterType
  <2>2. tx' \in [Replicas \cup Clients -> Tx]
    BY <1>1, NoTxType DEF CommitSync
  <2>3. local' \in [LocalKeys -> Values \cup {NoValue}] /\ disorder' \in BOOLEAN
    BY <1>1 DEF CommitSync
  <2>4. copy' \in [Replicas -> Rows] /\ since' \in [Replicas -> Time]
    BY <1>3 DEF Tx
  <2> QED
    BY <2>1, <2>2, <2>3, <2>4
<1>5. ASSUME ~disorder', NEW r \in Replicas
      PROVE  /\ Agrees(copy[r], since[r])' /\ Reached(since[r])'
             /\ tx'[r].open => Agrees(tx[r].copy, tx[r].since)' /\ Reached(tx[r].since)'
  <2>1. ~disorder /\ \A k \in DOMAIN w, j \in Keys : ~(w[k].time <= db[j].time)
    BY <1>1, <1>5 DEF CommitSync
  <2>2. ASSUME NEW held, NEW t \in Time, Agrees(held, t), Reached(t)
        PROVE  /\ \A k \in Keys : db'[k].time <= t => held[k] = db'[k].value
               /\ Keys # {} => \E k \in Keys : t <= db'[k].time
    BY <1>2, <2>1, <2>2, InOrderKeepsAgreement, SMTT(60) DEF Agrees, Reached
  <2>3. /\ Agrees(copy[r], since[r]) /\ Reached(since[r]) /\ since[r] \in Time
        /\ tx[r].open =>
              Agrees(tx[r].copy, tx[r].since) /\ Reached(tx[r].since) /\ tx[r].since \in Time
    BY <2>1 DEF Tx
  <2>4. tx'[r].open => tx'[r] = tx[r] /\ tx[r].open
    BY <1>1 DEF CommitSync, NoTx
  <2>5. \/ copy'[r] = copy[r] /\ since'[r] = since[r]
        \/ tx[r].open /\ copy'[r] = tx[r].copy /\ since'[r] = tx[r].since
    BY <1>2, <1>3
  <2> DEFINE Kept(q, u) == /\ \A k \in Keys : db'[k].time <= u => q[k] = db'[k].value
                           /\ Keys # {} => \E k \in Keys : u <= db'[k].time
  <2>6. \A q : \A u \in Time : Agrees(q, u) /\ Reached(u) => Kept(q, u)
    BY <2>2
  <2> HIDE DEF Kept
  <2>7. Kept(copy'[r], since'[r])
    BY <2>3, <2>5, <2>6
  <2>8. tx'[r].open => Kept(tx'[r].copy, tx'[r].since)
    BY <2>3, <2>4, <2>6
  <2> QED
    BY <2>7, <2>8 DEF Agrees, Reached, Kept
<1> QED
  BY <1>4, <1>5

LEMMA SyncNextInv == SyncInv /\ [SyncNext]_syncVars => SyncInv'
<1> SUFFICES ASSUME SyncInv, [SyncNext]_syncVars PROVE SyncInv'
  OBVIOUS
<1>1. ASSUME NEW c \in Clients, ClientRequest(c) PROVE SyncInv'
  <2>1. \E w \in Writes : StartsWriting(c, w)
    <3>1. \A changes \in Seq(Change) : Pushed(db, changes) \in Writes
      BY PushedType DEF SyncInv, SyncTypeOK
    <3>2. CASE HandleChanges(c) \/ InsertIfRecent(c) \/ DeleteIfRecent(c)
      BY <3>1, <3>2, ChangesAreSequences DEF HandleChanges, InsertIfRecent, DeleteIfRecent
    <3>3. CASE InsertOne(c) \/ DeleteOne(c)
      <4>1. PICK k \in Keys, v \in Values \cup {NoValue}, now \in 1..MaxTime :
               StartsWriting(c, [j \in {k} |-> [value |-> v, time |-> now]])
        BY <3>3 DEF InsertOne, DeleteOne
      <4>2. [j \in {k} |-> [value |-> v, time |-> now]] \in [{k} -> Entry]
        BY SyncAssumption DEF Entry, Time
      <4>3. {k} \in SUBSET Keys
        OBVIOUS
      <4> QED
        BY <4>1, <4>2, <4>3 DEF Writes
    <3>4. CASE ReplaceAll(c)
      BY <3>4, ReplacedType DEF ReplaceAll
    <3> QED
      BY <1>1, <3>2, <3>3, <3>4 DEF ClientRequest
  <2> QED
    BY <2>1, WritingKeepsInv
<1>2. ASSUME NEW r \in Replicas, NEW changes \in Changes, SyncAt(r, changes) PROVE SyncInv'
  BY <1>2, SyncAtKeepsInv
<1>3. ASSUME NEW r \in Replicas, Answered(r) PROVE SyncInv'
  BY <1>3, SyncCommitKeepsInv
<1>4. ASSUME NEW r \in Replicas, GetChangesAfter(r) \/ GetRaw(r) PROVE SyncInv'
  BY <1>4, ToldKeepsInv
<1>5. ASSUME NEW c \in Replicas \cup Clients, Unanswered(c) PROVE SyncInv'
  BY <1>5, SyncCommitKeepsInv
<1>6. ASSUME NEW c \in Replicas \cup Clients, Fails(c) PROVE SyncInv'
  <2>1. SyncTypeOK'
    BY <1>6, NoTxType DEF SyncInv, SyncTypeOK, Fails
  <2>2. UNCHANGED <<db, copy, since, disorder>>
        /\ \A r \in Replicas : tx'[r].open => tx'[r] = tx[r]
    BY <1>6 DEF SyncInv, SyncTypeOK, Fails, NoTx
  <2> QED
    BY <2>1, <2>2 DEF SyncInv, Agrees, Reached
<1>7. ASSUME NEW k \in LocalKeys, NEW v \in Values, LocalInsertOne(k, v) \/ LocalDeleteOne(k)
      PROVE  SyncInv'
  BY <1>7 DEF LocalInsertOne, LocalDeleteOne, SyncInv, SyncTypeOK, Agrees, Reached
<1>8. CASE UNCHANGED syncVars
  BY <1>8 DEF syncVars, SyncInv, SyncTypeOK, Agrees, Reached
<1> QED
  BY <1>1, <1>2, <1>3, <1>4, <1>5, <1>6, <1>7, <1>8 DEF SyncNext

LEMMA InvariantSync == SyncSpec => []SyncInv
BY SyncInitInv, SyncNextInv, PTL DEF SyncSpec

(* The transactions of go/sql write entries of the table and answer with rows  *)
(* and times: in particular handleChanges finds a winner among the changes to  *)
(* a key, and getLastModified a time.                                          *)
THEOREM TableTypeCorrect == SyncSpec => []SyncTypeOK
<1>1. SyncInv => SyncTypeOK
  BY DEF SyncInv
<1> QED
  BY <1>1, InvariantSync, PTL

(* sync_table.go, SyncAt: a replica that asks for what is later than the time  *)
(* it was answered misses no change, whatever answers were lost, as long as    *)
(* writes are committed in the order of their times.                           *)
THEOREM ReplicaMissesNothing == SyncSpec => []NothingMissed
<1>1. SyncInv => NothingMissed
  BY DEF SyncInv, NothingMissed, Agrees
<1> QED
  BY <1>1, InvariantSync, PTL
-----------------------------------------------------------------------------
(* The model that the NLP server has.                                         *)

(* A load that is under way is nobody's yet: no model, reload or query has     *)
(* its number.  So what a reload stops is not what the model has then, which   *)
(* came after it; and what a query was given is not what comes.                *)
LoadsAreNew ==
    \A c \in Reloads : reload[c].stage = "loading" =>
        /\ reload[c].number # 0
        /\ predictor # reload[c].number
        /\ \A d \in Reloads : reload[d].oldpredictor # reload[c].number
        /\ \A d \in Reloads \ {c} : reload[d].number # reload[c].number
        /\ \A q \in Queries : query[q].predictor # reload[c].number
LoadsAreCounted ==
    /\ reloads \in Loads /\ predictor <= reloads
    /\ \A c \in Reloads : reload[c].oldpredictor <= reloads /\ reload[c].number <= reloads
    /\ \A q \in Queries : query[q].predictor <= reloads

\* A reload cleans up what it replaced: a predictor, with its directory.
ReplacedIsOld ==
    \A c \in Reloads : reload[c].stage # "done" =>
        /\ reload[c].oldlocaldir = NewDir(reload[c].oldpredictor)
        /\ reload[c].stage = "cleaning" => reload[c].oldpredictor # predictor

\* Reloads that do not overlap know all predictors there are.
OneAfterTheOther ==
    ~overlapped =>
        /\ Quiet => running = {predictor}
        /\ \A c \in Reloads : reload[c].stage # "done" =>
              /\ \A d \in Reloads \ {c} : reload[d].stage = "done"
              /\ reload[c].stage = "loading" => running = {predictor} /\ reload[c].oldpredictor = predictor
              /\ running \subseteq {predictor, reload[c].oldpredictor}

NlpInv == /\ NlpTypeOK
          /\ LoadsAreNew /\ LoadsAreCounted /\ ReplacedIsOld /\ OneAfterTheOther
          /\ localdir = NewDir(predictor)
          /\ ServesItsModel

LEMMA DoneType ==
    /\ Done \in Reload /\ Done.stage = "done"
    /\ Done.oldpredictor = 0 /\ Done.number = 0
BY NlpAssumption DEF Done, Reload, Loads, NoDir

LEMMA NlpInitInv == NlpInit => NlpInv
<1> SUFFICES ASSUME NlpInit PROVE NlpInv
  OBVIOUS
<1> USE NlpAssumption DEF NlpInit
<1>1. NlpTypeOK
  <2>1. 0 \in Loads /\ NewDir(0) \in Loads \cup {NoDir} /\ DirsOf(NewDir(0)) \subseteq Loads
    BY DEF Loads, NoDir, NewDir, DirsOf
  <2> QED
    BY <2>1, DoneType DEF NlpTypeOK, NoQuery
<1>2. LoadsAreNew /\ LoadsAreCounted /\ ReplacedIsOld
  BY DoneType DEF LoadsAreNew, LoadsAreCounted, ReplacedIsOld, NoQuery, Loads
<1>3. OneAfterTheOther
  BY DoneType DEF OneAfterTheOther, Quiet
<1>4. ServesItsModel
  BY DEF ServesItsModel, NewDir, DirsOf, NoDir, NoQuery
<1> QED
  BY <1>1, <1>2, <1>3, <1>4 DEF NlpInv

LEMMA StartReloadKeepsInv ==
    ASSUME NlpInv, NEW c \in Reloads, StartReload(c)
    PROVE  NlpInv'
<1> USE NlpAssumption DEF NlpInv, StartReload, reloadVars, queryVars
<1>1. reloads + 1 \in Loads /\ reloads + 1 # 0 /\ reloads \in Nat
  BY DEF LoadsAreCounted, Loads
<1>2. NlpTypeOK'
  BY <1>1 DEF NlpTypeOK, Reload, Loads
<1>3. LoadsAreCounted'
  BY <1>1, SMTT(60) DEF LoadsAreCounted, NlpTypeOK, Reload, Loads, NoDir
<1>4. LoadsAreNew'
  BY <1>1 DEF LoadsAreNew, LoadsAreCounted, NlpTypeOK, Reload, Loads, NoDir
<1>5. ReplacedIsOld'
  BY DEF ReplacedIsOld, NlpTypeOK, NewDir
<1>6. ~Quiet' /\ OneAfterTheOther'
  BY ZenonT(60) DEF OneAfterTheOther, NlpTypeOK, Quiet
<1>7. (localdir = NewDir(predictor))' /\ ServesItsModel'
  BY <1>6 DEF ServesItsModel, NewDir
<1> QED
  BY <1>2, <1>3, <1>4, <1>5, <1>6, <1>7
\* The new predictor is newer than all that reloads will stop.
LEMMA LoadedKeepsInv ==
    ASSUME NlpInv, NEW c \in Reloads, Loaded(c)
    PROVE  NlpInv'
<1> USE NlpAssumption DEF NlpInv, Loaded, Replaced_ByLoad, queryVars
<1> DEFINE n == reload[c].number
<1>1. n \in Loads /\ NewDir(n) \in Loads \cup {NoDir} /\ DirsOf(NewDir(n)) \subseteq Loads
  BY DEF NlpTypeOK, Reload, NewDir, DirsOf
<1>2. NlpTypeOK'
  BY <1>1, SMTT(60) DEF NlpTypeOK, Reload
<1>3. LoadsAreCounted'
  BY <1>1 DEF LoadsAreCounted, NlpTypeOK, Reload
<1>4. LoadsAreNew'
  BY <1>1 DEF LoadsAreNew, NlpTypeOK, Reload
<1>5. ReplacedIsOld'
  BY DEF ReplacedIsOld, LoadsAreNew, NlpTypeOK, Reload
<1>6. OneAfterTheOther' /\ ~Quiet'
  BY DEF OneAfterTheOther, NlpTypeOK, Reload, Quiet
<1>7. predictor' \in running' /\ localdir' = NewDir(predictor')
  OBVIOUS
<1>8. Downloaded => localdir' = predictor' /\ localdir' \in dirs'
  BY <1>1 DEF NewDir, DirsOf, Loads, NoDir
<1>9. \A q \in Queries : query'[q].stage = "failed" => query'[q].predictor # predictor'
  BY DEF LoadsAreNew
<1> QED
  BY <1>2, <1>3, <1>4, <1>5, <1>6, <1>7, <1>8, <1>9 DEF ServesItsModel, NewDir

\* A request that is over knows no load.
LEMMA ReloadIsOver ==
    ASSUME NlpInv, NEW c \in Reloads, reload' = [reload EXCEPT ![c] = Done],
           UNCHANGED <<queryVars, predictor, localdir, running, reloads, overlapped>>,
           dirs \subseteq dirs', dirs' \subseteq Loads,
           reload[c].stage = "cleaning" => reload[c].oldpredictor \notin running,
           reload[c].stage # "done"
    PROVE  NlpInv'
<1> USE NlpAssumption DEF NlpInv, queryVars
<1>1. NlpTypeOK'
  BY DoneType DEF NlpTypeOK
<1>2. LoadsAreCounted' /\ LoadsAreNew' /\ ReplacedIsOld'
  BY DoneType DEF LoadsAreCounted, LoadsAreNew, ReplacedIsOld, NlpTypeOK, Reload, Loads, NewDir
<1>3. ~overlapped => running = {predictor}
  BY DEF OneAfterTheOther, ServesItsModel, NlpTypeOK, Reload
<1>4. OneAfterTheOther'
  BY <1>3, DoneType DEF OneAfterTheOther, NlpTypeOK
<1>5. ServesItsModel' /\ (localdir = NewDir(predictor))'
  BY <1>3 DEF ServesItsModel, NewDir
<1> QED
  BY <1>1, <1>2, <1>4, <1>5

\* What is stopped and removed is not what the model has.
LEMMA CleaningKeepsInv ==
    ASSUME NlpInv, NEW c \in Reloads, StopOld(c) \/ RemoveOld(c)
    PROVE  NlpInv'
<1> USE NlpAssumption DEF NlpInv, StopOld, RemoveOld, queryVars
<1> DEFINE r == reload[c]
<1>1. /\ UNCHANGED <<queryVars, predictor, localdir, reload, reloads, overlapped>>
      /\ r.stage = "cleaning"
      /\ \/ running' = running \ {r.oldpredictor} /\ dirs' = dirs
         \/ dirs' = dirs \ {r.oldlocaldir} /\ running' = running
  OBVIOUS
<1>2. r.oldpredictor # predictor /\ r.oldlocaldir = NewDir(r.oldpredictor)
  BY <1>1 DEF ReplacedIsOld
<1>3. NlpTypeOK' /\ LoadsAreCounted' /\ LoadsAreNew' /\ ReplacedIsOld'
  BY <1>1 DEF NlpTypeOK, LoadsAreCounted, LoadsAreNew, ReplacedIsOld, NewDir
<1>4. ~Quiet
  BY <1>1 DEF Quiet
<1>5. OneAfterTheOther'
  BY <1>1, <1>4 DEF OneAfterTheOther, Quiet
<1>6. predictor' \in running'
  BY <1>1, <1>2 DEF ServesItsModel
<1>7. Downloaded => localdir' = predictor' /\ localdir' \in dirs'
  BY <1>1, <1>2 DEF ServesItsModel, NewDir
<1>8. ServesItsModel' /\ (localdir = NewDir(predictor))'
  BY <1>1, <1>4, <1>6, <1>7 DEF ServesItsModel, NewDir, Quiet
<1> QED
  BY <1>3, <1>5, <1>8

\* Queries fail with a predictor that is not the model's.
LEMMA QueryKeepsInv ==
    ASSUME NlpInv, NEW q \in Queries, RunNLU(q) \/ CacheGet(q) \/ Predict(q) \/ CacheSet(q)
    PROVE  NlpInv'
<1> USE NlpAssumption DEF NlpInv, RunNLU, CacheGet, Predict, CacheSet, reloadVars
<1>1. UNCHANGED reloadVars
  OBVIOUS
<1>2. /\ query' \in [Queries -> [stage : {"none", "given", "predicting", "predicted", "over", "failed"},
                                 predictor : Loads]]
      /\ cachedAnswer' \in Loads \cup {NoDir}
  BY DEF NlpTypeOK
<1>3. \A p \in Queries : query'[p].predictor \in {query[p].predictor, predictor}
  BY DEF NlpTypeOK
<1>4. \A p \in Queries : query'[p].stage = "failed" => query'[p].predictor # predictor
  BY SMTT(60) DEF NlpTypeOK, ServesItsModel
<1>5. LoadsAreCounted' /\ LoadsAreNew' /\ ReplacedIsOld' /\ OneAfterTheOther'
  BY <1>1, <1>3 DEF LoadsAreCounted, LoadsAreNew, ReplacedIsOld, OneAfterTheOther, Quiet, NewDir
<1>6. ServesItsModel'
  BY <1>1, <1>4 DEF ServesItsModel, Quiet
<1> QED
  BY <1>1, <1>2, <1>5, <1>6 DEF NlpTypeOK, NewDir

LEMMA NlpNextInv == NlpInv /\ [NlpNext]_nlpVars => NlpInv'
<1> SUFFICES ASSUME NlpInv, [NlpNext]_nlpVars PROVE NlpInv'
  OBVIOUS
<1>1. ASSUME NEW c \in Reloads, StartReload(c) PROVE NlpInv'
  BY <1>1, StartReloadKeepsInv
<1>2. ASSUME NEW c \in Reloads, Loaded(c) PROVE NlpInv'
  BY <1>2, LoadedKeepsInv
<1>3. ASSUME NEW c \in Reloads, LoadFails(c) PROVE NlpInv'
  BY <1>3, ReloadIsOver DEF LoadFails, NlpInv, NlpTypeOK, Reload, queryVars
<1>4. ASSUME NEW c \in Reloads, ReloadEnds(c) PROVE NlpInv'
  BY <1>4, ReloadIsOver DEF ReloadEnds, NlpInv, NlpTypeOK, queryVars
<1>5. ASSUME NEW c \in Reloads, StopOld(c) \/ RemoveOld(c) PROVE NlpInv'
  BY <1>5, CleaningKeepsInv
<1>6. ASSUME NEW q \in Queries, RunNLU(q) \/ CacheGet(q) \/ Predict(q) \/ CacheSet(q) PROVE NlpInv'
  BY <1>6, QueryKeepsInv
<1>7. CASE CacheExpires \/ UNCHANGED nlpVars
  <2>1. UNCHANGED <<reloadVars, query>> /\ cachedAnswer' \in {cachedAnswer, NoDir}
    BY <1>7 DEF CacheExpires, nlpVars, queryVars
  <2> QED
    BY <2>1 DEF NlpInv, reloadVars, NlpTypeOK, LoadsAreNew, LoadsAreCounted, ReplacedIsOld,
                OneAfterTheOther, ServesItsModel, Quiet, NewDir
<1> QED
  BY <1>1, <1>2, <1>3, <1>4, <1>5, <1>6, <1>7 DEF NlpNext

(* nlp_model.ts, reload: a request finds a predictor that runs, on files that  *)
(* are there, however many reloads overlap; if they do not, one predictor is   *)
(* left; and a query that fails was overtaken by a reload.                     *)
THEOREM ModelIsServed == NlpSpec => []ServesItsModel
<1>1. NlpInv => ServesItsModel
  BY DEF NlpInv
<1> QED
  BY <1>1, NlpInitInv, NlpNextInv, PTL DEF NlpSpec
-----------------------------------------------------------------------------
(* Commands that are taught.                                                  *)

(* From the transaction on that stores a command, a replica that was told of   *)
(* it knows it, or the request waits for its answer.                           *)
ToldOrAwaited ==
    \A c \in TaughtCommands : learning[c] \in {"stored", "sent", "ok"} =>
        \A q \in told[c] : c \in matcher[q] \/ (learning[c] = "sent" /\ q \in unanswered[c])

LearningInv == LearningTypeOK /\ ToldOrAwaited

LEMMA LearningInitInv == LearningInit => LearningInv
BY DEF LearningInit, LearningInv, LearningTypeOK, ToldOrAwaited

\* A request of a user, at the replica that has it or at another one.
LEMMA LearnKeepsInv ==
    ASSUME LearningInv, NEW c \in TaughtCommands, NEW q \in NlpReplicas,
           Learn(c, q) \/ AddExample(c, q)
    PROVE  LearningInv'
<1> USE DEF LearningInv
<1>1. LearningTypeOK'
  BY SMTT(60) DEF LearningTypeOK, Learn, AddExample, updaterVars
<1>2. ToldOrAwaited'
  BY SMTT(60) DEF LearningTypeOK, ToldOrAwaited, Learn, AddExample, updaterVars
<1> QED
  BY <1>1, <1>2

LEMMA AnswerKeepsInv ==
    ASSUME LearningInv, NEW c \in TaughtCommands, FanOut(c) \/ Answer(c) \/ LearnFails(c)
    PROVE  LearningInv'
<1> USE DEF LearningInv, updaterVars
<1>1. LearningTypeOK'
  BY DEF LearningTypeOK, FanOut, Answer, LearnFails
<1>2. CASE FanOut(c)
  BY <1>1, <1>2 DEF LearningTypeOK, ToldOrAwaited, FanOut
<1>3. CASE Answer(c) \/ LearnFails(c)
  BY <1>1, <1>3 DEF LearningTypeOK, ToldOrAwaited, Answer, LearnFails, AllAnswered
<1> QED
  BY <1>1, <1>2, <1>3

\* A replica that forgets, by a restart or an older file, counts as not told.
LEMMA ReplicaKeepsInv ==
    ASSUME LearningInv, NEW q \in NlpReplicas,
           Crash(q) \/ Download(q) \/ \E f \in SUBSET TaughtCommands : Load(q, f)
    PROVE  LearningInv'
<1> USE DEF LearningInv, updaterVars, requestVars
<1>1. CASE Crash(q)
  <2>1. LearningTypeOK'
    BY <1>1 DEF LearningTypeOK, Crash
  <2>2. ASSUME NEW c \in TaughtCommands, learning'[c] \in {"stored", "sent", "ok"}, NEW p \in told'[c]
        PROVE  c \in matcher'[p] \/ (learning'[c] = "sent" /\ p \in unanswered'[c])
    <3>1. learning'[c] = learning[c] /\ unanswered'[c] = unanswered[c]
      BY <1>1, <2>2 DEF Crash
    <3>2. p \in told[c] /\ p # q /\ p \in NlpReplicas
      BY <1>1, <2>2 DEF Crash, LearningTypeOK
    <3>3. matcher'[p] = matcher[p]
      BY <1>1, <3>2 DEF Crash, LearningTypeOK
    <3> QED
      BY <2>2, <3>1, <3>2, <3>3 DEF ToldOrAwaited
  <2> QED
    BY <2>1, <2>2 DEF ToldOrAwaited
<1>2. CASE Download(q)
  BY <1>2 DEF LearningTypeOK, ToldOrAwaited, Download
<1>3. ASSUME NEW f \in SUBSET TaughtCommands, Load(q, f) PROVE LearningInv'
  <2>1. LearningTypeOK'
    BY <1>3 DEF LearningTypeOK, Load
  <2>2. ASSUME NEW c \in TaughtCommands, learning'[c] \in {"stored", "sent", "ok"}, NEW p \in told'[c]
        PROVE  c \in matcher'[p] \/ (learning'[c] = "sent" /\ p \in unanswered'[c])
    <3>1. learning' = learning /\ unanswered' = unanswered
      BY <1>3 DEF Load
    <3>2. p \in told[c] /\ p \in NlpReplicas /\ (p = q => c \in f)
      BY <1>3, <2>2 DEF Load, LearningTypeOK
    <3>3. p = q => c \in matcher'[p]
      BY <1>3, <3>2 DEF Load, LearningTypeOK
    <3>4. p # q => matcher'[p] = matcher[p]
      BY <1>3, <3>2 DEF Load, LearningTypeOK
    <3> QED
      BY <2>2, <3>1, <3>2, <3>3, <3>4 DEF ToldOrAwaited
  <2> QED
    BY <2>1, <2>2 DEF ToldOrAwaited
<1> QED
  BY <1>1, <1>2, <1>3

LEMMA LearningNextInv == LearningInv /\ [LearningNext]_learningVars => LearningInv'
<1> SUFFICES ASSUME LearningInv, [LearningNext]_learningVars PROVE LearningInv'
  OBVIOUS
<1>1. ASSUME NEW c \in TaughtCommands, FanOut(c) \/ Answer(c) \/ LearnFails(c) PROVE LearningInv'
  BY <1>1, AnswerKeepsInv
<1>2. ASSUME NEW c \in TaughtCommands, NEW q \in NlpReplicas, Learn(c, q) \/ AddExample(c, q)
      PROVE LearningInv'
  BY <1>2, LearnKeepsInv
<1>3. ASSUME NEW q \in NlpReplicas, \/ Crash(q) \/ Download(q)
                                   \/ \E f \in SUBSET TaughtCommands : Load(q, f)
      PROVE LearningInv'
  BY <1>3, ReplicaKeepsInv
<1>4. CASE UpdateDataset \/ ReadExact \/ WriteFile \/ UpdateFails
  BY <1>4 DEF UpdateDataset, ReadExact, WriteFile, UpdateFails, requestVars,
              LearningInv, LearningTypeOK, ToldOrAwaited
<1>5. CASE UNCHANGED learningVars
  BY <1>5 DEF learningVars, updaterVars, LearningInv, LearningTypeOK, ToldOrAwaited
<1> QED
  BY <1>1, <1>2, <1>3, <1>4, <1>5 DEF LearningNext

(* learn.ts: a user is told that a command was learnt when every replica that  *)
(* was sent it knows it, but for those that lost it since.                     *)
THEOREM CommandIsLearntEverywhere == LearningSpec => []LearntEverywhere
<1>1. LearningInv => LearntEverywhere
  BY DEF LearningInv, ToldOrAwaited, LearntEverywhere
<1> QED
  BY <1>1, LearningInitInv, LearningNextInv, PTL DEF LearningSpec

-----------------------------------------------------------------------------
(* The installation of the database.                                          *)

(* While schema.sql runs the tables before its statement are there, and empty; *)
(* before that the statement is the first; and while the transaction of the    *)
(* default data is open there is all and nothing in it.                        *)
SchemaIsRun ==
    /\ job \in {"waiting", "checking"} => statement = 1
    /\ job = "schema" => \A i \in 1..3 :
          /\ statement > 2 * i - 1 => contents[SchemaSql[i]] = "none"
          /\ statement > 2 * i => SchemaSql[i] \in exists
    /\ job = "filling" => exists = Tables /\ \A t \in Tables : contents[t] = "none"
BootstrapIsWhole ==
    job \notin {"schema", "filling"} /\ contents["users"] # "none" /\ ~cut =>
        exists = Tables /\ \A t \in Filled : contents[t] # "none"

BootstrapInv == BootstrapTypeOK /\ SchemaIsRun /\ BootstrapIsWhole

LEMMA BootstrapInitInv == BootstrapInit => BootstrapInv
<1> SUFFICES ASSUME BootstrapInit PROVE BootstrapInv
  OBVIOUS
<1> USE DEF BootstrapInit
<1>1. Len(SchemaSql) = 3
  BY DEF SchemaSql
<1>2. contents \in [Tables -> {"none", "default", "site"}]
  OBVIOUS
<1>3. statement \in 1..(2 * Len(SchemaSql) + 1)
  BY <1>1
<1>4. job \in {"none", "waiting", "checking", "schema", "filling"} /\ database \in {"up", "down"}
  OBVIOUS
<1>5. exists \subseteq Tables /\ inserted \subseteq Filled
  OBVIOUS
<1>6. forced \in BOOLEAN /\ cut \in BOOLEAN
  OBVIOUS
<1>7. BootstrapTypeOK
  BY <1>2, <1>3, <1>4, <1>5, <1>6 DEF BootstrapTypeOK
<1>8. contents["users"] = "none"
  BY DEF Tables
<1> QED
  BY <1>7, <1>8 DEF BootstrapInv, SchemaIsRun, BootstrapIsWhole

LEMMA ExecStatementKeepsInv ==
    ASSUME BootstrapInv, ExecStatement
    PROVE  BootstrapInv'
<1> USE DEF BootstrapInv, BootstrapTypeOK, ExecStatement
<1>1. Len(SchemaSql) = 3 /\ statement \in 1..6 /\ statement' = statement + 1 /\ job' = "schema"
  BY DEF SchemaSql
<1> DEFINE i == (statement + 1) \div 2
<1>2. i \in 1..3 /\ (statement % 2 = 1 => statement = 2 * i - 1)
      /\ (statement % 2 # 1 => statement = 2 * i)
  BY <1>1
<1>3. /\ \A j \in 1..3 : SchemaSql[j] \in Tables
      /\ \A j, k \in 1..3 : SchemaSql[j] = SchemaSql[k] => j = k
  BY DEF SchemaSql, Tables
<1>4. BootstrapTypeOK'
  BY <1>1, <1>2, <1>3
<1>5. SchemaIsRun' /\ BootstrapIsWhole'
  BY <1>1, <1>2, <1>3, SMTT(60) DEF SchemaIsRun, BootstrapIsWhole
<1> QED
  BY <1>4, <1>5

LEMMA BootstrapNextInv == BootstrapInv /\ [BootstrapNext]_bootstrapVars => BootstrapInv'
<1> SUFFICES ASSUME BootstrapInv, [BootstrapNext]_bootstrapVars PROVE BootstrapInv'
  OBVIOUS
<1> USE DEF BootstrapInv, BootstrapTypeOK, SchemaIsRun, BootstrapIsWhole, dataVars, GoesTo
<1>1. CASE DatabaseComesOrGoes
  BY <1>1 DEF DatabaseComesOrGoes
<1>2. ASSUME NEW t \in Tables, Use(t) PROVE BootstrapInv'
  BY <1>2 DEF Use, Filled, Tables
<1>3. ASSUME NEW force \in BOOLEAN, StartJob(force) PROVE BootstrapInv'
  BY <1>3, BootstrapAssumption DEF StartJob, SchemaSql
<1>4. CASE Connects \/ WaitTimesOut \/ Check
  BY <1>4 DEF Connects, WaitTimesOut, Check
<1>5. CASE ExecStatement
  BY <1>5, ExecStatementKeepsInv
<1>6. CASE StartFilling
  <2>1. statement > 6
    BY <1>6 DEF StartFilling, SchemaSql
  <2>2. \A t \in Tables : \E i \in 1..3 : t = SchemaSql[i]
    BY DEF Tables, SchemaSql
  <2>3. \A i \in 1..3 : contents[SchemaSql[i]] = "none" /\ SchemaSql[i] \in exists
    BY <1>6, <2>1 DEF StartFilling
  <2>4. exists = Tables /\ \A t \in Tables : contents[t] = "none"
    BY <2>2, <2>3, ZenonT(200)
  <2> QED
    BY <1>6, <2>4 DEF StartFilling
<1>7. CASE InsertDefaults
  <2>1. ASSUME inserted # Filled
        PROVE  Filling[Cardinality(inserted) + 1] \in Filled
    <3>1. CASE inserted = {}
      BY <3>1, FS_EmptySet DEF Filling, Filled
    <3>2. CASE inserted # {}
      <4>1. PICK t \in inserted : TRUE
        BY <3>2
      <4>2. ASSUME NEW u \in inserted, u # t PROVE FALSE
        <5>1. \A v \in Filled : v \in {t, u}
          BY <4>2 DEF Filled
        <5> QED
          BY <5>1, <4>2, <2>1, SMTT(60)
      <4>3. inserted = {t}
        BY <4>1, <4>2
      <4>4. Cardinality(inserted) = 1
        BY <4>3, FS_Singleton
      <4> QED
        BY <4>4 DEF Filling, Filled
    <3> QED
      BY <3>1, <3>2
  <2> QED
    BY <1>7, <2>1 DEF InsertDefaults, Fill
<1>8. CASE CommitDefaults
  BY <1>8 DEF CommitDefaults, Filled, Tables
<1>9. CASE Aborts
  BY <1>9 DEF Aborts, Tables
<1>10. CASE UNCHANGED bootstrapVars
  BY <1>10 DEF bootstrapVars
<1> QED
  BY <1>1, <1>2, <1>3, <1>4, <1>5, <1>6, <1>7, <1>8, <1>9, <1>10 DEF BootstrapNext

(* bootstrap.ts, isAlreadyBootstrapped: a database with a user root has all    *)
(* its tables and their default data, wherever earlier jobs were cut off, but  *)
(* in schema.sql on a site with accounts.                                      *)
THEOREM RootUserMeansComplete == BootstrapSpec => []RootMeansComplete
<1>1. BootstrapInv => RootMeansComplete
  BY DEF BootstrapInv, BootstrapIsWhole, RootMeansComplete
<1> QED
  BY <1>1, BootstrapInitInv, BootstrapNextInv, PTL DEF BootstrapSpec
-----------------------------------------------------------------------------
(* Files of values that are uploaded.                                         *)

RowsOf(f, s) == {<<f, s[i]>> : i \in 1..Len(s)}

\* Nothing of the file is on its way, and nothing can be.
Drained(f) ==
    /\ parsed[f] = Length /\ ended[f] /\ ~broken[f]
    /\ transforming[f] = <<>> /\ writing[f] = <<>> /\ inflight[f] = {}

(* The rows that were not skipped are, each in one place, in the writer, on    *)
(* the way to the database, or inserted; and the writer finishes well when it  *)
(* is the last place that one can be.                                          *)
RowsGoOn(f) ==
    /\ upload[f] = "none" =>
          keptRows[f] = {} /\ writing[f] = <<>> /\ inflight[f] = {} /\ pending[f] = {}
    /\ broken[f] => ended[f]
    /\ ended[f] => broken[f] \/ parsed[f] = Length
    /\ upload[f] = "streaming" =>
          {f} \X keptRows[f] = pending[f] \cup inflight[f] \cup RowsOf(f, writing[f])
    /\ upload[f] \in {"resolved", "ok"} => Drained(f)
    /\ upload[f] = "resolved" => pending[f] = {f} \X keptRows[f]

(* What is stored is the last file that was answered well, and nobody else's.  *)
LatestIsStored ==
    IF latest = NoFile THEN stored = {} /\ \A f \in Files : upload[f] # "ok"
    ELSE upload[latest] = "ok" /\ stored = {latest} \X keptRows[latest]

StreamsTypeOK ==
    /\ transforming \in [Files -> Seq(1..Length)]
    /\ writing \in [Files -> Seq(1..Length)]
    /\ inflight \in [Files -> SUBSET (Files \X (1..Length))]
    /\ pending \in [Files -> SUBSET (Files \X (1..Length))]

UploadInv ==
    UploadTypeOK /\ StreamsTypeOK /\ LatestIsStored /\ \A f \in Files : RowsGoOn(f)

LEMMA RowsOfAppend ==
    ASSUME NEW S, NEW s \in Seq(S), NEW x \in S, NEW f, NEW t, t = Append(s, x)
    PROVE  \A z : z \in RowsOf(f, t) <=> z \in RowsOf(f, s) \/ z = <<f, x>>
<1>1. /\ Len(t) = Len(s) + 1 /\ Len(s) \in Nat
      /\ t[Len(s) + 1] = x
      /\ \A i \in 1..Len(s) : t[i] = s[i]
  OBVIOUS
<1>2. 1..(Len(s) + 1) = 1..Len(s) \cup {Len(s) + 1}
  BY ONLY <1>1
<1> QED
  BY ONLY <1>1, <1>2 DEF RowsOf

LEMMA RowsOfRest ==
    ASSUME NEW S, NEW s \in Seq(S), NEW n \in 1..Len(s), NEW f
    PROVE  /\ SubSeq(s, n + 1, Len(s)) \in Seq(S)
           /\ RowsOf(f, s) = {<<f, s[i]>> : i \in 1..n} \cup RowsOf(f, SubSeq(s, n + 1, Len(s)))
<1> DEFINE r == SubSeq(s, n + 1, Len(s))
<1>1. /\ r \in Seq(S) /\ Len(r) = Len(s) - n
      /\ \A j \in 1..(Len(s) - n) : r[j] = s[n + j]
  OBVIOUS
<1> HIDE DEF r
<1>2. \A i \in 1..Len(s) : i \in 1..n \/ (i - n \in 1..(Len(s) - n) /\ i = n + (i - n))
  OBVIOUS
<1>3. \A i \in 1..Len(s) : i \in 1..n \/ \E j \in 1..Len(r) : r[j] = s[i]
  BY <1>1, <1>2, ZenonT(60)
<1>4. \A j \in 1..Len(r) : \E i \in 1..Len(s) : s[i] = r[j]
  <2>1. \A j \in 1..Len(r) : n + j \in 1..Len(s)
    BY <1>1
  <2> QED
    BY <1>1, <2>1
<1>5. RowsOf(f, s) = {<<f, s[i]>> : i \in 1..n} \cup RowsOf(f, r)
  <2>1. \A i \in 1..n : i \in 1..Len(s)
    OBVIOUS
  <2>2. RowsOf(f, s) \subseteq {<<f, s[i]>> : i \in 1..n} \cup RowsOf(f, r)
    BY ONLY <1>3, ZenonT(60) DEF RowsOf
  <2>3. {<<f, s[i]>> : i \in 1..n} \subseteq RowsOf(f, s)
    BY ONLY <2>1, ZenonT(60) DEF RowsOf
  <2>4. RowsOf(f, r) \subseteq RowsOf(f, s)
    BY ONLY <1>4, ZenonT(60) DEF RowsOf
  <2> QED
    BY ONLY <2>2, <2>3, <2>4, Zenon
<1> QED
  BY <1>1, <1>5 DEF r

LEMMA UploadInitInv == UploadInit => UploadInv
<1> SUFFICES ASSUME UploadInit PROVE UploadInv
  OBVIOUS
<1>1. UploadTypeOK
  BY UploadAssumption DEF UploadInit, UploadTypeOK
<1>2. StreamsTypeOK
  BY DEF UploadInit, StreamsTypeOK
<1>3. LatestIsStored
  BY DEF UploadInit, LatestIsStored
<1>4. \A f \in Files : RowsGoOn(f)
  BY DEF UploadInit, RowsGoOn
<1> QED
  BY <1>1, <1>2, <1>3, <1>4 DEF UploadInv

\* The transaction begins, is committed or is rolled back.
LEMMA TransactionKeepsInv ==
    ASSUME UploadInv, NEW f \in Files, BeginUpload(f) \/ CommitUpload(f) \/ RollbackUpload(f)
    PROVE  UploadInv'
<1> USE UploadAssumption DEF UploadInv, UploadTypeOK, StreamsTypeOK, streamVars
<1>1. UploadTypeOK' /\ StreamsTypeOK'
  BY DEF BeginUpload, CommitUpload, RollbackUpload
<1>2. UNCHANGED <<streamVars, pending>> /\ \A g \in Files : g # f => upload'[g] = upload[g]
  BY DEF BeginUpload, CommitUpload, RollbackUpload
<1>3. ASSUME NEW g \in Files, g # f PROVE RowsGoOn(g)'
  BY <1>2, <1>3 DEF RowsGoOn, Drained
<1>4. RowsGoOn(f)'
  <2>1. RowsOf(f, <<>>) = {}
    BY DEF RowsOf
  <2>2. CASE BeginUpload(f)
    BY <1>2, <2>1, <2>2 DEF BeginUpload, RowsGoOn, Drained
  <2>3. CASE CommitUpload(f) \/ RollbackUpload(f)
    BY <1>2, <2>3 DEF CommitUpload, RollbackUpload, RowsGoOn, Drained
  <2> QED
    BY <2>2, <2>3
<1>5. LatestIsStored'
  BY DEF LatestIsStored, BeginUpload, CommitUpload, RollbackUpload, RowsGoOn
<1> QED
  BY <1>1, <1>3, <1>4, <1>5

\* The parser and the transformer.
LEMMA StreamKeepsInv ==
    ASSUME UploadInv, NEW f \in Files,
           Parse(f) \/ ParserEnds(f) \/ \E skip \in BOOLEAN : Transform(f, skip)
    PROVE  UploadInv'
<1> USE UploadAssumption DEF UploadInv, UploadTypeOK, StreamsTypeOK
<1>1. CASE Parse(f)
  <2>1. UploadTypeOK' /\ StreamsTypeOK'
    BY <1>1, SMTT(60) DEF Parse
  <2>2. ASSUME NEW g \in Files PROVE RowsGoOn(g)'
    <3>1. ~ended[f] /\ ~Drained(f)
      BY <1>1 DEF Parse, RowsGoOn, Drained
    <3>2. UNCHANGED <<upload, broken, ended, writing, inflight, keptRows, pending>>
      BY <1>1 DEF Parse
    <3>3. CASE g = f
      BY <3>1, <3>2, <3>3 DEF RowsGoOn
    <3>4. CASE g # f
      BY <1>1, <3>2, <3>4, ZenonT(60) DEF Parse, RowsGoOn, Drained
    <3> QED
      BY <3>3, <3>4
  <2>3. LatestIsStored'
    BY <1>1 DEF Parse, LatestIsStored
  <2> QED
    BY <2>1, <2>2, <2>3
<1>2. CASE ParserEnds(f)
  <2>1. UploadTypeOK' /\ StreamsTypeOK'
    BY <1>2 DEF ParserEnds
  <2>2. ASSUME NEW g \in Files PROVE RowsGoOn(g)'
    BY <1>2, ZenonT(60) DEF ParserEnds, RowsGoOn, Drained
  <2>3. LatestIsStored'
    BY <1>2 DEF ParserEnds, LatestIsStored
  <2> QED
    BY <2>1, <2>2, <2>3
<1>3. ASSUME NEW skip \in BOOLEAN, Transform(f, skip) PROVE UploadInv'
  <2> DEFINE handled == Head(transforming[f])
  <2>1. handled \in 1..Length /\ Tail(transforming[f]) \in Seq(1..Length)
    BY <1>3, SMTT(60) DEF Transform
  <2>2. upload[f] \notin {"none", "resolved", "ok"}
    BY <1>3 DEF Transform, Runs, RowsGoOn, Drained
  <2> HIDE DEF handled
  <2>3. CASE skip
    <3>1. UploadTypeOK' /\ StreamsTypeOK'
      BY <1>3, <2>1, <2>3 DEF Transform
    <3>2. ASSUME NEW g \in Files PROVE RowsGoOn(g)'
      BY <1>3, <2>2, <2>3 DEF Transform, RowsGoOn, Drained
    <3>3. LatestIsStored'
      BY <1>3, <2>3 DEF Transform, LatestIsStored
    <3> QED
      BY <3>1, <3>2, <3>3
  <2>4. CASE ~skip
    <3>1. /\ writing' = [writing EXCEPT ![f] = Append(@, handled)]
          /\ keptRows' = [keptRows EXCEPT ![f] = @ \cup {handled}]
          /\ transforming' = [transforming EXCEPT ![f] = Tail(@)]
          /\ UNCHANGED <<upload, parsed, broken, ended, inflight, pending, stored, latest>>
      BY <1>3, <2>4 DEF Transform, handled
    <3>2. UploadTypeOK' /\ StreamsTypeOK'
      BY <2>1, <3>1, SMTT(200)
    <3>3. RowsOf(f, writing'[f]) = RowsOf(f, writing[f]) \cup {<<f, handled>>}
      <4>1. writing'[f] = Append(writing[f], handled) /\ writing[f] \in Seq(1..Length)
        BY <3>1
      <4> QED
        BY ONLY <2>1, <4>1, RowsOfAppend, ZenonT(60)
    <3>4. {f} \X keptRows'[f] = ({f} \X keptRows[f]) \cup {<<f, handled>>}
      BY <3>1, SMTT(60)
    <3>5. RowsGoOn(f)'
      BY <2>2, <3>1, <3>3, <3>4 DEF RowsGoOn
    <3>6. ASSUME NEW g \in Files, g # f PROVE RowsGoOn(g)'
      BY <3>1, <3>6, ZenonT(60) DEF RowsGoOn, Drained
    <3>7. LatestIsStored'
      BY <2>2, <3>1 DEF LatestIsStored
    <3> QED
      BY <3>2, <3>5, <3>6, <3>7
  <2> QED
    BY <2>3, <2>4
<1> QED
  BY <1>1, <1>2, <1>3

\* The writer.
LEMMA WriterKeepsInv ==
    ASSUME UploadInv, NEW f \in Files,
           WriteRows(f) \/ Inserted(f) \/ InsertFails(f) \/ WriterFinishes(f)
    PROVE  UploadInv'
<1> USE UploadAssumption DEF UploadInv, UploadTypeOK, StreamsTypeOK
<1>1. CASE WriteRows(f)
  <2>1. PICK n \in {1, Len(writing[f])} :
             /\ inflight' = [inflight EXCEPT ![f] = {<<f, writing[f][i]>> : i \in 1..n}]
             /\ writing' = [writing EXCEPT ![f] = SubSeq(@, n + 1, Len(@))]
    BY <1>1 DEF WriteRows
  <2>2. /\ upload[f] \notin {"none", "resolved", "ok"} /\ inflight[f] = {}
        /\ UNCHANGED <<upload, parsed, broken, transforming, ended, keptRows, pending, stored, latest>>
    BY <1>1 DEF WriteRows, Runs, RowsGoOn, Drained
  <2>3. n \in 1..Len(writing[f])
    BY <1>1, SMTT(60) DEF WriteRows
  <2>4. /\ writing'[f] \in Seq(1..Length)
        /\ RowsOf(f, writing[f]) = inflight'[f] \cup RowsOf(f, writing'[f])
    <3> DEFINE s == writing[f]
    <3>1. /\ s \in Seq(1..Length)
          /\ writing'[f] = SubSeq(s, n + 1, Len(s))
          /\ inflight'[f] = {<<f, s[i]>> : i \in 1..n}
      BY <2>1
    <3>2. n \in 1..Len(s)
      BY <2>3
    <3> HIDE DEF s
    <3>3. /\ SubSeq(s, n + 1, Len(s)) \in Seq(1..Length)
          /\ RowsOf(f, s) = {<<f, s[i]>> : i \in 1..n} \cup RowsOf(f, SubSeq(s, n + 1, Len(s)))
      BY <3>1, <3>2, RowsOfRest, ZenonT(200)
    <3>4. RowsOf(f, s) = inflight'[f] \cup RowsOf(f, writing'[f])
      BY <3>1, <3>3
    <3> QED
      BY <3>1, <3>3, <3>4 DEF s
  <2>5. inflight'[f] \subseteq Files \X (1..Length)
    BY <2>1, <2>3, SMTT(200)
  <2>6. UploadTypeOK' /\ StreamsTypeOK'
    BY <2>1, <2>2, <2>4, <2>5
  <2>7. RowsGoOn(f)'
    BY <2>2, <2>4 DEF RowsGoOn
  <2>8. ASSUME NEW g \in Files, g # f PROVE RowsGoOn(g)'
    BY <2>1, <2>2, <2>8, ZenonT(60) DEF RowsGoOn, Drained
  <2>9. LatestIsStored'
    BY <2>2 DEF LatestIsStored
  <2> QED
    BY <2>6, <2>7, <2>8, <2>9
<1>2. CASE Inserted(f)
  <2>1. upload[f] \notin {"none", "resolved", "ok"}
    BY <1>2 DEF Inserted, Runs, RowsGoOn, Drained
  <2>2. /\ pending' = [pending EXCEPT ![f] = @ \cup inflight[f]]
        /\ inflight' = [inflight EXCEPT ![f] = {}]
        /\ UNCHANGED <<upload, parsed, broken, transforming, ended, writing, keptRows, latest, stored>>
    BY <1>2, <2>1 DEF Inserted, InTransaction, Runs
  <2>3. UploadTypeOK' /\ StreamsTypeOK'
    BY <2>2
  <2>4. ASSUME NEW g \in Files PROVE RowsGoOn(g)'
    BY <2>1, <2>2, ZenonT(60) DEF RowsGoOn, Drained
  <2>5. LatestIsStored'
    BY <2>2 DEF LatestIsStored
  <2> QED
    BY <2>3, <2>4, <2>5
<1>3. CASE InsertFails(f)
  <2>1. UploadTypeOK' /\ StreamsTypeOK'
    BY <1>3 DEF InsertFails
  <2>2. ASSUME NEW g \in Files PROVE RowsGoOn(g)'
    BY <1>3 DEF InsertFails, RowsGoOn, Drained
  <2>3. LatestIsStored'
    BY <1>3 DEF InsertFails, LatestIsStored
  <2> QED
    BY <2>1, <2>2, <2>3
<1>4. CASE WriterFinishes(f)
  <2>1. UploadTypeOK' /\ StreamsTypeOK'
    BY <1>4 DEF WriterFinishes, Outcome, streamVars
  <2>2. RowsOf(f, <<>>) = {}
    BY DEF RowsOf
  <2>3. ASSUME NEW g \in Files PROVE RowsGoOn(g)'
    BY <1>4, <2>2, ZenonT(60) DEF WriterFinishes, Outcome, streamVars, RowsGoOn, Drained
  <2>4. LatestIsStored'
    BY <1>4 DEF WriterFinishes, Outcome, streamVars, LatestIsStored
  <2> QED
    BY <2>1, <2>3, <2>4
<1> QED
  BY <1>1, <1>2, <1>3, <1>4

LEMMA UploadNextInv == UploadInv /\ [UploadNext]_uploadVars => UploadInv'
<1> SUFFICES ASSUME UploadInv, [UploadNext]_uploadVars PROVE UploadInv'
  OBVIOUS
<1>1. CASE UNCHANGED uploadVars
  <2>1. UploadTypeOK' /\ StreamsTypeOK' /\ LatestIsStored'
    BY <1>1 DEF uploadVars, UploadInv, UploadTypeOK, StreamsTypeOK, LatestIsStored
  <2>2. \A f \in Files : RowsGoOn(f)'
    BY <1>1 DEF uploadVars, UploadInv, RowsGoOn, Drained
  <2> QED
    BY <2>1, <2>2 DEF UploadInv
<1> QED
  BY <1>1, TransactionKeepsInv, StreamKeepsInv, WriterKeepsInv DEF UploadNext

(* upload_dataset.ts, uploadEntities and uploadStringDataset: whichever stream *)
(* fails, and wherever the others are then, the values are those of one whole  *)
(* file, of the request that was answered last.                                *)
THEOREM UploadStoresOneFile == UploadSpec => []StoredIsOneFile
<1>1. UploadInv => StoredIsOneFile
  BY DEF UploadInv, UploadTypeOK, LatestIsStored, RowsGoOn, Drained, StoredIsOneFile
<1> QED
  BY <1>1, UploadInitInv, UploadNextInv, PTL DEF UploadSpec

-----------------------------------------------------------------------------
(* Uploads of a device that cross with each other and with administration.    *)

Request == [open : {TRUE}, new : Offers, approve : BOOLEAN, device : Device \cup {None},
            schema : Schema \cup {None}, owner : Orgs]
RequestsTyped ==
    /\ commits \in 0..MaxCommits
    /\ uploads \in [Uploads -> Request \cup {Closed}]

\* The rows come and go together, and each version of the device is a commit.
RowsTogether ==
    /\ device = None => schema = None /\ \A v \in Versions : code[v] = None
    /\ device # None =>
          /\ schema # None
          /\ device.id <= commits /\ device.developer_version < commits
          /\ schema.developer_version <= device.developer_version
          /\ \A v \in Versions : code[v] = None <=> v > device.developer_version
          /\ device.approved_version # None => device.approved_version <= device.developer_version
          /\ schema.approved_version # None => schema.approved_version <= schema.developer_version
          /\ \A v \in Versions : v <= schema.developer_version => metas[v] # None

\* The newest versions agree; the approved ones do, unless they were set apart.
NewestAgree ==
    device # None => metas[schema.developer_version] = code[device.developer_version].class
ApprovedAgree ==
    device # None /\ ~skewed =>
        /\ device.approved_version = None <=> schema.approved_version = None
        /\ device.approved_version # None =>
              metas[schema.approved_version] = code[device.approved_version].class

\* What an upload has read is an older device, an older version, or the newest
\* one with its schema; and a package to keep is one that was there.
OldRead(t) ==
    /\ t.device = None => t.schema = None /\ t.new.package # Keep
    /\ t.device # None =>
          /\ t.device.id <= commits
          /\ t.device.approved_version # None =>
                t.device.approved_version <= t.device.developer_version
          /\ t.schema # None
          /\ t.schema.developer_version <= t.device.developer_version
          /\ device # None /\ device.id = t.device.id =>
                /\ t.owner = device.owner
                /\ t.device.developer_version <= device.developer_version
                /\ t.device.developer_version = device.developer_version =>
                      t.schema.developer_version = schema.developer_version
ReadIsOld == \A u \in Uploads : uploads[u].open => OldRead(uploads[u])

\* A file is that of the version, wherever the version has a package.
FilesAreMeant ==
    \A v \in Versions : code[v] # None /\ code[v].package # None => zip[v] = code[v].package

CatalogueInv ==
    /\ CatalogueTypeOK /\ RequestsTyped /\ RowsTogether /\ NewestAgree /\ ApprovedAgree
    /\ ReadIsOld /\ FilesAreMeant

LEMMA CatalogueInitInv == Init => CatalogueInv
<1> SUFFICES ASSUME Init PROVE CatalogueInv
  OBVIOUS
<1> USE CatalogueAssumption DEF Init
<1>1. CatalogueTypeOK
  BY DEF CatalogueTypeOK
<1>0. RequestsTyped
  BY DEF RequestsTyped
<1>2. RowsTogether /\ NewestAgree /\ ApprovedAgree /\ FilesAreMeant
  BY DEF RowsTogether, NewestAgree, ApprovedAgree, FilesAreMeant
<1>3. ReadIsOld
  BY DEF ReadIsOld, Closed
<1> QED
  BY <1>0, <1>1, <1>2, <1>3 DEF CatalogueInv

\* The rows of the device and its schema have numbers, or are not there.
LEMMA RowsAreRows ==
    ASSUME CatalogueTypeOK, device # None, schema # None
    PROVE  /\ device \in Device /\ schema \in Schema
           /\ device.developer_version \in Nat /\ schema.developer_version \in Nat
           /\ device.developer_version \in Versions /\ schema.developer_version \in Versions
           /\ device.approved_version \in Version /\ schema.approved_version \in Version
           /\ device.id \in Nat /\ device.owner \in Orgs
BY CatalogueAssumption DEF CatalogueTypeOK, Device, Schema, Versions, Version

\* An open upload is a request.
LEMMA OpenIsRequest ==
    ASSUME RequestsTyped, NEW u \in Uploads, uploads[u].open
    PROVE  uploads[u] \in Request
BY DEF RequestsTyped, Closed

LEMMA BeginKeepsInv ==
    ASSUME CatalogueInv, NEW u \in Uploads, NEW org \in Orgs, NEW new \in Offers,
           NEW approve \in BOOLEAN, Begin(u, org, new, approve)
    PROVE  CatalogueInv'
<1> USE DEF CatalogueInv, Begin, rows
<1> DEFINE t == [open |-> TRUE, new |-> new, approve |-> approve, device |-> device,
                 schema |-> schema, owner |-> IF device = None THEN org ELSE device.owner]
<1>1. device # None => schema # None /\ device \in Device /\ device.owner \in Orgs
  BY RowsAreRows DEF RowsTogether
<1>2. t \in Request
  BY <1>1 DEF Request, CatalogueTypeOK
<1>3. uploads' = [uploads EXCEPT ![u] = t]
  OBVIOUS
<1>4. CatalogueTypeOK' /\ RowsTogether' /\ NewestAgree' /\ ApprovedAgree' /\ FilesAreMeant'
  BY DEF CatalogueTypeOK, RowsTogether, NewestAgree, ApprovedAgree, FilesAreMeant
<1>5. RequestsTyped'
  BY <1>2, <1>3 DEF RequestsTyped
<1>6. ReadIsOld'
  <2>1. OldRead(t)'
    BY <1>1, RowsAreRows DEF OldRead, RowsTogether
  <2>2. ASSUME NEW w \in Uploads, uploads[w].open PROVE OldRead(uploads[w])'
    BY <2>2 DEF ReadIsOld, OldRead
  <2>3. ASSUME NEW w \in Uploads, uploads'[w].open PROVE OldRead(uploads[w])'
    BY <1>3, <2>1, <2>2, <2>3 DEF RequestsTyped
  <2> QED
    BY <2>3 DEF ReadIsOld
<1> QED
  BY <1>4, <1>5, <1>6

\* An upload that is over leaves nothing behind but perhaps a file, which
\* is none of a version that is there.
LEMMA EndsKeepsInv ==
    ASSUME CatalogueInv, NEW u \in Uploads, Ends(u),
           zip' \in [Versions -> Packages \cup {None}],
           \A v \in Versions : code[v] # None => zip'[v] = zip[v]
    PROVE  CatalogueInv'
<1> USE DEF CatalogueInv, Ends, rows
<1>1. CatalogueTypeOK' /\ RowsTogether' /\ NewestAgree' /\ ApprovedAgree' /\ FilesAreMeant'
  BY DEF CatalogueTypeOK, RowsTogether, NewestAgree, ApprovedAgree, FilesAreMeant
<1>2. RequestsTyped'
  BY DEF RequestsTyped
<1>3. ReadIsOld'
  BY DEF ReadIsOld, OldRead, RequestsTyped, Closed
<1> QED
  BY <1>1, <1>2, <1>3

\* What an upload stores is the next version, of which there is nothing yet, and
\* the file is that of the version before or its own.
LEMMA StoresNextVersion ==
    ASSUME CatalogueInv, NEW u \in Uploads, uploads[u].open, ~Conflict(uploads[u])
    PROVE  LET t == uploads[u]
               v == NewVersion(t)
           IN  /\ t \in Request
               /\ v \in Nat /\ v <= commits
               /\ commits < MaxCommits => v \in Versions
               /\ v \in Versions => code[v] = None
               /\ device = None => v = 0 /\ t.device = None /\ t.schema = None /\ t.new.package # Keep
               /\ device # None =>
                     /\ v = device.developer_version + 1
                     /\ t.device # None /\ t.schema # None
                     /\ t.device.id = device.id /\ t.owner = device.owner
                     /\ t.device.developer_version = device.developer_version
                     /\ t.schema.developer_version = schema.developer_version
<1> DEFINE t == uploads[u]
<1> USE DEF CatalogueInv
<1>1. t \in Request
  BY OpenIsRequest
<1>2. OldRead(t)
  BY DEF ReadIsOld
<1> HIDE DEF t
<1>3. ~Conflict(t) /\ commits \in Nat /\ MaxCommits \in Nat
  BY CatalogueAssumption DEF t, RequestsTyped
<1>4. CASE device = None
  <2>1. t.device = None /\ t.schema = None /\ t.new.package # Keep
    BY <1>2, <1>3, <1>4 DEF Conflict, OldRead
  <2>2. NewVersion(t) = 0 /\ (commits < MaxCommits => 0 \in Versions)
    BY <1>3, <2>1 DEF NewVersion, Versions
  <2> QED
    BY <1>1, <1>3, <1>4, <2>1, <2>2 DEF RowsTogether, t
<1>5. CASE device # None
  <2>1. /\ t.device # None /\ t.schema # None /\ t.owner = device.owner
        /\ t.device.id = device.id
        /\ t.device.developer_version = device.developer_version
        /\ t.schema.developer_version = schema.developer_version
    BY <1>2, <1>3, <1>5 DEF Conflict, OldRead
  <2>2. schema # None /\ device.developer_version < commits /\ device.developer_version \in Nat
    BY <1>5, RowsAreRows DEF RowsTogether
  <2>3. /\ NewVersion(t) = device.developer_version + 1
        /\ commits < MaxCommits => NewVersion(t) \in Versions
    BY <1>3, <2>1, <2>2 DEF NewVersion, Versions
  <2>4. NewVersion(t) \in Versions => code[NewVersion(t)] = None
    BY <1>5, <2>2, <2>3 DEF RowsTogether
  <2> QED
    BY <1>1, <1>3, <1>5, <2>1, <2>2, <2>3, <2>4 DEF t
<1> QED
  BY <1>4, <1>5

LEMMA PackageIsKnown ==
    ASSUME CatalogueInv, NEW u \in Uploads, uploads[u].open, ~Conflict(uploads[u])
    PROVE  LET t == uploads[u] IN
           /\ PackageOf(t) \in Packages \cup {None}
           /\ ZipAfter(t) \in [Versions -> Packages \cup {None}]
           /\ \A v \in Versions \ {NewVersion(t)} : ZipAfter(t)[v] = zip[v]
<1> DEFINE t == uploads[u]
<1>1. t \in Request /\ (device = None => t.new.package # Keep)
      /\ (device # None => t.device.developer_version = device.developer_version)
  BY StoresNextVersion
<1>2. zip \in [Versions -> Packages \cup {None}]
  BY DEF CatalogueInv, CatalogueTypeOK
<1> HIDE DEF t
<1>3. PackageOf(t) \in Packages \cup {None}
  <2>1. CASE t.new.package = Keep
    <3>1. t.device.developer_version \in Versions
      BY <1>1, <2>1, RowsAreRows DEF CatalogueInv, RowsTogether
    <3> QED
      BY <1>2, <2>1, <3>1 DEF PackageOf
  <2>2. CASE t.new.package # Keep
    BY <1>1, <2>2, CatalogueAssumption DEF PackageOf, Request
  <2> QED
    BY <2>1, <2>2
<1>4. /\ ZipAfter(t) \in [Versions -> Packages \cup {None}]
      /\ \A v \in Versions \ {NewVersion(t)} : ZipAfter(t)[v] = zip[v]
  BY <1>2, <1>3 DEF ZipAfter
<1> QED
  BY <1>3, <1>4 DEF t

LEMMA EndKeepsInv ==
    ASSUME CatalogueInv, NEW u \in Uploads, Refused(u) \/ FailsLate(u)
    PROVE  CatalogueInv'
<1>1. CASE Refused(u)
  <2>1. Ends(u) /\ zip' = zip
    BY <1>1 DEF Refused
  <2>2. zip \in [Versions -> Packages \cup {None}]
    BY DEF CatalogueInv, CatalogueTypeOK
  <2> QED
    BY <2>1, <2>2, EndsKeepsInv
<1>2. CASE FailsLate(u)
  <2> DEFINE t == uploads[u]
  <2>1. Ends(u) /\ t.open /\ ~Conflict(t) /\ zip' = ZipAfter(t)
    BY <1>2 DEF FailsLate, Stores
  <2>2. NewVersion(t) \in Versions => code[NewVersion(t)] = None
    BY <2>1, StoresNextVersion
  <2>3. /\ ZipAfter(t) \in [Versions -> Packages \cup {None}]
        /\ \A v \in Versions \ {NewVersion(t)} : ZipAfter(t)[v] = zip[v]
    BY <2>1, PackageIsKnown
  <2>4. \A v \in Versions : code[v] # None => zip'[v] = zip[v]
    BY <2>1, <2>2, <2>3
  <2> QED
    BY <2>1, <2>3, <2>4, EndsKeepsInv
<1> QED
  BY <1>1, <1>2

\* An upload commits.
LEMMA CommitKeepsInv ==
    ASSUME CatalogueInv, NEW u \in Uploads, Commit(u)
    PROVE  CatalogueInv'
<1> DEFINE t == uploads[u]
           v == NewVersion(t)
           s == SchemaAfter(t)
           d == DeviceAfter(t)
           class == t.new.class
           newest == s.developer_version
<1> USE DEF CatalogueInv
<1>0. /\ t.open /\ Stores(t) /\ commits < MaxCommits /\ commits' = commits + 1
      /\ device' = d /\ code' = [code EXCEPT ![v] = [class |-> class, package |-> MeantPackage(t)]]
      /\ schema' = s /\ metas' = [metas EXCEPT ![newest] = class]
      /\ examples' = class /\ zip' = ZipAfter(t)
      /\ skewed' = (skewed \/ SetsApart(t))
      /\ uploads' = [uploads EXCEPT ![u] = Closed]
  BY DEF Commit
<1>1. /\ t \in Request
      /\ v \in Versions /\ v \in Nat /\ v <= commits /\ code[v] = None
      /\ device = None => v = 0 /\ t.device = None /\ t.schema = None /\ t.new.package # Keep
      /\ device # None =>
            /\ v = device.developer_version + 1
            /\ t.device # None /\ t.schema # None
            /\ t.device.id = device.id /\ t.owner = device.owner
            /\ t.device.developer_version = device.developer_version
            /\ t.schema.developer_version = schema.developer_version
  BY <1>0, StoresNextVersion DEF Stores
<1>2. /\ PackageOf(t) \in Packages \cup {None}
      /\ ZipAfter(t) \in [Versions -> Packages \cup {None}]
      /\ \A w \in Versions \ {v} : ZipAfter(t)[w] = zip[w]
  BY <1>0, PackageIsKnown DEF Stores
<1>3. /\ commits \in 0..MaxCommits /\ MaxCommits \in Nat /\ class \in Classes /\ t.approve \in BOOLEAN
      /\ code \in [Versions -> Code \cup {None}] /\ metas \in [Versions -> Classes \cup {None}]
      /\ uploads \in [Uploads -> Request \cup {Closed}]
      /\ None \notin Classes /\ None \notin Nat
  BY <1>1, CatalogueAssumption, NoneIsNoRow DEF RequestsTyped, CatalogueTypeOK, Request
<1>4. device # None =>
          /\ schema # None /\ schema \in Schema /\ device \in Device
          /\ device.developer_version \in Nat /\ schema.developer_version \in Nat
          /\ schema.developer_version \in Versions
          /\ device.id \in Nat /\ device.id <= commits
          /\ schema.developer_version <= device.developer_version
          /\ device.approved_version # None => device.approved_version <= device.developer_version
          /\ schema.approved_version # None => schema.approved_version <= schema.developer_version
          /\ device.approved_version \in Version /\ schema.approved_version \in Version
  BY RowsAreRows DEF RowsTogether
<1>5. /\ d \in Device /\ d.developer_version = v /\ d.id <= commits + 1
      /\ device # None => d.id = device.id /\ d.owner = device.owner
      /\ device = None => d.id = commits + 1
      /\ d.approved_version = IF t.approve THEN v ELSE IF device = None THEN None ELSE t.device.approved_version
      /\ d.approved_version # None => d.approved_version <= v
  <2>1. t.owner \in Orgs /\ (device # None => t.device.approved_version \in Version)
    BY <1>1 DEF Request, Device
  <2>2. OldRead(t)
    BY <1>0 DEF ReadIsOld
  <2> HIDE DEF t, v
  <2>3. /\ d.developer_version = v /\ d.owner = t.owner
        /\ d.id = IF device = None THEN commits + 1 ELSE device.id
        /\ d.approved_version = IF t.approve THEN v ELSE IF device = None THEN None ELSE t.device.approved_version
    BY <1>1 DEF DeviceAfter, v
  <2>4. d.approved_version \in Version /\ d.id \in 1..MaxCommits
    BY <1>0, <1>1, <1>3, <1>4, <2>1, <2>3 DEF Version, Device
  <2>5. d.approved_version # None => d.approved_version <= v
    BY <1>1, <1>3, <1>4, <2>1, <2>2, <2>3, <2>4, SMTT(60) DEF OldRead, Version, Versions
  <2>6. d \in Device
    BY <1>1, <2>1, <2>3, <2>4 DEF DeviceAfter, Device, v
  <2> QED
    BY <1>1, <1>3, <1>4, <2>3, <2>5, <2>6
<1>6. /\ device = None => newest = 0 /\ s.approved_version = IF t.approve THEN 0 ELSE None
      /\ device # None /\ SameSchema(t) =>
            /\ newest = schema.developer_version /\ metas[newest] = class
            /\ s.approved_version = IF t.approve /\ t.schema.approved_version = None
                                    THEN newest ELSE schema.approved_version
      /\ device # None /\ ~SameSchema(t) =>
            /\ newest = schema.developer_version + 1
            /\ s.approved_version = IF t.approve THEN newest ELSE schema.approved_version
      /\ s = [developer_version |-> newest, approved_version |-> s.approved_version]
  <2> HIDE DEF t
  <2>1. CASE device = None
    BY <1>1, <2>1 DEF SchemaAfter
  <2>2. CASE device # None /\ SameSchema(t)
    BY <1>1, <1>4, <2>2 DEF SchemaAfter, SameSchema, Approved, Schema
  <2>3. CASE device # None /\ ~SameSchema(t)
    BY <1>1, <1>4, <2>3 DEF SchemaAfter, Approved, Schema
  <2> QED
    BY <2>1, <2>2, <2>3
<1> HIDE DEF s, d, v, newest, class
<1>7. newest \in Versions /\ newest \in Nat /\ newest <= v /\ s \in Schema
      /\ (s.approved_version # None => s.approved_version <= newest)
  <2>1. newest \in Nat /\ newest <= v /\ newest \in Versions
    BY <1>1, <1>3, <1>4, <1>6 DEF Versions
  <2>2. s.approved_version \in Version /\ (s.approved_version # None => s.approved_version <= newest)
    BY <1>1, <1>3, <1>4, <1>6, <2>1 DEF Version, Versions
  <2> QED
    BY <1>6, <2>1, <2>2 DEF Schema
<1>8. /\ metas' \in [Versions -> Classes \cup {None}] /\ metas'[newest] = class
      /\ \A w \in Versions \ {newest} : metas'[w] = metas[w]
  BY <1>0, <1>3, <1>7
<1>9. /\ MeantPackage(t) \in Packages \cup {None}
      /\ MeantPackage(t) # None => ZipAfter(t)[v] = MeantPackage(t)
  <2>1. CASE t.new.package = Keep /\ code[t.device.developer_version].package # None
    <3>1. /\ device # None /\ t.device.developer_version = device.developer_version
          /\ device.developer_version \in Versions
      BY <1>1, <1>4, <2>1 DEF Device
    <3>2. code[device.developer_version] # None
      BY <1>4, <3>1 DEF RowsTogether
    <3>3. code[device.developer_version] \in Code
      BY <1>3, <3>1, <3>2
    <3>4. /\ MeantPackage(t) = code[device.developer_version].package
          /\ MeantPackage(t) \in Packages \cup {None}
          /\ PackageOf(t) = zip[device.developer_version]
      BY <2>1, <3>1, <3>3 DEF MeantPackage, PackageOf, Code
    <3>5. zip[device.developer_version] = MeantPackage(t)
      BY <2>1, <3>1, <3>2, <3>4 DEF FilesAreMeant
    <3>6. zip \in [Versions -> Packages \cup {None}]
      BY DEF CatalogueTypeOK
    <3> QED
      BY <1>1, <3>4, <3>5, <3>6 DEF ZipAfter, v
  <2>2. CASE ~(t.new.package = Keep /\ code[t.device.developer_version].package # None)
    <3>1. MeantPackage(t) = PackageOf(t)
      BY <2>2 DEF MeantPackage
    <3>2. zip \in [Versions -> Packages \cup {None}]
      BY DEF CatalogueTypeOK
    <3> QED
      BY <1>1, <1>2, <3>1, <3>2 DEF ZipAfter, v
  <2> QED
    BY <2>1, <2>2
<1>10. /\ code' \in [Versions -> Code \cup {None}]
       /\ code'[v] = [class |-> class, package |-> MeantPackage(t)]
       /\ code'[v] # None /\ code'[v].class = class /\ code'[v].package = MeantPackage(t)
       /\ \A w \in Versions \ {v} : code'[w] = code[w]
  <2>1. [class |-> class, package |-> MeantPackage(t)] \in Code
    BY <1>3, <1>9 DEF Code
  <2> QED
    BY <1>0, <1>1, <1>3, <2>1, NoneIsNoRow
<1>11. CatalogueTypeOK'
  BY <1>0, <1>2, <1>3, <1>5, <1>7, <1>8, <1>10 DEF CatalogueTypeOK, SetsApart
<1>12. RequestsTyped'
  BY <1>0, <1>3 DEF RequestsTyped
<1>13. device' # None /\ schema' # None /\ device' = d /\ schema' = s
  BY <1>0, <1>5, <1>7, NoneIsNoRow
<1>14. RowsTogether'
  <2>1. ASSUME NEW w \in Versions PROVE code'[w] = None <=> w > v
    <3>1. w \in Nat
      BY DEF Versions
    <3> QED
      BY <1>1, <1>4, <1>10, <3>1 DEF RowsTogether
  <2>2. ASSUME NEW w \in Versions, w <= newest PROVE metas'[w] # None
    <3>1. w \in Nat
      BY DEF Versions
    <3>2. device # None /\ w # newest => w <= schema.developer_version
      BY <1>4, <1>6, <1>7, <2>2, <3>1
    <3> QED
      BY <1>3, <1>6, <1>7, <1>8, <2>2, <3>1, <3>2 DEF RowsTogether
  <2> QED
    BY <1>0, <1>1, <1>3, <1>5, <1>7, <1>13, <2>1, <2>2 DEF RowsTogether, newest
<1>15. NewestAgree'
  BY <1>5, <1>7, <1>8, <1>10, <1>13 DEF NewestAgree, newest
<1>16. ApprovedAgree'
  <2> SUFFICES ASSUME ~skewed, ~SetsApart(t)
               PROVE  /\ d.approved_version = None <=> s.approved_version = None
                      /\ d.approved_version # None =>
                            metas'[s.approved_version] = code'[d.approved_version].class
    BY <1>0, <1>13 DEF ApprovedAgree
  <2>1. CASE device = None
    BY <1>1, <1>3, <1>5, <1>6, <1>7, <1>8, <1>10, <2>1
  <2>2. CASE device # None
    <3>1. /\ t.device.approved_version = device.approved_version
          /\ t.schema.approved_version = schema.approved_version
          /\ t.approve /\ SameSchema(t) /\ schema.approved_version # None =>
                metas[schema.approved_version] = class
      BY <1>1, <2>2 DEF SetsApart, class
    <3>2. /\ device.approved_version = None <=> schema.approved_version = None
          /\ device.approved_version # None =>
                metas[schema.approved_version] = code[device.approved_version].class
      BY <2>2 DEF ApprovedAgree
    <3>3. schema.approved_version # None =>
                /\ schema.approved_version \in Versions /\ schema.approved_version \in Nat
                /\ schema.approved_version <= schema.developer_version
      BY <1>4, <2>2 DEF Version, Versions
    <3>4. device.approved_version # None =>
                /\ device.approved_version \in Versions /\ device.approved_version \in Nat
                /\ device.approved_version < v
      BY <1>1, <1>4, <2>2 DEF Version, Versions
    <3>5. schema.approved_version # None =>
                metas'[schema.approved_version] = metas[schema.approved_version]
      BY <1>4, <1>6, <1>7, <1>8, <2>2, <3>3
    <3>6. device.approved_version # None =>
                code'[device.approved_version].class = code[device.approved_version].class
      BY <1>1, <1>10, <3>4
    <3>7. CASE t.approve
      BY <1>1, <1>3, <1>5, <1>6, <1>7, <1>8, <1>10, <2>2, <3>1, <3>2, <3>5, <3>7
    <3>8. CASE ~t.approve
      BY <1>1, <1>3, <1>5, <1>6, <2>2, <3>1, <3>2, <3>5, <3>6, <3>8
    <3> QED
      BY <3>7, <3>8
  <2> QED
    BY <2>1, <2>2
<1>17. ReadIsOld'
  <2>1. ASSUME NEW r \in Request, OldRead(r) PROVE OldRead(r)'
    <3>1. r.device # None => r.device.id \in Nat /\ r.device.developer_version \in Nat
      BY DEF Request, Device, Versions
    <3> QED
      BY <1>0, <1>1, <1>3, <1>4, <1>5, <1>13, <2>1, <3>1 DEF OldRead
  <2>2. ASSUME NEW w \in Uploads, uploads'[w].open
        PROVE  uploads'[w] = uploads[w] /\ uploads[w] \in Request /\ OldRead(uploads[w])
    BY <1>0, <1>3, <2>2, OpenIsRequest DEF Closed, ReadIsOld
  <2>3. \A w \in Uploads : uploads'[w].open => uploads'[w] \in Request /\ OldRead(uploads'[w])
    BY <2>2
  <2> QED
    BY <2>1, <2>3 DEF ReadIsOld, OldRead
<1>18. FilesAreMeant'
  <2> SUFFICES ASSUME NEW w \in Versions, code'[w] # None, code'[w].package # None
               PROVE  zip'[w] = code'[w].package
    BY DEF FilesAreMeant
  <2>1. CASE w = v
    BY <1>0, <1>9, <1>10, <2>1
  <2>2. CASE w # v
    BY <1>0, <1>2, <1>10, <2>2 DEF FilesAreMeant
  <2> QED
    BY <2>1, <2>2
<1> QED
  BY <1>11, <1>12, <1>14, <1>15, <1>16, <1>17, <1>18

\* An administrator approves, unapproves or deletes the device.
LEMMA ApprovalKeepsInv ==
    ASSUME CatalogueInv, Approve \/ Unapprove
    PROVE  CatalogueInv'
<1> USE DEF CatalogueInv
<1>1. /\ device # None /\ schema # None /\ device \in Device /\ schema \in Schema
      /\ device.developer_version \in Versions /\ schema.developer_version \in Versions
      /\ device.developer_version \in Nat /\ schema.developer_version \in Nat
  BY RowsAreRows DEF Approve, Unapprove, SetApproval, RowsTogether
<1>2. PICK x \in Version, y \in Version :
         /\ SetApproval(x, y)
         /\ \/ x = device.developer_version /\ y = schema.developer_version
            \/ x = None /\ y = None
  BY <1>1 DEF Approve, Unapprove, Version
<1>3. /\ device' = [device EXCEPT !.approved_version = x]
      /\ schema' = [schema EXCEPT !.approved_version = y]
      /\ ~skewed' /\ skewed' \in BOOLEAN /\ UNCHANGED <<code, metas, examples, zip, uploads, commits>>
  BY <1>2 DEF SetApproval
<1>4. /\ device' \in Device /\ schema' \in Schema /\ device' # None /\ schema' # None
      /\ device'.id = device.id /\ device'.owner = device.owner
      /\ device'.developer_version = device.developer_version
      /\ schema'.developer_version = schema.developer_version
      /\ device'.approved_version = x /\ schema'.approved_version = y
  BY <1>1, <1>3, NoneIsNoRow DEF Device, Schema
<1>5. None \notin Nat
  BY NoneIsNoRow
<1>6. CatalogueTypeOK' /\ RequestsTyped'
  BY <1>3, <1>4 DEF CatalogueTypeOK, RequestsTyped
<1>7. RowsTogether'
  BY <1>1, <1>2, <1>3, <1>4 DEF RowsTogether
<1>8. NewestAgree' /\ ApprovedAgree' /\ FilesAreMeant'
  BY <1>1, <1>2, <1>3, <1>4, <1>5 DEF NewestAgree, ApprovedAgree, FilesAreMeant
<1>9. ReadIsOld'
  BY <1>1, <1>3, <1>4 DEF ReadIsOld, OldRead
<1> QED
  BY <1>6, <1>7, <1>8, <1>9

LEMMA DeleteKeepsInv ==
    ASSUME CatalogueInv, Delete
    PROVE  CatalogueInv'
<1> USE DEF CatalogueInv, Delete
<1>1. CatalogueTypeOK' /\ RequestsTyped'
  BY DEF CatalogueTypeOK, RequestsTyped
<1>2. RowsTogether' /\ NewestAgree' /\ ApprovedAgree' /\ FilesAreMeant'
  BY DEF RowsTogether, NewestAgree, ApprovedAgree, FilesAreMeant
<1>3. ReadIsOld'
  BY DEF ReadIsOld, OldRead
<1> QED
  BY <1>1, <1>2, <1>3

LEMMA CatalogueInvariant == Spec => []CatalogueInv
<1>1. ASSUME CatalogueInv, [Next]_vars PROVE CatalogueInv'
  <2>1. CASE UNCHANGED vars
    BY <1>1, <2>1 DEF vars, CatalogueInv, CatalogueTypeOK, RequestsTyped, RowsTogether, NewestAgree,
                      ApprovedAgree, ReadIsOld, OldRead, FilesAreMeant
  <2>2. CASE Next
    BY <1>1, <2>2, BeginKeepsInv, CommitKeepsInv, EndKeepsInv, ApprovalKeepsInv, DeleteKeepsInv DEF Next
  <2> QED
    BY <1>1, <2>1, <2>2
<1> QED
  BY <1>1, CatalogueInitInv, PTL DEF Spec

(* The rows of a device, its schema and their versions have the declared shape *)
(* through uploads that cross, approvals and deletions.                        *)
THEOREM CatalogueTypeCorrect == Spec => []CatalogueTypeOK
<1>1. CatalogueInv => CatalogueTypeOK
  BY DEF CatalogueInv
<1> QED
  BY <1>1, CatalogueInvariant, PTL

(* Whoever asks is given a class and a schema with the same functions, or      *)
(* neither, and the package that was uploaded with the class: though uploads   *)
(* cross with each other, with approvals and with the deletion and creation of *)
(* the device, and fail after their file was stored.                           *)
THEOREM UploadsAreWhole == Spec => []UploadIsWhole
<1>1. ASSUME CatalogueInv PROVE UploadIsWhole
  <2> USE DEF CatalogueInv
  <2>1. PackageOfVersion
    BY <1>1 DEF FilesAreMeant, PackageOfVersion
  <2>2. CASE device = None
    BY <1>1, <2>1, <2>2 DEF UploadIsWhole, SchemaMatchesClass, ListedFor, MetasFor, CodeFor, VersionFor
  <2>3. CASE device # None
    <3>1. /\ schema # None /\ device.developer_version \in Versions /\ schema.developer_version \in Versions
          /\ device.developer_version \in Nat /\ schema.developer_version \in Nat
          /\ device.approved_version \in Version /\ schema.approved_version \in Version
      BY <1>1, <2>3, RowsAreRows DEF RowsTogether
    <3>2. code[device.developer_version] # None /\ metas[schema.developer_version] # None
      BY <1>1, <2>3, <3>1 DEF RowsTogether
    <3>3. /\ device.approved_version # None => code[device.approved_version] # None
          /\ schema.approved_version # None => metas[schema.approved_version] # None
      BY <1>1, <2>3, <3>1 DEF RowsTogether, Version, Versions
    <3>4. ASSUME ~skewed, NEW key \in Orgs \cup {None}
          PROVE  /\ ListedFor(key) <=> MetasFor(key) # None
                 /\ CodeFor(key) = None => MetasFor(key) = None
                 /\ CodeFor(key) # None => MetasFor(key) = CodeFor(key).class
      <4>1. None \notin Versions
        BY NoneIsNoRow DEF Versions
      <4>2. CASE MaySeeNewest(key)
        BY <1>1, <2>3, <3>1, <3>2, <4>1, <4>2
           DEF ListedFor, MetasFor, CodeFor, VersionFor, NewestAgree
      <4>3. CASE ~MaySeeNewest(key)
        BY <1>1, <2>3, <3>1, <3>3, <3>4, <4>1, <4>3
           DEF ListedFor, MetasFor, CodeFor, VersionFor, ApprovedAgree
      <4> QED
        BY <4>2, <4>3
    <3> QED
      BY <2>1, <3>4 DEF UploadIsWhole, SchemaMatchesClass
  <2> QED
    BY <2>2, <2>3
<1> QED
  BY <1>1, CatalogueInvariant, PTL

-----------------------------------------------------------------------------
(* Versions of a schema, snapshots and translations.                          *)

(* A version that was uploaded, which no schema is ever uploaded as again: it  *)
(* is of a schema that was deleted, or of the one that is there.               *)
Used(v) == \/ v[1] <= deletions
           \/ row # NoRow /\ v[1] = row.id /\ v[2] <= row.developer_version

RowIsNew ==
    row # NoRow => /\ row.id = deletions + 1
                   /\ row.approved_version # NoRow => row.approved_version <= row.developer_version
UsedByRow(r) == r # NoRow => /\ Used(Newest(r))
                             /\ r.approved_version # NoRow => Used(<<r.id, r.approved_version>>)
SnapshotsAreUsed == \A n \in DOMAIN snapshots : UsedByRow(snapshots[n])
UnusedAreEmpty == \A v \in SchemaVersions : ~Used(v) => canonicals[v] = {}
CachedIsThere == cached # NoRow => cached.snapshot \in DOMAIN snapshots

TranslationsInv ==
    /\ TranslationsTypeOK /\ RowIsNew /\ SnapshotsAreUsed /\ UnusedAreEmpty /\ CachedIsThere
    /\ SnapshotIsStable /\ TranslatedWhole

LEMMA TranslationsInitInv == TranslationsInit => TranslationsInv
<1> SUFFICES ASSUME TranslationsInit PROVE TranslationsInv
  OBVIOUS
<1> USE DEF TranslationsInit
<1>1. TranslationsTypeOK /\ SnapshotsAreUsed
  BY DEF TranslationsTypeOK, SnapshotsAreUsed
<1>2. RowIsNew /\ UnusedAreEmpty /\ CachedIsThere /\ SnapshotIsStable /\ TranslatedWhole
  BY DEF RowIsNew, UnusedAreEmpty, CachedIsThere, SnapshotIsStable, TranslatedWhole
<1> QED
  BY <1>1, <1>2 DEF TranslationsInv

LEMMA VersionsAreNumbers == \A v \in SchemaVersions : v[1] \in Nat /\ v[2] \in Nat
<1>1. SchemaIds \subseteq Nat /\ 0..MaxVersion \subseteq Nat
  BY TranslationsAssumption
<1>2. \A v \in SchemaVersions : v[1] \in SchemaIds /\ v[2] \in 0..MaxVersion
  BY DEF SchemaVersions
<1> QED
  BY ONLY <1>1, <1>2, Zenon

\* What of a row is a number, and the versions that it shows.
LEMMA ShownAreVersions ==
    ASSUME NEW r \in SchemaRow
    PROVE  /\ r # NoRow /\ r.id \in SchemaIds /\ r.id \in Nat /\ r.developer_version \in Nat
           /\ r.developer_version \in 0..MaxVersion
           /\ r.approved_version # NoRow => r.approved_version \in Nat /\ r.approved_version \in 0..MaxVersion
           /\ Newest(r) \in SchemaVersions
           /\ \A org : ShownVersion(r, org) \subseteq
                 {Newest(r)} \cup {<<r.id, v>> : v \in {r.approved_version} \ {NoRow}}
           /\ \A org : ShownVersion(r, org) \subseteq SchemaVersions
<1>0. /\ r # NoRow /\ r.id \in SchemaIds /\ r.developer_version \in 0..MaxVersion
      /\ r.approved_version # NoRow => r.approved_version \in 0..MaxVersion
  BY NoRowIsNoSchema DEF SchemaRow
<1>1. /\ r # NoRow /\ r.id \in SchemaIds /\ r.id \in Nat /\ r.developer_version \in Nat
      /\ r.developer_version \in 0..MaxVersion
      /\ r.approved_version # NoRow => r.approved_version \in Nat /\ r.approved_version \in 0..MaxVersion
  <2>1. MaxVersion \in Nat /\ SchemaIds \subseteq Nat
    BY TranslationsAssumption
  <2>2. \A n \in 0..MaxVersion : n \in Nat
    BY <2>1
  <2>3. r.id \in Nat
    BY <1>0, <2>1
  <2> QED
    BY <1>0, <2>2, <2>3, Zenon
<1>2. Newest(r) \in SchemaVersions
  BY <1>1 DEF Newest, SchemaVersions
<1>3. \A org : ShownVersion(r, org) \subseteq
                 {Newest(r)} \cup {<<r.id, v>> : v \in {r.approved_version} \ {NoRow}}
  BY <1>1 DEF ShownVersion
<1>4. {<<r.id, v>> : v \in {r.approved_version} \ {NoRow}} \subseteq SchemaVersions
  BY <1>1 DEF SchemaVersions
<1> QED
  BY <1>1, <1>2, <1>3, <1>4

\* A version that is shown of a row whose versions are used is used itself.
LEMMA ShownAreUsed ==
    ASSUME NEW r \in SchemaRow \cup {NoRow}, UsedByRow(r), NEW org, NEW v \in ShownVersion(r, org)
    PROVE  v \in SchemaVersions /\ Used(v)
<1>1. r \in SchemaRow
  BY DEF ShownVersion
<1> QED
  BY <1>1, ShownAreVersions DEF UsedByRow

\* Where the functions of used versions stay, so do the answers of snapshots.
LEMMA SnapshotsStay ==
    ASSUME TranslationsInv, UNCHANGED cached,
           \A n \in DOMAIN snapshots : n \in DOMAIN snapshots' /\ snapshots'[n] = snapshots[n],
           \A v \in SchemaVersions : Used(v) => channels'[v] = channels[v]
    PROVE  CachedIsThere' /\ SnapshotIsStable'
<1> USE DEF TranslationsInv
<1>1. CachedIsThere'
  BY DEF CachedIsThere
<1>2. SnapshotIsStable'
  <2> SUFFICES ASSUME cached # NoRow
               PROVE  SnapshotFor(cached.snapshot, cached.org)' = SnapshotFor(cached.snapshot, cached.org)
    BY DEF SnapshotIsStable
  <2> DEFINE n == cached.snapshot
             org == cached.org
  <2>1. n \in DOMAIN snapshots /\ snapshots'[n] = snapshots[n] /\ org' = org /\ n' = n
    BY DEF CachedIsThere
  <2>2. snapshots[n] \in SchemaRow \cup {NoRow} /\ UsedByRow(snapshots[n])
    BY <2>1 DEF TranslationsTypeOK, SnapshotsAreUsed
  <2>3. \A v \in ShownVersion(snapshots[n], org) : v \in SchemaVersions /\ Used(v)
    BY <2>2, ShownAreUsed
  <2>4. \A v \in ShownVersion(snapshots[n], org) : channels'[v] = channels[v]
    BY <2>3
  <2>5. ShownVersion(snapshots[n], org)' = ShownVersion(snapshots[n], org)
    BY <2>1 DEF ShownVersion, Newest
  <2> QED
    BY <2>4, <2>5 DEF SnapshotFor
<1> QED
  BY <1>1, <1>2

\* The schema is uploaded once more, or a new one.
LEMMA InsertKeepsInv ==
    ASSUME TranslationsInv, NEW r \in [id : SchemaIds, developer_version : Nat,
                                       approved_version : Nat \cup {NoRow}],
           NEW functions \in SchemaClasses, Inserts(r, functions),
           r.id = deletions + 1, ~Used(Newest(r)),
           r.approved_version # NoRow => r.approved_version <= r.developer_version,
           row # NoRow => row.developer_version <= r.developer_version,
           UNCHANGED <<deletions, canonicals, snapshots, cached, form, mixed>>
    PROVE  TranslationsInv'
<1> USE DEF TranslationsInv
<1>0. deletions \in Nat /\ MaxVersion \in Nat /\ NoRow \notin Nat /\ r.id \in Nat
  BY TranslationsAssumption, NoRowIsNoSchema DEF TranslationsTypeOK
<1>1. row' = r /\ channels' = [channels EXCEPT ![Newest(r)] = functions] /\ r.developer_version <= MaxVersion
  BY <1>0 DEF Inserts
<1>2. r \in SchemaRow /\ r # NoRow /\ Newest(r) \in SchemaVersions
  <2>1. r \in SchemaRow
    BY <1>0, <1>1 DEF SchemaRow
  <2> QED
    BY <2>1, ShownAreVersions
<1>3. TranslationsTypeOK'
  BY <1>1, <1>2, TranslationsAssumption DEF TranslationsTypeOK
<1>4. RowIsNew'
  BY <1>1 DEF RowIsNew
<1>5. ASSUME NEW v, Used(v), v[1] \in Nat, v[2] \in Nat PROVE Used(v)'
  <2>1. row # NoRow => row.developer_version \in Nat
    BY ShownAreVersions DEF TranslationsTypeOK
  <2> QED
    BY <1>0, <1>1, <1>2, <1>5, <2>1 DEF Used, RowIsNew
<1>6. SnapshotsAreUsed'
  <2> SUFFICES ASSUME NEW n \in DOMAIN snapshots, snapshots[n] # NoRow
               PROVE  /\ Used(Newest(snapshots[n]))'
                      /\ snapshots[n].approved_version # NoRow =>
                            Used(<<snapshots[n].id, snapshots[n].approved_version>>)'
    BY DEF SnapshotsAreUsed, UsedByRow, Used, Newest
  <2>1. snapshots[n] \in SchemaRow /\ UsedByRow(snapshots[n])
    BY DEF TranslationsTypeOK, SnapshotsAreUsed
  <2> QED
    BY <1>5, <2>1, ShownAreVersions DEF UsedByRow, Newest
<1>7. UnusedAreEmpty'
  <2>1. ASSUME NEW v \in SchemaVersions, ~Used(v)' PROVE canonicals'[v] = {}
    <3>1. v[1] \in Nat /\ v[2] \in Nat
      BY VersionsAreNumbers
    <3>2. ~Used(v)
      BY <1>5, <2>1, <3>1
    <3> QED
      BY <3>2 DEF UnusedAreEmpty
  <2> QED
    BY <2>1 DEF UnusedAreEmpty
<1>8. CachedIsThere' /\ SnapshotIsStable'
  BY <1>1, SnapshotsStay DEF TranslationsTypeOK
<1>9. TranslatedWhole'
  <2>1. \A v \in SchemaVersions : v # Newest(r) => channels'[v] = channels[v]
    BY <1>1 DEF TranslationsTypeOK
  <2>2. canonicals[Newest(r)] = {}
    BY <1>2 DEF UnusedAreEmpty
  <2> QED
    BY <2>1, <2>2 DEF TranslatedWhole, IsTranslated
<1> QED
  BY <1>3, <1>4, <1>6, <1>7, <1>8, <1>9

\* The approval of the schema changes.
LEMMA ApprovalOfSchemaKeepsInv ==
    ASSUME TranslationsInv, row # NoRow, NEW x \in {row.developer_version, NoRow},
           row' = [row EXCEPT !.approved_version = x],
           UNCHANGED <<deletions, channels, canonicals, snapshots, cached, form, mixed>>
    PROVE  TranslationsInv'
<1> USE DEF TranslationsInv
<1>1. row \in SchemaRow
  BY DEF TranslationsTypeOK
<1>2. /\ row' \in SchemaRow /\ row'.id = row.id /\ row'.developer_version = row.developer_version
      /\ row'.approved_version = x /\ row' # NoRow
      /\ row.developer_version \in Nat
  BY <1>1, ShownAreVersions DEF SchemaRow
<1>3. TranslationsTypeOK'
  BY <1>2 DEF TranslationsTypeOK
<1>4. RowIsNew'
  BY <1>2 DEF RowIsNew
<1>5. \A v : Used(v)' <=> Used(v)
  BY <1>2 DEF Used
<1>6. SnapshotsAreUsed' /\ UnusedAreEmpty'
  BY <1>5 DEF SnapshotsAreUsed, UnusedAreEmpty, UsedByRow, Newest
<1>7. CachedIsThere' /\ SnapshotIsStable'
  BY SnapshotsStay
<1>8. TranslatedWhole'
  BY DEF TranslatedWhole, IsTranslated
<1> QED
  BY <1>3, <1>4, <1>6, <1>7, <1>8

LEMMA UploadSchemaKeepsInv ==
    ASSUME TranslationsInv, NEW functions \in SchemaClasses, NEW approve \in BOOLEAN,
           UploadSchema(functions, approve)
    PROVE  TranslationsInv'
<1>0. /\ deletions \in Nat /\ NoRow \notin Nat
      /\ row # NoRow => row \in SchemaRow /\ row.id = deletions + 1
  BY NoRowIsNoSchema DEF TranslationsInv, TranslationsTypeOK, RowIsNew
<1>1. UNCHANGED <<deletions, canonicals, snapshots, cached, form, mixed>>
  BY DEF UploadSchema
<1>2. CASE row = NoRow
  <2> DEFINE r == [id |-> deletions + 1, developer_version |-> 0,
                   approved_version |-> IF approve THEN 0 ELSE NoRow]
  <2>1. Inserts(r, functions) /\ deletions + 1 \in SchemaIds
    BY <1>2 DEF UploadSchema
  <2>2. ~Used(Newest(r))
    BY <1>0, <1>2 DEF Used, Newest
  <2>3. r \in [id : SchemaIds, developer_version : Nat, approved_version : Nat \cup {NoRow}]
    BY <2>1
  <2> QED
    BY <1>1, <1>2, <2>1, <2>2, <2>3, InsertKeepsInv
<1>3. CASE row # NoRow /\ channels[Newest(row)] = functions /\ functions \in RecognisedSchemas
  <2>1. row' = [row EXCEPT !.approved_version = row.developer_version] /\ UNCHANGED channels
    BY <1>3 DEF UploadSchema
  <2> QED
    BY <1>1, <1>3, <2>1, ApprovalOfSchemaKeepsInv, <1>0, ShownAreVersions
<1>4. CASE row # NoRow /\ ~(channels[Newest(row)] = functions /\ functions \in RecognisedSchemas)
  <2> DEFINE next == row.developer_version + 1
             r == [row EXCEPT !.developer_version = next,
                              !.approved_version = IF approve THEN next ELSE @]
  <2>1. Inserts(r, functions)
    BY <1>4 DEF UploadSchema
  <2>2. /\ row.developer_version \in Nat /\ row.id \in SchemaIds
        /\ row.approved_version \in Nat \cup {NoRow}
        /\ row.approved_version # NoRow => row.approved_version <= row.developer_version
    BY <1>0, <1>4, ShownAreVersions DEF TranslationsInv, RowIsNew
  <2>3. /\ r.id = row.id /\ r.developer_version = next
        /\ r.approved_version = IF approve THEN next ELSE row.approved_version
        /\ r \in [id : SchemaIds, developer_version : Nat, approved_version : Nat \cup {NoRow}]
    <3>1. next \in Nat /\ row.id \in SchemaIds
      BY <2>2
    <3> HIDE DEF next
    <3>2. row \in SchemaRow /\ SchemaRow \subseteq
             [id : SchemaIds, developer_version : Int, approved_version : Int \cup {NoRow}]
      BY <1>0, <1>4, TranslationsAssumption DEF SchemaRow
    <3>3. CASE approve
      BY <2>2, <3>1, <3>2, <3>3 DEF SchemaRow
    <3>4. CASE ~approve
      BY <2>2, <3>1, <3>2, <3>4 DEF SchemaRow
    <3> QED
      BY <3>3, <3>4
  <2>4. ~Used(Newest(r))
    BY <1>0, <1>4, <2>2, <2>3 DEF Used, Newest
  <2>5. /\ r.approved_version # NoRow => r.approved_version <= r.developer_version
        /\ row.developer_version <= r.developer_version
    BY <2>2, <2>3
  <2>6. r.id = deletions + 1
    BY <1>0, <1>4, <2>3
  <2> HIDE DEF r
  <2> QED
    BY <1>1, <2>1, <2>3, <2>4, <2>5, <2>6, InsertKeepsInv
<1> QED
  BY <1>2, <1>3, <1>4

LEMMA DeleteSchemaKeepsInv ==
    ASSUME TranslationsInv, DeleteSchema
    PROVE  TranslationsInv'
<1> USE DEF TranslationsInv, DeleteSchema
<1>1. deletions \in Nat
  BY DEF TranslationsTypeOK
<1>2. TranslationsTypeOK' /\ RowIsNew'
  BY <1>1 DEF TranslationsTypeOK, RowIsNew
<1>3. ASSUME NEW v, Used(v), v[1] \in Nat PROVE Used(v)'
  BY <1>1, <1>3 DEF Used, RowIsNew
<1>4. SnapshotsAreUsed'
  <2>1. ASSUME NEW n \in DOMAIN snapshots, snapshots[n] # NoRow
        PROVE  /\ Used(Newest(snapshots[n]))'
               /\ snapshots[n].approved_version # NoRow =>
                     Used(<<snapshots[n].id, snapshots[n].approved_version>>)'
    <3>1. snapshots[n] \in SchemaRow /\ UsedByRow(snapshots[n])
      BY <2>1 DEF TranslationsTypeOK, SnapshotsAreUsed
    <3> QED
      BY <1>3, <2>1, <3>1, ShownAreVersions DEF UsedByRow, Newest
  <2> QED
    BY <2>1 DEF SnapshotsAreUsed, UsedByRow, Used, Newest
<1>5. UnusedAreEmpty'
  <2>1. ASSUME NEW v \in SchemaVersions, ~Used(v)' PROVE canonicals'[v] = {}
    <3>1. v[1] \in Nat
      BY VersionsAreNumbers
    <3>2. ~Used(v)
      BY <1>3, <2>1, <3>1
    <3> QED
      BY <3>2 DEF UnusedAreEmpty
  <2> QED
    BY <2>1 DEF UnusedAreEmpty
<1>6. CachedIsThere' /\ SnapshotIsStable'
  BY SnapshotsStay
<1>7. TranslatedWhole'
  BY DEF TranslatedWhole, IsTranslated
<1> QED
  BY <1>2, <1>4, <1>5, <1>6, <1>7

\* A snapshot is created, or somebody is answered with one.
LEMMA SnapshotKeepsInv ==
    ASSUME TranslationsInv,
           CreateSnapshot \/ \E org \in Readers, n \in 1..MaxSnapshots : GetSnapshot(n, org)
    PROVE  TranslationsInv'
<1> USE DEF TranslationsInv
<1>1. CASE CreateSnapshot
  <2> USE <1>1 DEF CreateSnapshot, schemaVars
  <2>1. /\ snapshots' = Append(snapshots, row)
        /\ snapshots' \in Seq(SchemaRow \cup {NoRow})
        /\ DOMAIN snapshots' = DOMAIN snapshots \cup {Len(snapshots) + 1}
        /\ \A n \in DOMAIN snapshots : snapshots'[n] = snapshots[n]
        /\ snapshots'[Len(snapshots) + 1] = row
    BY DEF TranslationsTypeOK
  <2>2. TranslationsTypeOK' /\ RowIsNew' /\ UnusedAreEmpty' /\ TranslatedWhole'
    BY <2>1 DEF TranslationsTypeOK, RowIsNew, UnusedAreEmpty, TranslatedWhole, IsTranslated, Used
  <2>3. UsedByRow(row)
    <3> SUFFICES ASSUME row # NoRow PROVE UsedByRow(row)
      BY DEF UsedByRow
    <3>1. row \in SchemaRow
      BY DEF TranslationsTypeOK
    <3>2. row.developer_version \in Nat
      BY <3>1, ShownAreVersions
    <3>4. Newest(row)[1] = row.id /\ Newest(row)[2] = row.developer_version
      BY DEF Newest
    <3>5. Used(Newest(row))
      BY ONLY row # NoRow, <3>2, <3>4 DEF Used
    <3>3. row.approved_version # NoRow => Used(<<row.id, row.approved_version>>)
      BY DEF Used, RowIsNew
    <3> QED
      BY <3>3, <3>5 DEF UsedByRow
  <2>4. SnapshotsAreUsed'
    BY <2>1, <2>3 DEF SnapshotsAreUsed, UsedByRow, Used, Newest
  <2>5. CachedIsThere' /\ SnapshotIsStable'
    BY <2>1, SnapshotsStay
  <2> QED
    BY <2>2, <2>4, <2>5
<1>2. CASE \E org \in Readers, n \in 1..MaxSnapshots : GetSnapshot(n, org)
  <2>1. PICK org \in Readers, n \in 1..MaxSnapshots : GetSnapshot(n, org)
    BY <1>2
  <2> USE <2>1 DEF GetSnapshot, schemaVars
  <2>2. TranslationsTypeOK' /\ RowIsNew' /\ UnusedAreEmpty' /\ TranslatedWhole' /\ SnapshotsAreUsed'
    BY DEF TranslationsTypeOK, RowIsNew, UnusedAreEmpty, TranslatedWhole, IsTranslated,
           SnapshotsAreUsed, UsedByRow, Used, Newest
  <2>3. /\ cached'.snapshot = n /\ cached'.org = org /\ cached'.classes = SnapshotFor(n, org)
        /\ n \in DOMAIN snapshots'
    OBVIOUS
  <2>4. SnapshotFor(n, org)' = SnapshotFor(n, org)
    BY DEF SnapshotFor, ShownVersion, Newest
  <2>5. CachedIsThere' /\ SnapshotIsStable'
    BY <2>3, <2>4 DEF CachedIsThere, SnapshotIsStable, SnapshotFor, ShownVersion, Newest
  <2> QED
    BY <2>2, <2>5
<1> QED
  BY <1>1, <1>2

\* The functions of a form are stored, all of them, or the form is closed.
LEMMA FormKeepsInv ==
    ASSUME TranslationsInv,
           \/ \E t \in Readers, names \in SUBSET Functions \ {{}} : OpenForm(t, names)
           \/ Contribute \/ CloseForm
    PROVE  TranslationsInv'
<1> USE DEF TranslationsInv
<1>1. UNCHANGED <<row, deletions, channels, snapshots, cached>>
  BY DEF OpenForm, Contribute, CloseForm, schemaVars
<1>2. RowIsNew' /\ SnapshotsAreUsed' /\ \A v : Used(v)' <=> Used(v)
  BY <1>1 DEF RowIsNew, SnapshotsAreUsed, UsedByRow, Used, Newest
<1>3. CachedIsThere' /\ SnapshotIsStable'
  BY <1>1, SnapshotsStay
<1>4. CASE UNCHANGED <<canonicals, mixed>>
  BY <1>1, <1>2, <1>3, <1>4 DEF TranslationsTypeOK, UnusedAreEmpty, TranslatedWhole, IsTranslated
<1>5. CASE Contribute
  <2>1. PICK v \in ShownVersion(row, form.by) :
           /\ channels[v] \subseteq form.functions
           /\ canonicals' = [canonicals EXCEPT ![Newest(row)] = @ \cup (channels[v] \cap form.functions)]
           /\ mixed' = IF v = Newest(row) THEN mixed ELSE mixed \cup {Newest(row)}
    BY <1>5 DEF Contribute, Refuses
  <2>2. row \in SchemaRow
    BY DEF ShownVersion, TranslationsTypeOK
  <2> DEFINE n == Newest(row)
  <2>3. /\ n \in SchemaVersions /\ v \in SchemaVersions /\ Used(n)
        /\ row # NoRow /\ n[1] = row.id /\ n[2] = row.developer_version
    BY <2>2, ShownAreVersions DEF Used, Newest
  <2> HIDE DEF n
  <2>4. /\ canonicals'[n] = canonicals[n] \cup channels[v]
        /\ \A w \in SchemaVersions \ {n} : canonicals'[w] = canonicals[w]
        /\ canonicals' \in [SchemaVersions -> SUBSET Functions]
        /\ channels[v] \subseteq Functions
    BY <2>1, <2>3 DEF TranslationsTypeOK, n
  <2>5. TranslationsTypeOK'
    BY <1>1, <2>1, <2>3, <2>4 DEF TranslationsTypeOK, n
  <2>6. UnusedAreEmpty'
    BY <1>2, <2>3, <2>4 DEF UnusedAreEmpty
  <2>7. TranslatedWhole'
    <3>1. ASSUME NEW w \in SchemaVersions \ mixed', canonicals'[w] # {}
          PROVE  channels[w] \subseteq canonicals'[w] /\ IsTranslated(w)'
      <4>1. channels[w] \subseteq canonicals'[w]
        <5>1. CASE w = n
          BY <2>1, <2>4, <3>1, <5>1 DEF n
        <5>2. CASE w # n
          BY <2>1, <2>4, <3>1, <5>2 DEF TranslatedWhole
        <5> QED
          BY <5>1, <5>2
      <4>2. IsFiniteSet(canonicals'[w])
        BY <2>4, TranslationsAssumption, FS_Subset
      <4>3. Cardinality(channels[w]) <= Cardinality(canonicals'[w])
        BY <4>1, <4>2, FS_Subset
      <4> QED
        BY <1>1, <4>1, <4>3 DEF IsTranslated
    <3> QED
      BY <1>1, <3>1 DEF TranslatedWhole
  <2> QED
    BY <1>2, <1>3, <2>5, <2>6, <2>7
<1> QED
  BY <1>4, <1>5 DEF OpenForm, CloseForm

LEMMA TranslationsInvariant == TranslationsSpec => []TranslationsInv
<1>1. ASSUME TranslationsInv, [TranslationsNext]_translationVars PROVE TranslationsInv'
  <2>1. CASE UNCHANGED translationVars
    BY <1>1, <2>1 DEF translationVars, TranslationsInv, TranslationsTypeOK, RowIsNew, SnapshotsAreUsed,
                      UsedByRow, Used, Newest, UnusedAreEmpty, CachedIsThere, SnapshotIsStable,
                      SnapshotFor, ShownVersion, TranslatedWhole, IsTranslated
  <2>2. CASE ApproveSchema \/ UnapproveSchema
    BY <1>1, <2>2, ApprovalOfSchemaKeepsInv DEF ApproveSchema, UnapproveSchema, SetSchemaApproval
  <2>3. CASE TranslationsNext /\ ~(ApproveSchema \/ UnapproveSchema)
    BY <1>1, <2>3, UploadSchemaKeepsInv, DeleteSchemaKeepsInv, SnapshotKeepsInv, FormKeepsInv
       DEF TranslationsNext
  <2> QED
    BY <1>1, <2>1, <2>2, <2>3
<1> QED
  BY <1>1, TranslationsInitInv, PTL DEF TranslationsSpec

(* An answer with a snapshot, which the server confirms by its number alone,   *)
(* stays what it would answer, whatever is uploaded, approved, deleted and     *)
(* created anew since: no version is ever uploaded twice.                      *)
THEOREM SnapshotsAreStable == TranslationsSpec => []SnapshotIsStable
<1>1. TranslationsInv => SnapshotIsStable
  BY DEF TranslationsInv
<1> QED
  BY <1>1, TranslationsInvariant, PTL

(* A version is translated whole or not at all, though the forms are older     *)
(* than the versions, but where somebody who sees another version than the     *)
(* newest has translated it.                                                   *)
THEOREM VersionsAreTranslatedWhole == TranslationsSpec => []TranslatedWhole
<1>1. TranslationsInv => TranslatedWhole
  BY DEF TranslationsInv
<1> QED
  BY <1>1, TranslationsInvariant, PTL

-----------------------------------------------------------------------------
(* Manifests.                                                               *)

\* A manifest that is completed has all that the code takes for granted: each
\* function has a name to be shown, each argument too, and a direction.
IsCompleteArgument(a) ==
    /\ a = [name |-> a.name, type |-> a.type, direction |-> a.direction, canonical |-> a.canonical,
            prompt |-> a.prompt, string_values |-> a.string_values]
    /\ a.direction \in {"in req", "in opt", "out"}
    /\ IsText(a.canonical)
    /\ a.prompt = Missing \/ IsText(a.prompt)
IsComplete(f) ==
    /\ f = [what |-> f.what, extends |-> f.extends, is_monitorable |-> f.is_monitorable,
            poll_interval |-> f.poll_interval, url |-> f.url, confirm |-> f.confirm,
            canonical |-> f.canonical, confirmation |-> f.confirmation, args |-> f.args]
    /\ f.extends # Null /\ f.confirmation # Null
    /\ IsText(Head(f.canonical))
    /\ Len(f.args) \in Nat /\ f.args = [i \in 1..Len(f.args) |-> f.args[i]]
    /\ \A i \in 1..Len(f.args) : IsCompleteArgument(f.args[i])

\* A list with the places 1 to n has the length n.
LEMMA ListLength ==
    ASSUME NEW s, NEW n \in Nat, DOMAIN s = 1..n, s = [i \in DOMAIN s |-> s[i]]
    PROVE  Len(s) = n
<1>1. s \in Seq({s[i] : i \in 1..n})
  <2>1. s \in [1..n -> {s[i] : i \in 1..n}]
    OBVIOUS
  <2> QED
    BY <2>1
<1>2. Len(s) \in Nat /\ DOMAIN s = 1..Len(s)
  BY <1>1
<1> QED
  BY <1>2

\* What validation completes is complete, and has the arguments that it had.
LEMMA CompletedFunctionIsComplete ==
    ASSUME NEW name, IsName(name), NEW f, IsFunction(f)
    PROVE  /\ IsComplete(CompletedFunction(name, f))
           /\ Len(CompletedFunction(name, f).args) = Len(f.args)
           /\ \A i \in 1..Len(f.args) : CompletedFunction(name, f).args[i].type = f.args[i].type
<1> DEFINE n == Len(f.args)
           c == CompletedFunction(name, f)
           args == [i \in 1..n |-> CompletedArgument(f.args[i])]
           canonical == IF f.canonical = <<>> THEN <<TextIn(name, "en")>> ELSE f.canonical
           confirm == IF f.confirm = Missing THEN f.what = "action" ELSE f.confirm
<1>1. n \in Nat /\ DOMAIN f.args = 1..n
  <2>1. f.args \in Seq({f.args[i] : i \in DOMAIN f.args})
    BY DEF IsFunction, IsList
  <2> QED
    BY <2>1
<1>2. c = [what |-> f.what, extends |-> f.extends, is_monitorable |-> f.is_monitorable,
           poll_interval |-> f.poll_interval, url |-> f.url, confirm |-> confirm,
           canonical |-> canonical, confirmation |-> f.confirmation, args |-> args]
  <2>1. f = [what |-> f.what, extends |-> f.extends, is_monitorable |-> f.is_monitorable,
            poll_interval |-> f.poll_interval, url |-> f.url, confirm |-> f.confirm,
            canonical |-> f.canonical, confirmation |-> f.confirmation, args |-> f.args]
    BY DEF IsFunction
  <2>2. c = [f EXCEPT !.canonical = canonical, !.confirm = confirm, !.args = args]
    BY DEF CompletedFunction
  <2> HIDE DEF canonical, confirm, args, c
  <2> QED
    BY <2>1, <2>2
<1>3. IsText(Head(canonical))
  <2>1. CASE f.canonical = <<>>
    <3>1. Head(canonical) = TextIn(name, "en")
      BY <2>1
    <3>2. IsText(TextIn(name, "en"))
      BY DEF IsText, TextIn
    <3> QED
      BY <3>1, <3>2
  <2>2. CASE f.canonical # <<>>
    <3>1. f.canonical \in Seq({f.canonical[i] : i \in DOMAIN f.canonical})
      BY DEF IsFunction, IsList
    <3>2. canonical = f.canonical /\ Head(f.canonical) = f.canonical[1] /\ 1 \in DOMAIN f.canonical
      BY <2>2, <3>1
    <3>3. IsText(f.canonical[1])
      BY <3>2 DEF IsFunction
    <3> QED
      BY ONLY <3>2, <3>3
  <2> QED
    BY <2>1, <2>2
<1>4. ASSUME NEW i \in 1..n
      PROVE  args[i].type = f.args[i].type /\ IsCompleteArgument(args[i])
  <2> DEFINE a == f.args[i]
             b == CompletedArgument(a)
             x == IF a.canonical = Missing THEN TextIn(a.name, "en") ELSE a.canonical
  <2>1. IsArgument(a)
    BY <1>1 DEF IsFunction
  <2>2. args[i] = b
    OBVIOUS
  <2>3. a = [name |-> a.name, type |-> a.type, direction |-> a.direction, canonical |-> a.canonical,
             prompt |-> a.prompt, string_values |-> a.string_values]
    BY <2>1, Zenon DEF IsArgument
  <2>4. b = [a EXCEPT !.canonical = x]
    BY DEF CompletedArgument
  <2>5. IsText(x) /\ a.direction \in {"in req", "in opt", "out"} /\ (a.prompt = Missing \/ IsText(a.prompt))
    <3>1. IsText(TextIn(a.name, "en"))
      BY <2>1, Zenon DEF IsText, TextIn, IsArgument
    <3> HIDE DEF a
    <3> QED
      BY <2>1, <3>1, Zenon DEF IsArgument
  <2> HIDE DEF a, b, x, args
  <2>6. b = [name |-> a.name, type |-> a.type, direction |-> a.direction, canonical |-> x,
             prompt |-> a.prompt, string_values |-> a.string_values]
    BY <2>3, <2>4
  <2>7. IsCompleteArgument(b) /\ b.type = a.type
    BY ONLY <2>5, <2>6, Zenon DEF IsCompleteArgument
  <2> QED
    BY <2>2, <2>7 DEF a
<1>5. Len(args) = n
  <2>1. DOMAIN args = 1..n /\ args = [i \in DOMAIN args |-> args[i]]
    OBVIOUS
  <2> HIDE DEF args, n
  <2> QED
    BY ONLY <1>1, <2>1, ListLength
<1>6. f.extends # Null /\ f.confirmation # Null
  BY DEF IsFunction
<1>7. args = [i \in 1..n |-> args[i]]
  OBVIOUS
<1> HIDE DEF canonical, confirm, args, c, n
<1>8. c.args = args /\ c.canonical = canonical /\ c.extends = f.extends /\ c.confirmation = f.confirmation
  BY ONLY <1>2
<1>9. c = [what |-> c.what, extends |-> c.extends, is_monitorable |-> c.is_monitorable,
            poll_interval |-> c.poll_interval, url |-> c.url, confirm |-> c.confirm,
            canonical |-> c.canonical, confirmation |-> c.confirmation, args |-> c.args]
  BY ONLY <1>2
<1>10. IsComplete(c)
  BY ONLY <1>1, <1>3, <1>4, <1>5, <1>6, <1>7, <1>8, <1>9, Zenon DEF IsComplete
<1> QED
  BY ONLY <1>4, <1>5, <1>8, <1>10 DEF c, n

\* And so for all functions of a manifest.
LEMMA CompletedIsComplete ==
    ASSUME NEW m \in ManifestOffers
    PROVE  /\ Completed(m).functions = [n \in DOMAIN m.functions |-> CompletedFunction(n, m.functions[n])]
           /\ Completed(m).entities = m.entities
           /\ \A n \in DOMAIN m.functions :
                 /\ IsComplete(Completed(m).functions[n])
                 /\ Len(Completed(m).functions[n].args) = Len(m.functions[n].args)
                 /\ \A i \in 1..Len(m.functions[n].args) :
                       Completed(m).functions[n].args[i].type = m.functions[n].args[i].type
<1> DEFINE fs == [n \in DOMAIN m.functions |-> CompletedFunction(n, m.functions[n])]
           c == Completed(m)
<1>1. IsManifest(m)
  BY ManifestAssumption
<1>2. c = [m EXCEPT !.functions = fs]
  BY DEF Completed
<1>3. m = [kind |-> m.kind, wellFormed |-> m.wellFormed, abstract |-> m.abstract, loader |-> m.loader,
            entities |-> m.entities, functions |-> m.functions, utterances |-> m.utterances]
  BY <1>1 DEF IsManifest
<1>4. c.functions = fs /\ c.entities = m.entities
  <2> HIDE DEF fs, c
  <2> QED
    BY ONLY <1>2, <1>3
<1>5. ASSUME NEW n \in DOMAIN m.functions
      PROVE  /\ IsComplete(c.functions[n])
             /\ Len(c.functions[n].args) = Len(m.functions[n].args)
             /\ \A i \in 1..Len(m.functions[n].args) :
                       c.functions[n].args[i].type = m.functions[n].args[i].type
  <2>1. IsName(n) /\ IsFunction(m.functions[n])
    BY <1>1 DEF IsManifest
  <2>2. c.functions[n] = CompletedFunction(n, m.functions[n])
    BY <1>4
  <2> QED
    BY ONLY <2>1, <2>2, CompletedFunctionIsComplete
<1> QED
  BY <1>4, <1>5

\* The columns of a schema are as long as the arguments of the function are many.
LEMMA SchemaColumns ==
    ASSUME NEW f, IsComplete(f)
    PROVE  LET s == SchemaOfFunction(f)
               n == Len(f.args)
           IN  /\ n \in Nat
               /\ s.what = f.what /\ s.extends = f.extends /\ s.is_monitorable = f.is_monitorable
               /\ s.confirm = f.confirm /\ s.canonical = Head(f.canonical) /\ s.confirmation = f.confirmation
               /\ Len(s.types) = n /\ Len(s.argcanonicals) = n /\ Len(s.questions) = n
               /\ \A i \in 1..n :
                     /\ s.types[i] = f.args[i].type /\ s.args[i] = f.args[i].name
                     /\ s.required[i] = (f.args[i].direction = "in req")
                     /\ s.is_input[i] = (f.args[i].direction # "out")
                     /\ s.argcanonicals[i] = f.args[i].canonical
                     /\ s.questions[i] = IF f.args[i].prompt = Missing THEN Empty ELSE f.args[i].prompt
<1> DEFINE s == SchemaOfFunction(f)
           n == Len(f.args)
           types == [i \in 1..n |-> f.args[i].type]
           args == [i \in 1..n |-> f.args[i].name]
           required == [i \in 1..n |-> f.args[i].direction = "in req"]
           isInput == [i \in 1..n |-> f.args[i].direction # "out"]
           values == [i \in 1..n |-> IF f.args[i].string_values = Missing THEN Null ELSE f.args[i].string_values]
           argTexts == [i \in 1..n |-> f.args[i].canonical]
           questions == [i \in 1..n |-> IF f.args[i].prompt = Missing THEN Empty ELSE f.args[i].prompt]
<1>1. n \in Nat
  BY DEF IsComplete
<1>2. s = [what |-> f.what, extends |-> f.extends, is_monitorable |-> f.is_monitorable,
           confirm |-> f.confirm, canonical |-> Head(f.canonical), confirmation |-> f.confirmation,
           types |-> types, args |-> args, required |-> required, is_input |-> isInput,
           string_values |-> values, argcanonicals |-> argTexts, questions |-> questions]
  BY DEF SchemaOfFunction, Column
<1>3. Len(types) = n /\ Len(argTexts) = n /\ Len(questions) = n
  <2>1. /\ DOMAIN types = 1..n /\ types = [i \in DOMAIN types |-> types[i]]
        /\ DOMAIN argTexts = 1..n /\ argTexts = [i \in DOMAIN argTexts |-> argTexts[i]]
        /\ DOMAIN questions = 1..n /\ questions = [i \in DOMAIN questions |-> questions[i]]
    OBVIOUS
  <2> HIDE DEF types, argTexts, questions, n
  <2> QED
    BY ONLY <1>1, <2>1, ListLength
<1>4. \A i \in 1..n :
         /\ types[i] = f.args[i].type /\ args[i] = f.args[i].name
         /\ required[i] = (f.args[i].direction = "in req")
         /\ isInput[i] = (f.args[i].direction # "out")
         /\ argTexts[i] = f.args[i].canonical
         /\ questions[i] = IF f.args[i].prompt = Missing THEN Empty ELSE f.args[i].prompt
  BY Zenon
<1> HIDE DEF s, types, args, required, isInput, values, argTexts, questions
<1>5. /\ s.what = f.what /\ s.extends = f.extends /\ s.is_monitorable = f.is_monitorable
      /\ s.confirm = f.confirm /\ s.canonical = Head(f.canonical) /\ s.confirmation = f.confirmation
      /\ s.types = types /\ s.args = args /\ s.required = required /\ s.is_input = isInput
      /\ s.argcanonicals = argTexts /\ s.questions = questions
  BY ONLY <1>2
<1>6. \A i \in 1..n :
         /\ s.types[i] = f.args[i].type /\ s.args[i] = f.args[i].name
         /\ s.required[i] = (f.args[i].direction = "in req")
         /\ s.is_input[i] = (f.args[i].direction # "out")
         /\ s.argcanonicals[i] = f.args[i].canonical
         /\ s.questions[i] = IF f.args[i].prompt = Missing THEN Empty ELSE f.args[i].prompt
  BY ONLY <1>4, <1>5, Zenon
<1> QED
  BY ONLY <1>1, <1>3, <1>5, <1>6, Zenon DEF s

\* What the types of a function are enough for is its signature.
LEMMA TypesAreServed ==
    ASSUME NEW f, IsComplete(f), NEW texts
    PROVE  TypesOf(MetaOf(ChannelRow(SchemaOfFunction(f)), texts)) = Signature(f)
<1> DEFINE s == SchemaOfFunction(f)
           n == Len(f.args)
           e == MetaOf(ChannelRow(s), texts)
           extends == IF f.extends = <<>> THEN Null ELSE f.extends
           Arg(i) == [name |-> f.args[i].name, type |-> f.args[i].type, direction |-> f.args[i].direction]
           Served(i) == [name |-> e.args[i], type |-> e.types[i], direction |-> DirectionOf(e, i)]
<1>1. /\ e.what = s.what /\ e.is_monitorable = s.is_monitorable
      /\ e.extends = IF s.extends = <<>> THEN Null ELSE s.extends
      /\ e.types = s.types /\ e.args = s.args /\ e.required = s.required /\ e.is_input = s.is_input
  <2> HIDE DEF s
  <2> QED
    BY DEF MetaOf, ChannelRow
<1>2. /\ n \in Nat /\ Len(s.types) = n
      /\ s.what = f.what /\ s.extends = f.extends /\ s.is_monitorable = f.is_monitorable
  BY SchemaColumns, ZenonT(60)
<1>3. ASSUME NEW i \in 1..n PROVE Served(i) = Arg(i)
  <2>1. /\ s.types[i] = f.args[i].type /\ s.args[i] = f.args[i].name
        /\ s.required[i] = (f.args[i].direction = "in req")
        /\ s.is_input[i] = (f.args[i].direction # "out")
    BY SchemaColumns, ZenonT(60)
  <2>2. f.args[i].direction \in {"in req", "in opt", "out"}
    BY Zenon DEF IsComplete, IsCompleteArgument
  <2> HIDE DEF s, e
  <2>3. DirectionOf(e, i) = f.args[i].direction
    BY ONLY <1>1, <2>1, <2>2, Zenon DEF DirectionOf
  <2> QED
    BY ONLY <1>1, <2>1, <2>3, Zenon
<1>4. f.extends # Null
  BY DEF IsComplete
<1> HIDE DEF s, n, e
<1>5. (IF e.extends = Null THEN <<>> ELSE e.extends) = f.extends
  BY ONLY <1>1, <1>2, <1>4
<1>6. TypesOf(e) = [what |-> e.what, extends |-> IF e.extends = Null THEN <<>> ELSE e.extends,
                    is_monitorable |-> e.is_monitorable, args |-> [i \in 1..Len(e.types) |-> Served(i)]]
  BY ONLY DEF TypesOf
<1>7. Signature(f) = [what |-> f.what, extends |-> f.extends, is_monitorable |-> f.is_monitorable,
                      args |-> [i \in 1..n |-> Arg(i)]]
  BY ONLY DEF Signature, n
<1>8. [i \in 1..Len(e.types) |-> Served(i)] = [i \in 1..n |-> Arg(i)]
  <2>1. Len(e.types) = n
    BY ONLY <1>1, <1>2
  <2> HIDE DEF Served, Arg
  <2> QED
    BY ONLY <1>3, <2>1
<1> HIDE DEF Served, Arg
<1>9. TypesOf(e) = Signature(f)
  BY ONLY <1>1, <1>2, <1>5, <1>6, <1>7, <1>8
<1> QED
  BY ONLY <1>9 DEF e, s

\* And its texts are those of the manifest.
LEMMA TextsAreServed ==
    ASSUME NEW f, IsComplete(f)
    PROVE  LET s == SchemaOfFunction(f)
           IN  TextsOf(MetaOf(ChannelRow(s), CanonicalRow(s))) =
                  [confirm |-> f.confirm # FALSE, canonical |-> Head(f.canonical),
                   args |-> Column(f.args, LAMBDA a : [canonical |-> a.canonical, prompt |-> a.prompt])]
<1> DEFINE s == SchemaOfFunction(f)
           n == Len(f.args)
           e == MetaOf(ChannelRow(s), CanonicalRow(s))
           Arg(i) == [canonical |-> f.args[i].canonical, prompt |-> f.args[i].prompt]
           Served(i) == [canonical |-> e.argcanonicals[i],
                         prompt |-> IF e.questions[i] = Empty THEN Missing ELSE e.questions[i]]
<1>1. /\ e.confirm = (s.confirm # FALSE) /\ e.canonical = s.canonical
      /\ e.types = s.types /\ e.argcanonicals = s.argcanonicals /\ e.questions = s.questions
  <2> HIDE DEF s
  <2> QED
    BY DEF MetaOf, ChannelRow, CanonicalRow
<1>2. /\ n \in Nat /\ Len(s.types) = n
      /\ s.confirm = f.confirm /\ s.canonical = Head(f.canonical)
  BY SchemaColumns, ZenonT(60)
<1>3. ASSUME NEW i \in 1..n PROVE Served(i) = Arg(i)
  <2>1. /\ s.argcanonicals[i] = f.args[i].canonical
        /\ s.questions[i] = IF f.args[i].prompt = Missing THEN Empty ELSE f.args[i].prompt
    BY SchemaColumns, ZenonT(60)
  <2>2. f.args[i].prompt = Missing \/ f.args[i].prompt # Empty
    BY Zenon DEF IsComplete, IsCompleteArgument, IsText, IsName, Languages
  <2> HIDE DEF s, e
  <2>3. (IF e.questions[i] = Empty THEN Missing ELSE e.questions[i]) = f.args[i].prompt
    BY ONLY <1>1, <2>1, <2>2
  <2> QED
    BY ONLY <1>1, <2>1, <2>3
<1> HIDE DEF s, n, e
<1>6. TextsOf(e) = [confirm |-> e.confirm, canonical |-> e.canonical,
                    args |-> [i \in 1..Len(e.types) |-> Served(i)]]
  BY ONLY DEF TextsOf
<1>7. Column(f.args, LAMBDA a : [canonical |-> a.canonical, prompt |-> a.prompt]) = [i \in 1..n |-> Arg(i)]
  BY ONLY DEF Column, n
<1>8. [i \in 1..Len(e.types) |-> Served(i)] = [i \in 1..n |-> Arg(i)]
  <2>1. Len(e.types) = n
    BY ONLY <1>1, <1>2
  <2> HIDE DEF Served, Arg
  <2> QED
    BY ONLY <1>3, <2>1
<1> HIDE DEF Served, Arg
<1>9. TextsOf(e) = [confirm |-> f.confirm # FALSE, canonical |-> Head(f.canonical),
                    args |-> Column(f.args, LAMBDA a : [canonical |-> a.canonical, prompt |-> a.prompt])]
  BY ONLY <1>1, <1>2, <1>6, <1>7, <1>8, Zenon
<1> QED
  BY ONLY <1>9, Zenon DEF e, s

\* The texts of a function that is merged: those that there are, else its own.
NameIn(f, x) == IF x.canonical = Null THEN f.canonical ELSE <<x.canonical>>
CanonicalIn(f, x, i) == IF HasText(x.argcanonicals, i) THEN x.argcanonicals[i] ELSE f.args[i].canonical
PromptIn(f, x, i) == IF HasText(x.questions, i) THEN x.questions[i] ELSE f.args[i].prompt

\* A function that is merged with texts has other texts and nothing else.
LEMMA MergedFields ==
    ASSUME NEW f, IsComplete(f), NEW x, NEW g, g = MergedFunction(f, x),
           NEW n, n = Len(f.args)
    PROVE  /\ g.what = f.what /\ g.extends = f.extends /\ g.is_monitorable = f.is_monitorable
           /\ g.canonical = NameIn(f, x)
           /\ Len(g.args) = n /\ n \in Nat
           /\ \A i \in 1..n :
                 /\ g.args[i].name = f.args[i].name /\ g.args[i].type = f.args[i].type
                 /\ g.args[i].direction = f.args[i].direction
                 /\ g.args[i].canonical = CanonicalIn(f, x, i) /\ g.args[i].prompt = PromptIn(f, x, i)
<1> DEFINE canonical == NameIn(f, x)
           C(i) == CanonicalIn(f, x, i)
           P(i) == PromptIn(f, x, i)
           M(i) == [f.args[i] EXCEPT !.canonical = C(i), !.prompt = P(i)]
           args == [i \in 1..n |-> M(i)]
<1>1. g = [f EXCEPT !.canonical = canonical, !.args = args]
  BY DEF MergedFunction, NameIn, CanonicalIn, PromptIn
<1>2. f = [what |-> f.what, extends |-> f.extends, is_monitorable |-> f.is_monitorable,
           poll_interval |-> f.poll_interval, url |-> f.url, confirm |-> f.confirm,
           canonical |-> f.canonical, confirmation |-> f.confirmation, args |-> f.args]
  BY DEF IsComplete
<1>3. /\ g.what = f.what /\ g.extends = f.extends /\ g.is_monitorable = f.is_monitorable
      /\ g.canonical = canonical /\ g.args = args
  <2> HIDE DEF canonical, args
  <2> QED
    BY ONLY <1>1, <1>2
<1>4. n \in Nat
  BY DEF IsComplete
<1>5. Len(args) = n
  <2>1. DOMAIN args = 1..n /\ args = [i \in DOMAIN args |-> args[i]]
    <3> HIDE DEF M
    <3> QED
      OBVIOUS
  <2> HIDE DEF args
  <2> QED
    BY ONLY <1>4, <2>1, ListLength
<1>6. ASSUME NEW i \in 1..n
      PROVE  /\ args[i].name = f.args[i].name /\ args[i].type = f.args[i].type
             /\ args[i].direction = f.args[i].direction
             /\ args[i].canonical = C(i) /\ args[i].prompt = P(i)
  <2> DEFINE a == f.args[i]
  <2>1. a = [name |-> a.name, type |-> a.type, direction |-> a.direction, canonical |-> a.canonical,
             prompt |-> a.prompt, string_values |-> a.string_values]
    BY Zenon DEF IsComplete, IsCompleteArgument
  <2>2. args[i] = M(i)
    <3> HIDE DEF M
    <3> QED
      OBVIOUS
  <2>3. M(i) = [a EXCEPT !.canonical = C(i), !.prompt = P(i)]
    OBVIOUS
  <2> HIDE DEF a, C, P, M, args
  <2>4. /\ M(i).name = a.name /\ M(i).type = a.type /\ M(i).direction = a.direction
        /\ M(i).canonical = C(i) /\ M(i).prompt = P(i)
    BY ONLY <2>1, <2>3
  <2> QED
    BY ONLY <2>2, <2>4 DEF a
<1> HIDE DEF args
<1>7. ASSUME NEW i \in 1..n
      PROVE  /\ g.args[i].name = f.args[i].name /\ g.args[i].type = f.args[i].type
             /\ g.args[i].direction = f.args[i].direction
             /\ g.args[i].canonical = C(i) /\ g.args[i].prompt = P(i)
  <2> HIDE DEF C, P
  <2> QED
    BY ONLY <1>3, <1>6, <1>7
<1>8. Len(g.args) = n
  BY ONLY <1>3, <1>5
<1> QED
  BY ONLY <1>3, <1>4, <1>7, <1>8, Zenon

\* So that its signature is the same.
LEMMA MergedSignature ==
    ASSUME NEW f, IsComplete(f), NEW x
    PROVE  Signature(MergedFunction(f, x)) = Signature(f)
<1> DEFINE Arg(h, i) == [name |-> h.args[i].name, type |-> h.args[i].type, direction |-> h.args[i].direction]
<1>1. PICK g : g = MergedFunction(f, x)
  OBVIOUS
<1>2. PICK n : n = Len(f.args)
  OBVIOUS
<1>3. \A i \in 1..n :
         /\ g.args[i].name = f.args[i].name /\ g.args[i].type = f.args[i].type
         /\ g.args[i].direction = f.args[i].direction
  BY <1>1, <1>2, MergedFields
<1>4. /\ g.what = f.what /\ g.extends = f.extends /\ g.is_monitorable = f.is_monitorable
  BY <1>1, <1>2, MergedFields
<1>5. Len(g.args) = n /\ n \in Nat
  BY <1>1, <1>2, MergedFields
<1>6. \A i \in 1..n : Arg(g, i) = Arg(f, i)
  BY ONLY <1>3
<1>7. \A h : Signature(h) = [what |-> h.what, extends |-> h.extends, is_monitorable |-> h.is_monitorable,
                            args |-> [i \in 1..Len(h.args) |-> Arg(h, i)]]
  BY DEF Signature
<1> HIDE DEF Arg
<1>8. [i \in 1..Len(g.args) |-> Arg(g, i)] = [i \in 1..n |-> Arg(f, i)]
  BY ONLY <1>5, <1>6
<1>9. Signature(g) = Signature(f)
  BY ONLY <1>2, <1>4, <1>7, <1>8
<1> QED
  BY ONLY <1>1, <1>9

\* The texts that a form of translations asks for are those that there are.
LEMMA TranslatedTexts ==
    ASSUME NEW f, IsComplete(f), NEW channel
    PROVE  LET t == Translated(MetaOf(channel, CanonicalRow(SchemaOfFunction(f))))
               n == Len(f.args)
           IN  /\ t.canonical # Null /\ t.canonical.language = "it"
               /\ Len(t.argcanonicals) = n /\ Len(t.questions) = n
               /\ \A i \in 1..n :
                     /\ t.argcanonicals[i] # Empty /\ t.argcanonicals[i].language = "it"
                     /\ IF f.args[i].prompt = Missing THEN t.questions[i] = Empty
                        ELSE t.questions[i] # Empty /\ t.questions[i].language = "it"
<1> DEFINE s == SchemaOfFunction(f)
           n == Len(f.args)
           e == MetaOf(channel, CanonicalRow(s))
           t == Translated(e)
           C == [i \in 1..Len(e.argcanonicals) |-> InItalian(e.argcanonicals[i])]
           Q == [i \in 1..Len(e.questions) |-> InItalian(e.questions[i])]
<1>1. e.canonical = s.canonical /\ e.argcanonicals = s.argcanonicals /\ e.questions = s.questions
  <2> HIDE DEF s
  <2> QED
    BY DEF MetaOf, CanonicalRow
<1>2. /\ n \in Nat /\ s.canonical = Head(f.canonical) /\ Len(s.argcanonicals) = n /\ Len(s.questions) = n
  BY SchemaColumns, ZenonT(60)
<1>3. /\ t.canonical = InItalian(e.canonical) /\ t.argcanonicals = C /\ t.questions = Q
  <2> HIDE DEF e, C, Q
  <2>1. t = [canonical |-> InItalian(e.canonical), confirmation |-> TextIn("confirmation", "it"),
             argcanonicals |-> C, questions |-> Q]
    BY DEF Translated, C, Q
  <2> HIDE DEF t
  <2> QED
    BY ONLY <2>1
<1>4. Len(C) = n /\ Len(Q) = n
  <2>1. Len(e.argcanonicals) = n /\ Len(e.questions) = n
    BY ONLY <1>1, <1>2
  <2> HIDE DEF e, n
  <2>2. /\ DOMAIN C = 1..n /\ C = [i \in DOMAIN C |-> C[i]]
        /\ DOMAIN Q = 1..n /\ Q = [i \in DOMAIN Q |-> Q[i]]
    BY ONLY <2>1 DEF C, Q
  <2> HIDE DEF C, Q
  <2> QED
    BY ONLY <1>2, <2>2, ListLength
<1>5. ASSUME NEW text, IsText(text)
      PROVE  InItalian(text) \notin {Null, Empty} /\ InItalian(text).language = "it"
  <2>1. text = TextIn(text.words, "en") /\ text # Empty /\ TextIn(text.words, "it") \notin {Null, Empty}
    BY <1>5 DEF IsText, IsName, Languages
  <2>2. InItalian(text) = [text EXCEPT !.language = "it"]
    BY <2>1 DEF InItalian
  <2>3. InItalian(text) = TextIn(text.words, "it")
    BY ONLY <2>1, <2>2 DEF TextIn
  <2>4. TextIn(text.words, "it").language = "it"
    BY ONLY DEF TextIn
  <2> QED
    BY ONLY <2>1, <2>3, <2>4
<1>6. IsText(Head(f.canonical))
  BY DEF IsComplete
<1>7. ASSUME NEW i \in 1..n
      PROVE  /\ C[i] # Empty /\ C[i].language = "it"
             /\ IF f.args[i].prompt = Missing THEN Q[i] = Empty
                ELSE Q[i] # Empty /\ Q[i].language = "it"
  <2>1. C[i] = InItalian(e.argcanonicals[i]) /\ Q[i] = InItalian(e.questions[i])
    <3> HIDE DEF e, n
    <3> QED
      BY ONLY <1>1, <1>2, <1>7 DEF C, Q
  <2>2. /\ s.argcanonicals[i] = f.args[i].canonical
        /\ s.questions[i] = IF f.args[i].prompt = Missing THEN Empty ELSE f.args[i].prompt
    BY SchemaColumns, Zenon
  <2>3. IsText(f.args[i].canonical) /\ (f.args[i].prompt = Missing \/ IsText(f.args[i].prompt))
    BY Zenon DEF IsComplete, IsCompleteArgument
  <2>4. InItalian(Empty) = Empty
    BY DEF InItalian
  <2> HIDE DEF C, Q, e, s
  <2>5. C[i] # Empty /\ C[i].language = "it"
    BY ONLY <1>1, <1>5, <2>1, <2>2, <2>3
  <2>6. CASE f.args[i].prompt = Missing
    <3>1. Q[i] = Empty
      BY ONLY <1>1, <2>1, <2>2, <2>4, <2>6
    <3> QED
      BY ONLY <2>5, <2>6, <3>1
  <2>7. CASE f.args[i].prompt # Missing
    <3>1. Q[i] = InItalian(f.args[i].prompt) /\ IsText(f.args[i].prompt)
      BY ONLY <1>1, <2>1, <2>2, <2>3, <2>7
    <3> QED
      BY ONLY <1>5, <2>5, <2>7, <3>1
  <2> QED
    BY ONLY <2>6, <2>7
<1> HIDE DEF C, Q, e, s, t, n
<1>8. t.canonical # Null /\ t.canonical.language = "it"
  BY ONLY <1>1, <1>2, <1>3, <1>5, <1>6
<1>9. \A i \in 1..n :
         /\ t.argcanonicals[i] # Empty /\ t.argcanonicals[i].language = "it"
         /\ IF f.args[i].prompt = Missing THEN t.questions[i] = Empty
            ELSE t.questions[i] # Empty /\ t.questions[i].language = "it"
  BY ONLY <1>3, <1>7
<1>10. Len(t.argcanonicals) = n /\ Len(t.questions) = n
  BY ONLY <1>3, <1>4
<1> QED
  BY ONLY <1>8, <1>9, <1>10, Zenon DEF t, e, s, n

\* All texts of a function are in one language.
SpeaksOnly(g, n, language) ==
    /\ Head(g.canonical).language = language
    /\ \A i \in 1..n :
          /\ g.args[i].canonical.language = language
          /\ g.args[i].prompt # Missing => g.args[i].prompt.language = language

\* Without a translation a manifest is served as it is, in English.
LEMMA ServedInEnglish ==
    ASSUME NEW f, IsComplete(f), NEW channel, NEW x, x = MetaOf(channel, NoCanonicalRow)
    PROVE  ~CompleteFunction(f, x) /\ SpeaksOnly(MergedFunction(f, x), Len(f.args), "en")
<1>1. x.canonical = Null /\ x.argcanonicals = <<>> /\ x.questions = <<>>
  BY DEF MetaOf, NoCanonicalRow
<1>2. ~CompleteFunction(f, x)
  BY ONLY <1>1 DEF CompleteFunction
<1>3. \A i : ~HasText(x.argcanonicals, i) /\ ~HasText(x.questions, i)
  <2>1. \A i : i \notin 1..Len(<<>>)
    OBVIOUS
  <2> QED
    BY ONLY <1>1, <2>1 DEF HasText
<1>4. PICK g : g = MergedFunction(f, x)
  OBVIOUS
<1>5. PICK n : n = Len(f.args)
  OBVIOUS
<1>6. g.canonical = f.canonical
  <2>1. g.canonical = NameIn(f, x)
    BY <1>4, <1>5, MergedFields
  <2> QED
    BY ONLY <1>1, <2>1 DEF NameIn
<1>7. \A i \in 1..n : g.args[i].canonical = f.args[i].canonical /\ g.args[i].prompt = f.args[i].prompt
  <2>1. \A i \in 1..n : g.args[i].canonical = CanonicalIn(f, x, i) /\ g.args[i].prompt = PromptIn(f, x, i)
    BY <1>4, <1>5, MergedFields
  <2> QED
    BY ONLY <1>3, <2>1 DEF CanonicalIn, PromptIn
<1>8. \A text : IsText(text) => text.language = "en"
  BY DEF IsText, TextIn
<1>9. Head(f.canonical).language = "en"
  BY <1>8 DEF IsComplete
<1>10. \A i \in 1..n : /\ f.args[i].canonical.language = "en"
                       /\ f.args[i].prompt # Missing => f.args[i].prompt.language = "en"
  BY <1>5, <1>8, Zenon DEF IsComplete, IsCompleteArgument
<1>11. SpeaksOnly(g, n, "en")
  BY ONLY <1>6, <1>7, <1>9, <1>10 DEF SpeaksOnly
<1> QED
  BY ONLY <1>2, <1>4, <1>5, <1>11

\* With one it is whole, and in Italian.
LEMMA ServedInItalian ==
    ASSUME NEW f, IsComplete(f), NEW channel, NEW other, NEW x,
           x = MetaOf(other, Translated(MetaOf(channel, CanonicalRow(SchemaOfFunction(f)))))
    PROVE  CompleteFunction(f, x) /\ SpeaksOnly(MergedFunction(f, x), Len(f.args), "it")
<1>1. PICK n : n = Len(f.args)
  OBVIOUS
<1>2. PICK t : t = Translated(MetaOf(channel, CanonicalRow(SchemaOfFunction(f))))
  OBVIOUS
<1>3. t.canonical # Null /\ t.canonical.language = "it"
  BY <1>2, TranslatedTexts
<1>4. Len(t.argcanonicals) = n /\ Len(t.questions) = n
  BY <1>1, <1>2, TranslatedTexts
<1>5. \A i \in 1..n :
         /\ t.argcanonicals[i] # Empty /\ t.argcanonicals[i].language = "it"
         /\ IF f.args[i].prompt = Missing THEN t.questions[i] = Empty
            ELSE t.questions[i] # Empty /\ t.questions[i].language = "it"
  BY <1>1, <1>2, TranslatedTexts
<1>6. x = MetaOf(other, t)
  BY <1>2
<1>7. x.canonical = t.canonical /\ x.argcanonicals = t.argcanonicals /\ x.questions = t.questions
  BY ONLY <1>6 DEF MetaOf
<1>8. \A i \in 1..n : HasText(x.argcanonicals, i)
  BY ONLY <1>4, <1>5, <1>7 DEF HasText
<1>9. \A i \in 1..n : HasText(x.questions, i) <=> f.args[i].prompt # Missing
  BY ONLY <1>4, <1>5, <1>7 DEF HasText
<1>10. CompleteFunction(f, x)
  BY ONLY <1>1, <1>3, <1>7, <1>8 DEF CompleteFunction
<1>11. PICK g : g = MergedFunction(f, x)
  OBVIOUS
<1>12. Head(g.canonical).language = "it"
  <2>1. g.canonical = NameIn(f, x)
    BY <1>1, <1>11, MergedFields
  <2>2. g.canonical = <<t.canonical>>
    BY ONLY <1>3, <1>7, <2>1 DEF NameIn
  <2>3. Head(<<t.canonical>>) = t.canonical
    OBVIOUS
  <2> QED
    BY ONLY <1>3, <2>2, <2>3
<1>13. ASSUME NEW i \in 1..n
       PROVE  /\ g.args[i].canonical.language = "it"
              /\ g.args[i].prompt # Missing => g.args[i].prompt.language = "it"
  <2>1. g.args[i].canonical = CanonicalIn(f, x, i) /\ g.args[i].prompt = PromptIn(f, x, i)
    BY <1>1, <1>11, MergedFields
  <2>2. g.args[i].canonical = t.argcanonicals[i]
    BY ONLY <1>7, <1>8, <1>13, <2>1 DEF CanonicalIn
  <2>3. g.args[i].prompt = IF f.args[i].prompt # Missing THEN t.questions[i] ELSE f.args[i].prompt
    BY ONLY <1>7, <1>9, <1>13, <2>1 DEF PromptIn
  <2> QED
    BY ONLY <1>5, <1>13, <2>2, <2>3
<1>14. SpeaksOnly(g, n, "it")
  BY ONLY <1>12, <1>13 DEF SpeaksOnly
<1> QED
  BY ONLY <1>1, <1>10, <1>11, <1>14

\* A function comes back from its rows as it was if it extends one, has a
\* confirmation text and is just confirmed or not.
LEMMA KnownAgainByRows ==
    ASSUME NEW f, IsComplete(f), NEW s, s = SchemaOfFunction(f)
    PROVE  MetaOf(ChannelRow(s), CanonicalRow(s)) = s
              <=> f.extends # <<>> /\ f.confirmation # Missing /\ f.confirm \in BOOLEAN
<1> DEFINE extends == IF s.extends = <<>> THEN Null ELSE s.extends
           confirm == s.confirm # FALSE
           confirmation == IF s.confirmation = Missing THEN Null ELSE s.confirmation
<1>1. PICK e : e = MetaOf(ChannelRow(s), CanonicalRow(s))
  OBVIOUS
<1>2. e = [what |-> s.what, extends |-> extends, is_monitorable |-> s.is_monitorable,
           confirm |-> confirm, canonical |-> s.canonical, confirmation |-> confirmation,
           types |-> s.types, args |-> s.args, required |-> s.required, is_input |-> s.is_input,
           string_values |-> s.string_values, argcanonicals |-> s.argcanonicals,
           questions |-> s.questions]
  BY ONLY <1>1 DEF MetaOf, ChannelRow, CanonicalRow
<1>3. s = [what |-> s.what, extends |-> s.extends, is_monitorable |-> s.is_monitorable,
           confirm |-> s.confirm, canonical |-> s.canonical, confirmation |-> s.confirmation,
           types |-> s.types, args |-> s.args, required |-> s.required, is_input |-> s.is_input,
           string_values |-> s.string_values, argcanonicals |-> s.argcanonicals,
           questions |-> s.questions]
  BY Zenon DEF SchemaOfFunction
<1>4. s.extends = f.extends /\ s.confirm = f.confirm /\ s.confirmation = f.confirmation
  BY Zenon DEF SchemaOfFunction
<1>5. f.extends # Null /\ f.confirmation # Null
  BY DEF IsComplete
<1>6. extends = s.extends <=> f.extends # <<>>
  BY ONLY <1>4, <1>5
<1>7. confirmation = s.confirmation <=> f.confirmation # Missing
  BY ONLY <1>4, <1>5
<1>8. confirm = s.confirm <=> f.confirm \in BOOLEAN
  BY ONLY <1>4
<1> HIDE DEF extends, confirm, confirmation
<1>9. e = s <=> extends = s.extends /\ confirm = s.confirm /\ confirmation = s.confirmation
  <2>1. e = s => extends = s.extends /\ confirm = s.confirm /\ confirmation = s.confirmation
    <3>1. e.extends = extends /\ e.confirm = confirm /\ e.confirmation = confirmation
      BY ONLY <1>2
    <3> QED
      BY ONLY <3>1
  <2>2. ASSUME extends = s.extends, confirm = s.confirm, confirmation = s.confirmation PROVE e = s
    BY ONLY <1>2, <1>3, <2>2
  <2> QED
    BY ONLY <2>1, <2>2
<1> QED
  BY ONLY <1>1, <1>6, <1>7, <1>8, <1>9

\* A schema that is identical to what comes from the rows of another has these rows.
LEMMA RowsOfTheIdentical ==
    ASSUME NEW f, IsComplete(f), NEW s, NEW r, r = SchemaOfFunction(f),
           MetaOf(ChannelRow(s), CanonicalRow(s)) = r
    PROVE  ChannelRow(r) = ChannelRow(s) /\ CanonicalRow(r) = CanonicalRow(s)
<1> DEFINE extends == IF s.extends = <<>> THEN Null ELSE s.extends
           confirmation == IF s.confirmation = Missing THEN Null ELSE s.confirmation
<1>1. PICK c : c = ChannelRow(s)
  OBVIOUS
<1>2. PICK t : t = CanonicalRow(s)
  OBVIOUS
<1> PICK confirm : confirm = (s.confirm # FALSE)
  OBVIOUS
<1>3. /\ r.what = s.what /\ r.extends = extends /\ r.is_monitorable = s.is_monitorable
      /\ r.confirm = confirm /\ r.canonical = s.canonical /\ r.confirmation = confirmation
      /\ r.types = s.types /\ r.args = s.args /\ r.required = s.required /\ r.is_input = s.is_input
      /\ r.string_values = s.string_values /\ r.argcanonicals = s.argcanonicals
      /\ r.questions = s.questions
  <2>1. /\ c.what = s.what /\ c.extends = extends /\ c.is_monitorable = s.is_monitorable
        /\ c.confirm = confirm /\ c.types = s.types /\ c.args = s.args
        /\ c.required = s.required /\ c.is_input = s.is_input /\ c.string_values = s.string_values
    <3> HIDE DEF extends, confirmation
    <3> QED
      BY <1>1 DEF ChannelRow, extends
  <2>2. /\ t.canonical = s.canonical /\ t.confirmation = confirmation
        /\ t.argcanonicals = s.argcanonicals /\ t.questions = s.questions
    BY ONLY <1>2 DEF CanonicalRow
  <2>3. r = MetaOf(c, t)
    BY <1>1, <1>2
  <2>4. /\ r.what = c.what /\ r.extends = c.extends /\ r.is_monitorable = c.is_monitorable
        /\ r.confirm = c.confirm /\ r.canonical = t.canonical /\ r.confirmation = t.confirmation
        /\ r.types = c.types /\ r.args = c.args /\ r.required = c.required /\ r.is_input = c.is_input
        /\ r.string_values = c.string_values /\ r.argcanonicals = t.argcanonicals
        /\ r.questions = t.questions
    BY ONLY <2>3 DEF MetaOf
  <2> HIDE DEF extends, confirmation
  <2> QED
    BY ONLY <2>1, <2>2, <2>4
<1>4. r.extends # Null /\ r.confirmation # Null
  <2>1. r.extends = f.extends /\ r.confirmation = f.confirmation
    <3>1. r = SchemaOfFunction(f)
      OBVIOUS
    <3> QED
      BY ONLY <3>1, Zenon DEF SchemaOfFunction
  <2>2. f.extends # Null /\ f.confirmation # Null
    BY DEF IsComplete
  <2> QED
    BY ONLY <2>1, <2>2
<1> HIDE DEF extends, confirmation
<1>5. (IF r.extends = <<>> THEN Null ELSE r.extends) = (IF s.extends = <<>> THEN Null ELSE s.extends)
  BY ONLY <1>3, <1>4 DEF extends
<1>6. (IF r.confirmation = Missing THEN Null ELSE r.confirmation)
          = (IF s.confirmation = Missing THEN Null ELSE s.confirmation)
  BY ONLY <1>3, <1>4 DEF confirmation
<1>7. (r.confirm # FALSE) = (s.confirm # FALSE)
  BY <1>3
<1>8. ChannelRow(r) = ChannelRow(s)
  BY ONLY <1>3, <1>5, <1>7 DEF ChannelRow
<1>9. CanonicalRow(r) = CanonicalRow(s)
  BY ONLY <1>3, <1>6 DEF CanonicalRow
<1> QED
  BY ONLY <1>8, <1>9

\* The rows of functions, and what comes back from them.
SchemaRows(fs) == [n \in DOMAIN fs |-> ChannelRow(SchemaOfFunction(fs[n]))]
EnglishRows(fs) == [n \in DOMAIN fs |-> CanonicalRow(SchemaOfFunction(fs[n]))]
EnglishMeta(f) == MetaOf(ChannelRow(SchemaOfFunction(f)), CanonicalRow(SchemaOfFunction(f)))
ItalianRows(fs) == [n \in DOMAIN fs |-> Translated(EnglishMeta(fs[n]))]

\* Of a device there are the manifest that was uploaded last, the rows of all of
\* its functions in English, and in Italian none or the translation of these.
IsStored(k) ==
    \E m \in ManifestOffers :
        LET fs == Completed(m).functions
        IN  /\ manifests[k] = Completed(m)
            /\ channelRows[k] = SchemaRows(fs)
            /\ canonicalRows[k]["en"] = EnglishRows(fs)
            /\ canonicalRows[k]["it"] \in {Null, ItalianRows(fs)}
            /\ EntitiesUsed(Completed(m)) \subseteq entityNames
ManifestInv ==
    /\ manifests = [k \in ManifestKinds |-> manifests[k]]
    /\ channelRows = [k \in ManifestKinds |-> channelRows[k]]
    /\ canonicalRows = [k \in ManifestKinds |-> [l \in Languages |-> canonicalRows[k][l]]]
    /\ \A k \in ManifestKinds : manifests[k] # Missing => IsStored(k)

\* What comes back for a device is made of what was stored for it.
LEMMA EnglishMetas ==
    ASSUME NEW k, NEW m \in ManifestOffers, NEW fs, fs = Completed(m).functions,
           channelRows[k] = SchemaRows(fs), canonicalRows[k]["en"] = EnglishRows(fs)
    PROVE  Metas(k, "en") = [n \in DOMAIN fs |-> EnglishMeta(fs[n])]
<1>1. EnglishRows(fs) # Null
  BY ManifestRowsAssumption DEF EnglishRows
<1>2. DOMAIN SchemaRows(fs) = DOMAIN fs
  BY DEF SchemaRows
<1>3. ASSUME NEW n \in DOMAIN fs
      PROVE  MetaOf(SchemaRows(fs)[n], EnglishRows(fs)[n]) = EnglishMeta(fs[n])
  BY DEF SchemaRows, EnglishRows, EnglishMeta
<1>4. Metas(k, "en") = [n \in DOMAIN SchemaRows(fs) |-> MetaOf(SchemaRows(fs)[n], EnglishRows(fs)[n])]
  BY <1>1 DEF Metas
<1> QED
  BY ONLY <1>2, <1>3, <1>4

\* All ways to ask for a function of a device answer the function of its manifest.
LEMMA StoredIsServed ==
    ASSUME NEW k, NEW m \in ManifestOffers, NEW fs, fs = Completed(m).functions,
           channelRows[k] = SchemaRows(fs), canonicalRows[k]["en"] = EnglishRows(fs),
           canonicalRows[k]["it"] \in {Null, ItalianRows(fs)}, NEW n \in DOMAIN fs
    PROVE  LET fn == fs[n]
               english == Metas(k, "en")
               italian == Metas(k, "it")
               merged == MergedFunction(fn, italian[n])
           IN  /\ TypesOf(english[n]) = Signature(fn)
               /\ TextsOf(english[n]) =
                     [confirm |-> fn.confirm # FALSE, canonical |-> Head(fn.canonical),
                      args |-> Column(fn.args, LAMBDA a : [canonical |-> a.canonical, prompt |-> a.prompt])]
               /\ Signature(merged) = Signature(fn)
               /\ CompleteFunction(fn, italian[n]) <=> canonicalRows[k]["it"] # Null
               /\ SpeaksOnly(merged, Len(fn.args), IF CompleteFunction(fn, italian[n]) THEN "it" ELSE "en")
<1> DEFINE fn == fs[n]
           english == Metas(k, "en")
           italian == Metas(k, "it")
           channel == ChannelRow(SchemaOfFunction(fn))
           merged == MergedFunction(fn, italian[n])
           texts == [confirm |-> fn.confirm # FALSE, canonical |-> Head(fn.canonical),
                      args |-> Column(fn.args, LAMBDA a : [canonical |-> a.canonical, prompt |-> a.prompt])]
<1>1. IsComplete(fn)
  <2>1. /\ fs = [x \in DOMAIN m.functions |-> CompletedFunction(x, m.functions[x])]
        /\ \A x \in DOMAIN m.functions : IsComplete(fs[x])
    BY CompletedIsComplete
  <2> QED
    BY ONLY <2>1, n \in DOMAIN fs
<1>2. english[n] = EnglishMeta(fn)
  BY EnglishMetas
<1>3. EnglishMeta(fn) = MetaOf(channel, CanonicalRow(SchemaOfFunction(fn)))
  BY ONLY DEF EnglishMeta
<1>4. TypesOf(english[n]) = Signature(fn)
  <2> HIDE DEF english, fn
  <2> QED
    BY ONLY <1>1, <1>2, <1>3, TypesAreServed
<1>5. TextsOf(english[n]) = texts
  <2>1. TextsOf(EnglishMeta(fn)) = texts
    BY ONLY <1>1, TextsAreServed, ZenonT(60) DEF EnglishMeta
  <2> HIDE DEF english, texts, fn
  <2> QED
    BY ONLY <1>2, <2>1
<1>6. Signature(merged) = Signature(fn)
  BY ONLY <1>1, MergedSignature
<1>7. DOMAIN channelRows[k] = DOMAIN fs /\ channelRows[k][n] = channel
  BY DEF SchemaRows
<1>8. CASE canonicalRows[k]["it"] = Null
  <2>1. italian[n] = MetaOf(channel, NoCanonicalRow)
    BY <1>7, <1>8 DEF Metas
  <2> HIDE DEF italian, fn
  <2>2. ~CompleteFunction(fn, italian[n]) /\ SpeaksOnly(merged, Len(fn.args), "en")
    BY ONLY <1>1, <2>1, ServedInEnglish
  <2> HIDE DEF merged
  <2>3. /\ CompleteFunction(fn, italian[n]) <=> canonicalRows[k]["it"] # Null
        /\ SpeaksOnly(merged, Len(fn.args), IF CompleteFunction(fn, italian[n]) THEN "it" ELSE "en")
    BY ONLY <1>8, <2>2
  <2> HIDE DEF english, texts
  <2> QED
    BY ONLY <1>4, <1>5, <1>6, <2>3, ZenonT(60) DEF english, texts, italian, merged, fn
<1>9. CASE canonicalRows[k]["it"] # Null
  <2>1. canonicalRows[k]["it"] = ItalianRows(fs) /\ ItalianRows(fs)[n] = Translated(EnglishMeta(fn))
    BY <1>9 DEF ItalianRows
  <2>2. italian[n] = MetaOf(channel, Translated(EnglishMeta(fn)))
    <3>1. italian[n] = MetaOf(channelRows[k][n], canonicalRows[k]["it"][n])
      BY <1>7, <1>9 DEF Metas
    <3> QED
      BY ONLY <1>7, <2>1, <3>1
  <2> HIDE DEF italian, fn
  <2>3. CompleteFunction(fn, italian[n]) /\ SpeaksOnly(merged, Len(fn.args), "it")
    BY ONLY <1>1, <1>3, <2>2, ServedInItalian
  <2> HIDE DEF merged
  <2>4. /\ CompleteFunction(fn, italian[n]) <=> canonicalRows[k]["it"] # Null
        /\ SpeaksOnly(merged, Len(fn.args), IF CompleteFunction(fn, italian[n]) THEN "it" ELSE "en")
    BY ONLY <1>9, <2>3
  <2> HIDE DEF english, texts
  <2> QED
    BY ONLY <1>4, <1>5, <1>6, <2>4, ZenonT(60) DEF english, texts, italian, merged, fn
<1> QED
  BY ONLY <1>8, <1>9, ZenonT(60)

\* Completing a manifest changes no type.
LEMMA EntitiesOfCompleted ==
    ASSUME NEW m \in ManifestOffers
    PROVE  EntitiesUsed(Completed(m)) = EntitiesUsed(m)
<1> DEFINE c == Completed(m)
           TypesIn(x, n) == {x.functions[n].args[i].type : i \in 1..Len(x.functions[n].args)}
<1>1. c.entities = m.entities /\ DOMAIN c.functions = DOMAIN m.functions
  BY CompletedIsComplete
<1>2. ASSUME NEW n \in DOMAIN m.functions PROVE TypesIn(c, n) = TypesIn(m, n)
  <2>1. /\ Len(c.functions[n].args) = Len(m.functions[n].args)
        /\ \A i \in 1..Len(m.functions[n].args) :
              c.functions[n].args[i].type = m.functions[n].args[i].type
    BY CompletedIsComplete
  <2> HIDE DEF c
  <2> QED
    BY ONLY <2>1
<1>3. \A x : EntitiesUsed(x) = UNION {x.entities[e] : e \in DOMAIN x.entities}
                 \cup (EntityTypes \cap UNION {TypesIn(x, n) : n \in DOMAIN x.functions})
  BY DEF EntitiesUsed
<1> HIDE DEF c, TypesIn
<1>4. {TypesIn(c, n) : n \in DOMAIN c.functions} = {TypesIn(m, n) : n \in DOMAIN m.functions}
  BY ONLY <1>1, <1>2
<1>5. EntitiesUsed(c) = EntitiesUsed(m)
  BY ONLY <1>1, <1>3, <1>4
<1> QED
  BY ONLY <1>5 DEF c

\* A device that no request is about stays stored.
LEMMA StoredStays ==
    ASSUME NEW k, IsStored(k), manifests'[k] = manifests[k], channelRows'[k] = channelRows[k],
           canonicalRows'[k] = canonicalRows[k], entityNames \subseteq entityNames'
    PROVE  IsStored(k)'
<1>1. PICK m \in ManifestOffers :
         /\ manifests[k] = Completed(m)
         /\ channelRows[k] = SchemaRows(Completed(m).functions)
         /\ canonicalRows[k]["en"] = EnglishRows(Completed(m).functions)
         /\ canonicalRows[k]["it"] \in {Null, ItalianRows(Completed(m).functions)}
         /\ EntitiesUsed(Completed(m)) \subseteq entityNames
  BY Zenon DEF IsStored
<1>2. /\ manifests'[k] = Completed(m)
      /\ channelRows'[k] = SchemaRows(Completed(m).functions)
      /\ canonicalRows'[k]["en"] = EnglishRows(Completed(m).functions)
      /\ canonicalRows'[k]["it"] \in {Null, ItalianRows(Completed(m).functions)}
      /\ EntitiesUsed(Completed(m)) \subseteq entityNames'
  BY <1>1
<1> QED
  BY ONLY <1>2, Zenon DEF IsStored

\* An identical schema has the rows that are there.
LEMMA IdenticalRows ==
    ASSUME NEW m \in ManifestOffers, NEW fs, fs = Completed(m).functions,
           NEW o \in ManifestOffers, NEW gs, gs = Completed(o).functions,
           AreMetaIdentical([n \in DOMAIN gs |-> EnglishMeta(gs[n])], SchemaOfManifest(Completed(m)))
    PROVE  /\ SchemaRows(gs) = SchemaRows(fs) /\ EnglishRows(gs) = EnglishRows(fs)
           /\ ItalianRows(gs) = ItalianRows(fs)
<1>1. SchemaOfManifest(Completed(m)) = [n \in DOMAIN fs |-> SchemaOfFunction(fs[n])]
  BY DEF SchemaOfManifest
<1>2. DOMAIN gs = DOMAIN fs /\ \A n \in DOMAIN fs : EnglishMeta(gs[n]) = SchemaOfFunction(fs[n])
  <2>1. AreMetaIdentical([n \in DOMAIN gs |-> EnglishMeta(gs[n])], [n \in DOMAIN fs |-> SchemaOfFunction(fs[n])])
    BY <1>1
  <2> QED
    BY ONLY <2>1 DEF AreMetaIdentical
<1>3. \A n \in DOMAIN fs : IsComplete(fs[n])
  <2>1. /\ fs = [x \in DOMAIN m.functions |-> CompletedFunction(x, m.functions[x])]
        /\ \A x \in DOMAIN m.functions : IsComplete(fs[x])
    BY CompletedIsComplete
  <2> QED
    BY ONLY <2>1
<1>4. ASSUME NEW n \in DOMAIN fs
      PROVE  /\ ChannelRow(SchemaOfFunction(fs[n])) = ChannelRow(SchemaOfFunction(gs[n]))
             /\ CanonicalRow(SchemaOfFunction(fs[n])) = CanonicalRow(SchemaOfFunction(gs[n]))
  <2>1. PICK s : s = SchemaOfFunction(gs[n])
    OBVIOUS
  <2>2. PICK r : r = SchemaOfFunction(fs[n])
    OBVIOUS
  <2>3. MetaOf(ChannelRow(s), CanonicalRow(s)) = r
    BY ONLY <1>2, <1>4, <2>1, <2>2 DEF EnglishMeta
  <2>4. ChannelRow(r) = ChannelRow(s) /\ CanonicalRow(r) = CanonicalRow(s)
    BY ONLY <1>3, <1>4, <2>2, <2>3, RowsOfTheIdentical
  <2> QED
    BY ONLY <2>1, <2>2, <2>4
<1>5. \A n \in DOMAIN fs : EnglishMeta(gs[n]) = EnglishMeta(fs[n])
  BY ONLY <1>4 DEF EnglishMeta
<1>6. SchemaRows(gs) = SchemaRows(fs)
  BY ONLY <1>2, <1>4 DEF SchemaRows
<1>7. EnglishRows(gs) = EnglishRows(fs)
  BY ONLY <1>2, <1>4 DEF EnglishRows
<1>8. ItalianRows(gs) = ItalianRows(fs)
  BY ONLY <1>2, <1>5 DEF ItalianRows
<1> QED
  BY ONLY <1>6, <1>7, <1>8

\* An upload either leaves rows that are those of its functions, or writes these.
LEMMA UploadKeepsManifests ==
    ASSUME ManifestInv, NEW who, NEW m \in ManifestOffers, UploadManifest(who, m)
    PROVE  ManifestInv'
<1> DEFINE k == m.kind
           c == Completed(m)
           fs == c.functions
           uploaded == SchemaOfManifest(c)
           same == manifests[k] # Missing /\ AreMetaIdentical(Metas(k, "en"), uploaded)
<1>1. /\ ValidManifest(m, who)
      /\ manifests' = [manifests EXCEPT ![k] = c]
      /\ entityNames' = entityNames \cup DOMAIN m.entities
      /\ IF same THEN UNCHANGED <<channelRows, canonicalRows>> ELSE InsertChannels(k, uploaded)
  BY Zenon DEF UploadManifest
<1>2. k \in ManifestKinds
  BY ManifestAssumption DEF ManifestKinds, IsManifest
<1>3. EntitiesUsed(c) \subseteq entityNames'
  <2>1. (EntitiesUsed(m) \ DOMAIN m.entities) \subseteq entityNames
    BY <1>1 DEF ValidManifest
  <2>2. EntitiesUsed(c) = EntitiesUsed(m)
    BY EntitiesOfCompleted
  <2> HIDE DEF c
  <2> QED
    BY ONLY <1>1, <2>1, <2>2
<1>4. /\ manifests = [j \in ManifestKinds |-> manifests[j]]
      /\ channelRows = [j \in ManifestKinds |-> channelRows[j]]
      /\ canonicalRows = [j \in ManifestKinds |-> [l \in Languages |-> canonicalRows[j][l]]]
      /\ \A j \in ManifestKinds : manifests[j] # Missing => IsStored(j)
  BY DEF ManifestInv
<1>5. uploaded = [n \in DOMAIN fs |-> SchemaOfFunction(fs[n])]
  BY DEF SchemaOfManifest
<1> HIDE DEF c, k
<1>6. /\ manifests' = [j \in ManifestKinds |-> manifests'[j]]
      /\ manifests'[k] = c
      /\ \A j \in ManifestKinds : j # k => manifests'[j] = manifests[j]
  BY ONLY <1>1, <1>2, <1>4
<1>7. /\ channelRows' = [j \in ManifestKinds |-> channelRows'[j]]
      /\ canonicalRows' = [j \in ManifestKinds |-> [l \in Languages |-> canonicalRows'[j][l]]]
      /\ \A j \in ManifestKinds : j # k => channelRows'[j] = channelRows[j] /\ canonicalRows'[j] = canonicalRows[j]
      /\ channelRows'[k] = SchemaRows(fs)
      /\ canonicalRows'[k]["en"] = EnglishRows(fs)
      /\ canonicalRows'[k]["it"] \in {Null, ItalianRows(fs)}
  <2>1. CASE same
    <3>1. channelRows' = channelRows /\ canonicalRows' = canonicalRows
      BY <1>1, <2>1
    <3>2. manifests[k] # Missing /\ AreMetaIdentical(Metas(k, "en"), uploaded)
      BY <2>1
    <3> HIDE DEF same
    <3>3. PICK o \in ManifestOffers :
             /\ channelRows[k] = SchemaRows(Completed(o).functions)
             /\ canonicalRows[k]["en"] = EnglishRows(Completed(o).functions)
             /\ canonicalRows[k]["it"] \in {Null, ItalianRows(Completed(o).functions)}
      BY ONLY <1>2, <1>4, <3>2, Zenon DEF IsStored
    <3>4. PICK gs : gs = Completed(o).functions
      OBVIOUS
    <3>5. Metas(k, "en") = [n \in DOMAIN gs |-> EnglishMeta(gs[n])]
      BY ONLY <3>3, <3>4, EnglishMetas
    <3>6. AreMetaIdentical([n \in DOMAIN gs |-> EnglishMeta(gs[n])], uploaded)
      BY ONLY <3>2, <3>5
    <3>7. /\ SchemaRows(gs) = SchemaRows(fs) /\ EnglishRows(gs) = EnglishRows(fs)
          /\ ItalianRows(gs) = ItalianRows(fs)
      BY ONLY <3>4, <3>6, m \in ManifestOffers, o \in ManifestOffers, IdenticalRows DEF c
    <3> HIDE DEF fs, uploaded
    <3>8. /\ channelRows[k] = SchemaRows(fs) /\ canonicalRows[k]["en"] = EnglishRows(fs)
          /\ canonicalRows[k]["it"] \in {Null, ItalianRows(fs)}
      BY ONLY <3>3, <3>4, <3>7
    <3> QED
      BY ONLY <1>4, <3>1, <3>8
  <2>2. CASE ~same
    <3> DEFINE newRows == [n \in DOMAIN uploaded |-> ChannelRow(uploaded[n])]
               newTexts == [n \in DOMAIN uploaded |-> CanonicalRow(uploaded[n])]
               byLanguage == [l \in Languages |-> IF l # "en" THEN Null ELSE newTexts]
    <3>1. /\ channelRows' = [channelRows EXCEPT ![k] = newRows]
          /\ canonicalRows' = [canonicalRows EXCEPT ![k] = byLanguage]
      BY <1>1, <2>2 DEF InsertChannels
    <3> HIDE DEF same
    <3>2. newRows = SchemaRows(fs) /\ newTexts = EnglishRows(fs)
      BY ONLY <1>5 DEF SchemaRows, EnglishRows
    <3>3. byLanguage["en"] = newTexts /\ byLanguage["it"] = Null /\ byLanguage = [l \in Languages |-> byLanguage[l]]
      <4> HIDE DEF newTexts
      <4> QED
        BY DEF Languages
    <3> HIDE DEF newRows, newTexts, byLanguage, fs, uploaded
    <3>4. /\ channelRows' = [j \in ManifestKinds |-> channelRows'[j]]
          /\ \A j \in ManifestKinds : j # k => channelRows'[j] = channelRows[j]
          /\ channelRows'[k] = newRows
      BY ONLY <1>2, <1>4, <3>1
    <3>5. /\ canonicalRows' = [j \in ManifestKinds |-> canonicalRows'[j]]
          /\ \A j \in ManifestKinds : j # k => canonicalRows'[j] = canonicalRows[j]
          /\ canonicalRows'[k] = byLanguage
      BY ONLY <1>2, <1>4, <3>1
    <3>6. \A j \in ManifestKinds : canonicalRows[j] = [l \in Languages |-> canonicalRows[j][l]]
      BY ONLY <1>4
    <3>7. \A j \in ManifestKinds : canonicalRows'[j] = [l \in Languages |-> canonicalRows'[j][l]]
      BY ONLY <3>3, <3>5, <3>6
    <3>8. canonicalRows' = [j \in ManifestKinds |-> [l \in Languages |-> canonicalRows'[j][l]]]
      BY ONLY <3>5, <3>7
    <3>9. canonicalRows'[k]["en"] = EnglishRows(fs) /\ canonicalRows'[k]["it"] \in {Null, ItalianRows(fs)}
      BY ONLY <3>2, <3>3, <3>5
    <3> QED
      BY ONLY <3>2, <3>4, <3>5, <3>8, <3>9
  <2> QED
    BY ONLY <2>1, <2>2
<1>8. ASSUME NEW j \in ManifestKinds, manifests'[j] # Missing PROVE IsStored(j)'
  <2>1. CASE j = k
    <3>1. /\ manifests'[k] = Completed(m)
          /\ channelRows'[k] = SchemaRows(Completed(m).functions)
          /\ canonicalRows'[k]["en"] = EnglishRows(Completed(m).functions)
          /\ canonicalRows'[k]["it"] \in {Null, ItalianRows(Completed(m).functions)}
          /\ EntitiesUsed(Completed(m)) \subseteq entityNames'
      BY ONLY <1>3, <1>6, <1>7 DEF c
    <3>2. IsStored(k)'
      BY ONLY <3>1, m \in ManifestOffers, Zenon DEF IsStored
    <3> QED
      BY ONLY <2>1, <3>2
  <2>2. CASE j # k
    <3>1. /\ manifests'[j] = manifests[j] /\ channelRows'[j] = channelRows[j]
          /\ canonicalRows'[j] = canonicalRows[j] /\ entityNames \subseteq entityNames'
      BY ONLY <1>1, <1>6, <1>7, <2>2, j \in ManifestKinds
    <3>2. IsStored(j)
      BY ONLY <1>4, <1>8, <3>1
    <3> QED
      BY ONLY <3>1, <3>2, StoredStays
  <2> QED
    BY ONLY <2>1, <2>2
<1> QED
  BY ONLY <1>6, <1>7, <1>8, Zenon DEF ManifestInv

\* A translation is one of the functions that are in the rows.
LEMMA TranslateKeepsManifests ==
    ASSUME ManifestInv, NEW k \in ManifestKinds, TranslateManifest(k)
    PROVE  ManifestInv'
<1> DEFINE italian == [n \in DOMAIN Metas(k, "en") |-> Translated(Metas(k, "en")[n])]
<1>1. /\ manifests[k] # Missing
      /\ canonicalRows' = [canonicalRows EXCEPT ![k]["it"] = italian]
      /\ manifests' = manifests /\ channelRows' = channelRows /\ entityNames' = entityNames
  BY DEF TranslateManifest, InsertTranslations
<1>2. /\ manifests = [j \in ManifestKinds |-> manifests[j]]
      /\ channelRows = [j \in ManifestKinds |-> channelRows[j]]
      /\ canonicalRows = [j \in ManifestKinds |-> [l \in Languages |-> canonicalRows[j][l]]]
      /\ \A j \in ManifestKinds : manifests[j] # Missing => IsStored(j)
  BY DEF ManifestInv
<1>3. PICK m \in ManifestOffers :
         /\ manifests[k] = Completed(m)
         /\ channelRows[k] = SchemaRows(Completed(m).functions)
         /\ canonicalRows[k]["en"] = EnglishRows(Completed(m).functions)
         /\ EntitiesUsed(Completed(m)) \subseteq entityNames
  BY ONLY <1>1, <1>2, k \in ManifestKinds, Zenon DEF IsStored
<1>4. PICK fs : fs = Completed(m).functions
  OBVIOUS
<1>5. Metas(k, "en") = [n \in DOMAIN fs |-> EnglishMeta(fs[n])]
  BY ONLY <1>3, <1>4, EnglishMetas
<1>6. italian = ItalianRows(fs)
  BY ONLY <1>5 DEF ItalianRows
<1> HIDE DEF italian
<1>7. \A j \in ManifestKinds : canonicalRows[j] = [l \in Languages |-> canonicalRows[j][l]]
  BY ONLY <1>2
<1>8. DOMAIN canonicalRows = ManifestKinds /\ "it" \in Languages /\ "en" \in Languages
  BY ONLY <1>2 DEF Languages
<1>9. /\ canonicalRows' = [j \in ManifestKinds |-> canonicalRows'[j]]
      /\ \A j \in ManifestKinds : j # k => canonicalRows'[j] = canonicalRows[j]
      /\ canonicalRows'[k] = [canonicalRows[k] EXCEPT !["it"] = italian]
  BY ONLY <1>1, <1>2, k \in ManifestKinds
<1>10. /\ canonicalRows'[k] = [l \in Languages |-> canonicalRows'[k][l]]
       /\ canonicalRows'[k]["it"] = italian
       /\ canonicalRows'[k]["en"] = canonicalRows[k]["en"]
  BY ONLY <1>7, <1>8, <1>9, k \in ManifestKinds
<1>11. canonicalRows' = [j \in ManifestKinds |-> [l \in Languages |-> canonicalRows'[j][l]]]
  <2>1. \A j \in ManifestKinds : canonicalRows'[j] = [l \in Languages |-> canonicalRows'[j][l]]
    BY ONLY <1>7, <1>9, <1>10
  <2> QED
    BY ONLY <1>9, <2>1
<1>12. ASSUME NEW j \in ManifestKinds, manifests'[j] # Missing PROVE IsStored(j)'
  <2>1. CASE j = k
    <3>1. /\ manifests'[k] = Completed(m)
          /\ channelRows'[k] = SchemaRows(Completed(m).functions)
          /\ canonicalRows'[k]["en"] = EnglishRows(Completed(m).functions)
          /\ canonicalRows'[k]["it"] \in {Null, ItalianRows(Completed(m).functions)}
          /\ EntitiesUsed(Completed(m)) \subseteq entityNames'
      BY ONLY <1>1, <1>3, <1>4, <1>6, <1>10
    <3>2. IsStored(k)'
      BY ONLY <3>1, m \in ManifestOffers, Zenon DEF IsStored
    <3> QED
      BY ONLY <2>1, <3>2
  <2>2. CASE j # k
    <3>1. /\ manifests'[j] = manifests[j] /\ channelRows'[j] = channelRows[j]
          /\ canonicalRows'[j] = canonicalRows[j] /\ entityNames \subseteq entityNames'
      BY ONLY <1>1, <1>9, <2>2, j \in ManifestKinds
    <3>2. IsStored(j)
      BY ONLY <1>2, <1>12, <3>1
    <3> QED
      BY ONLY <3>1, <3>2, StoredStays
  <2> QED
    BY ONLY <2>1, <2>2
<1>13. /\ manifests' = [j \in ManifestKinds |-> manifests'[j]]
       /\ channelRows' = [j \in ManifestKinds |-> channelRows'[j]]
  BY ONLY <1>1, <1>2
<1> QED
  BY ONLY <1>11, <1>12, <1>13, Zenon DEF ManifestInv

\* A device that is deleted has no rows.
LEMMA DeleteKeepsManifests ==
    ASSUME ManifestInv, NEW k \in ManifestKinds, DeleteManifest(k)
    PROVE  ManifestInv'
<1>1. /\ manifests' = [manifests EXCEPT ![k] = Missing]
      /\ channelRows' = [channelRows EXCEPT ![k] = <<>>]
      /\ canonicalRows' = [canonicalRows EXCEPT ![k] = [l \in Languages |-> Null]]
      /\ entityNames' = entityNames
  BY DEF DeleteManifest
<1>2. /\ manifests = [j \in ManifestKinds |-> manifests[j]]
      /\ channelRows = [j \in ManifestKinds |-> channelRows[j]]
      /\ canonicalRows = [j \in ManifestKinds |-> [l \in Languages |-> canonicalRows[j][l]]]
      /\ \A j \in ManifestKinds : manifests[j] # Missing => IsStored(j)
  BY DEF ManifestInv
<1>3. /\ manifests' = [j \in ManifestKinds |-> manifests'[j]] /\ manifests'[k] = Missing
      /\ \A j \in ManifestKinds : j # k => manifests'[j] = manifests[j]
  BY ONLY <1>1, <1>2, k \in ManifestKinds
<1>4. /\ channelRows' = [j \in ManifestKinds |-> channelRows'[j]]
      /\ \A j \in ManifestKinds : j # k => channelRows'[j] = channelRows[j]
  BY ONLY <1>1, <1>2, k \in ManifestKinds
<1>5. PICK byLanguage : byLanguage = [l \in Languages |-> Null]
  OBVIOUS
<1>6. byLanguage = [l \in Languages |-> byLanguage[l]]
  BY ONLY <1>5
<1>7. /\ canonicalRows' = [j \in ManifestKinds |-> canonicalRows'[j]] /\ canonicalRows'[k] = byLanguage
      /\ \A j \in ManifestKinds : j # k => canonicalRows'[j] = canonicalRows[j]
  BY ONLY <1>1, <1>2, <1>5, k \in ManifestKinds
<1>8. canonicalRows' = [j \in ManifestKinds |-> [l \in Languages |-> canonicalRows'[j][l]]]
  <2>1. \A j \in ManifestKinds : canonicalRows[j] = [l \in Languages |-> canonicalRows[j][l]]
    BY ONLY <1>2
  <2>2. \A j \in ManifestKinds : canonicalRows'[j] = [l \in Languages |-> canonicalRows'[j][l]]
    BY ONLY <1>6, <1>7, <2>1
  <2> QED
    BY ONLY <1>7, <2>2
<1>9. ASSUME NEW j \in ManifestKinds, manifests'[j] # Missing PROVE IsStored(j)'
  <2>1. /\ manifests'[j] = manifests[j] /\ channelRows'[j] = channelRows[j]
        /\ canonicalRows'[j] = canonicalRows[j] /\ entityNames \subseteq entityNames'
    BY ONLY <1>1, <1>3, <1>4, <1>7, <1>9, j \in ManifestKinds
  <2>2. IsStored(j)
    BY ONLY <1>2, <1>9, <2>1
  <2> QED
    BY ONLY <2>1, <2>2, StoredStays
<1> QED
  BY ONLY <1>3, <1>4, <1>8, <1>9, Zenon DEF ManifestInv

\* The rows and the manifest of each device are of the same functions, at any time.
LEMMA ManifestInvHolds == ManifestSpec => []ManifestInv
<1>1. ManifestInit => ManifestInv
  <2> SUFFICES ASSUME ManifestInit PROVE ManifestInv
    OBVIOUS
  <2>1. /\ manifests = [k \in ManifestKinds |-> Missing]
        /\ channelRows = [k \in ManifestKinds |-> <<>>]
        /\ canonicalRows = [k \in ManifestKinds |-> [l \in Languages |-> Null]]
    BY DEF ManifestInit
  <2>2. /\ manifests = [j \in ManifestKinds |-> manifests[j]]
        /\ channelRows = [j \in ManifestKinds |-> channelRows[j]]
    BY ONLY <2>1
  <2>3. canonicalRows = [j \in ManifestKinds |-> [l \in Languages |-> canonicalRows[j][l]]]
    BY ONLY <2>1
  <2>4. \A j \in ManifestKinds : manifests[j] # Missing => IsStored(j)
    BY ONLY <2>1
  <2> QED
    BY ONLY <2>2, <2>3, <2>4 DEF ManifestInv
<1>2. ManifestInv /\ [ManifestNext]_manifestVars => ManifestInv'
  <2> SUFFICES ASSUME ManifestInv, [ManifestNext]_manifestVars PROVE ManifestInv'
    OBVIOUS
  <2>1. ASSUME NEW who, NEW m \in ManifestOffers, UploadManifest(who, m) PROVE ManifestInv'
    BY <2>1, UploadKeepsManifests
  <2>2. ASSUME NEW k \in ManifestKinds, TranslateManifest(k) PROVE ManifestInv'
    BY <2>2, TranslateKeepsManifests
  <2>3. ASSUME NEW k \in ManifestKinds, DeleteManifest(k) PROVE ManifestInv'
    BY <2>3, DeleteKeepsManifests
  <2>4. CASE UNCHANGED manifestVars
    BY <2>4 DEF manifestVars, ManifestInv, IsStored
  <2> QED
    BY <2>1, <2>2, <2>3, <2>4, Zenon DEF ManifestNext
<1> QED
  BY <1>1, <1>2, PTL DEF ManifestSpec

\* This is enough for what is served.
LEMMA InvImpliesServed ==
    ASSUME ManifestInv
    PROVE  UploadIsServed
<1>1. ASSUME NEW k \in ManifestKinds, manifests[k] # Missing
      PROVE  \E m \in ManifestOffers :
                 /\ manifests[k] = Completed(m)
                 /\ channelRows[k] = SchemaRows(Completed(m).functions)
                 /\ canonicalRows[k]["en"] = EnglishRows(Completed(m).functions)
                 /\ canonicalRows[k]["it"] \in {Null, ItalianRows(Completed(m).functions)}
                 /\ EntitiesUsed(Completed(m)) \subseteq entityNames
  BY <1>1, Zenon DEF ManifestInv, IsStored
<1>2. EntitiesExist
  BY <1>1, Zenon DEF EntitiesExist
<1>3. KnownAgain
  <2> DEFINE Known(fn) == fn.extends # <<>> /\ fn.confirmation # Missing /\ fn.confirm \in BOOLEAN
  <2> SUFFICES ASSUME NEW k \in ManifestKinds, manifests[k] # Missing
               PROVE  AreMetaIdentical(Metas(k, "en"), SchemaOfManifest(manifests[k]))
                         <=> \A n \in DOMAIN manifests[k].functions : Known(manifests[k].functions[n])
    BY DEF KnownAgain
  <2>1. PICK m \in ManifestOffers :
           /\ manifests[k] = Completed(m)
           /\ channelRows[k] = SchemaRows(Completed(m).functions)
           /\ canonicalRows[k]["en"] = EnglishRows(Completed(m).functions)
    BY <1>1
  <2>2. PICK fs : fs = Completed(m).functions
    OBVIOUS
  <2>3. Metas(k, "en") = [n \in DOMAIN fs |-> EnglishMeta(fs[n])]
    BY ONLY <2>1, <2>2, EnglishMetas
  <2>4. SchemaOfManifest(manifests[k]) = [n \in DOMAIN fs |-> SchemaOfFunction(fs[n])]
    BY ONLY <2>1, <2>2 DEF SchemaOfManifest
  <2>5. \A n \in DOMAIN fs : IsComplete(fs[n])
    <3>1. /\ fs = [x \in DOMAIN m.functions |-> CompletedFunction(x, m.functions[x])]
          /\ \A x \in DOMAIN m.functions : IsComplete(fs[x])
      BY <2>2, CompletedIsComplete
    <3> QED
      BY ONLY <3>1
  <2>6. ASSUME NEW n \in DOMAIN fs
        PROVE  EnglishMeta(fs[n]) = SchemaOfFunction(fs[n]) <=> Known(fs[n])
    <3>1. PICK f : f = fs[n]
      OBVIOUS
    <3>2. PICK s : s = SchemaOfFunction(f)
      OBVIOUS
    <3>3. MetaOf(ChannelRow(s), CanonicalRow(s)) = s <=> Known(f)
      BY ONLY <2>5, <2>6, <3>1, <3>2, KnownAgainByRows
    <3> HIDE DEF Known
    <3> QED
      BY ONLY <3>1, <3>2, <3>3 DEF EnglishMeta
  <2> HIDE DEF Known
  <2>7. AreMetaIdentical([n \in DOMAIN fs |-> EnglishMeta(fs[n])], [n \in DOMAIN fs |-> SchemaOfFunction(fs[n])])
           <=> \A n \in DOMAIN fs : EnglishMeta(fs[n]) = SchemaOfFunction(fs[n])
    BY ONLY DEF AreMetaIdentical
  <2> QED
    BY ONLY <2>1, <2>2, <2>3, <2>4, <2>6, <2>7
<1>4. ManifestIsServed
  <2> SUFFICES ASSUME NEW k \in ManifestKinds, manifests[k] # Missing,
                      NEW fs, fs = manifests[k].functions
               PROVE  LET english == Metas(k, "en")
                          italian == Metas(k, "it")
                      IN  /\ DOMAIN channelRows[k] = DOMAIN fs
                          /\ \A n \in DOMAIN fs :
                                LET fn == fs[n]
                                    merged == MergedFunction(fn, italian[n])
                                IN  /\ TypesOf(english[n]) = Signature(fn)
                                    /\ TextsOf(english[n]) =
                                          [confirm |-> fn.confirm # FALSE, canonical |-> Head(fn.canonical),
                                           args |-> Column(fn.args, LAMBDA a : [canonical |-> a.canonical, prompt |-> a.prompt])]
                                    /\ Signature(merged) = Signature(fn)
                                    /\ CompleteFunction(fn, italian[n]) <=> canonicalRows[k]["it"] # Null
                                    /\ SpeaksOnly(merged, Len(fn.args),
                                                  IF CompleteFunction(fn, italian[n]) THEN "it" ELSE "en")
    BY Zenon DEF ManifestIsServed, SpeaksOnly
  <2>1. PICK m \in ManifestOffers :
           /\ manifests[k] = Completed(m)
           /\ channelRows[k] = SchemaRows(Completed(m).functions)
           /\ canonicalRows[k]["en"] = EnglishRows(Completed(m).functions)
           /\ canonicalRows[k]["it"] \in {Null, ItalianRows(Completed(m).functions)}
    BY <1>1
  <2>2. fs = Completed(m).functions
    BY <2>1
  <2>3. /\ channelRows[k] = SchemaRows(fs) /\ canonicalRows[k]["en"] = EnglishRows(fs)
        /\ canonicalRows[k]["it"] \in {Null, ItalianRows(fs)}
    BY ONLY <2>1, <2>2
  <2>4. DOMAIN channelRows[k] = DOMAIN fs
    BY ONLY <2>3 DEF SchemaRows
  <2> QED
    BY <2>2, <2>3, <2>4, StoredIsServed, Zenon
<1> QED
  BY ONLY <1>2, <1>3, <1>4 DEF UploadIsServed

\* What a developer uploads is what others get: getSchemas and getDeviceCode serve
\* the same functions from the rows, which may be of an earlier upload, and from the
\* manifest, the entities that it speaks of are there, and of an upload that changes
\* nothing it is known just when that is known.  For any manifests, kinds and entities.
THEOREM ManifestsAreServed == ManifestSpec => []UploadIsServed
  BY ManifestInvHolds, InvImpliesServed, PTL
================================================================================
