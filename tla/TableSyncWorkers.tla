------------------------- MODULE TableSyncWorkers --------------------------
(***************************************************************************)
(* Type correctness of TableSync, its inductive invariant, and that every  *)
(* step of a synchronization worker keeps the invariant.                   *)
(***************************************************************************)
EXTENDS TableSync, TLAPS

(* A leaf is tried with SMT, then with Zenon, then with SMT again: the     *)
(* larger ones need more than the default time.                            *)
USE SMTT(30), ZenonT(30), SMTT(60)

-----------------------------------------------------------------------------
(* The publication                                                         *)

LEMMA SnapshotType ==
    ASSUME NEW w, NEW t, NEW n \in Nat
    PROVE  Snapshot(w, t, n) \subseteq Row \X (0..n)
BY DEF Snapshot

LEMMA ChangeType ==
    ASSUME NEW w \in Seq(Transaction), NEW i \in 1..Len(w)
    PROVE  ChangeOf(w, i) \in Row \X (0..Len(w))
<1>1. w[i] \in Transaction
  OBVIOUS
<1> QED
  BY <1>1 DEF ChangeOf, Transaction

-----------------------------------------------------------------------------
(* Positions                                                               *)

LEMMA Positions ==
    /\ \A a \in Nat : EndLsn(a) \in Nat /\ PastLsn(a) \in Nat \ {0} /\ Before(a) \in Nat
    /\ \A a \in Nat : Before(EndLsn(a)) = a /\ Before(PastLsn(a)) = a
    /\ \A a, b \in Nat : a <= b => Before(a) <= Before(b)
    /\ Before(0) = 0
BY DEF EndLsn, PastLsn, Before

LEMMA LaterType ==
    ASSUME NEW a \in Nat, NEW b \in Nat
    PROVE  /\ Later(a, b) \in Nat
           /\ Later(a, b) \in {a, b}
           /\ a <= Later(a, b) /\ b <= Later(a, b)
BY DEF Later

-----------------------------------------------------------------------------
(* The catalogs                                                            *)

(* The catalogs a crash may leave behind, and the one it is now.           *)
Kept == {db[k] : k \in 1..Len(db)}

LEMMA CatalogsOf ==
    ASSUME NEW d \in Seq([Table -> RelState]), d # <<>>
    PROVE  /\ Len(d) \in Nat \ {0}
           /\ d[Len(d)] \in {d[k] : k \in 1..Len(d)} /\ d[1] \in {d[k] : k \in 1..Len(d)}
           /\ {d[k] : k \in 1..Len(d)} \subseteq [Table -> RelState]
<1>1. Len(d) \in Nat \ {0}
  OBVIOUS
<1>2. \A k \in 1..Len(d) : d[k] \in [Table -> RelState]
  OBVIOUS
<1> QED
  BY <1>1, <1>2

(* The current catalog and the ones a crash may leave behind.              *)
LEMMA CatalogType ==
    ASSUME TypeOK
    PROVE  /\ Len(db) \in Nat \ {0}
           /\ Now \in Kept /\ db[1] \in Kept
           /\ Kept \subseteq [Table -> RelState]
<1>1. db \in Seq([Table -> RelState]) /\ db # <<>>
  BY DEF TypeOK
<1> QED
  BY <1>1, CatalogsOf DEF Now, Kept

LEMMA CatalogAppend ==
    ASSUME TypeOK, NEW c \in [Table -> RelState], db' = Append(db, c)
    PROVE  Now' = c /\ Kept' = Kept \cup {c}
<1>1. db \in Seq([Table -> RelState]) /\ Len(db) \in Nat
  BY DEF TypeOK
<1>2. Len(db') = Len(db) + 1 /\ db'[Len(db) + 1] = c
  BY <1>1
<1>3. \A k \in 1..Len(db) : db'[k] = db[k]
  BY <1>1
<1>4. 1..Len(db') = 1..Len(db) \cup {Len(db) + 1}
  BY <1>1, <1>2
<1> QED
  BY <1>2, <1>3, <1>4 DEF Now, Kept

LEMMA CatalogOne ==
    ASSUME NEW c, db' = <<c>>
    PROVE  Now' = c /\ Kept' = {c}
<1>1. Len(db') = 1 /\ db'[1] = c
  OBVIOUS
<1> QED
  BY <1>1 DEF Now, Kept

LEMMA CatalogSuffix ==
    ASSUME TypeOK, NEW n \in 2..Len(db), db' = SubSeq(db, n, Len(db))
    PROVE  Now' = Now /\ Kept' \subseteq Kept
<1>1. db \in Seq([Table -> RelState]) /\ Len(db) \in Nat
  BY DEF TypeOK
<1>2. Len(db') = Len(db) - n + 1 /\ \A k \in 1..Len(db) - n + 1 : db'[k] = db[n + k - 1]
  BY <1>1
<1> QED
  BY <1>1, <1>2 DEF Now, Kept

LEMMA CatalogSame ==
    ASSUME db' = db
    PROVE  Now' = Now /\ Kept' = Kept
BY DEF Now, Kept

(* What an asynchronous commit does.                                       *)
LEMMA LoggedEffect ==
    ASSUME TypeOK, NEW t \in Table, NEW e \in RelState, Logged(t, e)
    PROVE  /\ Now' = [Now EXCEPT ![t] = e]
           /\ Kept' \subseteq Kept \cup {Now'}
<1>1. Now \in [Table -> RelState]
  BY CatalogType
<1>2. CASE e = Now[t]
  <2>1. db' = db /\ [Now EXCEPT ![t] = e] = Now
    BY <1>1, <1>2 DEF Logged
  <2> QED
    BY <2>1, CatalogSame
<1>3. CASE e # Now[t]
  <2>1. db' = Append(db, [Now EXCEPT ![t] = e])
    BY <1>3 DEF Logged
  <2>2. [Now EXCEPT ![t] = e] \in [Table -> RelState]
    BY <1>1
  <2> QED
    BY <2>1, <2>2, CatalogAppend, Zenon
<1> QED
  BY <1>2, <1>3

LEMMA CommitEffect ==
    ASSUME TypeOK, NEW t \in Table, NEW e \in RelState, Commit(t, e)
    PROVE  /\ Now' = [Now EXCEPT ![t] = e]
           /\ Kept' \subseteq Kept \cup {Now'}
           /\ validity' = "invalid" <=> validity = "invalid"
BY LoggedEffect, Zenon DEF Commit

(* What committing the tables the leader has marked does.                  *)
LEMMA CommitMarkedEffect ==
    ASSUME TypeOK, CommitMarked
    PROVE  /\ Now' = [t \in Table |->
                        IF t \in marked
                        THEN [state |-> "r", lsn |-> current_lsn, origin |-> 0]
                        ELSE Now[t]]
           /\ Kept' \subseteq Kept \cup {Now'}
           /\ validity' = IF marked = {} THEN validity ELSE "invalid"
           /\ marked' = {}
<1> DEFINE c == [t \in Table |->
                    IF t \in marked
                    THEN [state |-> "r", lsn |-> current_lsn, origin |-> 0]
                    ELSE Now[t]]
<1>1. Now \in [Table -> RelState] /\ current_lsn \in Nat
  BY CatalogType DEF TypeOK
<1>2. c \in [Table -> RelState]
  BY <1>1 DEF RelState, CatalogState
<1>3. CASE marked = {}
  <2>1. db' = db /\ c = Now
    BY <1>1, <1>3 DEF CommitMarked
  <2> QED
    BY <1>3, <2>1, CatalogSame DEF CommitMarked
<1>4. CASE marked # {}
  <2>1. db' = Append(db, c)
    BY <1>4 DEF CommitMarked
  <2>2. Now' = c /\ Kept' = Kept \cup {c}
    BY <1>2, <2>1, CatalogAppend
  <2> QED
    BY <1>4, <2>2 DEF CommitMarked
<1> QED
  BY <1>3, <1>4

-----------------------------------------------------------------------------
(* Types                                                                   *)

LEMMA WalType ==
    ASSUME TypeOK
    PROVE  /\ wal \in Seq(Transaction) /\ Len(wal) \in Nat
           /\ committed \in Nat /\ committed <= Len(wal)
BY SyncAssumption DEF TypeOK

LEMMA AppendType ==
    ASSUME TypeOK, NEW c \in [Table -> RelState]
    PROVE  Append(db, c) \in Seq([Table -> RelState]) /\ Append(db, c) # <<>>
<1>1. db \in Seq([Table -> RelState])
  BY DEF TypeOK
<1> QED
  BY <1>1

LEMMA LoggedType ==
    ASSUME TypeOK, NEW t \in Table, NEW e \in RelState, Logged(t, e)
    PROVE  db' \in Seq([Table -> RelState]) /\ db' # <<>>
<1> DEFINE c == [Now EXCEPT ![t] = e]
<1>1. c \in [Table -> RelState]
  BY CatalogType
<1>2. db' \in {db, Append(db, c)}
  BY DEF Logged
<1>3. db \in Seq([Table -> RelState]) /\ db # <<>>
  BY DEF TypeOK
<1> HIDE DEF c
<1> QED
  BY <1>1, <1>2, <1>3, AppendType

LEMMA CommitType ==
    ASSUME TypeOK, NEW t \in Table, NEW e \in RelState, Commit(t, e)
    PROVE  /\ db' \in Seq([Table -> RelState]) /\ db' # <<>>
           /\ validity' \in {"valid", "pending", "invalid"}
BY LoggedType DEF Commit, TypeOK

LEMMA CommitMarkedType ==
    ASSUME TypeOK, CommitMarked
    PROVE  /\ db' \in Seq([Table -> RelState]) /\ db' # <<>>
           /\ validity' \in {"valid", "pending", "invalid"}
           /\ marked' = {}
<1>1. Now \in [Table -> RelState] /\ current_lsn \in Nat
  BY CatalogType DEF TypeOK
<1> DEFINE c == [t \in Table |-> IF t \in marked
                              THEN [state |-> "r", lsn |-> current_lsn, origin |-> 0]
                              ELSE Now[t]]
<1>2. c \in [Table -> RelState]
  BY <1>1 DEF RelState, CatalogState
<1>3. db' \in {db, Append(db, c)}
  BY DEF CommitMarked
<1>4. db \in Seq([Table -> RelState]) /\ db # <<>>
  BY DEF TypeOK
<1>5. validity' \in {"valid", "pending", "invalid"} /\ marked' = {}
  BY DEF CommitMarked, TypeOK
<1> HIDE DEF c
<1> QED
  BY <1>2, <1>3, <1>4, <1>5, AppendType

LEMMA NoWorkerType == NoWorker \in SyncWorker
BY DEF NoWorker, SyncWorker, Place, MemoryState, CatalogState, Message

(* The leader's cache, after it may have been read again.                  *)
LEMMA BeginScanType ==
    ASSUME TypeOK, NEW lsn \in Nat, NEW accept \in BOOLEAN, BeginScan(lsn, accept)
    PROVE  /\ cache' \in [Table -> Cached] /\ validity' \in {"valid", "pending", "invalid"}
           /\ scan' \in SUBSET Table /\ current_lsn' \in Nat
<1>1. \A t \in Table : [state |-> Now[t].state, lsn |-> Now[t].lsn] \in Cached
  BY CatalogType DEF RelState, Cached, MemoryState
<1> QED
  BY <1>1, Zenon DEF BeginScan, TypeOK

(* A worker that has come to lsn.                                          *)
LEMMA SyncedToType ==
    ASSUME NEW w \in SyncWorker, NEW lsn \in Nat
    PROVE  SyncedTo(w, lsn) \in SyncWorker
BY Zenon DEF SyncedTo, SyncWorker, Place, MemoryState, CatalogState

(* Spending a fault.                                                       *)
LEMMA SpendType ==
    ASSUME TypeOK, NEW e \in Event, Spend(e)
    PROVE  used' \in [Event -> Nat]
BY DEF TypeOK, Spend

LEMMA CrashType ==
    ASSUME TypeOK, Crash, used' \in [Event -> Nat]
    PROVE  TypeOK'
<1>1. db[1] \in [Table -> RelState]
  BY CatalogType
<1>2. <<db[1]>> \in Seq([Table -> RelState]) /\ <<db[1]>> # <<>>
  BY <1>1
<1>3. \A t \in Table : [state |-> "u", lsn |-> 0] \in Cached
  BY DEF Cached, MemoryState
<1> QED
  BY <1>2, <1>3, NoWorkerType, Zenon
     DEF Crash, LeaderGone, TypeOK, publisherVars, historyVars

(* Type correctness is kept: by what a worker does,                        *)
LEMMA SyncStepType ==
    ASSUME TypeOK, NEW t \in Table, SyncStep(t)
    PROVE  TypeOK'
<1> USE DEF SyncPc
<1>0. /\ sync[t] \in SyncWorker /\ Now[t] \in RelState /\ db[1] \in [Table -> RelState]
      /\ Now \in [Table -> RelState]
      /\ sync \in [Table -> SyncWorker] /\ slot \in [Table -> BOOLEAN]
  BY CatalogType DEF TypeOK
<1>1. CASE SyncNothingToDo(t)
  BY <1>0, <1>1, NoWorkerType
     DEF SyncNothingToDo, SyncGone, TypeOK, publisherVars, leaderVars, historyVars
<1>2. CASE SyncBegin(t)
  <2>1. [Now[t] EXCEPT !.state = "d", !.lsn = 0] \in RelState
    BY <1>0, Zenon DEF RelState, CatalogState
  <2>2. /\ db' \in Seq([Table -> RelState]) /\ db' # <<>>
        /\ validity' \in {"valid", "pending", "invalid"}
    BY <1>2, <2>1, CommitType, Zenon DEF SyncBegin
  <2>3. sync' \in [Table -> SyncWorker] /\ slot' \in [Table -> BOOLEAN]
    BY <1>0, <1>2, Zenon DEF SyncBegin, SyncWorker, Place, MemoryState, CatalogState
  <2> QED
    BY <1>2, <2>2, <2>3, Zenon DEF SyncBegin, TypeOK, publisherVars, historyVars
<1>3. CASE CreateSlot(t)
  <2>1. committed \in Nat /\ PastLsn(committed) \in Nat
    BY WalType, Positions
  <2>2. Snapshot(wal, t, committed) \in SUBSET Message
    BY <2>1, SnapshotType DEF Message
  <2>3. sync' \in [Table -> SyncWorker]
    BY <1>0, <1>3, <2>1, <2>2, Zenon DEF CreateSlot, SyncWorker, Place
  <2> QED
    BY <1>3, <2>1, <2>3, Zenon DEF CreateSlot, TypeOK, publisherVars, leaderVars
<1>4. CASE CreateSlotFails(t)
  BY <1>4, NoWorkerType
     DEF CreateSlotFails, SyncGone, TypeOK, publisherVars, leaderVars, historyVars
<1>5. CASE CopyRow(t)
  <2>1. PICK m \in sync[t].todo : CopyOne(t, m)
    BY <1>5 DEF CopyRow
  <2>2. m \in Message
    BY <1>0, <2>1 DEF SyncWorker
  <2>3. sync' \in [Table -> SyncWorker]
    BY <1>0, <2>1, Zenon DEF CopyOne, SyncWorker
  <2> QED
    BY <2>1, <2>2, <2>3, Zenon DEF CopyOne, SyncSends, TypeOK, publisherVars, leaderVars
<1>6. CASE CopyNullRow(t)
  BY <1>6, CrashType, Zenon DEF CopyNullRow, TypeOK
<1>7. CASE CopyBinaryRow(t)
  <2>1. sync' \in [Table -> SyncWorker]
    BY <1>0, <1>7 DEF CopyBinaryRow, SyncWorker
  <2> QED
    BY <1>7, <2>1, Zenon DEF CopyBinaryRow, TypeOK, publisherVars, leaderVars, historyVars
<1>8. CASE FinishCopy(t)
  <2>1. [state |-> "f", lsn |-> 0, origin |-> sync[t].origin_startpos] \in RelState
    BY <1>0, Zenon DEF RelState, CatalogState, SyncWorker
  <2>2. /\ db' \in Seq([Table -> RelState]) /\ db' # <<>>
        /\ validity' \in {"valid", "pending", "invalid"}
    BY <1>8, <2>1, CommitType DEF FinishCopy
  <2>3. sync' \in [Table -> SyncWorker]
    BY <1>0, <1>8, Zenon DEF FinishCopy, SyncWait, SyncWorker, Place, MemoryState
  <2> QED
    BY <1>8, <2>2, <2>3, Zenon DEF FinishCopy, TypeOK, publisherVars, historyVars
<1>9. CASE SyncResume(t)
  <2>1. sync' \in [Table -> SyncWorker]
    BY <1>0, <1>9, Zenon DEF SyncResume, SyncWait, SyncWorker, RelState, Place, MemoryState
  <2> QED
    BY <1>9, <2>1 DEF SyncResume, TypeOK, publisherVars, leaderVars, historyVars
<1>10. CASE CloseCopy(t)
  <2>1. sync' \in [Table -> SyncWorker]
    BY <1>0, <1>10, Positions, Zenon DEF CloseCopy, SyncWorker, Place
  <2> QED
    BY <1>10, <2>1, Zenon DEF CloseCopy, TypeOK, publisherVars, leaderVars, historyVars
<1>11. CASE CloseCopyCrash(t)
  BY <1>11, CrashType, Zenon DEF CloseCopyCrash, TypeOK
<1>12. CASE SyncApply(t)
  <2> DEFINE i == sync[t].pos + 1
             w == [sync[t] EXCEPT !.pos = i, !.recv = Later(sync[t].recv, EndLsn(i))]
  <2>0. sync[t].pos \in Nat /\ sync[t].pos < committed
    BY <1>0, <1>12 DEF SyncApply, SyncWorker
  <2>1. i \in Nat /\ i \in 1..Len(wal) /\ EndLsn(i) \in Nat
    BY <2>0, WalType DEF EndLsn
  <2>2. w \in SyncWorker
    BY <1>0, <2>1, LaterType, Zenon DEF SyncWorker
  <2>3. SyncedTo(w, EndLsn(i)) \in SyncWorker
    BY <2>1, <2>2, SyncedToType
  <2>4. ChangeOf(wal, i) \in Message
    BY <2>1, WalType, ChangeType DEF Message
  <2>5. sync' = [sync EXCEPT ![t] = SyncedTo(w, EndLsn(i))] /\ SyncSends(t, ChangeOf(wal, i))
    BY <1>12 DEF SyncApply
  <2> HIDE DEF i, w
  <2> QED
    BY <1>12, <2>3, <2>4, <2>5 DEF SyncApply, SyncSends, TypeOK, publisherVars, leaderVars
<1>13. CASE SyncKeepalive(t)
  <2>1. Later(sync[t].recv, PastLsn(committed)) \in Nat
    BY <1>0, WalType, Positions, LaterType, Zenon DEF SyncWorker
  <2>2. sync' \in [Table -> SyncWorker]
    BY <1>0, <1>13, <2>1, Zenon DEF SyncKeepalive, SyncWorker
  <2> QED
    BY <1>13, <2>2, Zenon DEF SyncKeepalive, TypeOK, publisherVars, leaderVars, historyVars
<1>14. CASE SyncRound(t)
  <2>1. SyncedTo(sync[t], sync[t].recv) \in SyncWorker
    BY <1>0, SyncedToType, Zenon DEF SyncWorker
  <2> QED
    BY <1>14, <2>1 DEF SyncRound, TypeOK, publisherVars, leaderVars, historyVars
<1>15. CASE DropSyncSlot(t)
  <2>1. sync' \in [Table -> SyncWorker]
    BY <1>0, <1>15, Zenon DEF DropSyncSlot, SyncWorker, Place
  <2> QED
    BY <1>15, <2>1, Zenon DEF DropSyncSlot, TypeOK, publisherVars, leaderVars, historyVars
<1>16. CASE CommitSyncDone(t)
  <2>1. [Now[t] EXCEPT !.state = "s", !.lsn = sync[t].relstate_lsn] \in RelState
    BY <1>0, Zenon DEF RelState, CatalogState, SyncWorker
  <2>2. /\ db' \in Seq([Table -> RelState]) /\ db' # <<>>
        /\ validity' \in {"valid", "pending", "invalid"}
    BY <1>16, <2>1, CommitType DEF CommitSyncDone
  <2>3. sync' \in [Table -> SyncWorker]
    BY <1>0, <1>16, Zenon DEF CommitSyncDone, SyncWorker, Place
  <2> QED
    BY <1>16, <2>2, <2>3, Zenon DEF CommitSyncDone, TypeOK, publisherVars, historyVars
<1>17. CASE FinishSync(t)
  <2>1. [Now[t] EXCEPT !.origin = 0] \in RelState
    BY <1>0, Zenon DEF RelState
  <2>2. db' \in Seq([Table -> RelState]) /\ db' # <<>>
    BY <1>17, <2>1, LoggedType, Zenon DEF FinishSync
  <2> QED
    BY <1>17, <2>2, NoWorkerType
       DEF FinishSync, SyncGone, TypeOK, publisherVars, leaderVars, historyVars
<1> QED
  BY <1>1, <1>2, <1>3, <1>4, <1>5, <1>6, <1>7, <1>8, <1>9, <1>10, <1>11, <1>12, <1>13,
     <1>14, <1>15, <1>16, <1>17 DEF SyncStep

(* by what the leader does,                                                *)
LEMMA LeaderStepType ==
    ASSUME TypeOK, LeaderStep
    PROVE  TypeOK'
<1>1. CASE StartLeader
  <2>1. lpos \in Nat /\ lpos <= committed /\ committed \in Nat
    BY WalType DEF TypeOK
  <2>2. lpos' \in 0..committed
    BY <1>1, <2>1 DEF StartLeader
  <2>3. last_received' \in Nat
    BY <1>1, <2>2 DEF StartLeader, EndLsn
  <2> QED
    BY <1>1, <2>2, <2>3 DEF StartLeader, TypeOK, publisherVars, historyVars
<1>2. CASE LeaderApply
  <2>1. lpos \in Nat /\ lpos < committed /\ committed \in Nat /\ lpos' = lpos + 1
    BY <1>2, WalType DEF LeaderApply, TypeOK
  <2>2. EndLsn(lpos') \in Nat /\ last_received' \in Nat /\ lmax' \in Nat
    BY <1>2, <2>1, LaterType DEF LeaderApply, EndLsn, TypeOK
  <2>3. \E accept \in BOOLEAN : BeginScan(EndLsn(lpos'), accept)
    BY <1>2 DEF LeaderApply
  <2>4. /\ cache' \in [Table -> Cached] /\ validity' \in {"valid", "pending", "invalid"}
        /\ scan' \in SUBSET Table /\ current_lsn' \in Nat
    BY <2>2, <2>3, BeginScanType
  <2>5. lpos' \in 0..committed
    BY <2>1
  <2> QED
    BY <1>2, <2>2, <2>4, <2>5 DEF LeaderApply, TypeOK, publisherVars
<1>3. CASE LeaderKeepalive
  <2>1. last_received' \in Nat
    BY <1>3, WalType, Positions, LaterType, Zenon DEF LeaderKeepalive, TypeOK
  <2> QED
    BY <1>3, <2>1 DEF LeaderKeepalive, TypeOK, publisherVars, historyVars
<1>4. CASE LeaderRound
  <2>1. /\ cache' \in [Table -> Cached] /\ validity' \in {"valid", "pending", "invalid"}
        /\ scan' \in SUBSET Table /\ current_lsn' \in Nat
    BY <1>4, BeginScanType, Zenon DEF LeaderRound, TypeOK
  <2> QED
    BY <1>4, <2>1 DEF LeaderRound, TypeOK, publisherVars, historyVars
<1>5. CASE LeaderWaitEnds
  BY <1>5 DEF LeaderWaitEnds, TypeOK, publisherVars, historyVars
<1>6. CASE ScanEnds
  <2>1. /\ db' \in Seq([Table -> RelState]) /\ db' # <<>>
        /\ validity' \in {"valid", "pending", "invalid"}
        /\ marked' = {}
    BY <1>6, CommitMarkedType DEF ScanEnds
  <2> QED
    BY <1>6, <2>1 DEF ScanEnds, TypeOK, publisherVars, historyVars
<1>7. ASSUME NEW t \in Table, ScanReady(t) PROVE TypeOK'
  BY <1>7 DEF ScanReady, TypeOK, publisherVars, historyVars
<1>8. ASSUME NEW t \in Table, ScanBehind(t) PROVE TypeOK'
  BY <1>8 DEF ScanBehind, TypeOK, publisherVars, historyVars
<1>9. ASSUME NEW t \in Table, ScanWorker(t) PROVE TypeOK'
  <2>1. [state |-> sync[t].relstate, lsn |-> sync[t].relstate_lsn] \in Cached
    BY DEF TypeOK, SyncWorker, Cached
  <2> QED
    BY <1>9, <2>1, Zenon DEF ScanWorker, TypeOK, publisherVars, historyVars
<1>10. ASSUME NEW t \in Table, ScanCatchup(t) PROVE TypeOK'
  <2>0. sync \in [Table -> SyncWorker] /\ sync[t].relstate_lsn \in Nat /\ current_lsn \in Nat
    BY DEF TypeOK, SyncWorker
  <2>1. [state |-> "w", lsn |-> sync[t].relstate_lsn] \in Cached
    BY <2>0 DEF Cached, MemoryState
  <2>2. Later(sync[t].relstate_lsn, current_lsn) \in Nat
    BY <2>0, LaterType
  <2> DEFINE n == Later(sync[t].relstate_lsn, current_lsn)
  <2>3. sync' \in [Table -> SyncWorker]
    <3>1. sync' = [sync EXCEPT ![t].relstate = "c", ![t].relstate_lsn = n]
      BY <1>10 DEF ScanCatchup
    <3>2. n \in Nat /\ sync[t] \in SyncWorker
      BY <2>0, <2>2
    <3> HIDE DEF n
    <3>3. [sync[t] EXCEPT !.relstate = "c", !.relstate_lsn = n] \in SyncWorker
      BY <3>2, Zenon DEF SyncWorker, MemoryState
    <3> QED
      BY <2>0, <3>1, <3>3
  <2>4. /\ db' \in Seq([Table -> RelState]) /\ db' # <<>>
        /\ validity' \in {"valid", "pending", "invalid"}
        /\ marked' = {}
    BY <1>10, CommitMarkedType, Zenon DEF ScanCatchup
  <2> QED
    BY <1>10, <2>1, <2>3, <2>4, Zenon DEF ScanCatchup, TypeOK, publisherVars, historyVars
<1>11. ASSUME NEW t \in Table, LaunchSync(t) PROVE TypeOK'
  <2>1. [NoWorker EXCEPT !.pc = "start"] \in SyncWorker
    BY NoWorkerType DEF SyncWorker, Place
  <2> QED
    BY <1>11, <2>1, Zenon DEF LaunchSync, TypeOK, publisherVars, historyVars
<1>12. ASSUME NEW t \in Table, LaunchLater(t) PROVE TypeOK'
  BY <1>12 DEF LaunchLater, TypeOK, publisherVars, historyVars
<1> QED
  BY <1>1, <1>2, <1>3, <1>4, <1>5, <1>6, <1>7, <1>8, <1>9, <1>10, <1>11, <1>12 DEF LeaderStep

(* by a fault, by the publisher and by the WAL writer.                     *)
LEMMA TypeStep ==
    ASSUME TypeOK, [Next]_vars
    PROVE  TypeOK'
<1>1. CASE PublisherCommit
  <2>1. committed' \in 0..Len(wal) /\ 0..committed \subseteq 0..committed'
    BY <1>1, WalType DEF PublisherCommit
  <2> QED
    BY <1>1, <2>1 DEF PublisherCommit, TypeOK, leaderVars, historyVars
<1>2. CASE WalWriter
  <2>1. PICK n \in 2..Len(db) : db' = SubSeq(db, n, Len(db))
    BY <1>2 DEF WalWriter
  <2>2. db \in Seq([Table -> RelState]) /\ Len(db) \in Nat
    BY DEF TypeOK
  <2>3. db' \in Seq([Table -> RelState]) /\ Len(db') = Len(db) - n + 1
    BY <2>1, <2>2
  <2>4. db' # <<>>
    BY <2>2, <2>3
  <2> QED
    BY <1>2, <2>3, <2>4, Zenon DEF WalWriter, TypeOK, publisherVars, leaderVars, historyVars
<1>3. CASE LeaderStep
  BY <1>3, LeaderStepType
<1>4. CASE ServerCrash
  BY <1>4, SpendType, CrashType DEF ServerCrash, Event
<1>5. CASE LeaderExit
  <2>1. used' \in [Event -> Nat]
    BY <1>5, SpendType DEF LeaderExit, Event
  <2>2. [state |-> "u", lsn |-> 0] \in Cached
    BY DEF Cached, MemoryState
  <2> QED
    BY <1>5, <2>1, <2>2, Zenon DEF LeaderExit, LeaderGone, TypeOK, publisherVars, historyVars
<1>6. ASSUME NEW t \in Table, SyncError(t) PROVE TypeOK'
  <2>1. used' \in [Event -> Nat]
    BY <1>6, SpendType DEF SyncError, Event
  <2> QED
    BY <1>6, <2>1, NoWorkerType
       DEF SyncError, SyncGone, TypeOK, publisherVars, leaderVars, historyVars
<1>7. ASSUME NEW t \in Table, RelInvalidated(t) PROVE TypeOK'
  <2>1. used' \in [Event -> Nat]
    BY <1>7, SpendType DEF RelInvalidated, Event
  <2>2. sync \in [Table -> SyncWorker]
    BY DEF TypeOK
  <2>3. sync' \in [Table -> SyncWorker]
    BY <1>7, <2>2 DEF RelInvalidated, SyncWorker
  <2> QED
    BY <1>7, <2>1, <2>3, Zenon DEF RelInvalidated, TypeOK, publisherVars, leaderVars, historyVars
<1>8. ASSUME NEW t \in Table, SyncStep(t) PROVE TypeOK'
  BY <1>8, SyncStepType
<1>9. CASE UNCHANGED vars
  BY <1>9 DEF vars, publisherVars, leaderVars, historyVars, TypeOK
<1> QED
  BY <1>1, <1>2, <1>3, <1>4, <1>5, <1>6, <1>7, <1>8, <1>9 DEF Next, Fault

LEMMA TypeInit ==
    ASSUME Init
    PROVE  TypeOK
<1>1. [state |-> "i", lsn |-> 0, origin |-> 0] \in RelState
  BY DEF RelState, CatalogState
<1>2. cache \in [Table -> Cached]
  BY DEF Init, Cached, MemoryState
<1>3. wal \in Workloads /\ committed \in 0..Len(wal) /\ lpos \in 0..committed
  BY SyncAssumption DEF Init
<1> DEFINE c == [t \in Table |-> [state |-> "i", lsn |-> 0, origin |-> 0]]
<1>4. c \in [Table -> RelState]
  BY <1>1
<1>5. db = <<c>>
  BY DEF Init
<1>6. db \in Seq([Table -> RelState]) /\ db # <<>>
  <2> HIDE DEF c
  <2> QED
    BY <1>4, <1>5
<1>7. sync \in [Table -> SyncWorker]
  BY NoWorkerType DEF Init
<1>8. used \in [Event -> Nat] /\ from \in [Table -> Nat]
  BY DEF Init
<1> QED
  BY <1>2, <1>3, <1>6, <1>7, <1>8, Zenon DEF Init, TypeOK

(* The state of leader and workers keeps its type.                         *)
THEOREM TypeCorrect == Spec => []TypeOK
BY TypeInit, TypeStep, PTL DEF Spec

-----------------------------------------------------------------------------
(* The inductive invariant                                                 *)

(* How many transactions an entry of pg_subscription_rel says are sent.    *)
Upto(e) == IF e.state \in {"s", "r"} THEN Before(e.lsn) ELSE 0

(* An entry is true of what was sent, and has the origin its state needs.  *)
EntryTrue(e, t) ==
    /\ e.state \in {"f", "s", "r"} /\ ~binary => Snapshot(wal, t, from[t]) \subseteq Sent
    /\ e.state \in {"s", "r"} => Changes(wal, t, from[t], Before(e.lsn)) \subseteq Sent
    /\ e.state \in {"i", "d", "r"} => e.origin = 0
    /\ e.state = "f" => e.origin = PastLsn(from[t])
    /\ Upto(e) <= Len(wal)

(* Entry a is not ahead of the later entry b.                              *)
Behind(a, b) ==
    /\ a.state = "f" => b.state \in {"f", "s", "r"}
    /\ a.state = "s" => b.state \in {"s", "r"}
    /\ a.state = "r" => b.state = "r"
    /\ Upto(a) <= Upto(b)

NowTrue(t) == EntryTrue(Now[t], t)

(* Whatever a crash leaves of the catalog is true, and not ahead of it.    *)
CatalogInv ==
    \A c \in Kept : \A t \in Table : EntryTrue(c[t], t) /\ Behind(c[t], Now[t])

(* Where the worker of t is, and what the entry of t says.                 *)
PlaceInv(t) ==
    /\ SyncPc(t) \in {"datasync", "copy"} => Now[t].state = "d"
    /\ SyncPc(t) \in {"wait", "stream", "done", "dropped"} => Now[t].state = "f"
    /\ SyncPc(t) = "committed" =>
          /\ Now[t].state \in {"s", "r"}
          /\ Now[t].state = "s" => Now[t].lsn = sync[t].relstate_lsn
    /\ sync[t].relstate \in {"w", "c"} => SyncPc(t) \in {"wait", "stream"}
    /\ sync[t].relstate = "s" <=> SyncPc(t) \in {"done", "dropped", "committed"}

(* The changes up to k that are not in the copy of t.                      *)
Followed(t, k) == {ChangeOf(wal, i) : i \in from[t] + 1..k}

(* What the worker of t has sent of the copy and of the changes after it.  *)
ProgressInv(t) ==
    /\ from[t] <= committed
    /\ SyncPc(t) = "copy" =>
          /\ sync[t].todo \subseteq Snapshot(wal, t, from[t])
          /\ ~binary => Snapshot(wal, t, from[t]) \ sync[t].todo \subseteq bySync[t]
    /\ SyncPc(t) \in {"copy", "wait"} => sync[t].origin_startpos = PastLsn(from[t])
    /\ SyncPc(t) \in {"stream", "done", "dropped"} =>
          /\ from[t] <= sync[t].pos /\ sync[t].pos <= committed
          /\ Before(sync[t].recv) <= sync[t].pos
          /\ Followed(t, sync[t].pos) \subseteq bySync[t]
    /\ SyncPc(t) \in {"done", "dropped"} => Before(sync[t].relstate_lsn) <= sync[t].pos

(* The slot is there for the worker that will stream from it.              *)
SlotInv(t) ==
    /\ SyncPc(t) \in {"copy", "stream", "done"} => slot[t]
    /\ SyncPc(t) = "wait" /\ sync[t].rel # "null" => slot[t]

WorkerInv(t) == PlaceInv(t) /\ ProgressInv(t) /\ SlotInv(t)

(* The leader has sent everything up to each position it uses.             *)
LeaderInv ==
    /\ lpos <= lmax /\ lmax <= committed
    /\ Before(last_received) <= lpos
    /\ Before(current_lsn) <= lpos
    /\ ~up => scan = {} /\ marked = {} /\ waiting = {} /\ validity = "invalid" /\ current_lsn = 0

(* A cached SYNCDONE is in the catalog, or in the memory of a worker that  *)
(* has not committed it, or was and the worker is gone.                    *)
CacheInv(t) ==
    cache[t].state = "s" =>
        /\ up
        /\ Now[t].state \in {"f", "s", "r"}
        /\ Now[t].state = "s" => cache[t].lsn = Now[t].lsn
        /\ Now[t].state = "f" => \/ SyncPc(t) = "none"
                                 \/ /\ SyncPc(t) \in {"done", "dropped"}
                                    /\ cache[t].lsn = sync[t].relstate_lsn

(* A table about to become READY was SYNCDONE for the leader, and no       *)
(* worker is at it.                                                        *)
MarkedInv(t) ==
    t \in marked =>
        /\ t \notin scan
        /\ Now[t].state \in {"f", "s"}
        /\ cache[t].state = "s" /\ cache[t].lsn <= current_lsn
        /\ Now[t].state = "f" => SyncPc(t) = "none"

(* A READY table is not looked at again.                                   *)
ReadyInv(t) ==
    Now[t].state = "r" => /\ t \notin scan
                          /\ validity = "invalid" \/ cache[t].state = "r"

(* The worker the leader waits for will not stop short of the leader.      *)
WaitInv(t) ==
    t \in waiting =>
        \/ /\ SyncPc(t) \in {"wait", "stream", "done", "dropped"}
           /\ sync[t].relstate \in {"c", "s"} /\ sync[t].relstate_lsn >= current_lsn
        \/ /\ SyncPc(t) \in {"none", "committed"}
           /\ Now[t].state = "s" => Now[t].lsn >= current_lsn

(* What the leader holds about t is true.                                  *)
ViewInv(t) == CacheInv(t) /\ MarkedInv(t) /\ ReadyInv(t) /\ WaitInv(t)

IInv == CatalogInv /\ LeaderInv /\ \A t \in Table : WorkerInv(t) /\ ViewInv(t)

-----------------------------------------------------------------------------
(* Frames: what a step leaves alone                                        *)

(* What was sent stays sent.                                               *)
LEMMA SentGrows ==
    ASSUME wal' = wal, \A t \in Table : bySync[t] \subseteq bySync'[t],
           lmax \in Nat, lmax' \in Nat, lmax <= lmax'
    PROVE  Sent \subseteq Sent'
<1>1. {ChangeOf(wal, i) : i \in 1..lmax} \subseteq {ChangeOf(wal, i)' : i \in 1..lmax'}
  BY DEF ChangeOf
<1>2. UNION {bySync[t] : t \in Table} \subseteq UNION {bySync'[t] : t \in Table}
  OBVIOUS
<1> QED
  BY <1>1, <1>2 DEF Sent

(* What a worker of t has sent, and what the leader has.                   *)
LEMMA SentBy ==
    /\ \A t \in Table : bySync[t] \subseteq Sent
    /\ {ChangeOf(wal, i) : i \in 1..lmax} \subseteq Sent
<1> DEFINE ofWorkers == UNION {bySync[t] : t \in Table}
           ofLeader == {ChangeOf(wal, i) : i \in 1..lmax}
<1>1. Sent = ofWorkers \cup ofLeader
  BY DEF Sent
<1>2. \A t \in Table : bySync[t] \subseteq ofWorkers
  OBVIOUS
<1> HIDE DEF ofWorkers, ofLeader
<1>3. ofLeader \subseteq Sent /\ ofWorkers \subseteq Sent
  BY <1>1
<1> QED
  BY <1>2, <1>3 DEF ofLeader

LEMMA UptoType ==
    ASSUME NEW e \in RelState
    PROVE  Upto(e) \in Nat
BY Positions DEF RelState, Upto

LEMMA BehindTransitive ==
    ASSUME NEW a \in RelState, NEW b \in RelState, NEW c \in RelState,
           Behind(a, b), Behind(b, c)
    PROVE  Behind(a, c)
<1>1. Upto(a) <= Upto(c)
  BY UptoType DEF Behind
<1> QED
  BY <1>1 DEF Behind

(* Entries that were true stay true; a table that gets a new snapshot has  *)
(* no entry that speaks of the old one; and a new catalog has to be true.  *)
LEMMA CatalogStep ==
    ASSUME TypeOK, TypeOK', CatalogInv, UNCHANGED <<wal, binary>>, Sent \subseteq Sent',
           \A t \in Table : from'[t] = from[t] \/ Now[t].state \in {"i", "d"},
           Kept' \subseteq Kept \cup {Now'},
           \A t \in Table : \/ Now'[t] = Now[t]
                            \/ NowTrue(t)' /\ Behind(Now[t], Now'[t])
    PROVE  CatalogInv'
<1>0. /\ Kept \subseteq [Table -> RelState]
      /\ Now \in Kept /\ Now \in [Table -> RelState] /\ Now' \in [Table -> RelState]
  <2>0. db' \in Seq([Table -> RelState]) /\ db' # <<>>
    BY Zenon DEF TypeOK
  <2>1. Kept' \subseteq [Table -> RelState] /\ Now' \in Kept'
    BY <2>0, CatalogsOf, Zenon DEF Kept, Now
  <2> QED
    BY <2>1, CatalogType
<1>1. ASSUME NEW c \in Kept, NEW t \in Table
      PROVE  EntryTrue(c[t], t)'
  <2>1. EntryTrue(c[t], t) /\ Behind(c[t], Now[t])
    BY DEF CatalogInv
  <2>2. CASE from'[t] = from[t]
    BY <2>1, <2>2, Zenon DEF EntryTrue, Upto
  <2>3. CASE Now[t].state \in {"i", "d"}
    <3>1. c[t].state \in {"i", "d"}
      <4>1. c[t].state \in CatalogState
        BY <1>0 DEF RelState
      <4> QED
        BY <2>1, <2>3, <4>1, Zenon DEF Behind, CatalogState
    <3> QED
      BY <2>1, <3>1, Zenon DEF EntryTrue, Upto
  <2> QED
    BY <2>2, <2>3
<1>2. ASSUME NEW c \in Kept, NEW t \in Table
      PROVE  Behind(c[t], Now'[t])
  <2>1. Behind(c[t], Now[t])
    BY DEF CatalogInv
  <2>2. c[t] \in RelState /\ Now[t] \in RelState /\ Now'[t] \in RelState
    BY <1>0
  <2> QED
    BY <2>1, <2>2, BehindTransitive
<1>3. ASSUME NEW t \in Table
      PROVE  NowTrue(t)' /\ Behind(Now'[t], Now'[t])
  <2>1. Upto(Now'[t]) \in Nat
    BY <1>0, UptoType
  <2>2. Behind(Now'[t], Now'[t])
    BY <2>1 DEF Behind
  <2>3. CASE Now'[t] = Now[t]
    <3>1. NowTrue(t)'
      BY <1>0, <1>1, <2>3 DEF NowTrue, EntryTrue, Upto
    <3> QED
      BY <2>2, <3>1
  <2> QED
    BY <2>2, <2>3
<1>4. ASSUME NEW c \in Kept', NEW t \in Table
      PROVE  EntryTrue(c[t], t)' /\ Behind(c[t], Now'[t])
  <2>1. CASE c \in Kept
    BY <1>1, <1>2, <2>1
  <2>2. CASE c = Now'
    BY <1>3, <2>2, Zenon DEF NowTrue, EntryTrue, Upto
  <2> QED
    BY <2>1, <2>2
<1> QED
  BY <1>4 DEF CatalogInv

(* The worker of a table that a step does not touch.                       *)
LEMMA WorkerFrame ==
    ASSUME TypeOK, TypeOK', NEW t \in Table, WorkerInv(t), UNCHANGED <<wal, binary>>,
           committed <= committed',
           sync'[t] = sync[t], slot'[t] = slot[t], from'[t] = from[t],
           Now'[t].state = Now[t].state, Now'[t].lsn = Now[t].lsn,
           bySync[t] \subseteq bySync'[t]
    PROVE  WorkerInv(t)'
<1>1. SlotInv(t)' /\ PlaceInv(t)'
  BY Zenon DEF WorkerInv, SlotInv, PlaceInv, SyncPc
<1>2. /\ committed \in Nat /\ committed' \in Nat /\ from[t] \in Nat /\ sync[t].pos \in Nat
  BY WalType DEF TypeOK, SyncWorker
<1>3. \A k : Followed(t, k)' = Followed(t, k)
  BY DEF Followed
<1>4. ProgressInv(t)
  BY DEF WorkerInv
<1>5. ProgressInv(t)'
  <2>1. from'[t] <= committed'
    <3>1. from[t] <= committed
      BY <1>4, Zenon DEF ProgressInv
    <3> QED
      BY <1>2, <3>1
  <2>2. (SyncPc(t) = "copy")' =>
            /\ sync'[t].todo \subseteq Snapshot(wal', t, from'[t])
            /\ ~binary' => Snapshot(wal', t, from'[t]) \ sync'[t].todo \subseteq bySync'[t]
    BY <1>4 DEF ProgressInv, SyncPc
  <2>3. (SyncPc(t) \in {"copy", "wait"})' => sync'[t].origin_startpos = PastLsn(from'[t])
    BY <1>4, Zenon DEF ProgressInv, SyncPc
  <2>4. (SyncPc(t) \in {"stream", "done", "dropped"})' =>
            /\ from'[t] <= sync'[t].pos /\ sync'[t].pos <= committed'
            /\ Before(sync'[t].recv) <= sync'[t].pos
            /\ Followed(t, sync[t].pos)' \subseteq bySync'[t]
    <3>1. Followed(t, sync[t].pos)' = Followed(t, sync[t].pos)
      BY DEF Followed
    <3>2. SyncPc(t) \in {"stream", "done", "dropped"} =>
            /\ from[t] <= sync[t].pos /\ sync[t].pos <= committed
            /\ Before(sync[t].recv) <= sync[t].pos
            /\ Followed(t, sync[t].pos) \subseteq bySync[t]
      BY <1>4, Zenon DEF ProgressInv
    <3>3. SyncPc(t)' = SyncPc(t)
      BY Zenon DEF SyncPc
    <3> QED
      BY <1>2, <3>1, <3>2, <3>3
  <2>5. (SyncPc(t) \in {"done", "dropped"})' => Before(sync'[t].relstate_lsn) <= sync'[t].pos
    BY <1>4, Zenon DEF ProgressInv, SyncPc
  <2> QED
    BY <2>1, <2>2, <2>3, <2>4, <2>5, Zenon DEF ProgressInv
<1> QED
  BY <1>1, <1>5 DEF WorkerInv

(* What the leader holds about a table that a step does not touch.         *)
LEMMA ViewFrame ==
    ASSUME NEW t \in Table, ViewInv(t), UNCHANGED <<up, current_lsn>>,
           sync'[t] = sync[t], Now'[t].state = Now[t].state, Now'[t].lsn = Now[t].lsn,
           cache'[t] = cache[t],
           t \in scan' => t \in scan, t \in marked' => t \in marked,
           t \in waiting' => t \in waiting,
           validity = "invalid" => validity' = "invalid"
    PROVE  ViewInv(t)'
<1>1. CacheInv(t)'
  BY Zenon DEF ViewInv, CacheInv, SyncPc
<1>2. MarkedInv(t)'
  BY DEF ViewInv, MarkedInv, SyncPc
<1>3. ReadyInv(t)'
  BY DEF ViewInv, ReadyInv
<1>4. WaitInv(t)'
  BY Zenon DEF ViewInv, WaitInv, SyncPc
<1> QED
  BY <1>1, <1>2, <1>3, <1>4 DEF ViewInv

(* A step that touches no other worker than that of t, and no other entry  *)
(* than t's, and leaves a true one.                                        *)
OnlyWorker(t) ==
    /\ UNCHANGED <<wal, binary, committed, up, lpos, last_received, cache, scan, marked,
                   current_lsn, waiting, lmax>>
    /\ validity' = "invalid" <=> validity = "invalid"
    /\ \A u \in Table \ {t} : /\ sync'[u] = sync[u] /\ slot'[u] = slot[u]
                              /\ from'[u] = from[u] /\ Now'[u] = Now[u]
    /\ \A u \in Table : bySync[u] \subseteq bySync'[u]
    /\ Kept' \subseteq Kept \cup {Now'}
    /\ from'[t] = from[t] \/ Now[t].state \in {"i", "d"}
    /\ Now'[t] = Now[t] \/ (NowTrue(t)' /\ Behind(Now[t], Now'[t]))

(* What is left to show of such a step is about t.                         *)
LEMMA WorkerStep ==
    ASSUME TypeOK, TypeOK', IInv, NEW t \in Table,
           OnlyWorker(t), WorkerInv(t)', ViewInv(t)'
    PROVE  IInv'
<1>1. /\ lmax \in Nat /\ lmax' \in Nat /\ lmax <= lmax'
      /\ committed \in Nat /\ committed <= committed'
  BY WalType DEF TypeOK, OnlyWorker
<1>2. wal' = wal /\ binary' = binary /\ \A u \in Table : bySync[u] \subseteq bySync'[u]
  BY DEF OnlyWorker
<1>3. Sent \subseteq Sent'
  BY <1>1, <1>2, SentGrows
<1>4. CatalogInv'
  <2>1. \A u \in Table : from'[u] = from[u] \/ Now[u].state \in {"i", "d"}
    BY DEF OnlyWorker
  <2>2. \A u \in Table : \/ Now'[u] = Now[u]
                         \/ NowTrue(u)' /\ Behind(Now[u], Now'[u])
    BY DEF OnlyWorker
  <2>3. Kept' \subseteq Kept \cup {Now'}
    BY DEF OnlyWorker
  <2>4. CatalogInv
    BY DEF IInv
  <2> QED
    BY <1>2, <1>3, <2>1, <2>2, <2>3, <2>4, CatalogStep
<1>5. LeaderInv'
  BY DEF IInv, LeaderInv, OnlyWorker
<1>6. ASSUME NEW u \in Table PROVE WorkerInv(u)' /\ ViewInv(u)'
  <2>1. CASE u = t
    BY <2>1
  <2>2. CASE u # t
    <3>1. WorkerInv(u) /\ ViewInv(u)
      BY DEF IInv
    <3>2. /\ sync'[u] = sync[u] /\ slot'[u] = slot[u] /\ from'[u] = from[u]
          /\ Now'[u].state = Now[u].state /\ Now'[u].lsn = Now[u].lsn
          /\ bySync[u] \subseteq bySync'[u] /\ cache'[u] = cache[u]
      BY <2>2 DEF OnlyWorker
    <3>3. UNCHANGED <<up, current_lsn, scan, marked, waiting>>
          /\ (validity = "invalid" => validity' = "invalid")
      BY DEF OnlyWorker
    <3>4. WorkerInv(u)'
      BY <1>1, <1>2, <3>1, <3>2, WorkerFrame, Zenon
    <3>5. ViewInv(u)'
      BY <3>1, <3>2, <3>3, ViewFrame
    <3> QED
      BY <3>4, <3>5
  <2> QED
    BY <2>1, <2>2
<1> QED
  BY <1>4, <1>5, <1>6 DEF IInv

-----------------------------------------------------------------------------
(* The steps of a worker                                                   *)

(* What is known of a table and its worker.                                *)
LEMMA Known ==
    ASSUME TypeOK, IInv, NEW t \in Table
    PROVE  /\ sync \in [Table -> SyncWorker] /\ sync[t] \in SyncWorker
           /\ Now \in [Table -> RelState] /\ Now[t] \in RelState
           /\ EntryTrue(Now[t], t) /\ PlaceInv(t) /\ ProgressInv(t) /\ SlotInv(t)
           /\ CacheInv(t) /\ MarkedInv(t) /\ ReadyInv(t) /\ WaitInv(t)
BY CatalogType DEF TypeOK, IInv, CatalogInv, WorkerInv, ViewInv

(* The worker of t starts, or goes away, with nothing else changed.        *)
LEMMA FreshWorker ==
    ASSUME TypeOK, TypeOK', IInv, NEW t \in Table,
           OnlyWorker(t), UNCHANGED <<leaderVars, historyVars>>, sync'[t] = NoWorker,
           Now'[t].state = Now[t].state, Now'[t].lsn = Now[t].lsn
    PROVE  IInv'
<1>1. WorkerInv(t)'
  <2>1. SlotInv(t)' /\ PlaceInv(t)'
    BY DEF SlotInv, PlaceInv, SyncPc, NoWorker
  <2>2. from[t] <= committed
    BY Known, Zenon DEF ProgressInv
  <2>3. from'[t] <= committed'
    BY <2>2, ZenonT(30) DEF OnlyWorker, historyVars
  <2>4. SyncPc(t)' = "none"
    BY DEF SyncPc, NoWorker
  <2>5. ProgressInv(t)'
    BY <2>3, <2>4, Zenon DEF ProgressInv
  <2> QED
    BY <2>1, <2>5 DEF WorkerInv
<1>2. ViewInv(t)'
  <2>1. CacheInv(t)' /\ MarkedInv(t)' /\ ReadyInv(t)'
    <3>1. CacheInv(t) /\ MarkedInv(t) /\ ReadyInv(t)
      BY Known, ZenonT(30)
    <3>2. SyncPc(t)' = "none"
      BY DEF SyncPc, NoWorker
    <3>3. UNCHANGED <<up, cache, scan, marked, current_lsn, validity>>
      BY DEF leaderVars
    <3> QED
      BY <3>1, <3>2, <3>3, Zenon DEF CacheInv, MarkedInv, ReadyInv
  <2>2. WaitInv(t)'
    <3>1. Now[t].state = "s" /\ t \in waiting => SyncPc(t) \in {"none", "committed"}
      BY Known, Zenon DEF PlaceInv, WaitInv
    <3> QED
      BY <3>1, Known DEF WaitInv, SyncPc, NoWorker, leaderVars
  <2> QED
    BY <2>1, <2>2, Zenon DEF ViewInv
<1> QED
  BY <1>1, <1>2, WorkerStep

LEMMA SyncNothingToDoInv ==
    ASSUME TypeOK, TypeOK', IInv, NEW t \in Table, SyncNothingToDo(t)
    PROVE  IInv'
<1>1. Now' = Now /\ Kept' \subseteq Kept \cup {Now'}
  BY CatalogSame DEF SyncNothingToDo
<1>2. sync'[t] = NoWorker /\ \A u \in Table \ {t} : sync'[u] = sync[u]
  BY Known DEF SyncNothingToDo, SyncGone
<1>3. UNCHANGED <<publisherVars, slot, leaderVars, historyVars>>
  BY Zenon DEF SyncNothingToDo
<1>4. OnlyWorker(t)
  BY <1>1, <1>2, <1>3, Zenon DEF OnlyWorker, publisherVars, leaderVars, historyVars
<1> QED
  BY <1>1, <1>2, <1>3, <1>4, FreshWorker

LEMMA CreateSlotFailsInv ==
    ASSUME TypeOK, TypeOK', IInv, NEW t \in Table, CreateSlotFails(t)
    PROVE  IInv'
<1>1. Now' = Now /\ Kept' \subseteq Kept \cup {Now'}
  BY CatalogSame DEF CreateSlotFails
<1>2. sync'[t] = NoWorker /\ \A u \in Table \ {t} : sync'[u] = sync[u] /\ slot'[u] = slot[u]
  BY Known, Zenon DEF CreateSlotFails, SyncGone, TypeOK
<1>3. UNCHANGED <<publisherVars, leaderVars, historyVars>>
  BY DEF CreateSlotFails
<1>4. OnlyWorker(t)
  BY <1>1, <1>2, <1>3, Zenon DEF OnlyWorker, publisherVars, leaderVars, historyVars
<1> QED
  BY <1>1, <1>2, <1>3, <1>4, FreshWorker

LEMMA SyncErrorInv ==
    ASSUME TypeOK, TypeOK', IInv, NEW t \in Table, SyncError(t)
    PROVE  IInv'
<1>1. Now' = Now /\ Kept' \subseteq Kept \cup {Now'}
  BY CatalogSame DEF SyncError
<1>2. sync'[t] = NoWorker /\ \A u \in Table \ {t} : sync'[u] = sync[u]
  BY Known DEF SyncError, SyncGone
<1>3. UNCHANGED <<publisherVars, slot, leaderVars, historyVars>>
  BY DEF SyncError
<1>4. OnlyWorker(t)
  BY <1>1, <1>2, <1>3 DEF OnlyWorker, publisherVars, leaderVars, historyVars
<1> QED
  BY <1>1, <1>2, <1>3, <1>4, FreshWorker

(* The origin is dropped, and SYNCDONE or READY is as true without it.     *)
LEMMA FinishSyncInv ==
    ASSUME TypeOK, TypeOK', IInv, NEW t \in Table, FinishSync(t)
    PROVE  IInv'
<1> DEFINE e == [Now[t] EXCEPT !.origin = 0]
<1>1. Now[t] \in RelState /\ Now \in [Table -> RelState]
  BY Known
<1>2. e \in RelState /\ e.state = Now[t].state /\ e.lsn = Now[t].lsn /\ e.origin = 0
  BY <1>1, Zenon DEF RelState
<1>3. Logged(t, e)
  BY DEF FinishSync
<1> HIDE DEF e
<1>4. Now' = [Now EXCEPT ![t] = e] /\ Kept' \subseteq Kept \cup {Now'}
  BY <1>2, <1>3, LoggedEffect
<1>5. /\ Now'[t].state = Now[t].state /\ Now'[t].lsn = Now[t].lsn /\ Now'[t].origin = 0
      /\ \A u \in Table \ {t} : Now'[u] = Now[u]
  BY <1>1, <1>2, <1>4
<1>6. Now[t].state \in {"s", "r"}
  BY Known, Zenon DEF FinishSync, PlaceInv
<1>7. UNCHANGED <<publisherVars, slot, leaderVars, historyVars>>
  BY DEF FinishSync
<1>8. NowTrue(t)'
  <2>1. Sent' = Sent
    BY <1>7 DEF Sent, publisherVars, historyVars
  <2> QED
    BY <1>5, <1>6, <1>7, <2>1, Known, Zenon
       DEF NowTrue, EntryTrue, Upto, publisherVars, historyVars
<1>9. Behind(Now[t], Now'[t])
  <2>1. Upto(Now[t]) \in Nat /\ Upto(Now'[t]) = Upto(Now[t])
    BY <1>1, <1>5, UptoType DEF Upto
  <2> QED
    BY <1>5, <2>1 DEF Behind
<1>10. sync'[t] = NoWorker /\ \A u \in Table \ {t} : sync'[u] = sync[u]
  BY Known DEF FinishSync, SyncGone
<1>11. OnlyWorker(t)
  BY <1>4, <1>5, <1>7, <1>8, <1>9, <1>10, Zenon
     DEF OnlyWorker, publisherVars, leaderVars, historyVars
<1> QED
  BY <1>5, <1>7, <1>10, <1>11, FreshWorker

(* DATASYNC: the entry says no more than INIT did.                         *)
LEMMA SyncBeginInv ==
    ASSUME TypeOK, TypeOK', IInv, NEW t \in Table, SyncBegin(t)
    PROVE  IInv'
<1> DEFINE e == [Now[t] EXCEPT !.state = "d", !.lsn = 0]
<1>1. e \in RelState /\ e.state = "d" /\ e.origin = Now[t].origin
  BY Known, Zenon DEF RelState, CatalogState
<1>2. Commit(t, e)
  BY DEF SyncBegin
<1> HIDE DEF e
<1>3. /\ Now' = [Now EXCEPT ![t] = e] /\ Kept' \subseteq Kept \cup {Now'}
      /\ validity' = "invalid" <=> validity = "invalid"
  BY <1>1, <1>2, CommitEffect
<1>4. Now'[t] = e /\ \A u \in Table \ {t} : Now'[u] = Now[u]
  BY <1>3, Known
<1>5. /\ sync'[t].pc = "datasync" /\ sync'[t].relstate = "d"
      /\ \A u \in Table \ {t} : sync'[u] = sync[u] /\ slot'[u] = slot[u]
  BY Known DEF SyncBegin, SyncWorker, TypeOK
<1>6. Now[t].state \in {"i", "d"} /\ SyncPc(t) = "start"
  BY DEF SyncBegin
<1>7. NowTrue(t)' /\ Behind(Now[t], Now'[t])
  <2>1. Upto(e) = 0 /\ Upto(Now[t]) = 0 /\ 0 <= Len(wal)
    BY <1>1, <1>6, WalType DEF Upto
  <2>2. Now[t].origin = 0
    BY <1>6, Known, Zenon DEF EntryTrue
  <2>3. NowTrue(t)'
    BY <1>1, <1>4, <2>1, <2>2, Zenon DEF NowTrue, EntryTrue, Upto, SyncBegin, publisherVars
  <2> QED
    BY <1>1, <1>4, <1>6, <2>1, <2>3 DEF Behind
<1>8. WorkerInv(t)'
  <2>1. SlotInv(t)' /\ PlaceInv(t)'
    BY <1>1, <1>4, <1>5 DEF SlotInv, PlaceInv, SyncPc
  <2>2. ProgressInv(t)'
    BY <1>5, Known, Zenon DEF ProgressInv, SyncPc, SyncBegin, publisherVars, historyVars
  <2> QED
    BY <2>1, <2>2 DEF WorkerInv
<1>9. ViewInv(t)'
  <2>1. cache[t].state # "s" /\ t \notin marked /\ t \notin waiting
    BY <1>6, Known, Zenon DEF CacheInv, MarkedInv, WaitInv
  <2> QED
    BY <1>1, <1>4, <2>1, Zenon
       DEF ViewInv, CacheInv, MarkedInv, ReadyInv, WaitInv, SyncBegin
<1>10. OnlyWorker(t)
  BY <1>3, <1>4, <1>5, <1>7, Zenon DEF OnlyWorker, SyncBegin, publisherVars, historyVars
<1> QED
  BY <1>8, <1>9, <1>10, WorkerStep

(* A worker's step that leaves the catalog and what was sent alone.        *)
LEMMA QuietWorker ==
    ASSUME TypeOK, TypeOK', IInv, NEW t \in Table,
           UNCHANGED <<publisherVars, leaderVars, db, historyVars>>,
           \A u \in Table \ {t} : sync'[u] = sync[u] /\ slot'[u] = slot[u],
           WorkerInv(t)', ViewInv(t)'
    PROVE  IInv'
<1>1. Now' = Now /\ Kept' \subseteq Kept \cup {Now'}
  BY CatalogSame
<1>2. OnlyWorker(t)
  BY <1>1 DEF OnlyWorker, publisherVars, leaderVars, historyVars
<1> QED
  BY <1>2, WorkerStep

(* A new snapshot, which no entry speaks of.                               *)
LEMMA CreateSlotInv ==
    ASSUME TypeOK, TypeOK', IInv, NEW t \in Table, CreateSlot(t)
    PROVE  IInv'
<1>1. Now' = Now /\ Kept' \subseteq Kept \cup {Now'}
  BY CatalogSame DEF CreateSlot
<1>2. /\ sync'[t].pc = "copy" /\ sync'[t].relstate = sync[t].relstate
      /\ sync'[t].origin_startpos = PastLsn(committed)
      /\ sync'[t].todo = Snapshot(wal, t, committed)
      /\ \A u \in Table \ {t} : sync'[u] = sync[u]
  BY Known, Zenon DEF CreateSlot, SyncWorker
<1>3. slot'[t] /\ from'[t] = committed
      /\ \A u \in Table \ {t} : slot'[u] = slot[u] /\ from'[u] = from[u]
  BY Zenon DEF CreateSlot, TypeOK
<1>4. SyncPc(t) = "datasync" /\ Now[t].state = "d"
  BY Known, Zenon DEF CreateSlot, PlaceInv
<1>5. WorkerInv(t)'
  <2>1. SlotInv(t)' /\ PlaceInv(t)'
    BY <1>1, <1>2, <1>3, <1>4, Known, Zenon DEF SlotInv, PlaceInv, SyncPc
  <2>2. committed \in Nat /\ wal' = wal /\ binary' = binary /\ committed' = committed
    BY WalType DEF CreateSlot, publisherVars
  <2>3. ProgressInv(t)'
    BY <1>2, <1>3, <2>2 DEF ProgressInv, SyncPc
  <2> QED
    BY <2>1, <2>3 DEF WorkerInv
<1>6. ViewInv(t)'
  <2>1. cache[t].state # "s" /\ t \notin marked /\ t \notin waiting
    BY <1>4, Known, Zenon DEF CacheInv, MarkedInv, WaitInv
  <2> QED
    BY <1>1, <1>4, <2>1, Zenon
       DEF ViewInv, CacheInv, MarkedInv, ReadyInv, WaitInv, CreateSlot, leaderVars
<1>7. OnlyWorker(t)
  BY <1>1, <1>2, <1>3, <1>4, Zenon DEF OnlyWorker, CreateSlot, publisherVars, leaderVars
<1> QED
  BY <1>5, <1>6, <1>7, WorkerStep

(* A row is sent, and is not to do any more.                               *)
LEMMA CopyOneInv ==
    ASSUME TypeOK, TypeOK', IInv, NEW t \in Table, NEW m, CopyOne(t, m)
    PROVE  IInv'
<1>1. Now' = Now /\ Kept' \subseteq Kept \cup {Now'}
  BY CatalogSame DEF CopyOne
<1>2. /\ sync'[t] = [sync[t] EXCEPT !.todo = @ \ {m}]
      /\ \A u \in Table \ {t} : sync'[u] = sync[u]
  BY Known DEF CopyOne
<1>3. /\ sync'[t].pc = "copy" /\ sync'[t].relstate = sync[t].relstate
      /\ sync'[t].origin_startpos = sync[t].origin_startpos
      /\ sync'[t].todo = sync[t].todo \ {m}
  BY <1>2, Known, Zenon DEF CopyOne, SyncPc, SyncWorker
<1>4. bySync'[t] = bySync[t] \cup {m} /\ \A u \in Table : bySync[u] \subseteq bySync'[u]
  BY Zenon DEF CopyOne, SyncSends, TypeOK
<1>5. SyncPc(t) = "copy" /\ Now[t].state = "d"
  BY Known, Zenon DEF CopyOne, PlaceInv
<1>6. WorkerInv(t)'
  <2>1. SlotInv(t)' /\ PlaceInv(t)'
    BY <1>1, <1>3, <1>5, Known, Zenon DEF SlotInv, PlaceInv, SyncPc, CopyOne
  <2>2. wal' = wal /\ binary' = binary /\ committed' = committed /\ from' = from
    BY DEF CopyOne, SyncSends, publisherVars
  <2>3. ProgressInv(t)'
    BY <1>3, <1>4, <1>5, <2>2, Known, Zenon DEF ProgressInv, SyncPc
  <2> QED
    BY <2>1, <2>3 DEF WorkerInv
<1>7. ViewInv(t)'
  <2>1. cache[t].state # "s" /\ t \notin marked /\ t \notin waiting
    BY <1>5, Known, Zenon DEF CacheInv, MarkedInv, WaitInv
  <2> QED
    BY <1>1, <1>5, <2>1, Zenon
       DEF ViewInv, CacheInv, MarkedInv, ReadyInv, WaitInv, CopyOne, leaderVars
<1>8. OnlyWorker(t)
  BY <1>1, <1>2, <1>4 DEF OnlyWorker, CopyOne, SyncSends, publisherVars, leaderVars
<1> QED
  BY <1>6, <1>7, <1>8, WorkerStep

LEMMA CopyBinaryRowInv ==
    ASSUME TypeOK, TypeOK', IInv, NEW t \in Table, CopyBinaryRow(t)
    PROVE  IInv'
<1>1. PICK m \in sync[t].todo : sync' = [sync EXCEPT ![t].todo = @ \ {m}]
  BY Zenon DEF CopyBinaryRow
<1>2. /\ sync'[t].pc = "copy" /\ sync'[t].relstate = sync[t].relstate
      /\ sync'[t].origin_startpos = sync[t].origin_startpos
      /\ sync'[t].todo = sync[t].todo \ {m}
      /\ \A u \in Table \ {t} : sync'[u] = sync[u]
  BY <1>1, Known, Zenon DEF CopyBinaryRow, SyncPc, SyncWorker
<1>3. Now' = Now
  BY CatalogSame DEF CopyBinaryRow
<1>4. SyncPc(t) = "copy" /\ Now[t].state = "d"
  BY Known, Zenon DEF CopyBinaryRow, PlaceInv
<1>5. WorkerInv(t)'
  <2>1. SlotInv(t)' /\ PlaceInv(t)'
    BY <1>2, <1>3, <1>4, Known, Zenon DEF SlotInv, PlaceInv, SyncPc, CopyBinaryRow
  <2>2. wal' = wal /\ binary' /\ committed' = committed /\ from' = from /\ bySync' = bySync
    BY DEF CopyBinaryRow, publisherVars, historyVars
  <2>3. ProgressInv(t)'
    BY <1>2, <1>4, <2>2, Known, Zenon DEF ProgressInv, SyncPc
  <2> QED
    BY <2>1, <2>3 DEF WorkerInv
<1>6. ViewInv(t)'
  <2>1. cache[t].state # "s" /\ t \notin marked /\ t \notin waiting
    BY <1>4, Known, Zenon DEF CacheInv, MarkedInv, WaitInv
  <2> QED
    BY <1>3, <1>4, <2>1, Zenon
       DEF ViewInv, CacheInv, MarkedInv, ReadyInv, WaitInv, CopyBinaryRow, leaderVars
<1> QED
  BY <1>2, <1>5, <1>6, QuietWorker DEF CopyBinaryRow

(* FINISHEDCOPY is true: nothing was left to copy.                         *)
LEMMA FinishCopyInv ==
    ASSUME TypeOK, TypeOK', IInv, NEW t \in Table, FinishCopy(t)
    PROVE  IInv'
<1> DEFINE e == [state |-> "f", lsn |-> 0, origin |-> sync[t].origin_startpos]
<1>1. e \in RelState /\ e.state = "f" /\ e.origin = sync[t].origin_startpos
  BY Known, Zenon DEF RelState, CatalogState, SyncWorker
<1>2. Commit(t, e)
  BY DEF FinishCopy
<1> HIDE DEF e
<1>3. /\ Now' = [Now EXCEPT ![t] = e] /\ Kept' \subseteq Kept \cup {Now'}
      /\ validity' = "invalid" <=> validity = "invalid"
  BY <1>1, <1>2, CommitEffect
<1>4. Now'[t] = e /\ \A u \in Table \ {t} : Now'[u] = Now[u]
  BY <1>3, Known
<1>5. /\ sync'[t].pc = "wait" /\ sync'[t].relstate = "w"
      /\ sync'[t].origin_startpos = sync[t].origin_startpos
      /\ \A u \in Table \ {t} : sync'[u] = sync[u]
  BY Known, Zenon DEF FinishCopy, SyncWait, SyncWorker
<1>6. SyncPc(t) = "copy" /\ Now[t].state = "d" /\ sync[t].todo = {}
  BY Known DEF FinishCopy, PlaceInv
<1>7. wal' = wal /\ binary' = binary /\ committed' = committed /\ from' = from
      /\ bySync' = bySync /\ lmax' = lmax
  BY DEF FinishCopy, publisherVars, historyVars
<1>8. NowTrue(t)' /\ Behind(Now[t], Now'[t])
  <2>1. Upto(e) = 0 /\ Upto(Now[t]) = 0 /\ 0 <= Len(wal)
    BY <1>1, <1>6, WalType DEF Upto
  <2>2. e.origin = PastLsn(from[t])
    BY <1>1, <1>6, Known, Zenon DEF ProgressInv
  <2>3. ~binary => Snapshot(wal, t, from[t]) \subseteq bySync[t]
    BY <1>6, Known, Zenon DEF ProgressInv
  <2>4. ~binary => Snapshot(wal, t, from[t]) \subseteq Sent'
    BY <1>7, <2>3, Zenon DEF Sent
  <2>5. NowTrue(t)'
    BY <1>1, <1>4, <1>7, <2>1, <2>2, <2>4 DEF NowTrue, EntryTrue, Upto
  <2> QED
    BY <1>1, <1>4, <1>6, <2>1, <2>5 DEF Behind
<1>9. WorkerInv(t)'
  <2>1. SlotInv(t)' /\ PlaceInv(t)'
    BY <1>1, <1>4, <1>5, <1>6, Known, Zenon DEF SlotInv, PlaceInv, SyncPc, FinishCopy
  <2>2. ProgressInv(t)'
    BY <1>5, <1>6, <1>7, Known, Zenon DEF ProgressInv, SyncPc
  <2> QED
    BY <2>1, <2>2 DEF WorkerInv
<1>10. ViewInv(t)'
  <2>1. cache[t].state # "s" /\ t \notin marked /\ t \notin waiting
    BY <1>6, Known, Zenon DEF CacheInv, MarkedInv, WaitInv
  <2> QED
    BY <1>1, <1>4, <2>1, Zenon
       DEF ViewInv, CacheInv, MarkedInv, ReadyInv, WaitInv, FinishCopy
<1>11. OnlyWorker(t)
  BY <1>3, <1>4, <1>5, <1>7, <1>8, Zenon DEF OnlyWorker, FinishCopy
<1> QED
  BY <1>9, <1>10, <1>11, WorkerStep

LEMMA SyncResumeInv ==
    ASSUME TypeOK, TypeOK', IInv, NEW t \in Table, SyncResume(t)
    PROVE  IInv'
<1>1. /\ sync'[t].pc = "wait" /\ sync'[t].relstate = "w" /\ sync'[t].rel = "null"
      /\ sync'[t].origin_startpos = Now[t].origin
      /\ \A u \in Table \ {t} : sync'[u] = sync[u]
  BY Known, ZenonT(30) DEF SyncResume, SyncWait, SyncWorker
<1>2. Now' = Now
  BY CatalogSame DEF SyncResume
<1>3. SyncPc(t) = "start" /\ Now[t].state = "f" /\ Now[t].origin = PastLsn(from[t])
  BY Known, Zenon DEF SyncResume, EntryTrue
<1>4. WorkerInv(t)'
  <2>1. SlotInv(t)' /\ PlaceInv(t)'
    BY <1>1, <1>2, <1>3 DEF SlotInv, PlaceInv, SyncPc
  <2>2. ProgressInv(t)'
    BY <1>1, <1>3, Known, Zenon DEF ProgressInv, SyncPc, SyncResume, publisherVars, historyVars
  <2> QED
    BY <2>1, <2>2 DEF WorkerInv
<1>5. ViewInv(t)'
  <2>1. cache[t].state # "s" /\ t \notin marked /\ t \notin waiting
    BY <1>3, Known, Zenon DEF CacheInv, MarkedInv, WaitInv
  <2> QED
    BY <1>2, <1>3, <2>1, Zenon
       DEF ViewInv, CacheInv, MarkedInv, ReadyInv, WaitInv, SyncResume, leaderVars
<1> QED
  BY <1>1, <1>4, <1>5, QuietWorker, Zenon DEF SyncResume

(* A worker between its copy and its SYNCDONE, for the leader: the place   *)
(* is all that changes.                                                    *)
LEMMA ViewOfFollowing ==
    ASSUME TypeOK, IInv, NEW t \in Table, UNCHANGED leaderVars, Now' = Now,
           SyncPc(t) \in {"wait", "stream", "done", "dropped"},
           SyncPc(t) = "stream" => (SyncPc(t) \in {"stream", "done"})',
           SyncPc(t) = "wait" => (SyncPc(t) \in {"wait", "stream"})',
           SyncPc(t) = "done" => (SyncPc(t) = "dropped")',
           SyncPc(t) # "dropped",
           sync'[t].relstate = sync[t].relstate \/ sync'[t].relstate = "s",
           sync'[t].relstate_lsn >= sync[t].relstate_lsn,
           sync'[t].relstate_lsn \in Nat,
           SyncPc(t) = "done" => sync'[t].relstate_lsn = sync[t].relstate_lsn
    PROVE  ViewInv(t)'
<1>1. Now[t].state = "f"
  BY Known, Zenon DEF PlaceInv
<1>2. CacheInv(t)' /\ MarkedInv(t)' /\ ReadyInv(t)'
  BY <1>1, Known, Zenon DEF CacheInv, MarkedInv, ReadyInv, leaderVars
<1>3. WaitInv(t)'
  <2>1. sync[t].relstate_lsn \in Nat /\ current_lsn \in Nat
    BY Known, Zenon DEF SyncWorker, TypeOK
  <2>2. (SyncPc(t) \in {"wait", "stream", "done", "dropped"})'
    BY Zenon
  <2>3. ASSUME t \in waiting
        PROVE  sync[t].relstate \in {"c", "s"} /\ sync[t].relstate_lsn >= current_lsn
    BY <2>3, Known, Zenon DEF WaitInv
  <2>4. ASSUME t \in waiting
        PROVE  sync'[t].relstate \in {"c", "s"} /\ sync'[t].relstate_lsn >= current_lsn
    BY <2>1, <2>3, <2>4
  <2>5. waiting' = waiting /\ current_lsn' = current_lsn
    BY DEF leaderVars
  <2> QED
    BY <2>2, <2>4, <2>5, Zenon DEF WaitInv
<1> QED
  BY <1>2, <1>3 DEF ViewInv

LEMMA RelInvalidatedInv ==
    ASSUME TypeOK, TypeOK', IInv, NEW t \in Table, RelInvalidated(t)
    PROVE  IInv'
<1>1. /\ sync'[t].pc = "wait" /\ sync'[t].relstate = sync[t].relstate
      /\ sync'[t].origin_startpos = sync[t].origin_startpos
      /\ sync'[t].relstate_lsn = sync[t].relstate_lsn
      /\ \A u \in Table \ {t} : sync'[u] = sync[u]
  BY Known, Zenon DEF RelInvalidated, SyncPc, SyncWorker
<1>2. Now' = Now
  BY CatalogSame DEF RelInvalidated
<1>3. SyncPc(t) = "wait" /\ sync[t].rel = "closed"
  BY DEF RelInvalidated
<1>4. WorkerInv(t)'
  <2>1. SlotInv(t)' /\ PlaceInv(t)'
    BY <1>1, <1>2, <1>3, Known, Zenon DEF SlotInv, PlaceInv, SyncPc, RelInvalidated
  <2>2. ProgressInv(t)'
    BY <1>1, <1>3, Known, Zenon DEF ProgressInv, SyncPc, RelInvalidated, publisherVars,
       historyVars
  <2> QED
    BY <2>1, <2>2 DEF WorkerInv
<1>5. ViewInv(t)'
  <2>1. sync[t].relstate_lsn \in Nat
    BY Known DEF SyncWorker
  <2> QED
    BY <1>1, <1>2, <1>3, <2>1, ViewOfFollowing DEF RelInvalidated, SyncPc
<1> QED
  BY <1>1, <1>4, <1>5, QuietWorker DEF RelInvalidated

(* Streaming starts where the snapshot ends.                               *)
LEMMA CloseCopyInv ==
    ASSUME TypeOK, TypeOK', IInv, NEW t \in Table, CloseCopy(t)
    PROVE  IInv'
<1>1. /\ sync'[t].pc = "stream" /\ sync'[t].relstate = sync[t].relstate
      /\ sync'[t].pos = Before(sync[t].origin_startpos)
      /\ sync'[t].recv = sync[t].origin_startpos
      /\ sync'[t].relstate_lsn = sync[t].relstate_lsn
      /\ \A u \in Table \ {t} : sync'[u] = sync[u]
  BY Known, Zenon DEF CloseCopy, SyncWorker
<1>2. Now' = Now
  BY CatalogSame DEF CloseCopy
<1>3. SyncPc(t) = "wait" /\ sync[t].rel # "null"
  BY DEF CloseCopy, WaitOver
<1>4. WorkerInv(t)'
  <2>1. SlotInv(t)' /\ PlaceInv(t)'
    BY <1>1, <1>2, <1>3, Known, Zenon DEF SlotInv, PlaceInv, SyncPc, CloseCopy
  <2>2. /\ sync[t].origin_startpos = PastLsn(from[t]) /\ from[t] <= committed
        /\ from[t] \in Nat /\ committed \in Nat
    BY <1>3, Known, WalType, Zenon DEF ProgressInv, TypeOK
  <2>3. Before(PastLsn(from[t])) = from[t]
    BY <2>2, Positions
  <2>4. wal' = wal /\ committed' = committed /\ from' = from
    BY DEF CloseCopy, publisherVars, historyVars
  <2>5. Followed(t, sync[t].pos)' = {}
    BY <1>1, <2>2, <2>3, <2>4 DEF Followed
  <2>6. sync'[t].pos = from[t] /\ Before(sync'[t].recv) = from[t]
    BY <1>1, <2>2, <2>3, Zenon
  <2>7. ProgressInv(t)'
    <3>1. from'[t] <= committed' /\ from'[t] <= sync'[t].pos /\ sync'[t].pos <= committed'
          /\ Before(sync'[t].recv) <= sync'[t].pos
      BY <2>2, <2>4, <2>6
    <3>2. SyncPc(t)' = "stream"
      BY <1>1, Zenon DEF SyncPc
    <3>3. Followed(t, sync[t].pos)' \subseteq bySync'[t]
      BY <2>5
    <3> QED
      BY <3>1, <3>2, <3>3, Zenon DEF ProgressInv
  <2> QED
    BY <2>1, <2>7 DEF WorkerInv
<1>5. ViewInv(t)'
  <2>1. sync[t].relstate_lsn \in Nat
    BY Known DEF SyncWorker
  <2>2. UNCHANGED leaderVars
    BY Zenon DEF CloseCopy
  <2> QED
    BY <1>1, <1>2, <1>3, <2>1, <2>2, ViewOfFollowing DEF SyncPc
<1> QED
  BY <1>1, <1>4, <1>5, QuietWorker, Zenon DEF CloseCopy

(* process_syncing_tables_for_sync() at a position the worker has reached. *)
LEMMA Arrived ==
    ASSUME TypeOK, TypeOK', IInv, NEW t \in Table, NEW w \in SyncWorker, NEW lsn \in Nat,
           UNCHANGED <<publisherVars, leaderVars, slot, from>>, Now' = Now,
           SyncPc(t) = "stream", w.pc = "stream", w.relstate = sync[t].relstate,
           w.relstate_lsn = sync[t].relstate_lsn,
           from[t] <= w.pos, w.pos <= committed,
           Before(w.recv) <= w.pos, Before(lsn) <= w.pos,
           Followed(t, w.pos) \subseteq bySync'[t],
           sync'[t] = SyncedTo(w, lsn)
    PROVE  WorkerInv(t)' /\ ViewInv(t)'
<1> DEFINE v == sync'[t]
<1>1. /\ v.pos = w.pos /\ v.recv = w.recv /\ v.relstate_lsn \in Nat
      /\ v.relstate_lsn >= w.relstate_lsn
      /\ \/ v.pc = "done" /\ v.relstate = "s" /\ v.relstate_lsn = lsn
         \/ v.pc = "stream" /\ v.relstate = w.relstate
  BY DEF SyncedTo, SyncWorker
<1>2. sync[t].relstate # "s" /\ Now[t].state = "f" /\ slot[t]
  BY Known, Zenon DEF PlaceInv, SlotInv
<1> HIDE DEF v
<1>3. wal' = wal /\ committed' = committed /\ from' = from /\ slot' = slot
  BY DEF publisherVars
<1>4. SlotInv(t)' /\ PlaceInv(t)'
  BY <1>1, <1>2, <1>3, Zenon DEF SlotInv, PlaceInv, SyncPc, v
<1>5. ProgressInv(t)'
  <2>1. Followed(t, sync[t].pos)' = Followed(t, w.pos)
    BY <1>1, <1>3, Zenon DEF Followed, v
  <2>2. from[t] <= committed
    BY Known, Zenon DEF ProgressInv
  <2> QED
    BY <1>1, <1>3, <2>1, <2>2, Zenon DEF ProgressInv, SyncPc, v
<1>6. ViewInv(t)'
  BY <1>1, ViewOfFollowing, Zenon DEF SyncPc, v
<1> QED
  BY <1>4, <1>5, <1>6 DEF WorkerInv

(* One more change is sent.                                                *)
LEMMA SyncApplyInv ==
    ASSUME TypeOK, TypeOK', IInv, NEW t \in Table, SyncApply(t)
    PROVE  IInv'
<1> DEFINE i == sync[t].pos + 1
           w == [sync[t] EXCEPT !.pos = i, !.recv = Later(sync[t].recv, EndLsn(i))]
<1>1. sync[t].pc = "stream" /\ sync[t].pos \in Nat /\ sync[t].recv \in Nat
      /\ sync[t].pos < committed /\ committed \in Nat
      /\ from[t] \in Nat /\ from[t] <= sync[t].pos /\ Before(sync[t].recv) <= sync[t].pos
      /\ Followed(t, sync[t].pos) \subseteq bySync[t]
  BY Known, WalType, Zenon DEF SyncApply, SyncWorker, ProgressInv, SyncPc, TypeOK
<1>2. i \in Nat /\ i <= committed /\ from[t] <= i /\ EndLsn(i) \in Nat
      /\ Before(EndLsn(i)) = i /\ Before(sync[t].recv) <= i
  <2>1. i \in Nat /\ i <= committed /\ from[t] <= i
    BY <1>1
  <2>2. EndLsn(i) \in Nat /\ Before(EndLsn(i)) = i /\ Before(sync[t].recv) \in Nat
    BY <1>1, <2>1, Positions, Zenon
  <2> QED
    BY <1>1, <2>1, <2>2
<1>3. Later(sync[t].recv, EndLsn(i)) \in {sync[t].recv, EndLsn(i)}
  BY <1>1, <1>2, LaterType, Zenon
<1>4. /\ w \in SyncWorker /\ w.pc = "stream" /\ w.relstate = sync[t].relstate
      /\ w.relstate_lsn = sync[t].relstate_lsn /\ w.pos = i
      /\ Before(w.recv) <= i
  <2>1. sync[t] \in SyncWorker /\ Later(sync[t].recv, EndLsn(i)) \in Nat
    BY <1>1, <1>2, <1>3, Known, Zenon
  <2>2. /\ w \in SyncWorker /\ w.pc = "stream" /\ w.relstate = sync[t].relstate
        /\ w.relstate_lsn = sync[t].relstate_lsn /\ w.pos = i
        /\ w.recv = Later(sync[t].recv, EndLsn(i))
    BY <1>1, <1>2, <2>1, Zenon DEF SyncWorker
  <2> HIDE DEF w
  <2>3. w.recv = sync[t].recv \/ w.recv = EndLsn(i)
    BY <1>3, <2>2
  <2>4. i <= i
    BY <1>2
  <2>5. Before(w.recv) <= i
    BY <1>2, <2>3, <2>4
  <2> QED
    BY <2>2, <2>5
<1>5. /\ sync' = [sync EXCEPT ![t] = SyncedTo(w, EndLsn(i))]
      /\ bySync' = [bySync EXCEPT ![t] = @ \cup {ChangeOf(wal, i)}]
  BY Zenon DEF SyncApply, SyncSends
<1>6. Followed(t, i) \subseteq bySync'[t]
  <2>1. bySync'[t] = bySync[t] \cup {ChangeOf(wal, i)}
    BY <1>5, Zenon DEF TypeOK
  <2>2. from[t] + 1..i \subseteq (from[t] + 1..sync[t].pos) \cup {i}
    BY <1>1
  <2>3. Followed(t, i) \subseteq Followed(t, sync[t].pos) \cup {ChangeOf(wal, i)}
    BY <2>2 DEF Followed
  <2> QED
    BY <1>1, <2>1, <2>3
<1> HIDE DEF i, w
<1>7. sync'[t] = SyncedTo(w, EndLsn(i)) /\ \A u \in Table \ {t} : sync'[u] = sync[u]
  BY <1>5, Known
<1>8. \A u \in Table : bySync[u] \subseteq bySync'[u]
  BY <1>5 DEF TypeOK
<1>9. Now' = Now /\ Kept' \subseteq Kept \cup {Now'}
  BY CatalogSame DEF SyncApply
<1>10. UNCHANGED <<publisherVars, leaderVars, slot, from, lmax>>
  BY DEF SyncApply, SyncSends
<1>11. WorkerInv(t)' /\ ViewInv(t)'
  <2>1. SyncPc(t) = "stream"
    BY <1>1 DEF SyncPc
  <2> QED
    BY <1>2, <1>4, <1>6, <1>7, <1>9, <1>10, <2>1, Arrived
<1>12. OnlyWorker(t)
  BY <1>7, <1>8, <1>9, <1>10, Zenon DEF OnlyWorker, publisherVars, leaderVars
<1> QED
  BY <1>11, <1>12, WorkerStep

(* The worker has everything up to what it received.                       *)
LEMMA SyncRoundInv ==
    ASSUME TypeOK, TypeOK', IInv, NEW t \in Table, SyncRound(t)
    PROVE  IInv'
<1>1. /\ SyncPc(t) = "stream" /\ sync[t].recv \in Nat
      /\ sync'[t] = SyncedTo(sync[t], sync[t].recv)
      /\ \A u \in Table \ {t} : sync'[u] = sync[u]
  BY Known, Zenon DEF SyncRound, SyncWorker
<1>2. /\ from[t] <= sync[t].pos /\ sync[t].pos <= committed
      /\ Before(sync[t].recv) <= sync[t].pos /\ Followed(t, sync[t].pos) \subseteq bySync[t]
  BY <1>1, Known, Zenon DEF ProgressInv
<1>3. Now' = Now
  BY CatalogSame DEF SyncRound
<1>4. UNCHANGED <<publisherVars, leaderVars, slot, from, bySync>>
  BY DEF SyncRound, historyVars
<1>5. WorkerInv(t)' /\ ViewInv(t)'
  BY <1>1, <1>2, <1>3, <1>4, Arrived, Known, Zenon DEF SyncPc
<1> QED
  BY <1>1, <1>5, QuietWorker DEF SyncRound

LEMMA SyncKeepaliveInv ==
    ASSUME TypeOK, TypeOK', IInv, NEW t \in Table, SyncKeepalive(t)
    PROVE  IInv'
<1>1. /\ sync'[t].pc = "stream" /\ sync'[t].relstate = sync[t].relstate
      /\ sync'[t].pos = sync[t].pos /\ sync'[t].relstate_lsn = sync[t].relstate_lsn
      /\ sync'[t].recv = Later(sync[t].recv, PastLsn(committed))
      /\ \A u \in Table \ {t} : sync'[u] = sync[u]
  BY Known, Zenon DEF SyncKeepalive, SyncPc, SyncWorker
<1>2. Now' = Now
  BY CatalogSame DEF SyncKeepalive
<1>3. SyncPc(t) = "stream" /\ sync[t].pos = committed /\ committed \in Nat
  BY WalType DEF SyncKeepalive
<1>4. WorkerInv(t)'
  <2>1. SlotInv(t)' /\ PlaceInv(t)'
    BY <1>1, <1>2, <1>3, Known, Zenon DEF SlotInv, PlaceInv, SyncPc, SyncKeepalive
  <2>2. sync[t].recv \in Nat /\ PastLsn(committed) \in Nat /\ Before(PastLsn(committed)) = committed
    BY <1>3, Known, Positions, Zenon DEF SyncWorker
  <2>3. Before(sync[t].recv) <= sync[t].pos
    BY <1>3, Known, Zenon DEF ProgressInv
  <2>4. sync'[t].recv \in {sync[t].recv, PastLsn(committed)}
    BY <1>1, <2>2, LaterType
  <2>5. Before(sync'[t].recv) <= sync[t].pos
    BY <1>3, <2>2, <2>3, <2>4
  <2>6. wal' = wal /\ committed' = committed /\ from' = from /\ bySync' = bySync
    BY DEF SyncKeepalive, publisherVars, historyVars
  <2>7. Followed(t, sync[t].pos)' = Followed(t, sync[t].pos)
    BY <1>1, <2>6 DEF Followed
  <2>8. ProgressInv(t)'
    BY <1>1, <1>3, <2>5, <2>6, <2>7, Known, Zenon DEF ProgressInv, SyncPc
  <2> QED
    BY <2>1, <2>8 DEF WorkerInv
<1>5. ViewInv(t)'
  <2>1. sync[t].relstate_lsn \in Nat
    BY Known DEF SyncWorker
  <2> QED
    BY <1>1, <1>2, <1>3, <2>1, ViewOfFollowing DEF SyncKeepalive, SyncPc
<1> QED
  BY <1>1, <1>4, <1>5, QuietWorker DEF SyncKeepalive

LEMMA DropSyncSlotInv ==
    ASSUME TypeOK, TypeOK', IInv, NEW t \in Table, DropSyncSlot(t)
    PROVE  IInv'
<1>1. /\ sync'[t].pc = "dropped" /\ sync'[t].relstate = sync[t].relstate
      /\ sync'[t].pos = sync[t].pos /\ sync'[t].relstate_lsn = sync[t].relstate_lsn
      /\ sync'[t].recv = sync[t].recv
      /\ \A u \in Table \ {t} : sync'[u] = sync[u] /\ slot'[u] = slot[u]
  BY Known DEF DropSyncSlot, SyncWorker, TypeOK
<1>2. Now' = Now
  BY CatalogSame DEF DropSyncSlot
<1>3. SyncPc(t) = "done"
  BY DEF DropSyncSlot
<1>4. WorkerInv(t)'
  <2>1. SlotInv(t)' /\ PlaceInv(t)'
    BY <1>1, <1>2, <1>3, Known, Zenon DEF SlotInv, PlaceInv, SyncPc
  <2>2. wal' = wal /\ committed' = committed /\ from' = from /\ bySync' = bySync
    BY DEF DropSyncSlot, publisherVars, historyVars
  <2>3. Followed(t, sync[t].pos)' = Followed(t, sync[t].pos)
    BY <1>1, <2>2, Zenon DEF Followed
  <2>4. ProgressInv(t)'
    BY <1>1, <1>3, <2>2, <2>3, Known, Zenon DEF ProgressInv, SyncPc
  <2> QED
    BY <2>1, <2>4 DEF WorkerInv
<1>5. ViewInv(t)'
  <2>1. sync[t].relstate_lsn \in Nat
    BY Known DEF SyncWorker
  <2> QED
    BY <1>1, <1>2, <1>3, <2>1, ViewOfFollowing DEF DropSyncSlot, SyncPc
<1> QED
  BY <1>1, <1>4, <1>5, QuietWorker, Zenon DEF DropSyncSlot

(* SYNCDONE is true: the worker has sent everything up to its position.    *)
LEMMA CommitSyncDoneInv ==
    ASSUME TypeOK, TypeOK', IInv, NEW t \in Table, CommitSyncDone(t)
    PROVE  IInv'
<1> DEFINE e == [Now[t] EXCEPT !.state = "s", !.lsn = sync[t].relstate_lsn]
<1>1. e \in RelState /\ e.state = "s" /\ e.lsn = sync[t].relstate_lsn
  BY Known, Zenon DEF RelState, CatalogState, SyncWorker
<1>2. Commit(t, e)
  BY DEF CommitSyncDone
<1> HIDE DEF e
<1>3. /\ Now' = [Now EXCEPT ![t] = e] /\ Kept' \subseteq Kept \cup {Now'}
      /\ validity' = "invalid" <=> validity = "invalid"
  BY <1>1, <1>2, CommitEffect
<1>4. Now'[t] = e /\ \A u \in Table \ {t} : Now'[u] = Now[u]
  BY <1>3, Known
<1>5. /\ sync'[t].pc = "committed" /\ sync'[t].relstate = sync[t].relstate
      /\ sync'[t].relstate_lsn = sync[t].relstate_lsn
      /\ \A u \in Table \ {t} : sync'[u] = sync[u]
  BY Known, Zenon DEF CommitSyncDone, SyncWorker
<1>6. SyncPc(t) = "dropped" /\ Now[t].state = "f" /\ sync[t].relstate = "s"
  BY Known, Zenon DEF CommitSyncDone, PlaceInv
<1>7. wal' = wal /\ binary' = binary /\ committed' = committed /\ from' = from
      /\ bySync' = bySync /\ lmax' = lmax
  BY DEF CommitSyncDone, publisherVars, historyVars
<1>8. NowTrue(t)' /\ Behind(Now[t], Now'[t])
  <2>1. /\ Before(e.lsn) <= sync[t].pos /\ sync[t].pos <= committed
        /\ Followed(t, sync[t].pos) \subseteq bySync[t]
    BY <1>1, <1>6, Known, Zenon DEF ProgressInv
  <2>2. /\ Before(e.lsn) \in Nat /\ sync[t].pos \in Nat /\ from[t] \in Nat
        /\ committed \in Nat /\ Len(wal) \in Nat /\ committed <= Len(wal)
    BY <1>1, Known, Positions, WalType, Zenon DEF RelState, SyncWorker, TypeOK
  <2>3. Upto(e) = Before(e.lsn) /\ Upto(Now[t]) = 0
    BY <1>1, <1>6, Zenon DEF Upto
  <2>4. Changes(wal, t, from[t], Before(e.lsn)) \subseteq Followed(t, sync[t].pos)
    <3>1. from[t] + 1..Before(e.lsn) \subseteq from[t] + 1..sync[t].pos
      BY <2>1, <2>2
    <3> QED
      BY <3>1 DEF Changes, Followed
  <2>5. Sent' = Sent /\ bySync[t] \subseteq Sent
    BY <1>7 DEF Sent
  <2>6. ~binary => Snapshot(wal, t, from[t]) \subseteq Sent
    BY <1>6, Known, Zenon DEF EntryTrue
  <2>7. NowTrue(t)'
    <3>1. Upto(e) <= Len(wal)
      BY <2>1, <2>2, <2>3
    <3>2. Changes(wal, t, from[t], Before(e.lsn)) \subseteq Sent
      BY <2>1, <2>4, <2>5, Zenon
    <3> QED
      BY <1>1, <1>4, <1>7, <2>5, <2>6, <3>1, <3>2, Zenon DEF NowTrue, EntryTrue, Upto
  <2> QED
    BY <1>1, <1>4, <1>6, <2>2, <2>3, <2>7 DEF Behind
<1>9. WorkerInv(t)'
  <2>1. SlotInv(t)' /\ PlaceInv(t)'
    BY <1>1, <1>4, <1>5, <1>6 DEF SlotInv, PlaceInv, SyncPc
  <2>2. ProgressInv(t)'
    BY <1>5, <1>7, Known, Zenon DEF ProgressInv, SyncPc
  <2> QED
    BY <2>1, <2>2 DEF WorkerInv
<1>10. ViewInv(t)'
  <2>1. t \notin marked /\ (cache[t].state = "s" => up /\ cache[t].lsn = sync[t].relstate_lsn)
    BY <1>6, Known, Zenon DEF CacheInv, MarkedInv
  <2>2. t \in waiting => sync[t].relstate_lsn >= current_lsn
    BY <1>6, Known DEF WaitInv
  <2> QED
    BY <1>1, <1>4, <1>5, <2>1, <2>2, Zenon
       DEF ViewInv, CacheInv, MarkedInv, ReadyInv, WaitInv, SyncPc, CommitSyncDone
<1>11. OnlyWorker(t)
  BY <1>3, <1>4, <1>5, <1>7, <1>8 DEF OnlyWorker, CommitSyncDone
<1> QED
  BY <1>9, <1>10, <1>11, WorkerStep

(* A crash brings back a catalog that is true, and no worker.              *)
LEMMA CrashInv ==
    ASSUME TypeOK, TypeOK', IInv, Crash
    PROVE  IInv'
<1>1. Now' = db[1] /\ Kept' = {db[1]} /\ db[1] \in Kept
  BY CatalogOne, CatalogType DEF Crash
<1>2. wal' = wal /\ binary' = binary /\ committed' = committed /\ from' = from
      /\ bySync' = bySync /\ lmax' = lmax /\ lpos' = lpos /\ Sent' = Sent
  BY DEF Crash, publisherVars, historyVars, Sent
<1>3. CatalogInv'
  <2>1. ASSUME NEW c \in Kept', NEW t \in Table
        PROVE  EntryTrue(c[t], t)' /\ Behind(c[t], Now'[t])
    <3>1. c = Now' /\ c \in Kept /\ c[t] \in RelState
      BY <1>1, CatalogType
    <3>2. EntryTrue(c[t], t)
      BY <3>1 DEF IInv, CatalogInv
    <3>3. EntryTrue(c[t], t)'
      BY <1>2, <3>2, Zenon DEF EntryTrue, Upto
    <3>4. Behind(c[t], c[t])
      BY <3>1, UptoType DEF Behind
    <3> QED
      BY <3>1, <3>3, <3>4
  <2> QED
    BY <2>1 DEF CatalogInv
<1>4. LeaderInv'
  <2>1. lpos \in Nat
    BY WalType DEF TypeOK
  <2>2. lpos <= lmax /\ lmax <= committed
    BY DEF IInv, LeaderInv
  <2> QED
    BY <1>2, <2>1, <2>2, Positions DEF LeaderInv, Crash, LeaderGone
<1>5. ASSUME NEW t \in Table PROVE WorkerInv(t)' /\ ViewInv(t)'
  <2>1. sync'[t] = NoWorker
    BY DEF Crash
  <2>2. from[t] <= committed
    BY Known, Zenon DEF ProgressInv
  <2>3. WorkerInv(t)'
    <3>1. SyncPc(t)' = "none" /\ sync'[t].relstate = "u"
      BY <2>1 DEF SyncPc, NoWorker
    <3>2. PlaceInv(t)' /\ SlotInv(t)'
      BY <3>1 DEF PlaceInv, SlotInv
    <3>3. from'[t] <= committed'
      BY <1>2, <2>2
    <3>4. ProgressInv(t)'
      BY <3>1, <3>3, Zenon DEF ProgressInv
    <3> QED
      BY <3>2, <3>4 DEF WorkerInv
  <2>4. /\ cache'[t].state = "u" /\ scan' = {} /\ marked' = {} /\ waiting' = {}
        /\ validity' = "invalid"
    BY DEF Crash, LeaderGone
  <2>5. ViewInv(t)'
    BY <2>4 DEF ViewInv, CacheInv, MarkedInv, ReadyInv, WaitInv
  <2> QED
    BY <2>3, <2>5
<1> QED
  BY <1>3, <1>4, <1>5 DEF IInv

(* All steps of a worker.                                                  *)
LEMMA SyncStepInv ==
    ASSUME TypeOK, TypeOK', IInv, NEW t \in Table, SyncStep(t)
    PROVE  IInv'
<1>1. CASE CopyRow(t)
  BY <1>1, CopyOneInv DEF CopyRow
<1>2. CASE CopyNullRow(t) \/ CloseCopyCrash(t)
  BY <1>2, CrashInv DEF CopyNullRow, CloseCopyCrash
<1>3. CASE SyncNothingToDo(t)
  BY <1>3, SyncNothingToDoInv
<1>4. CASE SyncBegin(t)
  BY <1>4, SyncBeginInv, Zenon
<1>5. CASE CreateSlot(t)
  BY <1>5, CreateSlotInv
<1>6. CASE CreateSlotFails(t)
  BY <1>6, CreateSlotFailsInv
<1>7. CASE CopyBinaryRow(t)
  BY <1>7, CopyBinaryRowInv
<1>8. CASE FinishCopy(t)
  BY <1>8, FinishCopyInv
<1>9. CASE SyncResume(t)
  BY <1>9, SyncResumeInv
<1>10. CASE CloseCopy(t)
  BY <1>10, CloseCopyInv
<1>11. CASE SyncApply(t)
  BY <1>11, SyncApplyInv
<1>12. CASE SyncKeepalive(t)
  BY <1>12, SyncKeepaliveInv
<1>13. CASE SyncRound(t)
  BY <1>13, SyncRoundInv
<1>14. CASE DropSyncSlot(t)
  BY <1>14, DropSyncSlotInv
<1>15. CASE CommitSyncDone(t)
  BY <1>15, CommitSyncDoneInv
<1>16. CASE FinishSync(t)
  BY <1>16, FinishSyncInv
<1> QED
  BY <1>1, <1>2, <1>3, <1>4, <1>5, <1>6, <1>7, <1>8, <1>9, <1>10, <1>11, <1>12, <1>13,
     <1>14, <1>15, <1>16 DEF SyncStep

-----------------------------------------------------------------------------
(* What a step sends                                                       *)

LEMMA SameSent ==
    ASSUME UNCHANGED <<wal, bySync, lmax>>
    PROVE  Sent' = Sent
BY DEF Sent, ChangeOf

(* A worker that sends a message adds it to what was sent,                 *)
LEMMA SentOne ==
    ASSUME TypeOK, NEW t \in Table, NEW m, SyncSends(t, m), wal' = wal
    PROVE  Sent' = Sent \cup {m}
<1>1. UNCHANGED lmax /\ bySync' = [bySync EXCEPT ![t] = @ \cup {m}]
  BY DEF SyncSends
<1>2. UNION {bySync'[u] : u \in Table} = (UNION {bySync[u] : u \in Table}) \cup {m}
  <2>1. \A u \in Table : bySync'[u] = IF u = t THEN bySync[t] \cup {m} ELSE bySync[u]
    BY <1>1 DEF TypeOK
  <2> QED
    BY <2>1
<1>3. {ChangeOf(wal, i)' : i \in 1..lmax'} = {ChangeOf(wal, i) : i \in 1..lmax}
  BY <1>1 DEF ChangeOf
<1> QED
  BY <1>2, <1>3, Zenon DEF Sent

(* and so does the leader, unless it has sent it before.                   *)
LEMMA SentNext ==
    ASSUME TypeOK, lpos <= lmax, LeaderApply
    PROVE  /\ wal \in Seq(Transaction) /\ lpos + 1 \in 1..Len(wal)
           /\ Sent' = IF lmax' = lmax THEN Sent ELSE Sent \cup {ChangeOf(wal, lpos + 1)}
<1> DEFINE i == lpos + 1
<1>1. UNCHANGED <<wal, bySync>> /\ lmax' = Later(lmax, i) /\ lpos < committed
  BY DEF LeaderApply, publisherVars
<1>2. lpos \in Nat /\ lmax \in Nat /\ lpos <= lmax /\ committed <= Len(wal) /\ committed \in Nat
  BY WalType DEF TypeOK
<1>3. wal \in Seq(Transaction) /\ i \in 1..Len(wal)
  BY <1>1, <1>2, WalType
<1>4. CASE lmax' = lmax
  BY <1>1, <1>3, <1>4, SameSent
<1>5. CASE lmax' # lmax
  <2>1. lmax' = i /\ i = lmax + 1
    BY <1>1, <1>2, <1>5 DEF Later
  <2>2. 1..lmax' = 1..lmax \cup {i}
    BY <1>2, <2>1
  <2> HIDE DEF i
  <2>3. {ChangeOf(wal, j)' : j \in 1..lmax'}
          = {ChangeOf(wal, j) : j \in 1..lmax} \cup {ChangeOf(wal, i)}
    BY <1>1, <2>2 DEF ChangeOf
  <2>4. UNION {bySync'[t] : t \in Table} = UNION {bySync[t] : t \in Table}
    BY <1>1
  <2>5. Sent' = Sent \cup {ChangeOf(wal, i)}
    BY <2>3, <2>4 DEF Sent
  <2> QED
    BY <1>3, <1>5, <2>5 DEF i
<1> QED
  BY <1>4, <1>5
=============================================================================
