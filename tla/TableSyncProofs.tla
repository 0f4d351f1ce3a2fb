-------------------------- MODULE TableSyncProofs --------------------------
(***************************************************************************)
(* Proofs about TableSync, for every publication, every WAL, any number of *)
(* tables and synchronization workers, and any number of faults.           *)
(***************************************************************************)
EXTENDS TableSyncWorkers

(* A leaf is tried with SMT, then with Zenon, then with SMT again: the     *)
(* larger ones need more than the default time.                            *)
USE SMTT(30), ZenonT(30), SMTT(60)

-----------------------------------------------------------------------------
(* The steps of the leader                                                 *)

(* A step of the leader that leaves the workers and the catalog alone.     *)
LEMMA LeaderAlone ==
    ASSUME TypeOK, TypeOK', IInv,
           UNCHANGED <<wal, binary, committed, slot, sync, db, from, bySync>>,
           lmax <= lmax', LeaderInv', \A t \in Table : ViewInv(t)'
    PROVE  IInv'
<1>1. Now' = Now /\ Kept' \subseteq Kept \cup {Now'}
  BY CatalogSame
<1>2. lmax \in Nat /\ lmax' \in Nat /\ committed \in Nat
  BY WalType, Zenon DEF TypeOK
<1>3. Sent \subseteq Sent'
  BY <1>2, SentGrows
<1>4. CatalogInv'
  BY <1>1, <1>3, CatalogStep DEF IInv
<1>5. ASSUME NEW t \in Table PROVE WorkerInv(t)'
  <2>1. WorkerInv(t)
    BY DEF IInv
  <2>2. sync'[t] = sync[t] /\ slot'[t] = slot[t] /\ from'[t] = from[t] /\ Now'[t] = Now[t]
        /\ bySync[t] \subseteq bySync'[t] /\ committed <= committed'
    BY <1>1, <1>2
  <2> QED
    BY <2>1, <2>2, WorkerFrame
<1> QED
  BY <1>4, <1>5 DEF IInv

(* Of the tables a step of the leader does not look at.                    *)
LEMMA ViewsFrame ==
    ASSUME TypeOK, IInv, UNCHANGED <<up, current_lsn, sync, db>>,
           scan' \subseteq scan, waiting' \subseteq waiting,
           validity = "invalid" => validity' = "invalid"
    PROVE  \A t \in Table : cache'[t] = cache[t] /\ (t \in marked' => t \in marked)
                            => ViewInv(t)'
<1> TAKE t \in Table
<1> HAVE cache'[t] = cache[t] /\ (t \in marked' => t \in marked)
<1>1. Now' = Now
  BY CatalogSame
<1>2. ViewInv(t)
  BY DEF IInv
<1>3. /\ sync'[t] = sync[t] /\ Now'[t].state = Now[t].state /\ Now'[t].lsn = Now[t].lsn
      /\ (t \in scan' => t \in scan) /\ (t \in waiting' => t \in waiting)
  BY <1>1
<1> QED
  BY <1>2, <1>3, ViewFrame

(* FetchTableStates() reads what is in the catalog, and no READY table is  *)
(* walked over.                                                            *)
LEMMA BeginScanView ==
    ASSUME TypeOK, IInv, NEW t \in Table, NEW lsn, NEW accept \in BOOLEAN,
           LeaderIdle, BeginScan(lsn, accept), UNCHANGED <<up, sync, db, marked, waiting>>
    PROVE  ViewInv(t)'
<1>1. Now' = Now
  BY CatalogSame
<1>2. up /\ marked = {} /\ waiting = {}
  BY DEF LeaderIdle
<1>3. MarkedInv(t)' /\ WaitInv(t)'
  BY <1>2 DEF MarkedInv, WaitInv
<1>4. scan' = {u \in Table : cache'[u].state # "r"}
  BY DEF BeginScan
<1>5. CASE cache' = cache /\ validity' = validity /\ validity # "invalid"
  <2>1. CacheInv(t)'
    BY <1>1, <1>5, Known, Zenon DEF CacheInv, SyncPc
  <2>2. ReadyInv(t)'
    BY <1>1, <1>4, <1>5, Known DEF ReadyInv
  <2> QED
    BY <1>3, <2>1, <2>2 DEF ViewInv
<1>6. CASE cache' = [u \in Table |-> [state |-> Now[u].state, lsn |-> Now[u].lsn]]
  <2>1. cache'[t].state = Now[t].state /\ cache'[t].lsn = Now[t].lsn
    BY <1>6
  <2>2. CacheInv(t)'
    BY <1>1, <1>2, <2>1 DEF CacheInv
  <2>3. ReadyInv(t)'
    BY <1>1, <1>4, <2>1 DEF ReadyInv
  <2> QED
    BY <1>3, <2>2, <2>3 DEF ViewInv
<1> QED
  BY <1>5, <1>6, Zenon DEF BeginScan

LEMMA StartLeaderInv ==
    ASSUME TypeOK, TypeOK', IInv, StartLeader
    PROVE  IInv'
<1>1. /\ lpos \in Nat /\ lmax \in Nat /\ committed \in Nat /\ ~up
      /\ lpos <= lmax /\ lmax <= committed /\ current_lsn = 0
  BY WalType DEF TypeOK, IInv, LeaderInv, StartLeader
<1>2. UNCHANGED <<wal, binary, committed, slot, cache, validity, scan, marked, current_lsn,
                  waiting, sync, db, from, bySync, lmax>>
  BY DEF StartLeader, publisherVars, historyVars
<1>3. lpos' \in Nat /\ lpos' <= lpos /\ up'
  BY <1>1 DEF StartLeader
<1>4. Before(last_received') <= lpos'
  <2>1. PICK i \in 0..lpos' : last_received' = EndLsn(i)
    BY DEF StartLeader
  <2>2. Before(last_received') = i
    BY <1>3, <2>1, Positions
  <2> QED
    BY <1>3, <2>1, <2>2
<1>5. LeaderInv'
  BY <1>1, <1>2, <1>3, <1>4, Positions DEF LeaderInv
<1>6. ASSUME NEW t \in Table PROVE ViewInv(t)'
  <2>1. cache[t].state # "s" /\ marked = {} /\ waiting = {} /\ scan = {} /\ validity = "invalid"
    BY <1>1, Known, Zenon DEF CacheInv, IInv, LeaderInv
  <2> QED
    BY <1>2, <2>1, Zenon DEF ViewInv, CacheInv, MarkedInv, ReadyInv, WaitInv
<1> QED
  BY <1>1, <1>2, <1>5, <1>6, LeaderAlone

LEMMA LeaderApplyInv ==
    ASSUME TypeOK, TypeOK', IInv, LeaderApply
    PROVE  IInv'
<1> DEFINE i == lpos + 1
<1>1. /\ lpos \in Nat /\ lmax \in Nat /\ committed \in Nat /\ last_received \in Nat
      /\ lpos <= lmax /\ lmax <= committed /\ lpos < committed
      /\ Before(last_received) <= lpos
  BY WalType DEF TypeOK, IInv, LeaderInv, LeaderApply
<1>2. i \in Nat /\ i <= committed /\ lpos <= i
  BY <1>1
<1>3. EndLsn(i) \in Nat /\ Before(EndLsn(i)) = i
  BY <1>2, Positions
<1>4. /\ lpos' = i /\ last_received' = Later(last_received, EndLsn(i)) /\ lmax' = Later(lmax, i)
      /\ \E accept \in BOOLEAN : BeginScan(EndLsn(i), accept)
      /\ UNCHANGED <<wal, binary, committed, slot, up, marked, waiting, sync, db, from, bySync>>
      /\ LeaderIdle
  BY DEF LeaderApply, publisherVars
<1> HIDE DEF i
<1>5. lmax' \in {lmax, i} /\ lmax <= lmax' /\ lpos' <= lmax' /\ lmax' <= committed
  BY <1>1, <1>2, <1>4, LaterType, Zenon
<1>6. Before(last_received') <= lpos'
  <2>1. last_received' \in {last_received, EndLsn(i)}
    BY <1>1, <1>3, <1>4, LaterType
  <2>2. Before(last_received) <= i
    BY <1>1, <1>2, Positions
  <2> QED
    BY <1>2, <1>3, <1>4, <2>1, <2>2
<1>7. current_lsn' = EndLsn(i) /\ up
  BY <1>4 DEF BeginScan, LeaderIdle
<1>8. LeaderInv'
  BY <1>2, <1>3, <1>4, <1>5, <1>6, <1>7 DEF LeaderInv
<1>9. ASSUME NEW t \in Table PROVE ViewInv(t)'
  BY <1>4, BeginScanView
<1> QED
  BY <1>4, <1>5, <1>8, <1>9, LeaderAlone

LEMMA LeaderKeepaliveInv ==
    ASSUME TypeOK, TypeOK', IInv, LeaderKeepalive
    PROVE  IInv'
<1>1. /\ lpos = committed /\ committed \in Nat /\ last_received \in Nat /\ lmax \in Nat
      /\ last_received' = Later(last_received, PastLsn(committed))
      /\ UNCHANGED <<wal, binary, committed, slot, up, lpos, cache, validity, scan, marked,
                     current_lsn, waiting, sync, db, from, bySync, lmax>>
  BY WalType, Zenon DEF TypeOK, LeaderKeepalive, publisherVars, historyVars
<1>2. PastLsn(committed) \in Nat /\ Before(PastLsn(committed)) = committed
  BY <1>1, Positions
<1>3. Before(last_received') <= lpos'
  <2>1. last_received' \in {last_received, PastLsn(committed)}
    BY <1>1, <1>2, LaterType
  <2>2. Before(last_received) <= lpos
    BY DEF IInv, LeaderInv
  <2> QED
    BY <1>1, <1>2, <2>1, <2>2
<1>4. LeaderInv'
  BY <1>1, <1>3 DEF IInv, LeaderInv
<1>5. \A t \in Table : ViewInv(t)'
  BY <1>1, ViewsFrame
<1>6. lmax <= lmax'
  BY <1>1
<1> QED
  BY <1>1, <1>4, <1>5, <1>6, LeaderAlone

LEMMA LeaderRoundInv ==
    ASSUME TypeOK, TypeOK', IInv, LeaderRound
    PROVE  IInv'
<1>1. /\ LeaderIdle /\ BeginScan(last_received, TRUE)
      /\ UNCHANGED <<wal, binary, committed, slot, up, lpos, last_received, marked, waiting,
                     sync, db, from, bySync, lmax>>
  BY Zenon DEF LeaderRound, publisherVars, historyVars
<1>2. current_lsn' = last_received /\ up
  BY <1>1 DEF BeginScan, LeaderIdle
<1>3. LeaderInv'
  BY <1>1, <1>2 DEF IInv, LeaderInv
<1>4. ASSUME NEW t \in Table PROVE ViewInv(t)'
  BY <1>1, BeginScanView, Zenon
<1>5. lmax <= lmax'
  BY <1>1 DEF TypeOK
<1> QED
  BY <1>1, <1>3, <1>4, <1>5, LeaderAlone

(* A step of the walk that leaves the workers and the catalog alone.       *)
LEMMA WalkInv ==
    ASSUME TypeOK, TypeOK', IInv, up,
           UNCHANGED <<wal, binary, committed, slot, up, lpos, last_received, current_lsn,
                       sync, db, from, bySync, lmax>>,
           \A t \in Table : ViewInv(t)'
    PROVE  IInv'
<1>1. LeaderInv'
  BY DEF IInv, LeaderInv
<1>2. lmax <= lmax'
  BY DEF TypeOK
<1> QED
  BY <1>1, <1>2, LeaderAlone

LEMMA LeaderWaitEndsInv ==
    ASSUME TypeOK, TypeOK', IInv, LeaderWaitEnds
    PROVE  IInv'
<1>1. UNCHANGED <<wal, binary, committed, slot, up, lpos, last_received, cache, scan, marked,
                  current_lsn, sync, db, from, bySync, lmax>>
  BY DEF LeaderWaitEnds, publisherVars, historyVars
<1>2. up
  BY DEF LeaderWaitEnds, IInv, LeaderInv
<1>3. waiting' \subseteq waiting /\ (validity = "invalid" => validity' = "invalid")
  BY DEF LeaderWaitEnds
<1>4. \A t \in Table : ViewInv(t)'
  BY <1>1, <1>3, ViewsFrame
<1> QED
  BY <1>1, <1>2, <1>4, WalkInv

(* The table was SYNCDONE for the leader, and no worker is at it.          *)
LEMMA ScanReadyInv ==
    ASSUME TypeOK, TypeOK', IInv, NEW t \in Table, ScanReady(t)
    PROVE  IInv'
<1>1. /\ UNCHANGED <<wal, binary, committed, slot, up, lpos, last_received, cache, validity,
                     current_lsn, waiting, sync, db, from, bySync, lmax>>
      /\ scan' = scan \ {t} /\ marked' = marked \cup {t}
  BY DEF ScanReady, publisherVars, historyVars
<1>2. up /\ t \in scan /\ cache[t].state = "s" /\ cache[t].lsn <= current_lsn
  <2>1. t \in scan /\ cache[t].state = "s" /\ current_lsn >= cache[t].lsn
    BY DEF ScanReady, Looking, LeaderReached
  <2>2. current_lsn \in Nat /\ cache[t].lsn \in Nat
    BY DEF TypeOK, Cached
  <2> QED
    BY <2>1, <2>2 DEF IInv, LeaderInv
<1>3. Now[t].state \in {"f", "s"}
  BY <1>2, Known, Zenon DEF CacheInv, ReadyInv
<1>4. Now[t].state = "f" => SyncPc(t) = "none"
  <2>1. Now[t].state = "f" => Now[t].origin # 0
    <3>1. PastLsn(from[t]) # 0
      BY Positions, Zenon DEF TypeOK
    <3> QED
      BY <3>1, Known, Zenon DEF EntryTrue
  <2> QED
    BY <1>2, <2>1, Known, Zenon DEF ScanReady, CacheInv
<1>5. ASSUME NEW u \in Table PROVE ViewInv(u)'
  <2>1. CASE u # t
    BY <1>1, <2>1, ViewsFrame
  <2>2. CASE u = t
    <3>1. Now' = Now
      BY <1>1, CatalogSame
    <3>2. MarkedInv(t)'
      BY <1>1, <1>2, <1>3, <1>4, <3>1 DEF MarkedInv, SyncPc
    <3>3. CacheInv(t)' /\ ReadyInv(t)' /\ WaitInv(t)'
      BY <1>1, <3>1, Known, Zenon DEF CacheInv, ReadyInv, WaitInv, SyncPc
    <3> QED
      BY <2>2, <3>2, <3>3 DEF ViewInv
  <2> QED
    BY <2>1, <2>2
<1> QED
  BY <1>1, <1>2, <1>5, WalkInv

(* The walk passes over a table.                                           *)
LEMMA ScanPassesInv ==
    ASSUME TypeOK, TypeOK', IInv, NEW t \in Table, ScanBehind(t) \/ LaunchLater(t)
    PROVE  IInv'
<1>1. /\ UNCHANGED <<wal, binary, committed, slot, up, lpos, last_received, cache, validity,
                     marked, current_lsn, waiting, sync, db, from, bySync, lmax>>
      /\ scan' = scan \ {t} /\ t \in scan
  BY DEF ScanBehind, LaunchLater, Looking, publisherVars, historyVars
<1>2. up
  BY <1>1 DEF IInv, LeaderInv
<1>3. \A u \in Table : ViewInv(u)'
  BY <1>1, ViewsFrame
<1> QED
  BY <1>1, <1>2, <1>3, WalkInv

(* SYNCDONE as the worker says it in shared memory.                        *)
LEMMA ScanWorkerInv ==
    ASSUME TypeOK, TypeOK', IInv, NEW t \in Table, ScanWorker(t)
    PROVE  IInv'
<1>1. /\ UNCHANGED <<wal, binary, committed, slot, up, lpos, last_received, validity, marked,
                     current_lsn, waiting, sync, db, from, bySync, lmax>>
      /\ scan' = scan \ {t} /\ t \in scan
      /\ cache' = [cache EXCEPT ![t] = [state |-> sync[t].relstate,
                                        lsn |-> sync[t].relstate_lsn]]
  BY DEF ScanWorker, Looking, publisherVars, historyVars
<1>2. up
  BY <1>1 DEF IInv, LeaderInv
<1>3. /\ cache'[t].state = sync[t].relstate /\ cache'[t].lsn = sync[t].relstate_lsn
      /\ \A u \in Table \ {t} : cache'[u] = cache[u]
  BY <1>1, Zenon DEF TypeOK
<1>4. ASSUME NEW u \in Table PROVE ViewInv(u)'
  <2>1. CASE u # t
    BY <1>1, <1>3, <2>1, ViewsFrame
  <2>2. CASE u = t
    <3>1. Now' = Now
      BY <1>1, CatalogSame
    <3>2. CacheInv(t)'
      BY <1>1, <1>2, <1>3, <3>1, Known, Zenon DEF CacheInv, PlaceInv, SyncPc
    <3>3. MarkedInv(t)' /\ ReadyInv(t)' /\ WaitInv(t)'
      BY <1>1, <3>1, Known, Zenon DEF MarkedInv, ReadyInv, WaitInv, SyncPc
    <3> QED
      BY <2>2, <3>2, <3>3 DEF ViewInv
  <2> QED
    BY <2>1, <2>2
<1> QED
  BY <1>1, <1>2, <1>4, WalkInv

(* READY is true: the leader has sent everything up to its position, and   *)
(* is not behind the worker.                                               *)
LEMMA CommitMarkedTrue ==
    ASSUME TypeOK, IInv, NEW t \in Table, t \in marked, CommitMarked,
           UNCHANGED <<wal, binary, committed, current_lsn, from, bySync, lmax>>
    PROVE  NowTrue(t)' /\ Behind(Now[t], Now'[t])
<1>1. Now'[t].state = "r" /\ Now'[t].lsn = current_lsn /\ Now'[t].origin = 0
  BY CommitMarkedEffect
<1>2. Now[t].state \in {"f", "s"} /\ cache[t].state = "s" /\ cache[t].lsn <= current_lsn
  BY Known DEF MarkedInv
<1>3. /\ current_lsn \in Nat /\ cache[t].lsn \in Nat /\ lmax \in Nat /\ lpos \in Nat
      /\ committed \in Nat /\ Len(wal) \in Nat /\ committed <= Len(wal) /\ from[t] \in Nat
  BY WalType DEF TypeOK, Cached
<1>4. Before(current_lsn) <= lmax /\ lmax <= Len(wal) /\ Before(current_lsn) \in Nat
  <2>1. Before(current_lsn) \in Nat
    BY <1>3, Positions, Zenon
  <2>2. Before(current_lsn) <= lpos /\ lpos <= lmax /\ lmax <= committed
    BY DEF IInv, LeaderInv
  <2> QED
    BY <1>3, <2>1, <2>2
<1>5. Sent' = Sent
  BY DEF Sent
<1>6. NowTrue(t)'
  <2>1. ~binary => Snapshot(wal, t, from[t]) \subseteq Sent
    BY <1>2, Known, Zenon DEF EntryTrue
  <2>2. Changes(wal, t, from[t], Before(current_lsn)) \subseteq Sent
    <3>1. from[t] + 1..Before(current_lsn) \subseteq 1..lmax
      BY <1>3, <1>4
    <3>2. Changes(wal, t, from[t], Before(current_lsn))
            \subseteq {ChangeOf(wal, i) : i \in 1..lmax}
      BY <3>1 DEF Changes
    <3> QED
      BY <3>2, SentBy
  <2>3. Before(current_lsn) <= Len(wal)
    BY <1>3, <1>4
  <2> QED
    BY <1>1, <1>5, <2>1, <2>2, <2>3 DEF NowTrue, EntryTrue, Upto
<1>7. Upto(Now[t]) <= Before(current_lsn)
  <2>1. CASE Now[t].state = "f"
    BY <1>4, <2>1 DEF Upto
  <2>2. CASE Now[t].state = "s"
    <3>1. Now[t].lsn = cache[t].lsn
      BY <1>2, <2>2, Known, Zenon DEF CacheInv
    <3>2. Before(cache[t].lsn) <= Before(current_lsn)
      BY <1>2, <1>3, Positions, Zenon
    <3> QED
      BY <2>2, <3>1, <3>2 DEF Upto
  <2> QED
    BY <1>2, <2>1, <2>2
<1> QED
  BY <1>1, <1>6, <1>7 DEF Behind, Upto

LEMMA CommitMarkedCatalog ==
    ASSUME TypeOK, TypeOK', IInv, CommitMarked,
           UNCHANGED <<wal, binary, committed, current_lsn, from, bySync, lmax>>
    PROVE  CatalogInv'
<1>1. Sent \subseteq Sent'
  BY DEF Sent
<1>2. Kept' \subseteq Kept \cup {Now'}
  BY CommitMarkedEffect
<1>3. \A t \in Table : \/ Now'[t] = Now[t]
                       \/ NowTrue(t)' /\ Behind(Now[t], Now'[t])
  <2> TAKE t \in Table
  <2>1. CASE t \in marked
    BY <2>1, CommitMarkedTrue
  <2>2. CASE t \notin marked
    BY <2>2, CommitMarkedEffect
  <2> QED
    BY <2>1, <2>2
<1>4. CatalogInv
  BY DEF IInv
<1> QED
  BY <1>1, <1>2, <1>3, <1>4, CatalogStep

(* A table that becomes READY, for its worker and for the leader.          *)
LEMMA CommitMarkedTable ==
    ASSUME TypeOK, TypeOK', IInv, NEW t \in Table, CommitMarked,
           UNCHANGED <<wal, binary, committed, up, current_lsn, from, bySync, slot>>,
           sync'[t] = sync[t], cache'[t] = cache[t], scan' \subseteq scan, t \notin waiting'
    PROVE  WorkerInv(t)' /\ ViewInv(t)'
<1>1. marked' = {} /\ (validity = "invalid" => validity' = "invalid")
  BY CommitMarkedEffect
<1>2. WorkerInv(t) /\ ViewInv(t)
  BY DEF IInv
<1>3. CASE t \notin marked
  <2>1. Now'[t] = Now[t]
    BY <1>3, CommitMarkedEffect
  <2>2. WorkerInv(t)'
    <3>1. committed <= committed' /\ slot'[t] = slot[t] /\ from'[t] = from[t]
          /\ bySync[t] \subseteq bySync'[t]
      BY WalType
    <3> QED
      BY <1>2, <2>1, <3>1, WorkerFrame
  <2>3. ViewInv(t)'
    BY <1>1, <1>2, <2>1, ViewFrame, Zenon
  <2> QED
    BY <2>2, <2>3
<1>4. CASE t \in marked
  <2>1. Now'[t].state = "r" /\ validity' = "invalid"
    BY <1>4, CommitMarkedEffect
  <2>2. /\ t \notin scan /\ cache[t].state = "s" /\ up
        /\ SyncPc(t) \in {"none", "start", "committed"}
    <3>1. t \notin scan /\ cache[t].state = "s" /\ up
      BY <1>4, Known, Zenon DEF MarkedInv, CacheInv
    <3>2. SyncPc(t) \notin {"datasync", "copy", "wait", "stream", "done", "dropped"}
      BY <1>4, Known, Zenon DEF MarkedInv, PlaceInv
    <3> QED
      BY <3>1, <3>2, Known, Zenon DEF SyncPc, SyncWorker, Place
  <2>3. ViewInv(t)'
    BY <1>1, <2>1, <2>2 DEF ViewInv, CacheInv, MarkedInv, ReadyInv, WaitInv
  <2>4. SlotInv(t)' /\ PlaceInv(t)'
    BY <2>1, <2>2, Known, Zenon DEF SlotInv, PlaceInv, SyncPc
  <2>5. from[t] <= committed
    BY Known, Zenon DEF ProgressInv
  <2>6. ProgressInv(t)'
    BY <2>2, <2>5, Zenon DEF ProgressInv, SyncPc
  <2> QED
    BY <2>3, <2>4, <2>6, Zenon DEF WorkerInv
<1> QED
  BY <1>3, <1>4

LEMMA ScanEndsInv ==
    ASSUME TypeOK, TypeOK', IInv, ScanEnds
    PROVE  IInv'
<1>1. /\ UNCHANGED <<wal, binary, committed, slot, up, lpos, last_received, cache, scan,
                     current_lsn, waiting, sync, from, bySync, lmax>>
      /\ CommitMarked /\ waiting = {} /\ marked # {}
  BY DEF ScanEnds, publisherVars, historyVars
<1>2. up
  BY <1>1 DEF IInv, LeaderInv
<1>3. LeaderInv'
  BY <1>1, <1>2 DEF IInv, LeaderInv
<1>4. CatalogInv'
  BY <1>1, CommitMarkedCatalog
<1>5. \A t \in Table : WorkerInv(t)' /\ ViewInv(t)'
  BY <1>1, CommitMarkedTable
<1> QED
  BY <1>3, <1>4, <1>5 DEF IInv

(* The worker is told to come as far as the leader is.                     *)
LEMMA ScanCatchupInv ==
    ASSUME TypeOK, TypeOK', IInv, NEW t \in Table, ScanCatchup(t)
    PROVE  IInv'
<1> DEFINE n == Later(sync[t].relstate_lsn, current_lsn)
<1>1. /\ UNCHANGED <<wal, binary, committed, slot, up, lpos, last_received, current_lsn, from,
                     bySync, lmax>>
      /\ CommitMarked /\ waiting = {} /\ waiting' = {t} /\ t \in scan /\ scan' = scan \ {t}
      /\ SyncPc(t) # "none" /\ sync[t].relstate = "w" /\ cache[t].state # "s"
  BY DEF ScanCatchup, Looking, publisherVars, historyVars
<1>2. up
  BY <1>1 DEF IInv, LeaderInv
<1>3. LeaderInv'
  BY <1>1, <1>2 DEF IInv, LeaderInv
<1>4. CatalogInv'
  BY <1>1, CommitMarkedCatalog
<1>5. cache'[t].state = "w" /\ \A u \in Table \ {t} : cache'[u] = cache[u]
  BY Zenon DEF ScanCatchup, TypeOK
<1>6. n \in Nat /\ n >= current_lsn /\ sync[t].relstate_lsn \in Nat
  <2>1. sync[t].relstate_lsn \in Nat /\ current_lsn \in Nat
    BY Known, Zenon DEF TypeOK, SyncWorker
  <2> QED
    BY <2>1, LaterType, Zenon
<1>7. sync' = [sync EXCEPT ![t].relstate = "c", ![t].relstate_lsn = n]
  BY DEF ScanCatchup
<1> HIDE DEF n
<1>8. /\ sync'[t] = [sync[t] EXCEPT !.relstate = "c", !.relstate_lsn = n]
      /\ \A u \in Table \ {t} : sync'[u] = sync[u]
  BY <1>7, Known, Zenon
<1>9. /\ sync'[t].pc = sync[t].pc /\ sync'[t].relstate = "c" /\ sync'[t].relstate_lsn = n
      /\ sync'[t].origin_startpos = sync[t].origin_startpos /\ sync'[t].pos = sync[t].pos
      /\ sync'[t].recv = sync[t].recv /\ sync'[t].rel = sync[t].rel
  BY <1>8, Known DEF SyncWorker
<1>10. Now'[t] = Now[t] /\ marked' = {} /\ SyncPc(t) \in {"wait", "stream"}
  <2>1. t \notin marked
    BY <1>1, Known, Zenon DEF MarkedInv
  <2> QED
    BY <1>1, <2>1, CommitMarkedEffect, Known, Zenon DEF PlaceInv
<1>11. WorkerInv(t)'
  <2>1. SlotInv(t)' /\ PlaceInv(t)'
    BY <1>1, <1>9, <1>10, Known, Zenon DEF SlotInv, PlaceInv, SyncPc
  <2>2. Followed(t, sync[t].pos)' = Followed(t, sync[t].pos)
    BY <1>1, <1>9 DEF Followed
  <2>3. ProgressInv(t)'
    BY <1>1, <1>9, <1>10, <2>2, Known, Zenon DEF ProgressInv, SyncPc
  <2> QED
    BY <2>1, <2>3 DEF WorkerInv
<1>12. ViewInv(t)'
  <2>1. Now[t].state = "f"
    BY <1>10, Known, Zenon DEF PlaceInv
  <2> QED
    BY <1>1, <1>5, <1>6, <1>9, <1>10, <2>1, Zenon
       DEF ViewInv, CacheInv, MarkedInv, ReadyInv, WaitInv, SyncPc
<1>13. ASSUME NEW u \in Table, u # t PROVE WorkerInv(u)' /\ ViewInv(u)'
  <2>1. sync'[u] = sync[u] /\ cache'[u] = cache[u] /\ u \notin waiting' /\ scan' \subseteq scan
    BY <1>1, <1>5, <1>8, <1>13
  <2> QED
    BY <1>1, <2>1, CommitMarkedTable, Zenon
<1> QED
  BY <1>3, <1>4, <1>11, <1>12, <1>13 DEF IInv

LEMMA LaunchSyncInv ==
    ASSUME TypeOK, TypeOK', IInv, NEW t \in Table, LaunchSync(t)
    PROVE  IInv'
<1>1. /\ UNCHANGED <<wal, binary, committed, slot, up, lpos, last_received, cache, validity,
                     marked, current_lsn, waiting, db, from, bySync, lmax>>
      /\ scan' = scan \ {t} /\ t \in scan /\ waiting = {} /\ cache[t].state # "s"
      /\ sync' = [sync EXCEPT ![t] = [NoWorker EXCEPT !.pc = "start"]]
  BY DEF LaunchSync, Looking, publisherVars, historyVars
<1>2. up
  BY <1>1 DEF IInv, LeaderInv
<1>3. LeaderInv'
  BY <1>1, <1>2 DEF IInv, LeaderInv
<1>4. Now' = Now /\ Kept' \subseteq Kept \cup {Now'} /\ Sent' = Sent
  BY <1>1, CatalogSame DEF Sent
<1>5. CatalogInv'
  BY <1>1, <1>4, CatalogStep DEF IInv
<1>6. /\ sync'[t].pc = "start" /\ sync'[t].relstate = "u"
      /\ \A u \in Table \ {t} : sync'[u] = sync[u]
  BY <1>1, Known DEF NoWorker
<1>7. t \notin marked /\ Now[t].state # "r" /\ from[t] <= committed
  BY <1>1, Known, Zenon DEF MarkedInv, ReadyInv, ProgressInv
<1>8. WorkerInv(t)'
  BY <1>1, <1>6, <1>7, Zenon DEF WorkerInv, SlotInv, PlaceInv, ProgressInv, SyncPc
<1>9. ViewInv(t)'
  BY <1>1, <1>4, <1>7, Zenon DEF ViewInv, CacheInv, MarkedInv, ReadyInv, WaitInv
<1>10. ASSUME NEW u \in Table, u # t PROVE WorkerInv(u)' /\ ViewInv(u)'
  <2>1. /\ sync'[u] = sync[u] /\ slot'[u] = slot[u] /\ from'[u] = from[u] /\ Now'[u] = Now[u]
        /\ bySync[u] \subseteq bySync'[u] /\ cache'[u] = cache[u] /\ committed <= committed'
    BY <1>1, <1>4, <1>6, <1>10, WalType
  <2>2. WorkerInv(u) /\ ViewInv(u)
    BY DEF IInv
  <2>3. WorkerInv(u)'
    BY <1>1, <2>1, <2>2, WorkerFrame
  <2>4. ViewInv(u)'
    BY <1>1, <2>1, <2>2, ViewFrame
  <2> QED
    BY <2>3, <2>4
<1> QED
  BY <1>3, <1>5, <1>8, <1>9, <1>10 DEF IInv

LEMMA LeaderExitInv ==
    ASSUME TypeOK, TypeOK', IInv, LeaderExit
    PROVE  IInv'
<1>1. UNCHANGED <<wal, binary, committed, slot, lpos, sync, db, from, bySync, lmax>>
  BY DEF LeaderExit, publisherVars, historyVars
<1>2. /\ ~up' /\ last_received' = 0 /\ current_lsn' = 0 /\ validity' = "invalid"
      /\ scan' = {} /\ marked' = {} /\ waiting' = {}
      /\ \A t \in Table : cache'[t].state = "u"
  BY DEF LeaderExit, LeaderGone
<1>3. LeaderInv'
  <2>1. lpos \in Nat /\ lpos <= lmax /\ lmax <= committed
    BY WalType DEF TypeOK, IInv, LeaderInv
  <2> QED
    BY <1>1, <1>2, <2>1, Positions DEF LeaderInv
<1>4. ASSUME NEW t \in Table PROVE ViewInv(t)'
  BY <1>2 DEF ViewInv, CacheInv, MarkedInv, ReadyInv, WaitInv
<1>5. lmax <= lmax'
  BY <1>1 DEF TypeOK
<1> QED
  BY <1>1, <1>3, <1>4, <1>5, LeaderAlone

-----------------------------------------------------------------------------
(* The invariant                                                           *)

LEMMA PublisherCommitInv ==
    ASSUME TypeOK, TypeOK', IInv, PublisherCommit
    PROVE  IInv'
<1>1. /\ UNCHANGED <<wal, binary, slot, up, lpos, last_received, cache, validity, scan, marked,
                     current_lsn, waiting, sync, db, from, bySync, lmax>>
      /\ committed \in Nat /\ committed' = committed + 1
  BY WalType DEF PublisherCommit, leaderVars, historyVars
<1>2. LeaderInv'
  <2>1. lmax \in Nat /\ lmax <= committed
    BY DEF TypeOK, IInv, LeaderInv
  <2> QED
    BY <1>1, <2>1 DEF IInv, LeaderInv
<1>3. Now' = Now /\ Kept' \subseteq Kept \cup {Now'} /\ Sent' = Sent
  BY <1>1, CatalogSame DEF Sent
<1>4. CatalogInv'
  BY <1>1, <1>3, CatalogStep DEF IInv
<1>5. ASSUME NEW t \in Table PROVE WorkerInv(t)' /\ ViewInv(t)'
  <2>1. WorkerInv(t) /\ ViewInv(t)
    BY DEF IInv
  <2>2. WorkerInv(t)'
    <3>1. committed <= committed' /\ sync'[t] = sync[t] /\ slot'[t] = slot[t]
          /\ from'[t] = from[t] /\ Now'[t] = Now[t] /\ bySync[t] \subseteq bySync'[t]
      BY <1>1, <1>3
    <3> QED
      BY <1>1, <2>1, <3>1, WorkerFrame
  <2>3. ViewInv(t)'
    BY <1>1, <1>3, <2>1, ViewFrame
  <2> QED
    BY <2>2, <2>3
<1> QED
  BY <1>2, <1>4, <1>5 DEF IInv

(* Less can be lost, and nothing else has changed.                         *)
LEMMA FlushInv ==
    ASSUME TypeOK, TypeOK', IInv, WalWriter \/ UNCHANGED vars
    PROVE  IInv'
<1>1. UNCHANGED <<wal, binary, committed, slot, up, lpos, last_received, cache, validity, scan,
                  marked, current_lsn, waiting, sync, from, bySync, lmax>>
  BY DEF WalWriter, vars, publisherVars, leaderVars, historyVars
<1>2. Now' = Now /\ Kept' \subseteq Kept
  <2>1. CASE WalWriter
    BY <2>1, CatalogSuffix DEF WalWriter
  <2>2. CASE UNCHANGED vars
    BY <2>2, CatalogSame DEF vars
  <2> QED
    BY <2>1, <2>2
<1>3. LeaderInv'
  BY <1>1 DEF IInv, LeaderInv
<1>4. Sent' = Sent
  BY <1>1 DEF Sent
<1>5. CatalogInv'
  BY <1>1, <1>2, <1>4, CatalogStep DEF IInv
<1>6. ASSUME NEW t \in Table PROVE WorkerInv(t)' /\ ViewInv(t)'
  <2>1. WorkerInv(t) /\ ViewInv(t)
    BY DEF IInv
  <2>2. WorkerInv(t)'
    <3>1. committed <= committed' /\ sync'[t] = sync[t] /\ slot'[t] = slot[t]
          /\ from'[t] = from[t] /\ Now'[t] = Now[t] /\ bySync[t] \subseteq bySync'[t]
      BY <1>1, <1>2, WalType
    <3> QED
      BY <1>1, <2>1, <3>1, WorkerFrame
  <2>3. ViewInv(t)'
    BY <1>1, <1>2, <2>1, ViewFrame
  <2> QED
    BY <2>2, <2>3
<1> QED
  BY <1>3, <1>5, <1>6 DEF IInv

LEMMA InvInit ==
    ASSUME Init
    PROVE  IInv
<1> DEFINE c == [t \in Table |-> [state |-> "i", lsn |-> 0, origin |-> 0]]
<1>1. Now = c /\ Kept = {c}
  <2>1. db = <<c>>
    BY DEF Init
  <2> HIDE DEF c
  <2>2. Len(db) = 1 /\ db[1] = c
    BY <2>1
  <2> QED
    BY <2>2 DEF Now, Kept
<1>2. \A t \in Table : c[t].state = "i" /\ c[t].origin = 0 /\ c[t] \in RelState
  BY DEF RelState, CatalogState
<1> HIDE DEF c
<1>3. CatalogInv
  <2>1. ASSUME NEW t \in Table PROVE EntryTrue(c[t], t) /\ Behind(c[t], c[t])
    <3>1. Upto(c[t]) = 0 /\ 0 <= Len(wal)
      BY <1>2, TypeInit, WalType DEF Upto
    <3> QED
      BY <1>2, <3>1 DEF EntryTrue, Behind
  <2> QED
    BY <1>1, <2>1, Zenon DEF CatalogInv
<1>4. LeaderInv
  BY Positions DEF Init, LeaderInv
<1>5. ASSUME NEW t \in Table PROVE WorkerInv(t) /\ ViewInv(t)
  <2>1. sync[t].pc = "none" /\ sync[t].relstate = "u" /\ from[t] = 0 /\ committed = 0
        /\ cache[t].state = "u" /\ scan = {} /\ marked = {} /\ waiting = {}
    BY DEF Init, NoWorker
  <2>2. Now[t].state = "i"
    BY <1>1, <1>2
  <2>3. WorkerInv(t)
    <3>1. PlaceInv(t) /\ SlotInv(t)
      BY <2>1, <2>2 DEF PlaceInv, SlotInv, SyncPc
    <3>2. ProgressInv(t)
      BY <2>1, <2>2 DEF ProgressInv, SyncPc
    <3> QED
      BY <3>1, <3>2 DEF WorkerInv
  <2>4. ViewInv(t)
    <3>1. CacheInv(t) /\ ReadyInv(t)
      BY <2>1, <2>2 DEF CacheInv, ReadyInv
    <3>2. MarkedInv(t) /\ WaitInv(t)
      BY <2>1, <2>2 DEF MarkedInv, WaitInv
    <3> QED
      BY <3>1, <3>2 DEF ViewInv
  <2> QED
    BY <2>3, <2>4
<1> QED
  BY <1>3, <1>4, <1>5 DEF IInv

LEMMA InvStep ==
    ASSUME TypeOK, TypeOK', IInv, [Next]_vars
    PROVE  IInv'
<1>1. ASSUME NEW t \in Table, SyncStep(t) PROVE IInv'
  BY <1>1, SyncStepInv
<1>2. CASE LeaderStep
  <2>1. ASSUME NEW t \in Table,
               \/ ScanReady(t) \/ ScanBehind(t) \/ ScanWorker(t) \/ ScanCatchup(t)
               \/ LaunchSync(t) \/ LaunchLater(t)
        PROVE  IInv'
    BY <2>1, ScanReadyInv, ScanPassesInv, ScanWorkerInv, ScanCatchupInv, LaunchSyncInv
  <2> QED
    BY <1>2, <2>1, StartLeaderInv, LeaderApplyInv, LeaderKeepaliveInv, LeaderRoundInv,
       LeaderWaitEndsInv, ScanEndsInv DEF LeaderStep
<1>3. CASE Fault
  BY <1>3, CrashInv, LeaderExitInv, SyncErrorInv, RelInvalidatedInv DEF Fault, ServerCrash
<1>4. CASE PublisherCommit
  BY <1>4, PublisherCommitInv
<1>5. CASE WalWriter \/ UNCHANGED vars
  BY <1>5, FlushInv
<1> QED
  BY <1>1, <1>2, <1>3, <1>4, <1>5 DEF Next

LEMMA Invariance == Spec => [](TypeOK /\ IInv)
<1>1. Init => TypeOK /\ IInv
  BY TypeInit, InvInit
<1>2. TypeOK /\ IInv /\ [Next]_vars => (TypeOK /\ IInv)'
  BY TypeStep, InvStep
<1> QED
  BY <1>1, <1>2, PTL DEF Spec

-----------------------------------------------------------------------------
(* The theorems                                                            *)

(* Whatever a crash leaves of pg_subscription_rel, a table it calls copied *)
(* had every row of its snapshot sent, and one it calls SYNCDONE or READY  *)
(* every change up to its position: tablesync.c sends before it commits,   *)
(* and the leader takes a table over where it has been itself.             *)
THEOREM SyncedMeansSentCorrect == Spec => []SyncedMeansSent
<1>1. IInv => SyncedMeansSent
  <2> SUFFICES ASSUME IInv, NEW k \in 1..Len(db), NEW t \in Table
               PROVE  /\ db[k][t].state \in {"f", "s", "r"} /\ ~binary =>
                            Snapshot(wal, t, from[t]) \subseteq Sent
                      /\ db[k][t].state \in {"s", "r"} =>
                            Changes(wal, t, from[t], Before(db[k][t].lsn)) \subseteq Sent
    BY Zenon DEF SyncedMeansSent
  <2>1. db[k] \in Kept
    BY DEF Kept
  <2>2. EntryTrue(db[k][t], t)
    BY <2>1 DEF IInv, CatalogInv
  <2> QED
    BY <2>2, Zenon DEF EntryTrue
<1> QED
  BY <1>1, Invariance, PTL

(* An attempt to copy a table again finds no origin left over, whatever a  *)
(* crash took away, so LogicalRepSyncTableStart does not fail for it; and  *)
(* a table that is copied has the origin its worker goes on from.          *)
THEOREM OriginMatchesStateCorrect == Spec => []OriginMatchesState
<1>1. IInv => OriginMatchesState
  <2> SUFFICES ASSUME IInv, NEW k \in 1..Len(db), NEW t \in Table
               PROVE  /\ db[k][t].state \in {"i", "d", "r"} => db[k][t].origin = 0
                      /\ db[k][t].state = "f" => db[k][t].origin = PastLsn(from[t])
    BY Zenon DEF OriginMatchesState
  <2>1. db[k] \in Kept
    BY DEF Kept
  <2>2. EntryTrue(db[k][t], t)
    BY <2>1 DEF IInv, CatalogInv
  <2> QED
    BY <2>2, Zenon DEF EntryTrue
<1> QED
  BY <1>1, Invariance, PTL

(* wait_for_relation_state_change() returns for a SYNCDONE table only when *)
(* its worker has come as far as the leader was: the leader's position was *)
(* given to the worker before the wait, and SyncedTo does not stop short.  *)
THEOREM WorkerPastLeaderCorrect == Spec => []WorkerPastLeader
<1>1. TypeOK /\ IInv => WorkerPastLeader
  <2> SUFFICES ASSUME TypeOK, IInv, NEW t \in waiting, Now[t].state = "s"
               PROVE  Now[t].lsn >= current_lsn
    BY DEF WorkerPastLeader
  <2>1. t \in Table
    BY DEF TypeOK
  <2>2. SyncPc(t) \in {"none", "committed"} => Now[t].lsn >= current_lsn
    BY <2>1, Known DEF WaitInv
  <2>3. SyncPc(t) \notin {"wait", "stream", "done", "dropped"}
    BY <2>1, Known, Zenon DEF PlaceInv
  <2> QED
    BY <2>1, <2>2, <2>3, Known DEF WaitInv
<1> QED
  BY <1>1, Invariance, PTL

(* The slot a worker streams from is there until that worker drops it, so  *)
(* walrcv_startstreaming and ReplicationSlotDropAtPubNode find it.         *)
THEOREM StreamHasSlotCorrect == Spec => []StreamHasSlot
<1>1. IInv => StreamHasSlot
  BY DEF IInv, WorkerInv, SlotInv, StreamHasSlot
<1> QED
  BY <1>1, Invariance, PTL

-----------------------------------------------------------------------------
(* The promise of TableFollow                                              *)

(* What the abstract variables phase and upto stand for.                   *)
Phase == [t \in Table |-> PhaseOf(Now[t].state)]
Reached == [t \in Table |-> Upto(Now[t])]

LEMMA SamePublication ==
    ASSUME NEW w, NEW t, NEW n, NEW k
    PROVE  /\ Follow!Snapshot(w, t, n) = Snapshot(w, t, n)
           /\ Follow!Changes(w, t, n, k) = Changes(w, t, n, k)
<1>1. Follow!Snapshot(w, t, n) = Snapshot(w, t, n)
  BY Zenon DEF Follow!Snapshot, Snapshot, Follow!Current, Current, Follow!Exists, Exists
<1>2. Follow!Changes(w, t, n, k) = Changes(w, t, n, k)
  BY Zenon DEF Follow!Changes, Changes, Follow!ChangeOf, ChangeOf
<1> QED
  BY <1>1, <1>2

(* Each step of TableFollow, in terms of the variables of TableSync.       *)
LEMMA FollowStutters ==
    ASSUME UNCHANGED <<wal, binary, from>>, Phase' = Phase, Reached' = Reached, Sent' = Sent
    PROVE  UNCHANGED Follow!followVars
BY Zenon DEF Follow!followVars, Phase, Reached, Upto

LEMMA FollowSends ==
    ASSUME UNCHANGED <<wal, binary, from>>, Phase' = Phase, Reached' = Reached,
           NEW m \in Row \X (0..Len(wal)), Sent' = Sent \cup {m}
    PROVE  Follow!Send
<1>1. PICK r \in Row, v \in 0..Len(wal) : m = <<r, v>>
  OBVIOUS
<1> QED
  BY <1>1, Zenon DEF Follow!Send, Phase, Reached, Upto

LEMMA FollowAttempts ==
    ASSUME UNCHANGED <<wal, binary>>, Phase' = Phase, Reached' = Reached, Sent' = Sent,
           NEW t \in Table, Phase[t] = "none",
           NEW n \in 0..Len(wal), from' = [from EXCEPT ![t] = n]
    PROVE  Follow!Attempt(t)
BY Zenon DEF Follow!Attempt, Phase, Reached, Upto

LEMMA FollowCopies ==
    ASSUME UNCHANGED <<wal, binary, from>>, Reached' = Reached, Sent' = Sent,
           NEW t \in Table, Phase[t] = "none", Phase' = [Phase EXCEPT ![t] = "copied"],
           binary \/ Snapshot(wal, t, from[t]) \subseteq Sent
    PROVE  Follow!Copied(t)
<1>1. Follow!Snapshot(wal, t, from[t]) = Snapshot(wal, t, from[t])
  BY SamePublication
<1> QED
  BY <1>1, Zenon DEF Follow!Copied, Phase, Reached, Upto

LEMMA FollowSyncs ==
    ASSUME UNCHANGED <<wal, binary, from>>, Sent' = Sent,
           NEW t \in Table, Phase[t] = "copied", Phase' = [Phase EXCEPT ![t] = "synced"],
           NEW k \in 0..Len(wal), Changes(wal, t, from[t], k) \subseteq Sent,
           Reached' = [Reached EXCEPT ![t] = k]
    PROVE  Follow!Synced(t)
<1>1. Follow!Changes(wal, t, from[t], k) = Changes(wal, t, from[t], k)
  BY SamePublication
<1> QED
  BY <1>1, Zenon DEF Follow!Synced, Phase, Reached, Upto

(* The tables of S become ready as of transaction k.                       *)
TakesOver(S, k) ==
    /\ wal' = wal /\ binary' = binary /\ from' = from /\ Sent' = Sent
    /\ \A t \in S : Phase[t] \in {"copied", "synced"}
    /\ \A t \in S : Changes(wal, t, from[t], k) \subseteq Sent
    /\ Reached' = [t \in Table |-> IF t \in S THEN k ELSE Reached[t]]
    /\ Phase' = [t \in Table |-> IF t \in S THEN "ready" ELSE Phase[t]]

LEMMA FollowIsReady ==
    ASSUME NEW S, NEW k \in 0..Len(wal), TakesOver(S, k)
    PROVE  Follow!Ready(S)
<1>1. \A t \in S : Follow!Changes(wal, t, from[t], k) = Changes(wal, t, from[t], k)
  BY SamePublication
<1>2. \E n \in 0..Len(wal) :
        /\ \A t \in S : Follow!Changes(wal, t, from[t], n) \subseteq Sent
        /\ Reached' = [t \in Table |-> IF t \in S THEN n ELSE Reached[t]]
  BY <1>1 DEF TakesOver
<1> QED
  BY <1>2, Zenon DEF TakesOver, Follow!Ready, Phase, Reached, Upto

LEMMA FollowForgets ==
    ASSUME UNCHANGED <<wal, binary, from>>, Sent' = Sent,
           Now \in [Table -> RelState], Now' \in [Table -> RelState],
           \A t \in Table : Behind(Now'[t], Now[t]) /\ Upto(Now'[t]) <= Len(wal)
    PROVE  Follow!Forget
<1>1. DOMAIN Follow!Rank = {"none", "copied", "synced", "ready"}
  BY DEF Follow!Rank
<1>2. Phase' \in [Table -> DOMAIN Follow!Rank]
  BY <1>1 DEF Phase, PhaseOf, RelState, CatalogState
<1>3. ASSUME NEW t \in Table
      PROVE  Follow!Rank[Phase'[t]] <= Follow!Rank[Phase[t]]
  <2>1. Now[t].state \in CatalogState /\ Now'[t].state \in CatalogState
    BY DEF RelState
  <2>2. Phase[t] = PhaseOf(Now[t].state) /\ Phase'[t] = PhaseOf(Now'[t].state)
    BY DEF Phase
  <2>3. Behind(Now'[t], Now[t])
    OBVIOUS
  <2> QED
    BY <2>1, <2>2, <2>3 DEF Follow!Rank, PhaseOf, CatalogState, Behind
<1>4. ASSUME NEW t \in Table
      PROVE  Reached'[t] \in 0..Len(wal) /\ Reached'[t] <= Reached[t]
  <2>1. Reached[t] = Upto(Now[t]) /\ Reached'[t] = Upto(Now'[t])
    BY DEF Reached
  <2>2. Upto(Now'[t]) \in Nat /\ Upto(Now'[t]) <= Len(wal) /\ Upto(Now'[t]) <= Upto(Now[t])
    BY UptoType DEF Behind
  <2> QED
    BY <2>1, <2>2
<1>5. Reached' \in [Table -> 0..Len(wal)]
  <2>1. Reached' = [t \in Table |-> Reached'[t]]
    BY DEF Reached
  <2> QED
    BY <1>4, <2>1
<1>6. wal' = wal /\ binary' = binary /\ from' = from
  OBVIOUS
<1> QED
  BY <1>2, <1>3, <1>4, <1>5, <1>6, Zenon DEF Follow!Forget, Phase, Reached, Upto

(* Facts about the catalog and the messages of a step.                     *)
LEMMA SameEntries ==
    ASSUME \A t \in Table : Now'[t].state = Now[t].state /\ Now'[t].lsn = Now[t].lsn
    PROVE  Phase' = Phase /\ Reached' = Reached
BY DEF Phase, Reached, Upto

LEMMA QuietFollows ==
    ASSUME UNCHANGED <<wal, binary, from, bySync, lmax>>, Now' = Now
    PROVE  UNCHANGED Follow!followVars
<1>1. Phase' = Phase /\ Reached' = Reached
  BY SameEntries
<1>2. Sent' = Sent
  BY SameSent
<1> QED
  BY <1>1, <1>2, FollowStutters

LEMMA TrueNext ==
    ASSUME TypeOK', IInv', NEW t \in Table
    PROVE  NowTrue(t)'
<1>1. db' \in Seq([Table -> RelState]) /\ db' # <<>>
  BY DEF TypeOK
<1>2. Now' \in Kept'
  BY <1>1, CatalogsOf DEF Now, Kept
<1>3. CatalogInv'
  BY DEF IInv
<1> QED
  BY <1>2, <1>3 DEF CatalogInv, NowTrue

(* A crash forgets some of the last commits.                               *)
LEMMA CrashFollows ==
    ASSUME TypeOK, IInv, Crash
    PROVE  Follow!Forget
<1>1. UNCHANGED <<wal, binary, from, bySync, lmax>> /\ db' = <<db[1]>>
  BY DEF Crash, publisherVars, historyVars
<1>2. Sent' = Sent
  BY <1>1, SameSent
<1>3. Now' = db[1]
  BY <1>1, CatalogOne
<1>4. Now \in [Table -> RelState] /\ db[1] \in [Table -> RelState] /\ db[1] \in Kept
  BY CatalogType
<1>5. \A t \in Table : EntryTrue(db[1][t], t) /\ Behind(db[1][t], Now[t])
  BY <1>4, Zenon DEF IInv, CatalogInv
<1>6. \A t \in Table : Behind(Now'[t], Now[t]) /\ Upto(Now'[t]) <= Len(wal)
  BY <1>3, <1>5, Zenon DEF EntryTrue
<1> QED
  BY <1>1, <1>2, <1>3, <1>4, <1>6, FollowForgets

(* The steps of a worker.                                                  *)
LEMMA BeginFollows ==
    ASSUME TypeOK, IInv, NEW t \in Table, SyncBegin(t)
    PROVE  UNCHANGED Follow!followVars
<1> DEFINE e == [Now[t] EXCEPT !.state = "d", !.lsn = 0]
<1>1. Now[t] \in RelState /\ Now[t].state \in {"i", "d"} /\ Now \in [Table -> RelState]
  BY Known, Zenon DEF SyncBegin
<1>2. e \in RelState /\ e.state = "d"
  BY <1>1, Zenon DEF RelState, CatalogState
<1>3. Commit(t, e)
  BY DEF SyncBegin
<1> HIDE DEF e
<1>4. Now' = [Now EXCEPT ![t] = e]
  BY <1>2, <1>3, CommitEffect
<1>5. ASSUME NEW u \in Table
      PROVE  PhaseOf(Now'[u].state) = PhaseOf(Now[u].state) /\ Upto(Now'[u]) = Upto(Now[u])
  BY <1>1, <1>2, <1>4, Zenon DEF PhaseOf, Upto
<1>6. Phase' = Phase
  BY <1>5 DEF Phase
<1>7. Reached' = Reached
  BY <1>5 DEF Reached
<1>8. UNCHANGED <<wal, binary, from, bySync, lmax>>
  BY DEF SyncBegin, publisherVars, historyVars
<1>9. Sent' = Sent
  BY <1>8, SameSent
<1> QED
  BY <1>6, <1>7, <1>8, <1>9, FollowStutters

LEMMA CreateSlotFollows ==
    ASSUME TypeOK, IInv, NEW t \in Table, CreateSlot(t)
    PROVE  Follow!Attempt(t)
<1>1. /\ UNCHANGED <<wal, binary, bySync, lmax, db>>
      /\ from' = [from EXCEPT ![t] = committed] /\ SyncPc(t) = "datasync"
  BY DEF CreateSlot, publisherVars
<1>2. Phase' = Phase /\ Reached' = Reached
  BY <1>1, CatalogSame, SameEntries
<1>3. Phase[t] = "none"
  BY <1>1, Known, Zenon DEF PlaceInv, Phase, PhaseOf
<1>4. committed \in 0..Len(wal)
  BY DEF TypeOK
<1> QED
  BY <1>1, <1>2, <1>3, <1>4, SameSent, FollowAttempts, Zenon

LEMMA SendsOne ==
    ASSUME TypeOK, NEW t \in Table, NEW m \in Row \X (0..Len(wal)), SyncSends(t, m),
           UNCHANGED <<wal, binary, db>>
    PROVE  Follow!Send
<1>1. from' = from
  BY DEF SyncSends
<1>2. Sent' = Sent \cup {m}
  BY SentOne
<1>3. Phase' = Phase /\ Reached' = Reached
  BY CatalogSame, SameEntries
<1> QED
  BY <1>1, <1>2, <1>3, FollowSends

LEMMA CopyRowFollows ==
    ASSUME TypeOK, IInv, NEW t \in Table, CopyRow(t)
    PROVE  Follow!Send
<1>1. PICK m \in sync[t].todo : CopyOne(t, m)
  BY DEF CopyRow
<1>2. SyncSends(t, m) /\ UNCHANGED <<wal, binary, db>> /\ SyncPc(t) = "copy"
  BY <1>1 DEF CopyOne, publisherVars
<1>3. m \in Snapshot(wal, t, from[t]) /\ from[t] <= committed
  BY <1>2, Known, Zenon DEF ProgressInv
<1>4. from[t] \in Nat /\ from[t] <= Len(wal) /\ Len(wal) \in Nat
  BY <1>3, WalType DEF TypeOK
<1>5. m \in Row \X (0..from[t])
  BY <1>3, <1>4, SnapshotType
<1>6. m \in Row \X (0..Len(wal))
  BY <1>4, <1>5
<1> QED
  BY <1>2, <1>6, SendsOne

LEMMA SyncApplyFollows ==
    ASSUME TypeOK, IInv, NEW t \in Table, SyncApply(t)
    PROVE  Follow!Send
<1>1. /\ SyncSends(t, ChangeOf(wal, sync[t].pos + 1)) /\ UNCHANGED <<wal, binary, db>>
      /\ sync[t].pos < committed
  BY DEF SyncApply, publisherVars
<1>2. sync[t].pos \in Nat
  BY Known DEF SyncWorker
<1>3. wal \in Seq(Transaction) /\ sync[t].pos + 1 \in 1..Len(wal)
  BY <1>1, <1>2, WalType
<1>4. ChangeOf(wal, sync[t].pos + 1) \in Row \X (0..Len(wal))
  BY <1>3, ChangeType
<1> QED
  BY <1>1, <1>4, SendsOne, Zenon

LEMMA FinishCopyFollows ==
    ASSUME TypeOK, TypeOK', IInv, IInv', NEW t \in Table, FinishCopy(t)
    PROVE  Follow!Copied(t)
<1> DEFINE e == [state |-> "f", lsn |-> 0, origin |-> sync[t].origin_startpos]
<1>1. SyncPc(t) = "copy" /\ Now[t].state = "d" /\ Now \in [Table -> RelState]
  BY Known, Zenon DEF FinishCopy, PlaceInv
<1>2. e \in RelState /\ e.state = "f"
  BY Known, Zenon DEF RelState, CatalogState, SyncWorker
<1>3. Commit(t, e)
  BY DEF FinishCopy
<1> HIDE DEF e
<1>4. Now' = [Now EXCEPT ![t] = e]
  BY <1>2, <1>3, CommitEffect
<1>5. Now'[t] = e /\ \A u \in Table \ {t} : Now'[u] = Now[u]
  BY <1>1, <1>4
<1>6. Phase[t] = "none" /\ Phase' = [Phase EXCEPT ![t] = "copied"]
  <2>1. PhaseOf(Now[t].state) = "none" /\ PhaseOf(Now'[t].state) = "copied"
    BY <1>1, <1>2, <1>5 DEF PhaseOf
  <2>2. \A u \in Table : PhaseOf(Now'[u].state) = IF u = t THEN "copied" ELSE PhaseOf(Now[u].state)
    BY <1>5, <2>1, Zenon
  <2> QED
    BY <2>1, <2>2, Zenon DEF Phase
<1>7. Reached' = Reached
  BY <1>1, <1>2, <1>5 DEF Reached, Upto
<1>8. UNCHANGED <<wal, binary, from, bySync, lmax>>
  BY Zenon DEF FinishCopy, publisherVars, historyVars
<1>9. Sent' = Sent
  BY <1>8, SameSent, Zenon
<1>10. binary' \/ Snapshot(wal', t, from'[t]) \subseteq Sent'
  BY <1>2, <1>5, TrueNext DEF NowTrue, EntryTrue
<1> QED
  BY <1>6, <1>7, <1>8, <1>9, <1>10, FollowCopies, Zenon

LEMMA CommitSyncDoneFollows ==
    ASSUME TypeOK, TypeOK', IInv, IInv', NEW t \in Table, CommitSyncDone(t)
    PROVE  Follow!Synced(t)
<1> DEFINE e == [Now[t] EXCEPT !.state = "s", !.lsn = sync[t].relstate_lsn]
<1>1. /\ SyncPc(t) = "dropped" /\ Now[t].state = "f" /\ Now \in [Table -> RelState]
      /\ Now[t] \in RelState
  BY Known, Zenon DEF CommitSyncDone, PlaceInv
<1>2. e \in RelState /\ e.state = "s"
  BY <1>1, Known, Zenon DEF RelState, CatalogState, SyncWorker
<1>3. Commit(t, e)
  BY DEF CommitSyncDone
<1> HIDE DEF e
<1>4. Now' = [Now EXCEPT ![t] = e]
  BY <1>2, <1>3, CommitEffect
<1>5. Now'[t] = e /\ \A u \in Table \ {t} : Now'[u] = Now[u]
  BY <1>1, <1>4
<1>6. Phase[t] = "copied" /\ Phase' = [Phase EXCEPT ![t] = "synced"]
  <2>1. PhaseOf(Now[t].state) = "copied" /\ PhaseOf(Now'[t].state) = "synced"
    BY <1>1, <1>2, <1>5 DEF PhaseOf
  <2>2. \A u \in Table : PhaseOf(Now'[u].state) = IF u = t THEN "synced" ELSE PhaseOf(Now[u].state)
    BY <1>5, <2>1, Zenon
  <2> QED
    BY <2>1, <2>2, Zenon DEF Phase
<1>7. Reached' = [Reached EXCEPT ![t] = Before(e.lsn)]
  BY <1>1, <1>2, <1>5, Zenon DEF Reached, Upto
<1>8. UNCHANGED <<wal, binary, from, bySync, lmax>>
  BY DEF CommitSyncDone, publisherVars, historyVars
<1>9. Sent' = Sent
  BY <1>8, SameSent
<1>10. Changes(wal', t, from'[t], Before(e.lsn)) \subseteq Sent' /\ Before(e.lsn) <= Len(wal')
  BY <1>2, <1>5, TrueNext, Zenon DEF NowTrue, EntryTrue, Upto
<1>11. Before(e.lsn) \in 0..Len(wal)
  <2>1. e.lsn \in Nat /\ Len(wal) \in Nat
    BY <1>2, WalType DEF RelState
  <2>2. Before(e.lsn) \in Nat
    BY <2>1, Positions, Zenon
  <2> QED
    BY <1>8, <1>10, <2>1, <2>2
<1> QED
  BY <1>6, <1>7, <1>8, <1>9, <1>10, <1>11, FollowSyncs, Zenon

LEMMA FinishSyncFollows ==
    ASSUME TypeOK, IInv, NEW t \in Table, FinishSync(t)
    PROVE  UNCHANGED Follow!followVars
<1> DEFINE e == [Now[t] EXCEPT !.origin = 0]
<1>1. UNCHANGED <<wal, binary, from, bySync, lmax>> /\ Logged(t, e)
  BY DEF FinishSync, publisherVars, historyVars
<1>2. Now[t] \in RelState /\ Now \in [Table -> RelState]
  BY Known
<1>3. e \in RelState /\ e.state = Now[t].state /\ e.lsn = Now[t].lsn
  BY <1>2, Zenon DEF RelState
<1> HIDE DEF e
<1>4. Now' = [Now EXCEPT ![t] = e]
  BY <1>1, <1>3, LoggedEffect
<1>5. \A u \in Table : Now'[u].state = Now[u].state /\ Now'[u].lsn = Now[u].lsn
  BY <1>2, <1>3, <1>4
<1> QED
  BY <1>1, <1>5, SameEntries, SameSent, FollowStutters

LEMMA SyncStepFollows ==
    ASSUME TypeOK, TypeOK', IInv, IInv', NEW t \in Table, SyncStep(t)
    PROVE  Follow!FollowNext \/ UNCHANGED Follow!followVars
<1>1. CASE \/ SyncNothingToDo(t) \/ CreateSlotFails(t) \/ CopyBinaryRow(t) \/ SyncResume(t)
           \/ CloseCopy(t) \/ SyncKeepalive(t) \/ SyncRound(t) \/ DropSyncSlot(t)
  <2>1. UNCHANGED <<wal, binary, from, bySync, lmax, db>>
    BY <1>1, Zenon DEF SyncNothingToDo, CreateSlotFails, CopyBinaryRow, SyncResume, CloseCopy,
       SyncKeepalive, SyncRound, DropSyncSlot, publisherVars, historyVars
  <2> QED
    BY <2>1, CatalogSame, QuietFollows
<1>2. CASE CopyNullRow(t) \/ CloseCopyCrash(t)
  BY <1>2, CrashFollows DEF CopyNullRow, CloseCopyCrash, Follow!FollowNext
<1>3. CASE CreateSlot(t) \/ FinishCopy(t) \/ CommitSyncDone(t)
  BY <1>3, CreateSlotFollows, FinishCopyFollows, CommitSyncDoneFollows DEF Follow!FollowNext
<1>4. CASE CopyRow(t) \/ SyncApply(t)
  BY <1>4, CopyRowFollows, SyncApplyFollows DEF Follow!FollowNext
<1>5. CASE SyncBegin(t) \/ FinishSync(t)
  BY <1>5, BeginFollows, FinishSyncFollows
<1> QED
  BY <1>1, <1>2, <1>3, <1>4, <1>5 DEF SyncStep

(* The steps of the leader.                                                *)
LEMMA LeaderApplyFollows ==
    ASSUME TypeOK, IInv, LeaderApply
    PROVE  Follow!Send \/ UNCHANGED Follow!followVars
<1>1. UNCHANGED <<wal, binary, from, bySync, db>>
  BY DEF LeaderApply, publisherVars
<1>2. Phase' = Phase /\ Reached' = Reached
  BY <1>1, CatalogSame, SameEntries
<1>3. CASE lmax' = lmax
  BY <1>1, <1>2, <1>3, SameSent, FollowStutters
<1>4. CASE lmax' # lmax
  <2>0. lpos <= lmax
    BY DEF IInv, LeaderInv
  <2>1. ChangeOf(wal, lpos + 1) \in Row \X (0..Len(wal))
    BY <2>0, SentNext, ChangeType
  <2>2. Sent' = Sent \cup {ChangeOf(wal, lpos + 1)}
    BY <1>4, <2>0, SentNext
  <2> QED
    BY <1>1, <1>2, <2>1, <2>2, FollowSends
<1> QED
  BY <1>3, <1>4

LEMMA CommitMarkedFollows ==
    ASSUME TypeOK, TypeOK', IInv, IInv', CommitMarked,
           UNCHANGED <<wal, binary, from, bySync, lmax>>
    PROVE  \E S \in SUBSET Table : Follow!Ready(S)
<1> DEFINE k == Before(current_lsn)
<1>1. Now' = [t \in Table |-> IF t \in marked
                              THEN [state |-> "r", lsn |-> current_lsn, origin |-> 0]
                              ELSE Now[t]]
  BY CommitMarkedEffect
<1>2. marked \in SUBSET Table /\ current_lsn \in Nat
  BY DEF TypeOK
<1>3. k \in 0..Len(wal)
  <2>1. k \in Nat
    BY <1>2, Positions, ZenonT(30)
  <2>2. k <= lpos /\ lpos \in 0..committed /\ committed \in 0..Len(wal)
    BY DEF IInv, LeaderInv, TypeOK
  <2> QED
    BY <2>1, <2>2, WalType
<1>4. \A t \in marked : Phase[t] \in {"copied", "synced"}
  <2> TAKE t \in marked
  <2>1. t \in Table /\ Now[t].state \in {"f", "s"}
    BY <1>2, Known, Zenon DEF MarkedInv
  <2> QED
    BY <2>1 DEF Phase, PhaseOf
<1>5. ASSUME NEW t \in marked PROVE Changes(wal, t, from[t], k) \subseteq Sent
  <2>1. t \in Table /\ Now'[t].state = "r" /\ Now'[t].lsn = current_lsn
    BY <1>1, <1>2, Zenon
  <2>2. Changes(wal', t, from'[t], Before(current_lsn)) \subseteq Sent'
    BY <2>1, TrueNext, Zenon DEF NowTrue, EntryTrue
  <2> QED
    BY <2>2, SameSent
<1>6. Reached' = [t \in Table |-> IF t \in marked THEN k ELSE Reached[t]]
  <2>1. ASSUME NEW t \in Table PROVE Upto(Now'[t]) = IF t \in marked THEN k ELSE Upto(Now[t])
    BY <1>1, Zenon DEF Upto
  <2> QED
    BY <2>1, ZenonT(30) DEF Reached
<1>7. Phase' = [t \in Table |-> IF t \in marked THEN "ready" ELSE Phase[t]]
  <2>1. ASSUME NEW t \in Table
        PROVE  PhaseOf(Now'[t].state) = IF t \in marked THEN "ready" ELSE PhaseOf(Now[t].state)
    <3>1. PhaseOf("r") = "ready"
      BY DEF PhaseOf
    <3>2. Now'[t].state = IF t \in marked THEN "r" ELSE Now[t].state
      BY <1>1
    <3> QED
      BY <3>1, <3>2
  <2> QED
    BY <2>1, Zenon DEF Phase
<1>8. Sent' = Sent
  BY SameSent
<1> HIDE DEF k
<1>9. wal' = wal /\ binary' = binary /\ from' = from
  OBVIOUS
<1>10. PICK S \in SUBSET Table, n \in 0..Len(wal) : S = marked /\ n = k
  BY <1>2, <1>3
<1>11. TakesOver(S, n)
  BY <1>4, <1>5, <1>6, <1>7, <1>8, <1>9, <1>10, Zenon DEF TakesOver
<1>12. Follow!Ready(S)
  BY <1>11, FollowIsReady
<1> QED
  BY <1>12

LEMMA LeaderStepFollows ==
    ASSUME TypeOK, TypeOK', IInv, IInv', LeaderStep
    PROVE  Follow!FollowNext \/ UNCHANGED Follow!followVars
<1>1. CASE StartLeader \/ LeaderKeepalive \/ LeaderRound \/ LeaderWaitEnds
  <2>1. UNCHANGED <<wal, binary, from, bySync, lmax, db>>
    BY <1>1, Zenon DEF StartLeader, LeaderKeepalive, LeaderRound, LeaderWaitEnds, publisherVars,
                historyVars
  <2> QED
    BY <2>1, CatalogSame, QuietFollows
<1>2. CASE LeaderApply
  BY <1>2, LeaderApplyFollows DEF Follow!FollowNext
<1>3. ASSUME NEW t \in Table,
             \/ ScanReady(t) \/ ScanBehind(t) \/ ScanWorker(t) \/ LaunchSync(t) \/ LaunchLater(t)
      PROVE  UNCHANGED Follow!followVars
  <2>1. UNCHANGED <<wal, binary, from, bySync, lmax, db>>
    BY <1>3, Zenon DEF ScanReady, ScanBehind, ScanWorker, LaunchSync, LaunchLater, publisherVars,
                historyVars
  <2> QED
    BY <2>1, CatalogSame, QuietFollows
<1>4. ASSUME CommitMarked, UNCHANGED <<wal, binary, from, bySync, lmax>>
      PROVE  Follow!FollowNext
  BY <1>4, CommitMarkedFollows DEF Follow!FollowNext
<1>5. CASE ScanEnds
  BY <1>4, <1>5 DEF ScanEnds, publisherVars, historyVars
<1>6. ASSUME NEW t \in Table, ScanCatchup(t) PROVE Follow!FollowNext
  BY <1>4, <1>6 DEF ScanCatchup, publisherVars, historyVars
<1> QED
  BY <1>1, <1>2, <1>3, <1>5, <1>6 DEF LeaderStep

LEMMA StepFollows ==
    ASSUME TypeOK, TypeOK', IInv, IInv', [Next]_vars
    PROVE  Follow!FollowNext \/ UNCHANGED Follow!followVars
<1>1. CASE LeaderStep
  BY <1>1, LeaderStepFollows
<1>2. ASSUME NEW t \in Table, SyncStep(t)
      PROVE  Follow!FollowNext \/ UNCHANGED Follow!followVars
  BY <1>2, SyncStepFollows
<1>3. CASE ServerCrash
  BY <1>3, CrashFollows DEF ServerCrash, Follow!FollowNext
<1>4. CASE PublisherCommit \/ LeaderExit \/ UNCHANGED vars
  <2>1. UNCHANGED <<wal, binary, from, bySync, lmax, db>>
    BY <1>4 DEF PublisherCommit, LeaderExit, vars, publisherVars, historyVars
  <2> QED
    BY <2>1, CatalogSame, QuietFollows
<1>5. ASSUME NEW t \in Table, SyncError(t) \/ RelInvalidated(t)
      PROVE  UNCHANGED Follow!followVars
  <2>1. UNCHANGED <<wal, binary, from, bySync, lmax, db>>
    BY <1>5 DEF SyncError, RelInvalidated, publisherVars, historyVars
  <2> QED
    BY <2>1, CatalogSame, QuietFollows
<1>6. CASE WalWriter
  <2>1. UNCHANGED <<wal, binary, from, bySync, lmax>>
    BY <1>6 DEF WalWriter, publisherVars, historyVars
  <2>2. Now' = Now
    BY <1>6, CatalogSuffix, Zenon DEF WalWriter
  <2> QED
    BY <2>1, <2>2, QuietFollows
<1> QED
  BY <1>1, <1>2, <1>3, <1>4, <1>5, <1>6 DEF Next, Fault

LEMMA InitFollows ==
    ASSUME Init
    PROVE  Follow!FollowInit
<1> DEFINE c == [t \in Table |-> [state |-> "i", lsn |-> 0, origin |-> 0]]
<1>1. db = <<c>>
  BY DEF Init
<1>2. \A t \in Table : c[t].state = "i"
  OBVIOUS
<1> HIDE DEF c
<1>3. Now = c
  <2>1. Len(db) = 1 /\ db[1] = c
    BY <1>1
  <2> QED
    BY <2>1 DEF Now
<1>4. Phase = [t \in Table |-> "none"]
  BY <1>2, <1>3 DEF Phase, PhaseOf
<1>5. Reached = [t \in Table |-> 0]
  BY <1>2, <1>3 DEF Reached, Upto
<1>6. Sent = {}
  <2>1. lmax = 0 /\ \A t \in Table : bySync[t] = {}
    BY DEF Init
  <2>2. 1..lmax = {}
    BY <2>1
  <2> QED
    BY <2>1, <2>2, Zenon DEF Sent
<1>7. wal \in Workloads /\ binary \in BOOLEAN /\ from = [t \in Table |-> 0]
  BY SyncAssumption DEF Init
<1> QED
  BY <1>4, <1>5, <1>6, <1>7, Zenon DEF Follow!FollowInit, Phase, Reached, Upto

(* The synchronization keeps the promise of TableFollow: a table is called *)
(* copied, synchronized or ready only once everything that means was sent, *)
(* only a crash of the server takes such a statement back, and nothing     *)
(* that was sent is taken back (tablesync.c and the leader's side of it).  *)
THEOREM SyncImplementsFollow == Spec => FollowsTables
<1>1. Init => Follow!FollowInit
  BY InitFollows
<1>2. TypeOK /\ IInv /\ TypeOK' /\ IInv' /\ [Next]_vars
        => [Follow!FollowNext]_(Follow!followVars)
  BY StepFollows
<1> QED
  BY <1>1, <1>2, Invariance, PTL DEF Spec, FollowsTables, Follow!FollowSpec
=============================================================================
