------------------------- MODULE SyncPipelineProofs ------------------------
(***************************************************************************)
(* Proofs about SyncPipeline, for every publication and WAL, any number of *)
(* tables, of workers at a time, of partitions and of faults.              *)
(***************************************************************************)
EXTENDS SyncPipeline, TableSyncWorkers

(* A leaf is tried with SMT, then with Zenon, then with SMT again: the     *)
(* larger ones need more than the default time.                            *)
USE SMTT(30), ZenonT(30), SMTT(60)

-----------------------------------------------------------------------------
(* The steps: the producers do not change what the workers do              *)

(* The leader is not ahead of what it has sent.                            *)
NotAhead == lpos <= lmax

LEMMA LeaderBehind ==
    ASSUME TypeOK, NotAhead, [Next]_vars
    PROVE  NotAhead'
<1>0. lpos \in Nat /\ lmax \in Nat /\ lpos <= lmax
  BY WalType DEF TypeOK, NotAhead
<1>1. CASE LeaderApply
  BY <1>0, <1>1 DEF LeaderApply, Later, NotAhead
<1>2. CASE StartLeader
  <2>1. lpos' \in 0..lpos /\ lmax' = lmax
    BY <1>2, Zenon DEF StartLeader, historyVars
  <2> QED
    BY <1>0, <2>1 DEF NotAhead
<1>3. ASSUME ~LeaderApply, ~StartLeader PROVE UNCHANGED <<lpos, lmax>>
  <2>1. ASSUME NEW t \in Table, SyncStep(t) PROVE lpos' = lpos /\ lmax' = lmax
    BY <2>1, Zenon
       DEF SyncStep, SyncNothingToDo, SyncBegin, CreateSlot, CreateSlotFails, CopyRow, CopyOne,
           SyncSends, CopyNullRow, CopyBinaryRow, FinishCopy, SyncResume, CloseCopy,
           CloseCopyCrash, Crash, SyncApply, SyncKeepalive, SyncRound, DropSyncSlot,
           CommitSyncDone, FinishSync, leaderVars, historyVars
  <2>2. ASSUME LeaderStep PROVE lpos' = lpos /\ lmax' = lmax
    BY <1>3, <2>2, Zenon
       DEF LeaderStep, LeaderKeepalive, LeaderRound, LeaderWaitEnds, ScanEnds, ScanReady,
           ScanBehind, ScanWorker, ScanCatchup, LaunchSync, LaunchLater, historyVars
  <2>3. ASSUME Fault \/ PublisherCommit \/ WalWriter PROVE lpos' = lpos /\ lmax' = lmax
    BY <2>3, Zenon
       DEF Fault, ServerCrash, Crash, LeaderExit, SyncError, RelInvalidated, PublisherCommit,
           WalWriter, leaderVars, historyVars
  <2>4. ASSUME UNCHANGED vars PROVE lpos' = lpos /\ lmax' = lmax
    BY <2>4 DEF vars, leaderVars, historyVars
  <2> QED
    BY <2>1, <2>2, <2>3, <2>4, Zenon DEF Next
<1> QED
  BY <1>0, <1>1, <1>2, <1>3 DEF NotAhead

LEMMA StartsBehind == Init => NotAhead
BY DEF Init, NotAhead

(* The producers do not change what the workers do.                        *)
LEMMA SyncPipelineStep ==
    ASSUME [SyncPipelineNext]_syncPipelineVars
    PROVE  [Next]_vars
<1>1. ASSUME NEW t \in Table,
             \/ ProduceRow(t) \/ ProduceCatchup(t) \/ CloseFlushed(t) \/ CommitDone(t)
             \/ SyncEnds(t)
      PROVE  Next
  BY <1>1, Zenon
     DEF ProduceRow, ProduceCatchup, CloseFlushed, CommitDone, SyncEnds, Next, SyncStep, CopyRow,
         Fault
<1>2. CASE ProduceChange \/ LeaderEnds
  BY <1>2, Zenon DEF ProduceChange, LeaderEnds, Next, LeaderStep, Fault
<1>3. CASE ServerEnds
  BY <1>3, Zenon DEF ServerEnds, Next, SyncStep, Fault
<1>4. CASE QuietStep
  BY <1>4, Zenon DEF QuietStep, Next, SyncStep, LeaderStep, Fault
<1>5. CASE Broker
  BY <1>5, Zenon DEF Broker
<1>6. CASE UNCHANGED syncPipelineVars
  BY <1>6 DEF syncPipelineVars
<1> QED
  BY <1>1, <1>2, <1>3, <1>4, <1>5, <1>6, Zenon DEF SyncPipelineNext

(* The leader and the workers with their producers are the leader and the  *)
(* workers of TableSync: what is proved of these holds of those.           *)
THEOREM SyncPipelineImplementsSync == SyncPipelineSpec => Spec
<1>1. SyncPipelineInit => Init
  BY DEF SyncPipelineInit
<1>2. [SyncPipelineNext]_syncPipelineVars => [Next]_vars
  BY SyncPipelineStep
<1> QED
  BY <1>1, <1>2, PTL DEF Spec, SyncPipelineSpec

(* A step that hands nothing to a producer sends nothing.                  *)
LEMMA SendsNothing ==
    ASSUME [SyncPipelineNext]_syncPipelineVars, ~ProduceChange,
           \A t \in Table : ~ProduceRow(t) /\ ~ProduceCatchup(t)
    PROVE  Sent' = Sent
<1> DEFINE Same == wal' = wal /\ bySync' = bySync /\ lmax' = lmax
<1>1. ASSUME NEW t \in Table, CloseFlushed(t) \/ CommitDone(t) \/ SyncEnds(t) PROVE Same
  BY <1>1, Zenon
     DEF CloseFlushed, CloseCopy, CommitDone, CommitSyncDone, SyncEnds, SyncError, FinishSync,
         SyncNothingToDo, CreateSlotFails, publisherVars, historyVars
<1>2. ASSUME LeaderEnds \/ ServerEnds PROVE Same
  BY <1>2, Zenon
     DEF LeaderEnds, LeaderExit, ServerEnds, ServerCrash, CopyNullRow, CloseCopyCrash, Crash,
         publisherVars, historyVars
<1>3. ASSUME QuietStep PROVE Same
  <2>1. ASSUME NEW t \in Table,
               \/ SyncBegin(t) \/ CreateSlot(t) \/ CopyBinaryRow(t) \/ FinishCopy(t)
               \/ SyncResume(t) \/ RelInvalidated(t) \/ SyncKeepalive(t) \/ SyncRound(t)
               \/ DropSyncSlot(t)
        PROVE  Same
    BY <2>1, Zenon
       DEF SyncBegin, CreateSlot, CopyBinaryRow, FinishCopy, SyncResume, RelInvalidated,
           SyncKeepalive, SyncRound, DropSyncSlot, publisherVars, historyVars
  <2>2. ASSUME NEW t \in Table,
               \/ ScanReady(t) \/ ScanBehind(t) \/ ScanWorker(t) \/ ScanCatchup(t)
               \/ LaunchSync(t) \/ LaunchLater(t)
        PROVE  Same
    BY <2>2, Zenon
       DEF ScanReady, ScanBehind, ScanWorker, ScanCatchup, LaunchSync, LaunchLater,
           publisherVars, historyVars
  <2>3. ASSUME \/ PublisherCommit \/ WalWriter
               \/ StartLeader \/ LeaderKeepalive \/ LeaderRound \/ LeaderWaitEnds \/ ScanEnds
        PROVE  Same
    BY <2>3, Zenon
       DEF PublisherCommit, WalWriter, StartLeader, LeaderKeepalive, LeaderRound,
           LeaderWaitEnds, ScanEnds, publisherVars, historyVars
  <2> QED
    BY <1>3, <2>1, <2>2, <2>3, Zenon DEF QuietStep
<1>4. ASSUME Broker \/ UNCHANGED syncPipelineVars PROVE Same
  BY <1>4 DEF Broker, syncPipelineVars, vars, publisherVars, historyVars
<1>5. Same
  BY <1>1, <1>2, <1>3, <1>4, Zenon DEF SyncPipelineNext
<1> QED
  BY <1>5, SameSent

(* What is handed to a producer is a message.                              *)
LEMMA HandsMessage ==
    ASSUME TypeOK, NotAhead
    PROVE  /\ \A t \in Table : sync[t].todo \subseteq Message
           /\ \A t \in Table : SyncApply(t) => ChangeOf(wal, sync[t].pos + 1) \in Message
           /\ LeaderApply => ChangeOf(wal, lpos + 1) \in Message
<1>0. wal \in Seq(Transaction) /\ Len(wal) \in Nat /\ committed \in Nat /\ committed <= Len(wal)
  BY WalType DEF TypeOK
<1>1. ASSUME NEW i \in 1..Len(wal) PROVE ChangeOf(wal, i) \in Message
  BY <1>0, ChangeType DEF Message
<1>2. ASSUME NEW t \in Table PROVE sync[t].todo \subseteq Message /\ sync[t].pos \in Nat
  BY DEF TypeOK, SyncWorker
<1>3. ASSUME NEW t \in Table, SyncApply(t) PROVE ChangeOf(wal, sync[t].pos + 1) \in Message
  <2>1. sync[t].pos < committed
    BY <1>3 DEF SyncApply
  <2> QED
    BY <1>0, <1>1, <1>2, <2>1
<1>4. ASSUME LeaderApply PROVE ChangeOf(wal, lpos + 1) \in Message
  BY <1>1, <1>4, SentNext DEF NotAhead
<1> QED
  BY <1>2, <1>3, <1>4

-----------------------------------------------------------------------------
(* Where the copy of a table is                                            *)

(* The messages in a queue.                                                *)
Payloads(q) == {q[i].msg : i \in 1..Len(q)}

(* The places of a worker that has closed its copy.                        *)
CatchingUp == {"stream", "done", "dropped", "committed"}

(* Where the copy of t is: nowhere but in the topic and in the queue of    *)
(* t's worker, of the rows that are sent, and in the topic once the copy   *)
(* is closed.                                                              *)
CopyPlace(t) ==
    LET copy == Snapshot(wal, t, from[t])
        arriving == Delivered \cup Payloads(queue[t])
    IN  /\ SyncPc(t) = "copy" => copy \ sync[t].todo \subseteq arriving
        /\ SyncPc(t) = "wait" /\ sync[t].rel # "null" => copy \subseteq arriving
        /\ SyncPc(t) \in CatchingUp => copy \subseteq Delivered

CopyInv == reliable /\ ~binary => \A t \in Table : CopyPlace(t)

(* Nothing of the worker of t that arrived, or is arriving, is lost in a   *)
(* step.                                                                   *)
NothingLost(t) ==
    /\ Delivered \subseteq Delivered'
    /\ Delivered \cup Payloads(queue[t]) \subseteq Delivered' \cup Payloads(queue'[t])

(* What a step may do to the worker of t, other than send a row or close   *)
(* the copy.                                                               *)
Moves(t) ==
    LET w == sync[t]
        v == sync'[t]
    IN  \/ v.pc \in {"none", "start", "datasync"}
        \/ v.pc = "copy" /\ v.todo = Snapshot(wal, t, from'[t])
        \/ w.pc = "copy" /\ w.todo = {} /\ v.pc = "wait" /\ from'[t] = from[t]
        \/ v.pc = "wait" /\ v.rel = "null"
        \/ /\ v.pc = w.pc \/ (w.pc \in CatchingUp /\ v.pc \in CatchingUp)
           /\ v.todo = w.todo /\ (v.rel # "null" => w.rel # "null") /\ from'[t] = from[t]

LEMMA MovesKeepPlace ==
    ASSUME NEW t \in Table, CopyPlace(t), NothingLost(t), Moves(t), wal' = wal
    PROVE  CopyPlace(t)'
<1> DEFINE copy == Snapshot(wal, t, from[t])
           arriving == Delivered \cup Payloads(queue[t])
<1>1. /\ sync[t].pc = "copy" => copy \ sync[t].todo \subseteq arriving
      /\ sync[t].pc = "wait" /\ sync[t].rel # "null" => copy \subseteq arriving
      /\ sync[t].pc \in CatchingUp => copy \subseteq Delivered
  BY Zenon DEF CopyPlace, SyncPc
<1>2. Delivered \subseteq Delivered' /\ arriving \subseteq arriving'
  BY DEF NothingLost
<1> HIDE DEF arriving
<1>3. SUFFICES /\ sync'[t].pc = "copy" =>
                    Snapshot(wal, t, from'[t]) \ sync'[t].todo \subseteq arriving'
               /\ sync'[t].pc = "wait" /\ sync'[t].rel # "null" =>
                    Snapshot(wal, t, from'[t]) \subseteq arriving'
               /\ sync'[t].pc \in CatchingUp => Snapshot(wal, t, from'[t]) \subseteq Delivered'
  BY Zenon DEF CopyPlace, SyncPc, arriving
<1> USE DEF CatchingUp
<1>4. CASE sync'[t].pc \in {"none", "start", "datasync"}
  BY <1>4
<1>5. CASE sync'[t].pc = "copy" /\ sync'[t].todo = Snapshot(wal, t, from'[t])
  BY <1>5
<1>6. CASE sync[t].pc = "copy" /\ sync[t].todo = {} /\ sync'[t].pc = "wait" /\ from'[t] = from[t]
  BY <1>1, <1>2, <1>6
<1>7. CASE sync'[t].pc = "wait" /\ sync'[t].rel = "null"
  BY <1>7
<1>8. CASE /\ sync'[t].pc = sync[t].pc \/ (sync[t].pc \in CatchingUp /\ sync'[t].pc \in CatchingUp)
           /\ sync'[t].todo = sync[t].todo /\ (sync'[t].rel # "null" => sync[t].rel # "null")
           /\ from'[t] = from[t]
  <2> HIDE DEF CatchingUp
  <2>1. CASE sync'[t].pc = sync[t].pc
    BY <1>1, <1>2, <1>8, <2>1, Zenon
  <2>2. CASE sync[t].pc \in CatchingUp /\ sync'[t].pc \in CatchingUp
    BY <1>1, <1>2, <1>8, <2>2 DEF CatchingUp
  <2> QED
    BY <1>8, <2>1, <2>2
<1> QED
  BY <1>4, <1>5, <1>6, <1>7, <1>8, Zenon DEF Moves

(* The step touches the worker of t only.                                  *)
Touches(t) ==
    /\ wal' = wal
    /\ \A u \in Table \ {t} : sync'[u] = sync[u] /\ from'[u] = from[u]

LEMMA WorkerMoves ==
    ASSUME TypeOK, NEW t \in Table,
           \/ SyncBegin(t) \/ CreateSlot(t) \/ CopyBinaryRow(t) \/ FinishCopy(t)
           \/ SyncResume(t) \/ RelInvalidated(t) \/ SyncKeepalive(t) \/ SyncRound(t)
           \/ DropSyncSlot(t) \/ CommitSyncDone(t) \/ SyncApply(t)
    PROVE  Touches(t) /\ (~binary => Moves(t))
<1>0. sync \in [Table -> SyncWorker] /\ sync[t] \in SyncWorker /\ from \in [Table -> Nat]
  BY DEF TypeOK
<1>1. CASE SyncBegin(t)
  <2>1. /\ sync'[t].pc = "datasync" /\ \A u \in Table \ {t} : sync'[u] = sync[u]
        /\ SyncPc(t) = "start" /\ wal' = wal /\ from' = from
    BY <1>0, <1>1, Zenon DEF SyncBegin, SyncWorker, publisherVars, historyVars
  <2> QED
    BY <2>1 DEF Touches, Moves
<1>2. CASE CreateSlot(t)
  <2>1. /\ sync'[t].pc = "copy" /\ sync'[t].todo = Snapshot(wal, t, committed)
        /\ \A u \in Table \ {t} : sync'[u] = sync[u]
        /\ SyncPc(t) = "datasync" /\ wal' = wal
    BY <1>0, <1>2, Zenon DEF CreateSlot, SyncWorker, publisherVars
  <2>2. from'[t] = committed /\ \A u \in Table \ {t} : from'[u] = from[u]
    BY <1>0, <1>2, Zenon DEF CreateSlot
  <2> QED
    BY <2>1, <2>2 DEF Touches, Moves
<1>3. CASE CopyBinaryRow(t)
  <2>1. /\ binary /\ SyncPc(t) = "copy" /\ \A u \in Table \ {t} : sync'[u] = sync[u]
        /\ wal' = wal /\ from' = from
    BY <1>0, <1>3, Zenon DEF CopyBinaryRow, publisherVars, historyVars
  <2> QED
    BY <2>1 DEF Touches
<1>4. CASE FinishCopy(t)
  <2>1. /\ sync'[t].pc = "wait" /\ sync[t].pc = "copy" /\ sync[t].todo = {}
        /\ \A u \in Table \ {t} : sync'[u] = sync[u]
        /\ wal' = wal /\ from' = from
    BY <1>0, <1>4, Zenon DEF FinishCopy, SyncWait, SyncPc, SyncWorker, publisherVars, historyVars
  <2> QED
    BY <2>1 DEF Touches, Moves, SyncPc
<1>5. CASE SyncResume(t)
  <2>1. /\ sync'[t].pc = "wait" /\ sync'[t].rel = "null" /\ SyncPc(t) = "start"
        /\ \A u \in Table \ {t} : sync'[u] = sync[u]
        /\ wal' = wal /\ from' = from
    BY <1>0, <1>5, Zenon DEF SyncResume, SyncWait, SyncWorker, publisherVars, historyVars
  <2> QED
    BY <2>1 DEF Touches, Moves
<1>6. CASE RelInvalidated(t)
  <2>1. /\ sync'[t].pc = "wait" /\ sync[t].pc = "wait" /\ sync[t].rel = "closed"
        /\ sync'[t].todo = sync[t].todo
        /\ \A u \in Table \ {t} : sync'[u] = sync[u]
        /\ wal' = wal /\ from' = from
    BY <1>0, <1>6, Zenon DEF RelInvalidated, SyncPc, SyncWorker, publisherVars, historyVars
  <2> QED
    BY <2>1 DEF Touches, Moves, SyncPc
<1>7. CASE SyncKeepalive(t)
  <2>1. /\ sync'[t].pc = "stream" /\ sync[t].pc = "stream" /\ sync'[t].todo = sync[t].todo
        /\ sync'[t].rel = sync[t].rel
        /\ \A u \in Table \ {t} : sync'[u] = sync[u]
        /\ wal' = wal /\ from' = from
    BY <1>0, <1>7, Zenon DEF SyncKeepalive, SyncPc, SyncWorker, publisherVars, historyVars
  <2> QED
    BY <2>1 DEF Touches, Moves, SyncPc
<1>8. ASSUME NEW w \in SyncWorker, NEW lsn, w.pc = "stream"
      PROVE  /\ SyncedTo(w, lsn).pc \in {"stream", "done"}
             /\ SyncedTo(w, lsn).todo = w.todo /\ SyncedTo(w, lsn).rel = w.rel
  BY <1>8, Zenon DEF SyncedTo, SyncWorker
<1>9. CASE SyncRound(t)
  <2>1. /\ sync'[t] = SyncedTo(sync[t], sync[t].recv) /\ sync[t].pc = "stream"
        /\ \A u \in Table \ {t} : sync'[u] = sync[u]
        /\ wal' = wal /\ from' = from
    BY <1>0, <1>9, Zenon DEF SyncRound, SyncPc, publisherVars, historyVars
  <2> QED
    BY <1>0, <1>8, <2>1 DEF Touches, Moves, SyncPc, CatchingUp
<1>10. CASE SyncApply(t)
  <2> DEFINE i == sync[t].pos + 1
             w == [sync[t] EXCEPT !.pos = i, !.recv = Later(sync[t].recv, EndLsn(i))]
  <2>1. i \in Nat /\ Later(sync[t].recv, EndLsn(i)) \in Nat
    BY <1>0 DEF SyncWorker, Later, EndLsn
  <2>2. /\ sync'[t] = SyncedTo(w, EndLsn(i)) /\ sync[t].pc = "stream"
        /\ \A u \in Table \ {t} : sync'[u] = sync[u]
        /\ wal' = wal /\ from' = from
    BY <1>0, <1>10, Zenon DEF SyncApply, SyncSends, publisherVars
  <2> HIDE DEF i
  <2>3. /\ w \in SyncWorker /\ w.pc = sync[t].pc /\ w.todo = sync[t].todo
        /\ w.rel = sync[t].rel
    BY <1>0, <2>1, Zenon DEF SyncWorker
  <2> HIDE DEF w
  <2> QED
    BY <1>8, <2>2, <2>3 DEF Touches, Moves, SyncPc, CatchingUp
<1>11. CASE DropSyncSlot(t)
  <2>1. /\ sync'[t].pc = "dropped" /\ sync[t].pc = "done" /\ sync'[t].todo = sync[t].todo
        /\ sync'[t].rel = sync[t].rel
        /\ \A u \in Table \ {t} : sync'[u] = sync[u]
        /\ wal' = wal /\ from' = from
    BY <1>0, <1>11, Zenon DEF DropSyncSlot, SyncPc, SyncWorker, publisherVars, historyVars
  <2> QED
    BY <2>1 DEF Touches, Moves, SyncPc, CatchingUp
<1>12. CASE CommitSyncDone(t)
  <2>1. /\ sync'[t].pc = "committed" /\ sync[t].pc = "dropped" /\ sync'[t].todo = sync[t].todo
        /\ sync'[t].rel = sync[t].rel
        /\ \A u \in Table \ {t} : sync'[u] = sync[u]
        /\ wal' = wal /\ from' = from
    BY <1>0, <1>12, Zenon DEF CommitSyncDone, SyncPc, SyncWorker, publisherVars, historyVars
  <2> QED
    BY <2>1 DEF Touches, Moves, SyncPc, CatchingUp
<1> QED
  BY <1>1, <1>2, <1>3, <1>4, <1>5, <1>6, <1>7, <1>9, <1>10, <1>11, <1>12, Zenon

LEMMA LeaderMoves ==
    ASSUME TypeOK,
           \/ PublisherCommit \/ WalWriter \/ LeaderApply \/ LeaderExit
           \/ StartLeader \/ LeaderKeepalive \/ LeaderRound \/ LeaderWaitEnds \/ ScanEnds
           \/ \E t \in Table : \/ ScanReady(t) \/ ScanBehind(t) \/ ScanWorker(t)
                               \/ ScanCatchup(t) \/ LaunchLater(t)
           \/ UNCHANGED vars
    PROVE  wal' = wal /\ \A u \in Table : sync'[u].pc = sync[u].pc /\ Moves(u)
<1>0. sync \in [Table -> SyncWorker]
  BY DEF TypeOK
<1>1. ASSUME NEW t \in Table, ScanCatchup(t)
      PROVE  /\ wal' = wal /\ from' = from
             /\ \A u \in Table : /\ sync'[u].pc = sync[u].pc /\ sync'[u].todo = sync[u].todo
                                 /\ sync'[u].rel = sync[u].rel
  <2>1. /\ sync'[t].pc = sync[t].pc /\ sync'[t].todo = sync[t].todo
        /\ sync'[t].rel = sync[t].rel /\ \A u \in Table \ {t} : sync'[u] = sync[u]
    BY <1>0, <1>1, Zenon DEF ScanCatchup, SyncWorker
  <2> QED
    BY <1>1, <2>1, Zenon DEF ScanCatchup, publisherVars, historyVars
<1>2. ASSUME NEW t \in Table, ScanReady(t) \/ ScanBehind(t) \/ ScanWorker(t) \/ LaunchLater(t)
      PROVE  wal' = wal /\ from' = from /\ sync' = sync
  BY <1>2, Zenon DEF ScanReady, ScanBehind, ScanWorker, LaunchLater, publisherVars, historyVars
<1>3. ASSUME \/ PublisherCommit \/ WalWriter \/ LeaderApply \/ LeaderExit
             \/ StartLeader \/ LeaderKeepalive \/ LeaderRound \/ LeaderWaitEnds \/ ScanEnds
             \/ UNCHANGED vars
      PROVE  wal' = wal /\ from' = from /\ sync' = sync
  BY <1>3, Zenon
     DEF PublisherCommit, WalWriter, LeaderApply, LeaderExit, StartLeader, LeaderKeepalive,
         LeaderRound, LeaderWaitEnds, ScanEnds, vars, publisherVars, historyVars
<1>4. /\ wal' = wal /\ from' = from
      /\ \A u \in Table : /\ sync'[u].pc = sync[u].pc /\ sync'[u].todo = sync[u].todo
                          /\ sync'[u].rel = sync[u].rel
  BY <1>1, <1>2, <1>3, Zenon
<1> QED
  BY <1>4, Zenon DEF Moves

(* Of a server that goes down no worker is left.                           *)
LEMMA NobodyLeft ==
    ASSUME ServerEnds
    PROVE  \A u \in Table : sync'[u].pc = "none"
<1>1. Crash
  BY Zenon DEF ServerEnds, ServerCrash, CopyNullRow, CloseCopyCrash
<1> QED
  BY <1>1 DEF Crash, NoWorker

(* A worker ends, or is launched, and the others go on.                    *)
LEMMA OneLess ==
    ASSUME TypeOK, NEW t \in Table, SyncEnds(t)
    PROVE  Touches(t) /\ sync'[t].pc = "none" /\ binary' = binary
<1>1. /\ SyncGone(t) /\ UNCHANGED historyVars /\ UNCHANGED <<wal, binary>>
  BY Zenon
     DEF SyncEnds, SyncError, FinishSync, SyncNothingToDo, CreateSlotFails, publisherVars
<1>2. sync'[t].pc = "none" /\ \A u \in Table \ {t} : sync'[u] = sync[u]
  BY <1>1 DEF SyncGone, NoWorker, TypeOK
<1> QED
  BY <1>1, <1>2, Zenon DEF Touches, historyVars

LEMMA OneMore ==
    ASSUME TypeOK, NEW t \in Table, LaunchSync(t)
    PROVE  Touches(t) /\ Moves(t) /\ binary' = binary
<1>1. sync'[t].pc = "start" /\ \A u \in Table \ {t} : sync'[u] = sync[u]
  BY Zenon DEF LaunchSync, TypeOK, NoWorker
<1>2. wal' = wal /\ from' = from /\ binary' = binary
  BY Zenon DEF LaunchSync, publisherVars, historyVars
<1> QED
  BY <1>1, <1>2 DEF Touches, Moves

(* The others stay where they are.                                         *)
LEMMA OthersStay ==
    ASSUME NEW t \in Table, Touches(t)
    PROVE  \A u \in Table \ {t} : Moves(u)
BY Zenon DEF Touches, Moves

-----------------------------------------------------------------------------
(* The producers                                                           *)

Entry == [msg : Message, part : Partition]

(* The types of the queues, the topic and what is lost.                    *)
PipeTypeOK ==
    /\ queue \in [Process -> Seq(Entry)]
    /\ topic \in [Partition -> Seq(Message)]
    /\ lost \subseteq Message

(* No message of any producer disappears.                                  *)
Keeps ==
    /\ PipeTypeOK'
    /\ Delivered \subseteq Delivered' /\ lost \subseteq lost'
    /\ \A p \in Process :
          Payloads(queue[p]) \subseteq Payloads(queue'[p]) \cup Delivered' \cup lost'

(* The producer of p loses no message.                                     *)
Arriving(p) == Payloads(queue[p]) \subseteq Payloads(queue'[p]) \cup Delivered'

(* What KafkaChannelProofs says of sequences.                              *)
Facts == INSTANCE KafkaChannelProofs WITH queue <- queue[Leader]

LEMMA QueueFacts ==
    ASSUME NEW q \in Seq(Entry)
    PROVE  /\ Len(q) \in Nat /\ Payloads(q) \subseteq Message
           /\ \A i \in 1..Len(q) : q[i] \in Entry /\ q[i].msg \in Message /\ q[i].part \in Partition
<1>1. Len(q) \in Nat /\ \A i \in 1..Len(q) : q[i] \in Entry
  BY Facts!SeqLength, Facts!SeqElement, Zenon
<1>2. \A i \in 1..Len(q) : q[i].msg \in Message /\ q[i].part \in Partition
  BY <1>1 DEF Entry
<1> QED
  BY <1>1, <1>2 DEF Payloads

LEMMA QueueAppend ==
    ASSUME NEW q \in Seq(Entry), NEW e \in Entry
    PROVE  /\ Append(q, e) \in Seq(Entry)
           /\ Payloads(q) \subseteq Payloads(Append(q, e)) /\ e.msg \in Payloads(Append(q, e))
<1> DEFINE r == Append(q, e)
<1>1. /\ r \in Seq(Entry) /\ Len(r) = Len(q) + 1 /\ r[Len(q) + 1] = e
      /\ \A i \in 1..Len(q) : r[i] = q[i]
  BY Facts!SeqAppend
<1> HIDE DEF r
<1>2. Len(q) + 1 \in 1..Len(r) /\ \A i \in 1..Len(q) : i \in 1..Len(r)
  BY <1>1, QueueFacts
<1>3. Payloads(q) \subseteq Payloads(r) /\ e.msg \in Payloads(r)
  BY <1>1, <1>2, Zenon DEF Payloads
<1> QED
  BY <1>1, <1>3 DEF r

LEMMA QueueWithout ==
    ASSUME NEW p \in Process, NEW q \in Seq(Entry), NEW i \in 1..Len(q)
    PROVE  /\ Producer(p)!Without(q, i) \in Seq(Entry)
           /\ Payloads(q) \subseteq Payloads(Producer(p)!Without(q, i)) \cup {q[i].msg}
<1> DEFINE r == Producer(p)!Without(q, i)
<1>1. r = Facts!Without(q, i)
  BY DEF Producer!Without, Facts!Without
<1>2. /\ r \in Seq(Entry) /\ Len(r) = Len(q) - 1
      /\ \A j \in 1..(Len(q) - 1) : r[j] = IF j < i THEN q[j] ELSE q[j + 1]
  BY <1>1, Facts!WithoutProperties, Zenon
<1> HIDE DEF r
<1>3. ASSUME NEW j \in 1..Len(q), j # i PROVE q[j].msg \in Payloads(r)
  <2>1. CASE j < i
    <3>1. j \in 1..Len(r) /\ r[j] = q[j]
      BY <1>2, <2>1, QueueFacts
    <3> QED
      BY <3>1, Zenon DEF Payloads
  <2>2. CASE ~(j < i)
    <3>1. j - 1 \in 1..Len(r) /\ r[j - 1] = q[j]
      BY <1>2, <1>3, <2>2, QueueFacts
    <3> QED
      BY <3>1, Zenon DEF Payloads
  <2> QED
    BY <2>1, <2>2, Zenon
<1>4. Payloads(q) \subseteq Payloads(r) \cup {q[i].msg}
  BY <1>3, Zenon DEF Payloads
<1> QED
  BY <1>2, <1>4 DEF r

(* A log that has one message more.                                        *)
LEMMA LogAppend ==
    ASSUME PipeTypeOK, NEW k \in Partition, NEW m \in Message,
           topic' = [topic EXCEPT ![k] = Append(@, m)]
    PROVE  /\ topic' \in [Partition -> Seq(Message)]
           /\ Delivered \subseteq Delivered' /\ m \in Delivered'
<1>0. topic \in [Partition -> Seq(Message)] /\ topic[k] \in Seq(Message)
  BY DEF PipeTypeOK
<1>1. /\ topic'[k] = Append(topic[k], m) /\ \A j \in Partition \ {k} : topic'[j] = topic[j]
  BY <1>0, Zenon
<1>2. /\ topic'[k] \in Seq(Message) /\ Len(topic'[k]) = Len(topic[k]) + 1
      /\ topic'[k][Len(topic[k]) + 1] = m
      /\ \A n \in 1..Len(topic[k]) : topic'[k][n] = topic[k][n]
  BY <1>0, <1>1, Facts!SeqAppend
<1>3. topic' \in [Partition -> Seq(Message)]
  BY <1>0, <1>1, <1>2
<1>4. Len(topic[k]) \in Nat
  BY <1>0, Facts!SeqLength, Zenon
<1>5. Len(topic[k]) + 1 \in 1..Len(topic'[k]) /\ \A n \in 1..Len(topic[k]) : n \in 1..Len(topic'[k])
  BY <1>2, <1>4
<1>6. \A x : x \in Delivered' <=> \E j \in Partition : \E n \in 1..Len(topic'[j]) : x = topic'[j][n]
  BY DEF Delivered
<1>7. \A x \in Delivered : \E j \in Partition : \E n \in 1..Len(topic[j]) : x = topic[j][n]
  BY DEF Delivered
<1>8. m \in Delivered'
  BY <1>2, <1>5, <1>6, Zenon
<1>9. ASSUME NEW j \in Partition, NEW n \in 1..Len(topic[j]) PROVE topic[j][n] \in Delivered'
  <2>1. n \in 1..Len(topic'[j]) /\ topic'[j][n] = topic[j][n]
    BY <1>1, <1>2, <1>5, Zenon
  <2> QED
    BY <1>6, <2>1, Zenon
<1>10. Delivered \subseteq Delivered'
  BY <1>7, <1>9, Zenon
<1> QED
  BY <1>3, <1>8, <1>10

(* The steps of a producer, one by one.                                    *)
LEMMA Accepting ==
    ASSUME PipeTypeOK, NEW p \in Process, NEW m \in Message, Accept(p, m)
    PROVE  Keeps /\ m \in Payloads(queue'[p]) /\ \A o \in Process : Arriving(o)
<1>0. queue \in [Process -> Seq(Entry)] /\ queue[p] \in Seq(Entry)
  BY DEF PipeTypeOK
<1>1. PICK k \in Partition : queue' = [queue EXCEPT ![p] = Append(@, [msg |-> m, part |-> k])]
  BY Zenon DEF Accept
<1>2. [msg |-> m, part |-> k] \in Entry /\ [msg |-> m, part |-> k].msg = m
  BY DEF Entry
<1>3. /\ queue'[p] = Append(queue[p], [msg |-> m, part |-> k])
      /\ \A o \in Process \ {p} : queue'[o] = queue[o]
  BY <1>0, <1>1, Zenon
<1>4. /\ queue'[p] \in Seq(Entry)
      /\ Payloads(queue[p]) \subseteq Payloads(queue'[p]) /\ m \in Payloads(queue'[p])
  BY <1>0, <1>2, <1>3, QueueAppend, Zenon
<1>5. queue' \in [Process -> Seq(Entry)]
  BY <1>0, <1>1, <1>3, <1>4
<1>6. topic' = topic /\ lost' = lost /\ Delivered' = Delivered
  BY DEF Accept, Delivered
<1>7. PipeTypeOK'
  BY <1>5, <1>6, Zenon DEF PipeTypeOK
<1>8. \A o \in Process : Payloads(queue[o]) \subseteq Payloads(queue'[o])
  BY <1>3, <1>4, Zenon
<1> QED
  BY <1>4, <1>6, <1>7, <1>8, Zenon DEF Keeps, Arriving

LEMMA Refusing ==
    ASSUME PipeTypeOK, NEW p \in Process, NEW m \in Message, Refuse(p, m)
    PROVE  Keeps /\ m \in lost'
<1>1. lost' = lost \cup {m} /\ queue' = queue /\ topic' = topic /\ Delivered' = Delivered
  BY DEF Refuse, Delivered
<1>2. PipeTypeOK'
  BY <1>1 DEF PipeTypeOK
<1> QED
  BY <1>1, <1>2, Zenon DEF Keeps

(* The queue of p without its i-th message.                                *)
LEMMA Leaving ==
    ASSUME PipeTypeOK, NEW p \in Process, NEW i \in 1..Len(queue[p]),
           queue' = [queue EXCEPT ![p] = Producer(p)!Without(@, i)]
    PROVE  /\ queue[p][i].msg \in Message /\ queue[p][i].part \in Partition
           /\ queue' \in [Process -> Seq(Entry)]
           /\ \A o \in Process :
                  Payloads(queue[o]) \subseteq Payloads(queue'[o]) \cup {queue[p][i].msg}
<1>0. queue \in [Process -> Seq(Entry)] /\ queue[p] \in Seq(Entry)
  BY DEF PipeTypeOK
<1> DEFINE r == Producer(p)!Without(queue[p], i)
<1>1. r \in Seq(Entry) /\ Payloads(queue[p]) \subseteq Payloads(r) \cup {queue[p][i].msg}
  BY <1>0, QueueWithout, Zenon
<1>2. queue'[p] = r /\ \A o \in Process \ {p} : queue'[o] = queue[o]
  BY <1>0, Zenon
<1>3. queue' = [queue EXCEPT ![p] = r]
  BY <1>0, Zenon
<1> HIDE DEF r
<1>4. queue' \in [Process -> Seq(Entry)]
  BY <1>0, <1>1, <1>3
<1>5. \A o \in Process : Payloads(queue[o]) \subseteq Payloads(queue'[o]) \cup {queue[p][i].msg}
  BY <1>1, <1>2, Zenon
<1> QED
  BY <1>0, <1>4, <1>5, QueueFacts, Zenon

LEMMA Delivering ==
    ASSUME PipeTypeOK, NEW p \in Process, NEW i \in 1..Len(queue[p]), Deliver(p, i)
    PROVE  Keeps /\ \A o \in Process : Arriving(o)
<1>1. /\ queue' = [queue EXCEPT ![p] = Producer(p)!Without(@, i)]
      /\ topic' = [topic EXCEPT ![queue[p][i].part] = Append(@, queue[p][i].msg)]
      /\ lost' = lost
  BY Zenon DEF Deliver
<1>2. /\ queue[p][i].msg \in Message /\ queue[p][i].part \in Partition
      /\ queue' \in [Process -> Seq(Entry)]
      /\ \A o \in Process :
             Payloads(queue[o]) \subseteq Payloads(queue'[o]) \cup {queue[p][i].msg}
  BY <1>1, Leaving, Zenon
<1>3. /\ topic' \in [Partition -> Seq(Message)]
      /\ Delivered \subseteq Delivered' /\ queue[p][i].msg \in Delivered'
  BY <1>1, <1>2, LogAppend, Zenon
<1>4. PipeTypeOK'
  BY <1>1, <1>2, <1>3, Zenon DEF PipeTypeOK
<1>5. \A o \in Process : Payloads(queue[o]) \subseteq Payloads(queue'[o]) \cup Delivered'
  BY <1>2, <1>3, Zenon
<1> QED
  BY <1>1, <1>3, <1>4, <1>5, Zenon DEF Keeps, Arriving

LEMMA Expiring ==
    ASSUME PipeTypeOK, NEW p \in Process, NEW i \in 1..Len(queue[p]), Expire(p, i)
    PROVE  Keeps
<1>1. /\ queue' = [queue EXCEPT ![p] = Producer(p)!Without(@, i)]
      /\ lost' = lost \cup {queue[p][i].msg} /\ topic' = topic
  BY Zenon DEF Expire
<1>2. /\ queue[p][i].msg \in Message /\ queue' \in [Process -> Seq(Entry)]
      /\ \A o \in Process :
             Payloads(queue[o]) \subseteq Payloads(queue'[o]) \cup {queue[p][i].msg}
  BY <1>1, Leaving, Zenon
<1>3. Delivered' = Delivered
  BY <1>1 DEF Delivered
<1>4. PipeTypeOK'
  BY <1>1, <1>2, Zenon DEF PipeTypeOK
<1> QED
  BY <1>1, <1>2, <1>3, <1>4, Zenon DEF Keeps

LEMMA Destroying ==
    ASSUME PipeTypeOK, NEW P \in SUBSET Process, Destroy(P)
    PROVE  Keeps /\ topic' = topic /\ \A o \in Process \ P : queue'[o] = queue[o] /\ Arriving(o)
<1>0. queue \in [Process -> Seq(Entry)]
  BY DEF PipeTypeOK
<1>1. /\ lost' = lost \cup UNION {Payloads(queue[p]) : p \in P}
      /\ queue' = [p \in Process |-> IF p \in P THEN <<>> ELSE queue[p]]
      /\ topic' = topic
  BY DEF Destroy, Producer!Queued, Payloads
<1>2. \A o \in Process \ P : queue'[o] = queue[o]
  BY <1>1
<1>3. <<>> \in Seq(Entry)
  OBVIOUS
<1>4. queue' \in [Process -> Seq(Entry)]
  BY <1>0, <1>1, <1>3
<1>5. lost \subseteq lost' /\ \A p \in P : Payloads(queue[p]) \subseteq lost'
  BY <1>1, Zenon
<1>6. \A p \in P : Payloads(queue[p]) \subseteq Message
  BY <1>0, QueueFacts, Zenon
<1>7. PipeTypeOK'
  BY <1>1, <1>4, <1>6, Zenon DEF PipeTypeOK
<1>8. Delivered' = Delivered
  BY <1>1 DEF Delivered
<1> QED
  BY <1>1, <1>2, <1>5, <1>7, <1>8, Zenon DEF Keeps, Arriving

(* A message handed to a producer is in its queue, or lost.                *)
LEMMA Producing ==
    ASSUME PipeTypeOK, NEW p \in Process, NEW m \in Message, Produces(p, m)
    PROVE  /\ Keeps /\ m \in Payloads(queue'[p]) \cup lost'
           /\ reliable => m \in Payloads(queue'[p]) /\ \A o \in Process : Arriving(o)
BY Accepting, Refusing, Zenon DEF Produces

LEMMA PipeKeeps ==
    ASSUME TypeOK, NotAhead, PipeTypeOK, [SyncPipelineNext]_syncPipelineVars
    PROVE  Keeps /\ reliable' = reliable
<1>0. Leader \in Process /\ \A t \in Table : t \in Process /\ {t} \in SUBSET Process
  BY DEF Process
<1>1. ASSUME NEW t \in Table, ProduceRow(t) PROVE Keeps /\ reliable' = reliable
  <2>1. PICK m \in sync[t].todo : CopyOne(t, m) /\ Produces(t, m)
    BY <1>1, Zenon DEF ProduceRow
  <2> QED
    BY <1>0, <2>1, HandsMessage, Producing, Zenon DEF Produces
<1>2. ASSUME NEW t \in Table, ProduceCatchup(t) PROVE Keeps /\ reliable' = reliable
  BY <1>0, <1>2, HandsMessage, Producing, Zenon DEF ProduceCatchup, Produces
<1>3. CASE ProduceChange
  BY <1>0, <1>3, HandsMessage, Producing, Zenon DEF ProduceChange, Produces
<1>4. ASSUME NEW t \in Table, CloseFlushed(t) \/ SyncEnds(t) PROVE Keeps /\ reliable' = reliable
  BY <1>0, <1>4, Destroying, Zenon DEF CloseFlushed, SyncEnds
<1>5. CASE LeaderEnds \/ ServerEnds
  <2>1. {Leader} \in SUBSET Process /\ Process \in SUBSET Process
    BY <1>0
  <2> QED
    BY <1>5, <2>1, Destroying, Zenon DEF LeaderEnds, ServerEnds
<1>6. CASE Broker
  <2>1. \E p \in Process : \E i \in 1..Len(queue[p]) : Deliver(p, i) \/ Expire(p, i)
    BY <1>6, Zenon DEF Broker
  <2> QED
    BY <1>6, <2>1, Delivering, Expiring, Zenon DEF Broker
<1>7. CASE UNCHANGED <<queue, topic, lost, reliable>>
  <2>1. Delivered' = Delivered
    BY <1>7 DEF Delivered
  <2> QED
    BY <1>7, <2>1, Zenon DEF Keeps, PipeTypeOK
<1>8. ASSUME NEW t \in Table, CommitDone(t) PROVE Keeps /\ reliable' = reliable
  BY <1>7, <1>8, Zenon DEF CommitDone
<1>9. CASE QuietStep \/ UNCHANGED syncPipelineVars
  BY <1>7, <1>9, Zenon DEF QuietStep, pipeVars, syncPipelineVars
<1> QED
  BY <1>1, <1>2, <1>3, <1>4, <1>5, <1>6, <1>8, <1>9, Zenon DEF SyncPipelineNext

-----------------------------------------------------------------------------
(* Every message has a fate                                                *)

LEMMA OnItsWayIs ==
    /\ \A m : m \in OnItsWay <=> \E p \in Process : m \in Payloads(queue[p])
    /\ \A m : m \in OnItsWay' <=> \E p \in Process : m \in Payloads(queue'[p])
BY DEF OnItsWay, Producer!Queued, Payloads

(* What is sent is handed to the producer of the process that sends it.    *)
LEMMA SentIsHanded ==
    ASSUME TypeOK, NotAhead, PipeTypeOK, [SyncPipelineNext]_syncPipelineVars
    PROVE  Sent' \subseteq Sent \cup OnItsWay' \cup lost'
<1> DEFINE Handed == OnItsWay' \cup lost'
<1>0. Leader \in Process /\ \A t \in Table : t \in Process
  BY DEF Process
<1>1. ASSUME NEW p \in Process, NEW m \in Message, Produces(p, m) PROVE m \in Handed
  BY <1>1, Producing, OnItsWayIs, Zenon
<1> HIDE DEF Handed
<1>2. ASSUME NEW t \in Table, ProduceRow(t) PROVE Sent' \subseteq Sent \cup Handed
  <2>1. PICK m \in sync[t].todo : CopyOne(t, m) /\ Produces(t, m)
    BY <1>2, Zenon DEF ProduceRow
  <2>2. Sent' = Sent \cup {m}
    BY <2>1, SentOne, Zenon DEF CopyOne, publisherVars
  <2>3. m \in Handed
    BY <1>0, <1>1, <2>1, HandsMessage, Zenon
  <2> QED
    BY <2>2, <2>3, Zenon
<1>3. ASSUME NEW t \in Table, ProduceCatchup(t) PROVE Sent' \subseteq Sent \cup Handed
  <2>1. SyncApply(t) /\ Produces(t, ChangeOf(wal, sync[t].pos + 1))
    BY <1>3, Zenon DEF ProduceCatchup
  <2>2. Sent' = Sent \cup {ChangeOf(wal, sync[t].pos + 1)}
    BY <2>1, SentOne, Zenon DEF SyncApply, publisherVars
  <2>3. ChangeOf(wal, sync[t].pos + 1) \in Handed
    BY <1>0, <1>1, <2>1, HandsMessage, Zenon
  <2> QED
    BY <2>2, <2>3, Zenon
<1>4. ASSUME ProduceChange PROVE Sent' \subseteq Sent \cup Handed
  <2>1. LeaderApply /\ Produces(Leader, ChangeOf(wal, lpos + 1))
    BY <1>4, Zenon DEF ProduceChange
  <2>2. Sent' \subseteq Sent \cup {ChangeOf(wal, lpos + 1)}
    BY <2>1, SentNext, Zenon DEF NotAhead
  <2>3. ChangeOf(wal, lpos + 1) \in Handed
    BY <1>0, <1>1, <2>1, HandsMessage, Zenon
  <2> QED
    BY <2>2, <2>3, Zenon
<1>5. ASSUME Sent' = Sent PROVE Sent' \subseteq Sent \cup Handed
  BY <1>5
<1>6. Sent' \subseteq Sent \cup Handed
  BY <1>2, <1>3, <1>4, <1>5, SendsNothing, Zenon
<1> QED
  BY <1>6, Zenon DEF Handed

LEMMA PipeInit ==
    ASSUME SyncPipelineInit
    PROVE  PipeTypeOK /\ Sent = {}
<1>1. /\ queue = [p \in Process |-> <<>>] /\ lost = {} /\ topic = [k \in Partition |-> <<>>]
      /\ bySync = [t \in Table |-> {}] /\ lmax = 0
  BY Zenon DEF SyncPipelineInit, Init
<1>2. PipeTypeOK
  BY <1>1 DEF PipeTypeOK
<1>3. Sent = {}
  BY <1>1 DEF Sent
<1> QED
  BY <1>2, <1>3

(* Every message the leader or one of the workers sends is in the topic,   *)
(* in the queue of a living process, or lost in one of the ways            *)
(* KafkaChannel names, whoever goes away: a worker that ends               *)
(* (finish_sync_worker), fails, or is taken down by the server loses its   *)
(* own queue, and nothing else.                                            *)
THEOREM SentHasFateCorrect == SyncPipelineSpec => []SentHasFate
<1>1. SyncPipelineInit => TypeOK /\ NotAhead /\ PipeTypeOK /\ SentHasFate
  <2>1. SyncPipelineInit => Init
    BY DEF SyncPipelineInit
  <2>2. SyncPipelineInit => PipeTypeOK /\ SentHasFate
    BY PipeInit DEF SentHasFate
  <2> QED
    BY <2>1, <2>2, TypeInit, StartsBehind, Zenon
<1>2. ASSUME TypeOK, NotAhead, PipeTypeOK, SentHasFate, [SyncPipelineNext]_syncPipelineVars
      PROVE  TypeOK' /\ NotAhead' /\ PipeTypeOK' /\ SentHasFate'
  <2>1. [Next]_vars
    BY <1>2, SyncPipelineStep, Zenon
  <2>2. TypeOK' /\ NotAhead'
    BY <1>2, <2>1, TypeStep, LeaderBehind, Zenon
  <2>3. Keeps
    BY <1>2, PipeKeeps, Zenon
  <2>4. Sent' \subseteq Sent \cup OnItsWay' \cup lost'
    BY <1>2, SentIsHanded, Zenon
  <2>5. OnItsWay \subseteq Delivered' \cup OnItsWay' \cup lost'
    BY <2>3, OnItsWayIs, Zenon DEF Keeps
  <2>6. SentHasFate'
    BY <1>2, <2>3, <2>4, <2>5, Zenon DEF SentHasFate, Keeps
  <2> QED
    BY <2>2, <2>3, <2>6, Zenon DEF Keeps
<1> QED
  BY <1>1, <1>2, PTL DEF SyncPipelineSpec

-----------------------------------------------------------------------------
(* The copy is in the topic before the worker catches up                   *)

LEMMA Arrives ==
    ASSUME NEW t \in Table, Keeps, Arriving(t)
    PROVE  NothingLost(t)
BY Zenon DEF Keeps, Arriving, NothingLost

(* A row is in the queue when it is not to do any more.                    *)
LEMMA ProduceRowPlace ==
    ASSUME TypeOK, NotAhead, PipeTypeOK, reliable, NEW t \in Table, ProduceRow(t)
    PROVE  /\ Touches(t) /\ \A u \in Table : NothingLost(u)
           /\ CopyPlace(t) => CopyPlace(t)'
<1>1. PICK m \in sync[t].todo : CopyOne(t, m) /\ Produces(t, m)
  BY Zenon DEF ProduceRow
<1>2. m \in Message /\ \A u \in Table : u \in Process
  BY HandsMessage, Zenon DEF Process
<1>3. sync \in [Table -> SyncWorker] /\ sync[t] \in SyncWorker
  BY DEF TypeOK
<1>4. /\ sync'[t] = [sync[t] EXCEPT !.todo = @ \ {m}] /\ sync[t].pc = "copy"
      /\ \A u \in Table \ {t} : sync'[u] = sync[u]
      /\ wal' = wal /\ from' = from
  BY <1>1, <1>3, Zenon DEF CopyOne, SyncPc, SyncSends, publisherVars
<1>5. sync'[t].pc = "copy" /\ sync'[t].todo = sync[t].todo \ {m}
  BY <1>3, <1>4, Zenon DEF SyncWorker
<1>6. Touches(t)
  BY <1>4 DEF Touches
<1>7. m \in Payloads(queue'[t]) /\ \A u \in Table : NothingLost(u)
  BY <1>1, <1>2, Producing, Arrives, Zenon
<1>8. ASSUME CopyPlace(t) PROVE CopyPlace(t)'
  <2>1. Snapshot(wal, t, from[t]) \ sync[t].todo \subseteq Delivered \cup Payloads(queue[t])
    BY <1>4, <1>8, Zenon DEF CopyPlace, SyncPc
  <2>2. Snapshot(wal, t, from'[t]) \ sync'[t].todo \subseteq Delivered' \cup Payloads(queue'[t])
    BY <1>4, <1>5, <1>7, <2>1, Zenon DEF NothingLost
  <2> QED
    BY <1>4, <1>5, <2>2 DEF CopyPlace, SyncPc, CatchingUp
<1> QED
  BY <1>6, <1>7, <1>8, Zenon

(* The queue is empty when the copy is closed: kafka_close_copy() flushes. *)
LEMMA CloseFlushedPlace ==
    ASSUME TypeOK, PipeTypeOK, reliable, NEW t \in Table, CloseFlushed(t)
    PROVE  /\ Touches(t) /\ \A u \in Table \ {t} : NothingLost(u)
           /\ CopyPlace(t) => CopyPlace(t)'
<1>1. sync \in [Table -> SyncWorker]
  BY DEF TypeOK
<1>2. /\ sync'[t].pc = "stream" /\ sync[t].pc = "wait" /\ sync[t].rel # "null"
      /\ \A u \in Table \ {t} : sync'[u] = sync[u]
      /\ wal' = wal /\ from' = from
  BY <1>1, Zenon
     DEF CloseFlushed, CloseCopy, WaitOver, SyncPc, SyncWorker, publisherVars, historyVars
<1>3. Touches(t)
  BY <1>2 DEF Touches
<1>4. queue[t] = <<>> /\ Destroy({t})
  BY Zenon DEF CloseFlushed
<1>5. {t} \in SUBSET Process /\ \A u \in Table \ {t} : u \in Process \ {t}
  BY DEF Process
<1>6. topic' = topic /\ \A u \in Table \ {t} : NothingLost(u)
  BY <1>4, <1>5, Destroying, Arrives, Zenon
<1>7. Payloads(queue[t]) = {} /\ Delivered' = Delivered
  BY <1>4, <1>6 DEF Payloads, Delivered
<1>8. ASSUME CopyPlace(t) PROVE CopyPlace(t)'
  <2>1. Snapshot(wal, t, from[t]) \subseteq Delivered \cup Payloads(queue[t])
    BY <1>2, <1>8, Zenon DEF CopyPlace, SyncPc
  <2>2. Snapshot(wal, t, from'[t]) \subseteq Delivered'
    BY <1>2, <1>7, <2>1, Zenon
  <2> QED
    BY <1>2, <2>2 DEF CopyPlace, SyncPc, CatchingUp
<1> QED
  BY <1>3, <1>6, <1>8, Zenon

(* Of the other steps, with a broker that takes everything.                *)
LEMMA LosesNothing ==
    ASSUME TypeOK, NotAhead, PipeTypeOK, reliable,
           \/ ProduceChange \/ LeaderEnds \/ QuietStep \/ Broker
           \/ \E t \in Table : ProduceCatchup(t) \/ CommitDone(t)
           \/ UNCHANGED syncPipelineVars
    PROVE  \A u \in Table : NothingLost(u)
<1>0. /\ Leader \in Process /\ {Leader} \in SUBSET Process
      /\ \A u \in Table : u \in Process /\ u \in Process \ {Leader}
  BY SyncPipelineAssumption DEF Process
<1>1. CASE queue' = queue /\ topic' = topic
  <2>1. Delivered' = Delivered
    BY <1>1 DEF Delivered
  <2> QED
    BY <1>1, <2>1, Zenon DEF NothingLost
<1>2. CASE QuietStep \/ UNCHANGED syncPipelineVars \/ \E t \in Table : CommitDone(t)
  BY <1>1, <1>2, Zenon DEF QuietStep, CommitDone, pipeVars, syncPipelineVars
<1>3. CASE ProduceChange
  BY <1>0, <1>3, HandsMessage, Producing, Arrives, Zenon DEF ProduceChange
<1>4. ASSUME NEW t \in Table, ProduceCatchup(t) PROVE \A u \in Table : NothingLost(u)
  BY <1>0, <1>4, HandsMessage, Producing, Arrives, Zenon DEF ProduceCatchup
<1>5. CASE LeaderEnds
  BY <1>0, <1>5, Destroying, Arrives, Zenon DEF LeaderEnds
<1>6. CASE Broker
  BY <1>0, <1>6, Delivering, Arrives, Zenon DEF Broker
<1> QED
  BY <1>2, <1>3, <1>4, <1>5, <1>6, Zenon

LEMMA CopyStep ==
    ASSUME TypeOK, NotAhead, PipeTypeOK, CopyInv, [SyncPipelineNext]_syncPipelineVars
    PROVE  CopyInv'
<1>1. reliable' = reliable
  BY PipeKeeps, Zenon
<1>2. SUFFICES ASSUME reliable, ~binary', NEW u \in Table
               PROVE  CopyPlace(u)'
  BY <1>1, Zenon DEF CopyInv
<1>3. ASSUME binary' = binary PROVE ~binary /\ CopyPlace(u)
  BY <1>2, <1>3, Zenon DEF CopyInv
<1>4. ASSUME sync'[u].pc = "none" PROVE CopyPlace(u)'
  BY <1>4 DEF CopyPlace, SyncPc, CatchingUp
<1>5. ASSUME binary' = binary, wal' = wal, NothingLost(u), Moves(u) PROVE CopyPlace(u)'
  BY <1>3, <1>5, MovesKeepPlace, Zenon
<1>6. CASE ServerEnds
  BY <1>4, <1>6, NobodyLeft, Zenon
<1>7. ASSUME NEW t \in Table, SyncEnds(t) PROVE CopyPlace(u)'
  <2>1. Touches(t) /\ sync'[t].pc = "none" /\ binary' = binary
    BY <1>7, OneLess, Zenon
  <2>2. CASE u = t
    BY <1>4, <2>1, <2>2, Zenon
  <2>3. CASE u # t
    <3>1. {t} \in SUBSET Process /\ u \in Process \ {t} /\ u \in Table \ {t}
      BY <2>3 DEF Process
    <3>2. NothingLost(u)
      BY <1>7, <3>1, Destroying, Arrives, Zenon DEF SyncEnds
    <3> QED
      BY <1>5, <2>1, <3>1, <3>2, OthersStay, Zenon DEF Touches
  <2> QED
    BY <2>2, <2>3, Zenon
<1>8. ASSUME NEW t \in Table, binary' = binary, Touches(t),
             \A v \in Table \ {t} : NothingLost(v), CopyPlace(t) => CopyPlace(t)'
      PROVE  CopyPlace(u)'
  <2>1. CASE u = t
    BY <1>3, <1>8, <2>1, Zenon
  <2>2. CASE u # t
    BY <1>5, <1>8, <2>2, OthersStay, Zenon DEF Touches
  <2> QED
    BY <2>1, <2>2, Zenon
<1>9. ASSUME NEW t \in Table, ProduceRow(t) PROVE CopyPlace(u)'
  <2>1. binary' = binary
    BY <1>9, Zenon DEF ProduceRow, CopyOne, publisherVars
  <2> QED
    BY <1>2, <1>8, <1>9, <2>1, ProduceRowPlace, Zenon
<1>10. ASSUME NEW t \in Table, CloseFlushed(t) PROVE CopyPlace(u)'
  <2>1. binary' = binary
    BY <1>10, Zenon DEF CloseFlushed, CloseCopy, publisherVars
  <2> QED
    BY <1>2, <1>8, <1>10, <2>1, CloseFlushedPlace, Zenon
<1> DEFINE OfWorker(t) ==
        \/ SyncBegin(t) \/ CreateSlot(t) \/ CopyBinaryRow(t) \/ FinishCopy(t)
        \/ SyncResume(t) \/ RelInvalidated(t) \/ SyncKeepalive(t) \/ SyncRound(t)
        \/ DropSyncSlot(t) \/ CommitSyncDone(t) \/ SyncApply(t)
<1>11. ASSUME NEW t \in Table, OfWorker(t) \/ LaunchSync(t), NothingLost(u) PROVE CopyPlace(u)'
  <2>1. binary' = binary
    BY <1>11, Zenon
       DEF SyncBegin, CreateSlot, CopyBinaryRow, FinishCopy, SyncResume, RelInvalidated,
           SyncKeepalive, SyncRound, DropSyncSlot, CommitSyncDone, SyncApply, LaunchSync,
           publisherVars
  <2>2. Touches(t) /\ Moves(t)
    BY <1>3, <1>11, <2>1, WorkerMoves, OneMore, Zenon
  <2>3. wal' = wal /\ Moves(u)
    BY <2>2, OthersStay, Zenon DEF Touches
  <2> QED
    BY <1>5, <1>11, <2>1, <2>3, Zenon
<1> DEFINE OfLeader ==
        \/ PublisherCommit \/ WalWriter \/ LeaderApply \/ LeaderExit
        \/ StartLeader \/ LeaderKeepalive \/ LeaderRound \/ LeaderWaitEnds \/ ScanEnds
        \/ \E t \in Table : \/ ScanReady(t) \/ ScanBehind(t) \/ ScanWorker(t)
                            \/ ScanCatchup(t) \/ LaunchLater(t)
        \/ UNCHANGED vars
<1>12. ASSUME OfLeader, NothingLost(u) PROVE CopyPlace(u)'
  <2>1. wal' = wal /\ Moves(u)
    BY <1>12, LeaderMoves, Zenon
  <2>2. binary' = binary
    BY <1>12, Zenon
       DEF PublisherCommit, WalWriter, LeaderApply, LeaderExit, StartLeader, LeaderKeepalive,
           LeaderRound, LeaderWaitEnds, ScanEnds, ScanReady, ScanBehind, ScanWorker, ScanCatchup,
           LaunchLater, vars, publisherVars
  <2> QED
    BY <1>5, <1>12, <2>1, <2>2, Zenon
<1> HIDE DEF OfWorker, OfLeader
<1>13. CASE QuietStep
  <2>1. OfLeader \/ \E t \in Table : OfWorker(t) \/ LaunchSync(t)
    BY <1>13, Zenon DEF QuietStep, OfWorker, OfLeader
  <2> QED
    BY <1>2, <1>11, <1>12, <1>13, <2>1, LosesNothing, Zenon
<1>14. ASSUME NEW t \in Table, ProduceCatchup(t) \/ CommitDone(t) PROVE CopyPlace(u)'
  <2>1. OfWorker(t)
    BY <1>14, Zenon DEF ProduceCatchup, CommitDone, OfWorker
  <2> QED
    BY <1>2, <1>11, <1>14, <2>1, LosesNothing, Zenon
<1>15. CASE ProduceChange \/ LeaderEnds \/ Broker \/ UNCHANGED syncPipelineVars
  <2>1. OfLeader
    BY <1>15, Zenon DEF ProduceChange, LeaderEnds, Broker, syncPipelineVars, OfLeader
  <2> QED
    BY <1>2, <1>12, <1>15, <2>1, LosesNothing, Zenon
<1> QED
  BY <1>6, <1>7, <1>9, <1>10, <1>13, <1>14, <1>15, Zenon DEF SyncPipelineNext

(* A worker that has begun to catch up has its whole copy in the topic, if *)
(* the broker takes everything and the copy is not a binary one, however   *)
(* many workers there are: kafka_close_copy() flushes the worker's queue   *)
(* between the last row and the first change.                              *)
THEOREM CopyBeforeCatchupCorrect == SyncPipelineSpec => []CopyBeforeCatchup
<1>1. SyncPipelineInit => TypeOK /\ NotAhead /\ PipeTypeOK /\ CopyInv
  <2>1. SyncPipelineInit => Init /\ PipeTypeOK
    BY PipeInit, Zenon DEF SyncPipelineInit
  <2>2. Init => \A t \in Table : sync[t].pc = "none"
    <3>1. NoWorker.pc = "none"
      BY DEF NoWorker
    <3>2. Init => \A t \in Table : sync[t] = NoWorker
      BY Zenon DEF Init
    <3> QED
      BY <3>1, <3>2, Zenon
  <2>3. ASSUME NEW t \in Table, sync[t].pc = "none" PROVE CopyPlace(t)
    BY <2>3 DEF CopyPlace, SyncPc, CatchingUp
  <2>4. Init => CopyInv
    BY <2>2, <2>3, Zenon DEF CopyInv
  <2> QED
    BY <2>1, <2>4, TypeInit, StartsBehind, Zenon
<1>2. ASSUME TypeOK, NotAhead, PipeTypeOK, CopyInv, [SyncPipelineNext]_syncPipelineVars
      PROVE  TypeOK' /\ NotAhead' /\ PipeTypeOK' /\ CopyInv'
  <2>1. [Next]_vars
    BY <1>2, SyncPipelineStep, Zenon
  <2>2. TypeOK' /\ NotAhead'
    BY <1>2, <2>1, TypeStep, LeaderBehind, Zenon
  <2>3. PipeTypeOK'
    BY <1>2, PipeKeeps, Zenon DEF Keeps
  <2>4. CopyInv'
    BY <1>2, CopyStep, Zenon
  <2> QED
    BY <2>2, <2>3, <2>4, Zenon
<1>3. CopyInv => CopyBeforeCatchup
  BY Zenon DEF CopyInv, CopyPlace, CatchingUp, CopyBeforeCatchup
<1> QED
  BY <1>1, <1>2, <1>3, PTL DEF SyncPipelineSpec
=============================================================================
