----------------------------- MODULE TableSync -----------------------------
(***************************************************************************)
(* The initial synchronization of the tables of a subscription: the table  *)
(* synchronization workers (tablesync.c, and copyfromparse.c for the COPY) *)
(* and the leader's side of the hand-shake                                 *)
(* (process_syncing_tables_for_apply).                                     *)
(*                                                                         *)
(* Transaction i of the publisher ends at position 2i; 2i+1 is a position  *)
(* after it and before the next one, which a keepalive or the consistent   *)
(* point of a new slot may carry.                                          *)
(*                                                                         *)
(* db is the part of the subscriber's WAL a crash may cut off: db[1] is    *)
(* the catalog as it is on disk, the rest are the asynchronous commits     *)
(* since.  Only pg_subscription_rel and the origins of the synchronization *)
(* workers are kept in it.                                                 *)
(*                                                                         *)
(* should_apply_changes_for_rel() is not called for a row change in this   *)
(* fork, so the leader sends every change whatever the state of its table, *)
(* and a synchronization worker sends the changes of every table.          *)
(*                                                                         *)
(* ALTER SUBSCRIPTION ... REFRESH and disable_on_error are not in this     *)
(* module.                                                                 *)
(***************************************************************************)
EXTENDS Publication, FiniteSets

CONSTANTS Workloads,        \* the WALs the publisher may write
          MaxSyncWorkers,   \* max_sync_workers_per_subscription
          Binary,           \* the values of the subscription's binary option
          Budgets           \* how often the bounded events may happen: within one of these

Event == {"syncError", "leaderExit", "serverCrash", "relInval"}

ASSUME SyncAssumption ==
    /\ Workloads \subseteq Seq(Transaction)
    /\ MaxSyncWorkers \in Nat
    /\ Binary \subseteq BOOLEAN
    /\ Budgets \subseteq [Event -> Nat]

VARIABLES
    (* the publisher *)
    wal, committed,     \* its transactions, and how many have committed
    binary,             \* the subscription's binary option, which COPY follows
    slot,               \* slot[t]: the synchronization slot of t exists
    (* the leader *)
    up,
    lpos,               \* transactions it has applied
    last_received,
    cache,              \* table_states_not_ready
    validity,           \* "valid"; "pending": an invalidation is on its way; "invalid"
    scan,               \* tables process_syncing_tables_for_apply() has yet to look at
    marked,             \* tables its open transaction makes READY
    current_lsn,        \* its argument
    waiting,            \* the table wait_for_relation_state_change() waits for
    (* the synchronization workers *)
    sync,
    (* the subscriber's server *)
    db,
    (* history *)
    from,               \* from[t]: transactions the last snapshot of t contains
    bySync,             \* bySync[t]: <<row, version>>s sent by workers of t
    lmax,               \* transactions the leader has sent so far, restarts included
    used                \* used[e]: how often event e has happened

publisherVars == <<wal, committed, binary>>
leaderVars ==
    <<up, lpos, last_received, cache, validity, scan, marked, current_lsn, waiting>>
historyVars == <<from, bySync, lmax>>
vars == <<publisherVars, slot, leaderVars, sync, db, historyVars, used>>

-----------------------------------------------------------------------------
(* Positions                                                               *)

EndLsn(i) == 2 * i
PastLsn(i) == 2 * i + 1

(* The transactions that end at or before a position.                      *)
Before(lsn) == lsn \div 2

Later(a, b) == IF a < b THEN b ELSE a

-----------------------------------------------------------------------------
(* Types                                                                   *)

(* pg_subscription_rel: "i"NIT, "d"ATASYNC, "f"INISHEDCOPY, "s"YNCDONE,    *)
(* "r"EADY.  origin is the progress of the origin pg_<sub>_<rel>, 0 if     *)
(* there is none.                                                          *)
CatalogState == {"i", "d", "f", "s", "r"}
RelState == [state : CatalogState, lsn : Nat, origin : Nat]

(* In shared memory also SYNC"w"AIT, "c"ATCHUP and "u"NKNOWN.              *)
MemoryState == CatalogState \cup {"w", "c", "u"}

Place == {"none", "start", "datasync", "copy", "wait", "stream", "done", "dropped",
          "committed"}

(* A synchronization worker: where it is, its LogicalRepWorker entry, and  *)
(* the locals of LogicalRepSyncTableStart() and of the apply loop.  rel is *)
(* the Relation pointer: never set, closed but still in the relation       *)
(* cache, or dangling.                                                     *)
SyncWorker ==
    [pc : Place, relstate : MemoryState, relstate_lsn : Nat, origin_startpos : Nat,
     todo : SUBSET Message, pos : Nat, recv : Nat, rel : {"null", "closed", "stale"}]

NoWorker ==
    [pc |-> "none", relstate |-> "u", relstate_lsn |-> 0, origin_startpos |-> 0,
     todo |-> {}, pos |-> 0, recv |-> 0, rel |-> "null"]

Cached == [state : MemoryState, lsn : Nat]

TypeOK ==
    /\ wal \in Workloads
    /\ committed \in 0..Len(wal)
    /\ binary \in Binary
    /\ slot \in [Table -> BOOLEAN]
    /\ up \in BOOLEAN
    /\ lpos \in 0..committed
    /\ last_received \in Nat
    /\ cache \in [Table -> Cached]
    /\ validity \in {"valid", "pending", "invalid"}
    /\ scan \in SUBSET Table /\ marked \in SUBSET Table
    /\ current_lsn \in Nat
    /\ waiting \in SUBSET Table
    /\ sync \in [Table -> SyncWorker]
    /\ db \in Seq([Table -> RelState]) /\ db # <<>>
    /\ from \in [Table -> Nat]
    /\ bySync \in [Table -> SUBSET Message]
    /\ lmax \in Nat
    /\ used \in [Event -> Nat]

(* CREATE SUBSCRIPTION ... WITH (copy_data = true) has made the leader's   *)
(* slot at position 0 and put every table in INIT.                         *)
Init ==
    /\ wal \in Workloads
    /\ committed = 0
    /\ binary \in Binary
    /\ slot = [t \in Table |-> FALSE]
    /\ up = FALSE /\ lpos = 0 /\ last_received = 0
    /\ cache = [t \in Table |-> [state |-> "u", lsn |-> 0]]
    /\ validity = "invalid"
    /\ scan = {} /\ marked = {} /\ current_lsn = 0 /\ waiting = {}
    /\ sync = [t \in Table |-> NoWorker]
    /\ db = <<[t \in Table |-> [state |-> "i", lsn |-> 0, origin |-> 0]]>>
    /\ from = [t \in Table |-> 0]
    /\ bySync = [t \in Table |-> {}]
    /\ lmax = 0
    /\ used = [e \in Event |-> 0]

Spend(e) ==
    /\ used' = [used EXCEPT ![e] = @ + 1]
    /\ \E b \in Budgets : \A x \in Event : used'[x] <= b[x]

Now == db[Len(db)]

(* An asynchronous commit that leaves t's row and origin as it says: it is *)
(* in the WAL buffers, and WalWriter brings it to disk.                    *)
Logged(t, rstate) ==
    db' = IF rstate = Now[t] THEN db ELSE Append(db, [Now EXCEPT ![t] = rstate])

(* One that changes pg_subscription_rel: the leader's cache is             *)
(* invalidated, but the leader has yet to notice.                          *)
Commit(t, rstate) ==
    /\ Logged(t, rstate)
    /\ validity' = IF validity = "valid" THEN "pending" ELSE validity

SyncPc(t) == sync[t].pc

-----------------------------------------------------------------------------
(* Processes that go away                                                  *)

LeaderGone ==
    /\ up' = FALSE
    /\ last_received' = 0
    /\ cache' = [t \in Table |-> [state |-> "u", lsn |-> 0]]
    /\ validity' = "invalid"
    /\ scan' = {} /\ marked' = {} /\ current_lsn' = 0 /\ waiting' = {}

(* An ERROR or the end of the process: its transaction is rolled back.     *)
SyncGone(t) == sync' = [sync EXCEPT ![t] = NoWorker]

(* The server goes down: a worker that dies of SIGSEGV takes every process *)
(* with it.  Recovery brings back what was on disk.                        *)
Crash ==
    /\ LeaderGone
    /\ sync' = [t \in Table |-> NoWorker]
    /\ db' = <<db[1]>>
    /\ UNCHANGED <<publisherVars, slot, lpos, historyVars>>

ServerCrash == Spend("serverCrash") /\ Crash

(* Any ERROR of a worker: a lost connection, a failing handler, COPY data  *)
(* it cannot parse, a producer that gives up.                              *)
SyncError(t) ==
    /\ Spend("syncError")
    /\ SyncPc(t) # "none"
    /\ SyncGone(t)
    /\ UNCHANGED <<publisherVars, slot, leaderVars, db, historyVars>>

LeaderExit ==
    /\ Spend("leaderExit")
    /\ up
    /\ LeaderGone
    /\ UNCHANGED <<publisherVars, slot, lpos, sync, db, historyVars>>

(* The launcher starts the leader.  It resumes at the later of the slot's  *)
(* confirmed_flush and its own origin, and last_received starts as the     *)
(* origin, which ordinary commits do not advance: see ApplyWorker.         *)
StartLeader ==
    /\ ~up
    /\ up' = TRUE
    /\ lpos' \in 0..lpos
    /\ last_received' \in {EndLsn(i) : i \in 0..lpos'}
    /\ UNCHANGED <<publisherVars, slot, cache, validity, scan, marked, current_lsn,
                   waiting, sync, db, historyVars, used>>

(* The WAL writer flushes some of the asynchronous commits.                *)
WalWriter ==
    /\ Len(db) > 1
    /\ \E n \in 2..Len(db) : db' = SubSeq(db, n, Len(db))
    /\ UNCHANGED <<publisherVars, slot, leaderVars, sync, historyVars, used>>

PublisherCommit ==
    /\ committed < Len(wal)
    /\ committed' = committed + 1
    /\ UNCHANGED <<wal, binary, slot, leaderVars, sync, db, historyVars, used>>

-----------------------------------------------------------------------------
(* The synchronization worker: LogicalRepSyncTableStart()                  *)

(* finish_sync_worker(): the work is done already.  Its XLogFlush() goes   *)
(* only up to what is written out, so no commit need be on disk for it.    *)
SyncNothingToDo(t) ==
    /\ SyncPc(t) = "start"
    /\ Now[t].state \in {"s", "r"}
    /\ SyncGone(t)
    /\ UNCHANGED <<publisherVars, slot, leaderVars, db, historyVars, used>>

(* INIT or DATASYNC: drop what an earlier attempt may have left at the     *)
(* publisher and make DATASYNC visible.                                    *)
SyncBegin(t) ==
    /\ SyncPc(t) = "start"
    /\ Now[t].state \in {"i", "d"}
    /\ slot' = IF Now[t].state = "d" THEN [slot EXCEPT ![t] = FALSE] ELSE slot
    /\ sync' = [sync EXCEPT ![t].pc = "datasync", ![t].relstate = "d",
                            ![t].relstate_lsn = 0]
    /\ Commit(t, [Now[t] EXCEPT !.state = "d", !.lsn = 0])
    /\ UNCHANGED <<publisherVars, up, lpos, last_received, cache, scan, marked,
                   current_lsn, waiting, historyVars, used>>

(* Mutant: the origin is committed before the copy.                        *)
CreateSlotCommitOrigin(t) ==
    /\ SyncPc(t) = "datasync"
    /\ ~slot[t] /\ Now[t].origin = 0
    /\ slot' = [slot EXCEPT ![t] = TRUE]
    /\ sync' = [sync EXCEPT ![t].pc = "copy",
                            ![t].origin_startpos = PastLsn(committed),
                            ![t].todo = Snapshot(wal, t, committed)]
    /\ from' = [from EXCEPT ![t] = committed]
    /\ Commit(t, [Now[t] EXCEPT !.origin = PastLsn(committed)])
    /\ UNCHANGED <<publisherVars, up, lpos, last_received, cache, scan, marked,
                   current_lsn, waiting, bySync, lmax, used>>

(* The slot's consistent point is the snapshot COPY sees and the position  *)
(* catching up will start at.  The origin is created in the transaction    *)
(* that will say FINISHEDCOPY.                                             *)
CreateSlot(t) ==
    /\ SyncPc(t) = "datasync"
    /\ ~slot[t] /\ Now[t].origin = 0
    /\ slot' = [slot EXCEPT ![t] = TRUE]
    /\ sync' = [sync EXCEPT ![t].pc = "copy",
                            ![t].origin_startpos = PastLsn(committed),
                            ![t].todo = Snapshot(wal, t, committed)]
    /\ from' = [from EXCEPT ![t] = committed]
    /\ UNCHANGED <<publisherVars, leaderVars, db, bySync, lmax, used>>

(* The slot, or the origin, is there already: ERROR.                       *)
CreateSlotFails(t) ==
    /\ SyncPc(t) = "datasync"
    /\ slot[t] \/ Now[t].origin # 0
    /\ slot' = [slot EXCEPT ![t] = TRUE]
    /\ SyncGone(t)
    /\ UNCHANGED <<publisherVars, leaderVars, db, historyVars, used>>

(* A worker of t sends message m; whether the producer takes it or drops   *)
(* it, the worker goes on.                                                 *)
SyncSends(t, m) ==
    /\ bySync' = [bySync EXCEPT ![t] = @ \cup {m}]
    /\ UNCHANGED <<from, lmax>>

(* CopyFromTextLikeOneRow() and COPY_TO_JSON(): one row.                   *)
CopyOne(t, m) ==
    /\ SyncPc(t) = "copy" /\ ~binary
    /\ m \in sync[t].todo /\ ~HasNull(wal, m)
    /\ SyncSends(t, m)
    /\ sync' = [sync EXCEPT ![t].todo = @ \ {m}]
    /\ UNCHANGED <<publisherVars, slot, leaderVars, db, used>>

CopyRow(t) == \E m \in sync[t].todo : CopyOne(t, m)

(* A NULL column is passed to pstrdup(), which takes the length of it.     *)
CopyNullRow(t) ==
    /\ SyncPc(t) = "copy" /\ ~binary
    /\ \E m \in sync[t].todo : HasNull(wal, m)
    /\ Crash
    /\ UNCHANGED used

(* CopyFromBinaryOneRow() sends nothing.                                   *)
CopyBinaryRow(t) ==
    /\ SyncPc(t) = "copy" /\ binary
    /\ \E m \in sync[t].todo : sync' = [sync EXCEPT ![t].todo = @ \ {m}]
    /\ UNCHANGED <<publisherVars, slot, leaderVars, db, historyVars, used>>

(* The worker is done copying: it waits for the leader.                    *)
SyncWait(t, startpos, r) ==
    sync' = [sync EXCEPT ![t].pc = "wait", ![t].relstate = "w",
                         ![t].relstate_lsn = startpos,
                         ![t].origin_startpos = startpos, ![t].rel = r]

(* Mutant: FINISHEDCOPY is recorded before the last row was read.          *)
FinishCopyEarly(t) ==
    /\ SyncPc(t) = "copy"
    /\ Cardinality(sync[t].todo) <= 1
    /\ Commit(t, [state |-> "f", lsn |-> 0, origin |-> sync[t].origin_startpos])
    /\ SyncWait(t, sync[t].origin_startpos, "closed")
    /\ UNCHANGED <<publisherVars, slot, up, lpos, last_received, cache, scan, marked,
                   current_lsn, waiting, historyVars, used>>

(* Mutant: the slot is temporary and goes with the COPY's transaction.     *)
FinishCopyTemporarySlot(t) ==
    /\ SyncPc(t) = "copy"
    /\ sync[t].todo = {}
    /\ slot' = [slot EXCEPT ![t] = FALSE]
    /\ Commit(t, [state |-> "f", lsn |-> 0, origin |-> sync[t].origin_startpos])
    /\ SyncWait(t, sync[t].origin_startpos, "closed")
    /\ UNCHANGED <<publisherVars, up, lpos, last_received, cache, scan, marked,
                   current_lsn, waiting, historyVars, used>>

(* Mutant: a table that is copied is called synchronized.                  *)
FinishCopySynced(t) ==
    /\ SyncPc(t) = "copy"
    /\ sync[t].todo = {}
    /\ Commit(t, [state |-> "s", lsn |-> sync[t].origin_startpos,
                  origin |-> sync[t].origin_startpos])
    /\ SyncWait(t, sync[t].origin_startpos, "closed")
    /\ UNCHANGED <<publisherVars, slot, up, lpos, last_received, cache, scan, marked,
                   current_lsn, waiting, historyVars, used>>

(* All rows are read: FINISHEDCOPY and the origin are committed together,  *)
(* after rel was closed.                                                   *)
FinishCopy(t) ==
    /\ SyncPc(t) = "copy"
    /\ sync[t].todo = {}
    /\ Commit(t, [state |-> "f", lsn |-> 0, origin |-> sync[t].origin_startpos])
    /\ SyncWait(t, sync[t].origin_startpos, "closed")
    /\ UNCHANGED <<publisherVars, slot, up, lpos, last_received, cache, scan, marked,
                   current_lsn, waiting, historyVars, used>>

(* FINISHEDCOPY: the copy is skipped, and with it every assignment to rel. *)
SyncResume(t) ==
    /\ SyncPc(t) = "start"
    /\ Now[t].state = "f"
    /\ SyncWait(t, Now[t].origin, "null")
    /\ UNCHANGED <<publisherVars, slot, leaderVars, db, historyVars, used>>

(* The relation cache drops the entry of the closed relation.              *)
RelInvalidated(t) ==
    /\ Spend("relInval")
    /\ SyncPc(t) = "wait" /\ sync[t].rel = "closed"
    /\ sync' = [sync EXCEPT ![t].rel = "stale"]
    /\ UNCHANGED <<publisherVars, slot, leaderVars, db, historyVars>>

(* wait_for_worker_state_change() returns, also if the leader is gone.     *)
WaitOver(t) == SyncPc(t) = "wait" /\ (sync[t].relstate = "c" \/ ~up)

(* kafka_close_copy() reads rel's name for its log message and closes the  *)
(* COPY handle; then streaming starts.  A dangling rel may still read as   *)
(* something.                                                              *)
CloseCopy(t) ==
    /\ WaitOver(t)
    /\ sync[t].rel # "null"
    /\ sync' = [sync EXCEPT ![t].pc = "stream", ![t].recv = sync[t].origin_startpos,
                            ![t].pos = Before(sync[t].origin_startpos)]
    /\ UNCHANGED <<publisherVars, slot, leaderVars, db, historyVars, used>>

(* SIGSEGV.                                                                *)
CloseCopyCrash(t) ==
    /\ WaitOver(t)
    /\ sync[t].rel \in {"null", "stale"}
    /\ Crash
    /\ UNCHANGED used

-----------------------------------------------------------------------------
(* The synchronization worker: the apply loop                              *)

(* Mutant: the worker does not compare the position with the leader's.     *)
SyncedToAny(w, lsn) ==
    IF w.relstate = "c"
    THEN [w EXCEPT !.pc = "done", !.relstate = "s", !.relstate_lsn = lsn]
    ELSE w

(* process_syncing_tables_for_sync(lsn), up to the end of streaming.       *)
SyncedTo(w, lsn) ==
    IF w.relstate = "c" /\ lsn >= w.relstate_lsn
    THEN [w EXCEPT !.pc = "done", !.relstate = "s", !.relstate_lsn = lsn]
    ELSE w

(* The next transaction, whichever table it is about.                      *)
SyncApply(t) ==
    LET w == sync[t]
        i == w.pos + 1
    IN  /\ w.pc = "stream"
        /\ w.pos < committed
        /\ SyncSends(t, ChangeOf(wal, i))
        /\ sync' = [sync EXCEPT ![t] =
                        SyncedTo([w EXCEPT !.pos = i, !.recv = Later(w.recv, EndLsn(i))],
                                 EndLsn(i))]
        /\ UNCHANGED <<publisherVars, slot, leaderVars, db, used>>

(* A keepalive: everything committed has been sent.                        *)
SyncKeepalive(t) ==
    /\ SyncPc(t) = "stream"
    /\ sync[t].pos = committed
    /\ sync' = [sync EXCEPT ![t].recv = Later(@, PastLsn(committed))]
    /\ UNCHANGED <<publisherVars, slot, leaderVars, db, historyVars, used>>

(* Mutant: the end of a round does not look at the hand-shake.             *)
SyncRoundIdle(t) ==
    /\ SyncPc(t) = "stream"
    /\ UNCHANGED vars

(* The end of a round of the apply loop.                                   *)
SyncRound(t) ==
    /\ SyncPc(t) = "stream"
    /\ sync' = [sync EXCEPT ![t] = SyncedTo(@, @.recv)]
    /\ UNCHANGED <<publisherVars, slot, leaderVars, db, historyVars, used>>

(* The rest of process_syncing_tables_for_sync(): the slot is dropped      *)
(* before the transaction that says SYNCDONE commits,                      *)
DropSyncSlot(t) ==
    /\ SyncPc(t) = "done"
    /\ slot' = [slot EXCEPT ![t] = FALSE]
    /\ sync' = [sync EXCEPT ![t].pc = "dropped"]
    /\ UNCHANGED <<publisherVars, leaderVars, db, historyVars, used>>

CommitSyncDone(t) ==
    /\ SyncPc(t) = "dropped"
    /\ sync' = [sync EXCEPT ![t].pc = "committed"]
    /\ Commit(t, [Now[t] EXCEPT !.state = "s", !.lsn = sync[t].relstate_lsn])
    /\ UNCHANGED <<publisherVars, slot, up, lpos, last_received, cache, scan, marked,
                   current_lsn, waiting, historyVars, used>>

(* and the origin, which the leader may hold a lock on, after.  The commit *)
(* of finish_sync_worker() is as asynchronous as the ones before it.       *)
FinishSync(t) ==
    /\ SyncPc(t) = "committed"
    /\ t \notin marked
    /\ Logged(t, [Now[t] EXCEPT !.origin = 0])
    /\ SyncGone(t)
    /\ UNCHANGED <<publisherVars, slot, leaderVars, historyVars, used>>

-----------------------------------------------------------------------------
(* The leader: LogicalRepApplyLoop() and                                   *)
(* process_syncing_tables_for_apply()                                      *)

LeaderIdle == up /\ scan = {} /\ marked = {} /\ waiting = {}

(* FetchTableStates(), and the start of the walk over the tables.          *)
BeginScan(lsn, accept) ==
    LET reread == validity = "invalid" \/ (accept /\ validity = "pending")
    IN  /\ cache' = IF reread THEN [t \in Table |-> [state |-> Now[t].state,
                                                    lsn |-> Now[t].lsn]]
                              ELSE cache
        /\ validity' = IF reread THEN "valid" ELSE validity
        /\ scan' = {t \in Table : cache'[t].state # "r"}
        /\ current_lsn' = lsn

(* The next transaction; the handler's own transaction started before it   *)
(* commits, so an invalidation may have come too late for it.              *)
LeaderApply ==
    LET i == lpos + 1
    IN  /\ LeaderIdle
        /\ lpos < committed
        /\ lpos' = i
        /\ last_received' = Later(last_received, EndLsn(i))
        /\ lmax' = Later(lmax, i)
        /\ \E accept \in BOOLEAN : BeginScan(EndLsn(i), accept)
        /\ UNCHANGED <<publisherVars, slot, up, marked, waiting, sync, db, from, bySync,
                       used>>

LeaderKeepalive ==
    /\ LeaderIdle
    /\ lpos = committed
    /\ last_received' = Later(last_received, PastLsn(committed))
    /\ UNCHANGED <<publisherVars, slot, up, lpos, cache, validity, scan, marked,
                   current_lsn, waiting, sync, db, historyVars, used>>

(* The end of a round.                                                     *)
LeaderRound ==
    /\ LeaderIdle
    /\ BeginScan(last_received, TRUE)
    /\ UNCHANGED <<publisherVars, slot, up, lpos, last_received, marked, waiting, sync,
                   db, historyVars, used>>

Looking(t) == waiting = {} /\ t \in scan

(* Mutant: the leader has to be past the worker.                           *)
LeaderPast(t) == current_lsn > cache[t].lsn

(* The leader is at least where the worker of t stopped.                   *)
LeaderReached(t) == current_lsn >= cache[t].lsn

(* SYNCDONE, and the leader is there too: the origin is dropped, which     *)
(* waits for a worker that still has it, and the table becomes READY in    *)
(* the transaction of this walk.                                           *)
ScanReady(t) ==
    /\ Looking(t)
    /\ cache[t].state = "s" /\ LeaderReached(t)
    /\ Now[t].origin = 0 \/ SyncPc(t) \notin {"copy", "wait", "stream", "done", "dropped"}
    /\ marked' = marked \cup {t}
    /\ scan' = scan \ {t}
    /\ UNCHANGED <<publisherVars, slot, up, lpos, last_received, cache, validity,
                   current_lsn, waiting, sync, db, historyVars, used>>

(* SYNCDONE, but the leader is behind.                                     *)
ScanBehind(t) ==
    /\ Looking(t)
    /\ cache[t].state = "s" /\ ~LeaderReached(t)
    /\ scan' = scan \ {t}
    /\ UNCHANGED <<publisherVars, slot, up, lpos, last_received, cache, validity, marked,
                   current_lsn, waiting, sync, db, historyVars, used>>

(* The tables the walk marked are committed as READY.  The commit also     *)
(* invalidates the leader's own cache.                                     *)
CommitMarked ==
    /\ db' = IF marked = {} THEN db
             ELSE Append(db, [t \in Table |->
                                IF t \in marked
                                THEN [state |-> "r", lsn |-> current_lsn, origin |-> 0]
                                ELSE Now[t]])
    /\ validity' = IF marked = {} THEN validity ELSE "invalid"
    /\ marked' = {}

(* A worker is at work: its state is copied.                               *)
ScanWorker(t) ==
    /\ Looking(t)
    /\ cache[t].state # "s"
    /\ SyncPc(t) # "none" /\ sync[t].relstate # "w"
    /\ cache' = [cache EXCEPT ![t] = [state |-> sync[t].relstate,
                                      lsn |-> sync[t].relstate_lsn]]
    /\ scan' = scan \ {t}
    /\ UNCHANGED <<publisherVars, slot, up, lpos, last_received, validity, marked,
                   current_lsn, waiting, sync, db, historyVars, used>>

(* Mutant: the worker catches up on its own, and the leader goes on.       *)
ScanCatchupAlone(t) ==
    /\ Looking(t)
    /\ cache[t].state # "s"
    /\ SyncPc(t) # "none" /\ sync[t].relstate = "w"
    /\ cache' = [cache EXCEPT ![t] = [state |-> "w", lsn |-> sync[t].relstate_lsn]]
    /\ sync' = [sync EXCEPT ![t].relstate = "c"]
    /\ CommitMarked
    /\ scan' = scan \ {t}
    /\ UNCHANGED <<publisherVars, slot, up, lpos, last_received, current_lsn, waiting,
                   historyVars, used>>

(* A worker waits for the leader: it is told how far to catch up, and the  *)
(* leader waits for it.                                                    *)
ScanCatchup(t) ==
    /\ Looking(t)
    /\ cache[t].state # "s"
    /\ SyncPc(t) # "none" /\ sync[t].relstate = "w"
    /\ cache' = [cache EXCEPT ![t] = [state |-> "w", lsn |-> sync[t].relstate_lsn]]
    /\ sync' = [sync EXCEPT ![t].relstate = "c",
                            ![t].relstate_lsn = Later(@, current_lsn)]
    /\ CommitMarked
    /\ waiting' = {t}
    /\ scan' = scan \ {t}
    /\ UNCHANGED <<publisherVars, slot, up, lpos, last_received, current_lsn, historyVars,
                   used>>

(* wait_for_relation_state_change() returns: SYNCDONE is in the catalog,   *)
(* or the worker is gone.                                                  *)
LeaderWaitEnds ==
    /\ \E t \in waiting : Now[t].state = "s" \/ SyncPc(t) = "none"
    /\ waiting' = {}
    /\ validity' = IF validity = "pending" THEN "invalid" ELSE validity
    /\ UNCHANGED <<publisherVars, slot, up, lpos, last_received, cache, scan, marked,
                   current_lsn, sync, db, historyVars, used>>

Running == {t \in Table : SyncPc(t) # "none"}

(* No worker: launch one,                                                  *)
LaunchSync(t) ==
    /\ Looking(t)
    /\ cache[t].state # "s"
    /\ SyncPc(t) = "none"
    /\ Cardinality(Running) < MaxSyncWorkers
    /\ sync' = [sync EXCEPT ![t] = [NoWorker EXCEPT !.pc = "start"]]
    /\ scan' = scan \ {t}
    /\ UNCHANGED <<publisherVars, slot, up, lpos, last_received, cache, validity, marked,
                   current_lsn, waiting, db, historyVars, used>>

(* unless the last start of one is too recent, there are enough, or it     *)
(* cannot be started.                                                      *)
LaunchLater(t) ==
    /\ Looking(t)
    /\ cache[t].state # "s"
    /\ SyncPc(t) = "none"
    /\ scan' = scan \ {t}
    /\ UNCHANGED <<publisherVars, slot, up, lpos, last_received, cache, validity, marked,
                   current_lsn, waiting, sync, db, historyVars, used>>

(* The end of the walk.                                                    *)
ScanEnds ==
    /\ scan = {} /\ waiting = {} /\ marked # {}
    /\ CommitMarked
    /\ UNCHANGED <<publisherVars, slot, up, lpos, last_received, cache, scan, current_lsn,
                   waiting, sync, historyVars, used>>

-----------------------------------------------------------------------------
SyncStep(t) ==
    \/ SyncNothingToDo(t) \/ SyncBegin(t) \/ CreateSlot(t) \/ CreateSlotFails(t)
    \/ CopyRow(t) \/ CopyNullRow(t) \/ CopyBinaryRow(t) \/ FinishCopy(t) \/ SyncResume(t)
    \/ CloseCopy(t) \/ CloseCopyCrash(t)
    \/ SyncApply(t) \/ SyncKeepalive(t) \/ SyncRound(t)
    \/ DropSyncSlot(t) \/ CommitSyncDone(t) \/ FinishSync(t)

LeaderStep ==
    \/ StartLeader \/ LeaderApply \/ LeaderKeepalive \/ LeaderRound
    \/ LeaderWaitEnds \/ ScanEnds
    \/ \E t \in Table :
        \/ ScanReady(t) \/ ScanBehind(t) \/ ScanWorker(t) \/ ScanCatchup(t)
        \/ LaunchSync(t) \/ LaunchLater(t)

Fault ==
    \/ ServerCrash \/ LeaderExit
    \/ \E t \in Table : SyncError(t) \/ RelInvalidated(t)

Next ==
    \/ PublisherCommit \/ WalWriter \/ LeaderStep \/ Fault
    \/ \E t \in Table : SyncStep(t)

Spec == Init /\ [][Next]_vars

(* Every process that is not blocked goes on: the scheduler runs it, its   *)
(* waits have a timeout of a second, the launcher restarts the leader.     *)
(* A message the leader has not read stays in its socket, and every round  *)
(* reads the socket before it walks over the tables.  LaunchSync is only   *)
(* enabled while the walk is at its table, and is refused until            *)
(* wal_retrieve_retry_interval has passed, again and again but not for     *)
(* ever.  The publisher may stop writing, and faults need not happen.      *)
Fairness ==
    /\ WF_vars(WalWriter)
    /\ WF_vars(StartLeader) /\ SF_vars(LeaderApply) /\ SF_vars(LeaderKeepalive)
    /\ WF_vars(LeaderRound) /\ WF_vars(LeaderWaitEnds) /\ WF_vars(ScanEnds)
    /\ \A t \in Table :
        /\ WF_vars(ScanReady(t)) /\ WF_vars(ScanBehind(t)) /\ WF_vars(ScanWorker(t))
        /\ WF_vars(ScanCatchup(t)) /\ WF_vars(LaunchLater(t)) /\ SF_vars(LaunchSync(t))
        /\ WF_vars(SyncNothingToDo(t)) /\ WF_vars(SyncBegin(t)) /\ WF_vars(CreateSlot(t))
        /\ WF_vars(CreateSlotFails(t)) /\ WF_vars(CopyRow(t)) /\ WF_vars(CopyNullRow(t))
        /\ WF_vars(CopyBinaryRow(t)) /\ WF_vars(FinishCopy(t)) /\ WF_vars(SyncResume(t))
        /\ WF_vars(CloseCopy(t) \/ CloseCopyCrash(t))
        /\ WF_vars(SyncApply(t)) /\ WF_vars(SyncKeepalive(t)) /\ WF_vars(SyncRound(t))
        /\ WF_vars(DropSyncSlot(t)) /\ WF_vars(CommitSyncDone(t)) /\ WF_vars(FinishSync(t))

FairSpec == Spec /\ Fairness

-----------------------------------------------------------------------------
(* Properties                                                              *)

(* What either side has sent.                                              *)
Sent == (UNION {bySync[t] : t \in Table}) \cup {ChangeOf(wal, i) : i \in 1..lmax}

(* Whatever part of the catalog survives a crash, a table it calls copied  *)
(* had every row of its snapshot sent, unless the copy is binary, and one  *)
(* it calls SYNCDONE or READY as of some position had every change up to   *)
(* there sent too (LogicalRepSyncTableStart,                               *)
(* process_syncing_tables_for_sync, process_syncing_tables_for_apply).     *)
SyncedMeansSent ==
    \A k \in 1..Len(db), t \in Table :
        /\ db[k][t].state \in {"f", "s", "r"} /\ ~binary =>
              Snapshot(wal, t, from[t]) \subseteq Sent
        /\ db[k][t].state \in {"s", "r"} =>
              Changes(wal, t, from[t], Before(db[k][t].lsn)) \subseteq Sent

(* A table whose copy will be done again has no origin, so the "replication *)
(* origin already exists" error of LogicalRepSyncTableStart cannot make     *)
(* every attempt fail; and a table whose copy will not be done again has    *)
(* the position to go on from.                                              *)
OriginMatchesState ==
    \A k \in 1..Len(db), t \in Table :
        /\ db[k][t].state \in {"i", "d", "r"} => db[k][t].origin = 0
        /\ db[k][t].state = "f" => db[k][t].origin = PastLsn(from[t])

(* When the leader's wait ends because the table is SYNCDONE, the worker   *)
(* has come at least as far as the leader, so that nothing lies between    *)
(* the worker's last change and the leader's next one.                     *)
WorkerPastLeader ==
    \A t \in waiting : Now[t].state = "s" => Now[t].lsn >= current_lsn

(* The slot a worker streams from is there until the worker drops it, so   *)
(* neither walrcv_startstreaming nor the drop, which insists on the slot,  *)
(* fails for want of it.                                                   *)
StreamHasSlot == \A t \in Table : SyncPc(t) \in {"stream", "done"} => slot[t]

(* Neither wait of the hand-shake lasts for ever, whoever of the two goes  *)
(* away (wait_for_relation_state_change, wait_for_worker_state_change).    *)
WaitsEnd ==
    \A t \in Table : /\ t \in waiting ~> t \notin waiting
                     /\ SyncPc(t) = "wait" ~> SyncPc(t) # "wait"

-----------------------------------------------------------------------------
(* The promise this is to keep.                                            *)

PhaseOf(s) ==
    CASE s \in {"i", "d"} -> "none" [] s = "f" -> "copied" [] s = "s" -> "synced"
      [] s = "r" -> "ready"

Follow == INSTANCE TableFollow WITH
    phase <- [t \in Table |-> PhaseOf(Now[t].state)],
    base <- from,
    upto <- [t \in Table |-> IF Now[t].state \in {"s", "r"} THEN Before(Now[t].lsn) ELSE 0],
    sent <- Sent

(* The synchronization keeps the promise of TableFollow.                   *)
FollowsTables == Follow!FollowSpec

(* Every table becomes READY and stays so, after finitely many faults,     *)
(* unless a column that is NULL, or closing a copy that an earlier worker  *)
(* finished, takes the server down again and again.                        *)
ReadyOrCrashing ==
    \/ Follow!EventuallyReady
    \/ []<><<\E t \in Table : CopyNullRow(t) \/ CloseCopyCrash(t)>>_vars

(* The header of tablesync.c says of FINISHEDCOPY: "if the worker crashes  *)
(* with this (non-memory) state then the copy will not be re-attempted".   *)
(* Then a worker that starts over goes on from there, and every table      *)
(* becomes READY after finitely many faults.                               *)
ReadyInTheEnd == Follow!EventuallyReady
=============================================================================
