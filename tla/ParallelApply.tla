---------------------------- MODULE ParallelApply ----------------------------
(***************************************************************************)
(* Streamed transactions applied while they are being streamed: the leader *)
(* passes the messages of a transaction to a parallel apply worker through *)
(* a bounded queue in shared memory, and through a file once the queue has *)
(* been full for too long (worker.c, applyparallelworker.c).               *)
(*                                                                         *)
(* The leader's handlers are sequences of operations on what it shares     *)
(* with the worker; every operation is a step.  The two sides meet in the  *)
(* stream lock, which the leader holds between blocks and from the time it *)
(* writes to the file, and the transaction lock, which the worker holds    *)
(* until the transaction is finished.  A shared lock is taken only to wait *)
(* and is released at once.                                                *)
(***************************************************************************)
EXTENDS SpooledApply, FiniteSets

CONSTANTS Worker,
          QueueSize,      \* messages that fit in the shared memory queue
          MaxParallel,    \* max_parallel_apply_workers_per_subscription
          MaxErrors       \* bound: errors of parallel apply workers

ASSUME ParallelAssumption ==
    /\ IsFiniteSet(Worker)
    /\ QueueSize \in Nat \ {0} /\ MaxParallel \in Nat /\ MaxErrors \in Nat

VARIABLES pool,           \* ParallelApplyWorkerPool
          xid_of,         \* xid_of[w]: {xid} of the transaction it is in use for
          serialize_changes,
          xact_state, pending_stream_count, fileset_state,   \* ParallelApplyWorkerShared
          mq,             \* mq[w]: the queue from the leader
          streamLock,     \* workers whose stream lock the leader holds
          xactLock,       \* workers that hold their transaction lock
          todo,           \* what is left of the leader's handler
          wpc,            \* wpc[w]: where the worker is
          stream_fd,      \* stream_fd[w]: records read of the file, or Closed
          handed,         \* handed[x]: what the leader passed on, in order
          applied,        \* applied[x]: what the worker dispatched
          errors, session

sharedVars == <<xact_state, pending_stream_count, fileset_state, mq, streamLock, xactLock>>
leaderVars == <<pool, xid_of, serialize_changes, todo>>
workerVars == <<wpc, stream_fd>>
historyVars == <<handed, applied>>
faultVars == <<errors, session>>
parallelVars == <<spooledVars, sharedVars, leaderVars, workerVars, historyVars, faultVars>>

Closed == -1

ParallelInit ==
    /\ SpooledInit
    /\ pool = {} /\ xid_of = [w \in Worker |-> {}]
    /\ serialize_changes = [w \in Worker |-> FALSE]
    /\ xact_state = [w \in Worker |-> "unknown"]
    /\ pending_stream_count = [w \in Worker |-> 0]
    /\ fileset_state = [w \in Worker |-> "empty"]
    /\ mq = [w \in Worker |-> <<>>]
    /\ streamLock = {} /\ xactLock = {}
    /\ todo = <<>>
    /\ wpc = [w \in Worker |-> "out"]
    /\ stream_fd = [w \in Worker |-> Closed]
    /\ handed = [x \in Xid |-> <<>>] /\ applied = [x \in Xid |-> <<>>]
    /\ errors = 0 /\ session = "up"

-----------------------------------------------------------------------------
(* The leader                                                              *)

(* pa_find_worker().                                                       *)
Serves(w, x) == xid_of[w] = {x}
Served(x) == \E w \in Worker : Serves(w, x)

(* Mutant: the leader waits with the stream lock held.                     *)
FinishLocked == <<"started", "finished", "free">>

(* pa_xact_finish().                                                       *)
Finish == <<"finish", "started", "finished", "free">>

(* Mutant: a rollback to a savepoint is not counted as a block.            *)
SendProgramUncounted(k) ==
    CASE k = "first"    -> <<"send", "count">>
      [] k = "start"    -> <<"send", "unlock", "count">>
      [] k = "change"   -> <<"send">>
      [] k = "stop"     -> <<"lock", "send">>
      [] k = "abortSub" -> <<"unlock", "lock", "send">>
      [] OTHER          -> <<"send">> \o Finish

(* TRANS_LEADER_SEND_TO_PARALLEL.                                          *)
SendProgram(k) ==
    CASE k = "first"    -> <<"send", "count">>
      [] k = "start"    -> <<"send", "unlock", "count">>
      [] k = "change"   -> <<"send">>
      [] k = "stop"     -> <<"lock", "send">>
      [] k = "abortSub" -> <<"unlock", "count", "lock", "send">>
      [] OTHER          -> <<"send">> \o Finish

(* TRANS_LEADER_PARTIAL_SERIALIZE.                                         *)
SerializeProgram(k) ==
    IF k \in {"first", "start", "change", "stop", "abortSub"} THEN <<"write">>
    ELSE <<"write", "done">> \o Finish

(* The operations before the leader: those that are left, or those of the  *)
(* handler of the next message.                                            *)
Program(w) ==
    IF todo # <<>> THEN todo
    ELSE IF serialize_changes[w] THEN SerializeProgram(Head(outbox).kind)
    ELSE SendProgram(Head(outbox).kind)

(* The leader is about to do op for the message at the head of outbox.  A  *)
(* first block has its worker allocated before.                            *)
AtOp(w, op) ==
    /\ session = "up"
    /\ outbox # <<>> /\ Serves(w, Head(outbox).xid)
    /\ Head(Program(w)) = op

Proceed(rest) ==
    /\ todo' = rest
    /\ IF rest = <<>> THEN Handled ELSE UNCHANGED streamVars

LeaderOp(w, op) == AtOp(w, op) /\ Proceed(Tail(Program(w)))

(* pa_allocate_worker(), pa_launch_parallel_worker(): a worker of the pool *)
(* that is not in use, or a new one.                                       *)
AllocateWorker(w) ==
    /\ session = "up"
    /\ Gets("first") /\ ~Served(Head(outbox).xid)
    /\ xid_of[w] = {}
    /\ w \notin pool => \A v \in pool : xid_of[v] # {}
    /\ w \notin pool => wpc[w] = "out" /\ Cardinality(pool) < MaxParallel
    /\ pool' = pool \cup {w}
    /\ wpc' = [wpc EXCEPT ![w] = IF w \in pool THEN @ ELSE "loop"]
    /\ xid_of' = [xid_of EXCEPT ![w] = {Head(outbox).xid}]
    /\ serialize_changes' = [serialize_changes EXCEPT ![w] = FALSE]
    /\ xact_state' = [xact_state EXCEPT ![w] = "unknown"]
    /\ UNCHANGED <<spooledVars, pending_stream_count, fileset_state, mq, streamLock, xactLock,
                   todo, stream_fd, historyVars, faultVars>>

(* pa_send_data(): the message fits in the queue,                          *)
SendData(w) ==
    /\ LeaderOp(w, "send")
    /\ wpc[w] # "dead"
    /\ Len(mq[w]) < QueueSize
    /\ mq' = [mq EXCEPT ![w] = Append(@, Head(outbox))]
    /\ handed' = [handed EXCEPT ![Head(outbox).xid] = Append(@, Head(outbox))]
    /\ UNCHANGED <<spoolVars, xact_state, pending_stream_count, fileset_state, streamLock,
                   xactLock, pool, xid_of, serialize_changes, workerVars, applied, faultVars>>

(* or it has not fitted for SHM_SEND_TIMEOUT_MS, and                       *)
(* pa_switch_to_partial_serialize() opens a new file, takes the stream     *)
(* lock unless it is held, and announces the file.  The handler goes on as *)
(* it would for a transaction that is being serialized.                    *)
SendTimeout(w) ==
    /\ AtOp(w, "send")
    /\ wpc[w] # "dead"
    /\ Len(mq[w]) = QueueSize
    /\ serialize_changes' = [serialize_changes EXCEPT ![w] = TRUE]
    /\ file' = [file EXCEPT ![Head(outbox).xid] = <<>>]
    /\ streamLock' = streamLock \cup {w}
    /\ fileset_state' = [fileset_state EXCEPT ![w] = "in_progress"]
    /\ todo' = SerializeProgram(Head(outbox).kind)
    /\ UNCHANGED <<streamVars, stream_xid, subxacts, replay, produced, flushed, xact_state,
                   pending_stream_count, mq, xactLock, pool, xid_of, workerVars, historyVars,
                   faultVars>>

(* pa_unlock_stream(), also by pa_xact_finish().                           *)
UnlockStream(w) ==
    /\ LeaderOp(w, "unlock") \/ LeaderOp(w, "finish")
    /\ streamLock' = streamLock \ {w}
    /\ UNCHANGED <<spoolVars, xact_state, pending_stream_count, fileset_state, mq, xactLock,
                   pool, xid_of, serialize_changes, workerVars, historyVars, faultVars>>

LockStream(w) ==
    /\ LeaderOp(w, "lock")
    /\ streamLock' = streamLock \cup {w}
    /\ UNCHANGED <<spoolVars, xact_state, pending_stream_count, fileset_state, mq, xactLock,
                   pool, xid_of, serialize_changes, workerVars, historyVars, faultVars>>

(* pending_stream_count is incremented.                                    *)
CountBlock(w) ==
    /\ LeaderOp(w, "count")
    /\ pending_stream_count' = [pending_stream_count EXCEPT ![w] = @ + 1]
    /\ UNCHANGED <<spoolVars, xact_state, fileset_state, mq, streamLock, xactLock,
                   pool, xid_of, serialize_changes, workerVars, historyVars, faultVars>>

(* stream_write_change().                                                  *)
WriteChange(w) ==
    /\ LeaderOp(w, "write")
    /\ file' = [file EXCEPT ![Head(outbox).xid] = Append(@, Head(outbox))]
    /\ handed' = [handed EXCEPT ![Head(outbox).xid] = Append(@, Head(outbox))]
    /\ UNCHANGED <<stream_xid, subxacts, replay, produced, flushed, sharedVars,
                   pool, xid_of, serialize_changes, workerVars, applied, faultVars>>

(* pa_set_fileset_state(FS_SERIALIZE_DONE).                                *)
SerializeDone(w) ==
    /\ LeaderOp(w, "done")
    /\ fileset_state' = [fileset_state EXCEPT ![w] = "done"]
    /\ UNCHANGED <<spoolVars, xact_state, pending_stream_count, mq, streamLock, xactLock,
                   pool, xid_of, serialize_changes, workerVars, historyVars, faultVars>>

(* pa_wait_for_xact_finish(): first the worker must have the lock,         *)
WaitStarted(w) ==
    /\ LeaderOp(w, "started")
    /\ xact_state[w] # "unknown"
    /\ UNCHANGED <<spoolVars, sharedVars, pool, xid_of, serialize_changes, workerVars,
                   historyVars, faultVars>>

(* then it must have released it, finished; store_flush_position().        *)
WaitFinished(w) ==
    /\ LeaderOp(w, "finished")
    /\ w \notin xactLock
    /\ xact_state[w] = "finished"
    /\ flushed' = IF Gets("abort") THEN flushed ELSE flushed \cup {Head(outbox).xid}
    /\ UNCHANGED <<stream_xid, file, subxacts, replay, produced, sharedVars,
                   pool, xid_of, serialize_changes, workerVars, historyVars, faultVars>>

(* Mutant: a worker that was sent a file may be kept.                      *)
SurplusInNumber(w) == Cardinality(pool) > MaxParallel \div 2

(* pa_free_worker() stops a worker that was sent a file, and one too many, *)
Surplus(w) == serialize_changes[w] \/ Cardinality(pool) > MaxParallel \div 2

(* Mutant: pa_free_worker_info() leaves the worker in the list.            *)
StopWorkerStaysListed(w) ==
    /\ LeaderOp(w, "free")
    /\ Surplus(w)
    /\ wpc[w] \in {"loop", "empty", "dead"}
    /\ xid_of' = [xid_of EXCEPT ![w] = {}]
    /\ wpc' = [wpc EXCEPT ![w] = "out"]
    /\ file' = IF serialize_changes[w] THEN [file EXCEPT ![Head(outbox).xid] = <<>>] ELSE file
    /\ pending_stream_count' = [pending_stream_count EXCEPT ![w] = 0]
    /\ fileset_state' = [fileset_state EXCEPT ![w] = "empty"]
    /\ mq' = [mq EXCEPT ![w] = <<>>]
    /\ stream_fd' = [stream_fd EXCEPT ![w] = Closed]
    /\ UNCHANGED <<stream_xid, subxacts, replay, produced, flushed, xact_state, streamLock,
                   pool, xactLock, serialize_changes, historyVars, faultVars>>

(* logicalrep_pa_worker_stop() waits for it to leave its loop.             *)
StopWorker(w) ==
    /\ LeaderOp(w, "free")
    /\ Surplus(w)
    /\ wpc[w] \in {"loop", "empty", "dead"}
    /\ pool' = pool \ {w}
    /\ xid_of' = [xid_of EXCEPT ![w] = {}]
    /\ wpc' = [wpc EXCEPT ![w] = "out"]
    /\ file' = IF serialize_changes[w] THEN [file EXCEPT ![Head(outbox).xid] = <<>>] ELSE file
    /\ pending_stream_count' = [pending_stream_count EXCEPT ![w] = 0]
    /\ fileset_state' = [fileset_state EXCEPT ![w] = "empty"]
    /\ mq' = [mq EXCEPT ![w] = <<>>]
    /\ stream_fd' = [stream_fd EXCEPT ![w] = Closed]
    /\ UNCHANGED <<stream_xid, subxacts, replay, produced, flushed, xact_state, streamLock,
                   xactLock, serialize_changes, historyVars, faultVars>>

(* and keeps the others for the next transaction as they are.              *)
KeepWorker(w) ==
    /\ LeaderOp(w, "free")
    /\ ~Surplus(w)
    /\ xid_of' = [xid_of EXCEPT ![w] = {}]
    /\ UNCHANGED <<spoolVars, sharedVars, pool, serialize_changes, workerVars, historyVars,
                   faultVars>>

(* ProcessParallelApplyMessages(), or a queue nobody reads: the leader     *)
(* fails, and with it the other workers.                                   *)
LeaderFails ==
    /\ session = "up"
    /\ \E w \in pool : wpc[w] = "dead"
    /\ session' = "over"
    /\ UNCHANGED <<spooledVars, sharedVars, leaderVars, workerVars, historyVars, errors>>

LeaderStep ==
    \E w \in Worker :
        \/ AllocateWorker(w) \/ SendData(w) \/ SendTimeout(w)
        \/ UnlockStream(w) \/ LockStream(w) \/ CountBlock(w)
        \/ WriteChange(w) \/ SerializeDone(w)
        \/ WaitStarted(w) \/ WaitFinished(w) \/ StopWorker(w) \/ KeepWorker(w)

(* Transactions without a worker, and those that are not streamed.         *)
LeaderAlone ==
    /\ session = "up" /\ todo = <<>>
    /\ \E x \in Xid : ~Served(x) /\ (SerializeStep(x) \/ ApplyPlain(x))
    /\ UNCHANGED <<sharedVars, leaderVars, workerVars, historyVars, faultVars>>

-----------------------------------------------------------------------------
(* A parallel apply worker                                                 *)

(* Where a handler returns to: LogicalParallelApplyLoop() or               *)
(* apply_spooled_messages().                                               *)
Return(w) == IF stream_fd[w] = Closed THEN "loop" ELSE "replay"

(* Mutant: a change that is read from the file is not sent.                *)
DispatchQueueOnly(w, m) ==
    /\ applied' = [applied EXCEPT ![m.xid] = Append(@, m)]
    /\ produced' = IF m.kind = "change" /\ stream_fd[w] = Closed
                   THEN produced \cup {m} ELSE produced
    /\ xactLock' = IF m.kind = "first" THEN xactLock \cup {w} ELSE xactLock
    /\ xact_state' = IF m.kind \in {"commit", "prepare", "abort"}
                     THEN [xact_state EXCEPT ![w] = "finished"] ELSE xact_state
    /\ wpc' = [wpc EXCEPT ![w] = CASE m.kind = "first" -> "locked"
                                   [] m.kind \in {"stop", "abortSub"} -> "decr"
                                   [] m.kind \in {"commit", "prepare", "abort"} -> "unlock"
                                   [] OTHER -> Return(w)]
    /\ UNCHANGED <<streamVars, stream_xid, file, subxacts, replay, flushed,
                   pending_stream_count, fileset_state, streamLock, leaderVars, handed,
                   faultVars>>

(* apply_dispatch().  The first block takes the transaction lock, a change *)
(* is sent to Kafka, the end of the transaction sets its state.            *)
Dispatch(w, m) ==
    /\ applied' = [applied EXCEPT ![m.xid] = Append(@, m)]
    /\ produced' = IF m.kind = "change" THEN produced \cup {m} ELSE produced
    /\ xactLock' = IF m.kind = "first" THEN xactLock \cup {w} ELSE xactLock
    /\ xact_state' = IF m.kind \in {"commit", "prepare", "abort"}
                     THEN [xact_state EXCEPT ![w] = "finished"] ELSE xact_state
    /\ wpc' = [wpc EXCEPT ![w] = CASE m.kind = "first" -> "locked"
                                   [] m.kind \in {"stop", "abortSub"} -> "decr"
                                   [] m.kind \in {"commit", "prepare", "abort"} -> "unlock"
                                   [] OTHER -> Return(w)]
    /\ UNCHANGED <<streamVars, stream_xid, file, subxacts, replay, flushed,
                   pending_stream_count, fileset_state, streamLock, leaderVars, handed,
                   faultVars>>

Receive(w) ==
    /\ wpc[w] = "loop" /\ mq[w] # <<>>
    /\ mq' = [mq EXCEPT ![w] = Tail(@)]
    /\ Dispatch(w, Head(mq[w]))
    /\ UNCHANGED stream_fd

(* The steps that follow change only where the worker is, and one of the   *)
(* variables it shares.                                                    *)
WorkerGoes(w, from, to) ==
    /\ wpc[w] = from
    /\ wpc' = [wpc EXCEPT ![w] = to]
    /\ UNCHANGED <<spooledVars, mq, streamLock, leaderVars, historyVars, faultVars>>

(* PARALLEL_TRANS_STARTED, once the lock is held.                          *)
SetStarted(w) ==
    /\ WorkerGoes(w, "locked", Return(w))
    /\ xact_state' = [xact_state EXCEPT ![w] = "started"]
    /\ UNCHANGED <<pending_stream_count, fileset_state, xactLock, stream_fd>>

(* pa_unlock_transaction(), once the state is PARALLEL_TRANS_FINISHED.     *)
UnlockTransaction(w) ==
    /\ WorkerGoes(w, "unlock", Return(w))
    /\ xactLock' = xactLock \ {w}
    /\ UNCHANGED <<xact_state, pending_stream_count, fileset_state, stream_fd>>

(* pa_decr_and_wait_stream_block(): with no block pending the message is   *)
(* from the file; after the last one the worker waits for the leader.      *)
DecrStreamBlock(w) ==
    /\ \/ /\ pending_stream_count[w] = 0
          /\ fileset_state[w] # "empty"
          /\ WorkerGoes(w, "decr", Return(w))
          /\ UNCHANGED pending_stream_count
       \/ /\ pending_stream_count[w] > 0
          /\ WorkerGoes(w, "decr", IF pending_stream_count[w] = 1 THEN "wait" ELSE Return(w))
          /\ pending_stream_count' = [pending_stream_count EXCEPT ![w] = @ - 1]
    /\ UNCHANGED <<xact_state, fileset_state, xactLock, stream_fd>>

WaitStreamBlock(w) ==
    /\ w \notin streamLock
    /\ WorkerGoes(w, "wait", Return(w))
    /\ UNCHANGED <<xact_state, pending_stream_count, fileset_state, xactLock, stream_fd>>

(* shm_mq_receive() finds nothing,                                         *)
QueueEmpty(w) ==
    /\ mq[w] = <<>>
    /\ WorkerGoes(w, "loop", "empty")
    /\ UNCHANGED <<xact_state, pending_stream_count, fileset_state, xactLock, stream_fd>>

(* and pa_process_spooled_messages_if_required() reads the state of the    *)
(* file: there is none,                                                    *)
SpoolNone(w) ==
    /\ fileset_state[w] = "empty"
    /\ WorkerGoes(w, "empty", "loop")
    /\ UNCHANGED <<xact_state, pending_stream_count, fileset_state, xactLock, stream_fd>>

(* Mutant: a file the leader still writes to is read at once.              *)
SpoolInProgressReads(w) ==
    /\ fileset_state[w] = "in_progress"
    /\ WorkerGoes(w, "empty", "replay")
    /\ stream_fd' = [stream_fd EXCEPT ![w] = 0]
    /\ UNCHANGED <<xact_state, pending_stream_count, fileset_state, xactLock>>

(* or the leader still writes to it, and the worker waits for the stream   *)
(* lock before it looks again,                                             *)
SpoolInProgress(w) ==
    /\ \/ fileset_state[w] = "in_progress" /\ WorkerGoes(w, "empty", "lockwait")
       \/ w \notin streamLock /\ WorkerGoes(w, "lockwait", "reread")
    /\ UNCHANGED <<xact_state, pending_stream_count, fileset_state, xactLock, stream_fd>>

(* Mutant: a file that is complete is read at once.                        *)
SpoolDoneReads(w) ==
    /\ fileset_state[w] = "done"
    /\ \E from \in {"empty", "reread"} : WorkerGoes(w, from, "replay")
    /\ fileset_state' = [fileset_state EXCEPT ![w] = "ready"]
    /\ stream_fd' = [stream_fd EXCEPT ![w] = 0]
    /\ UNCHANGED <<xact_state, pending_stream_count, xactLock>>

(* or it is complete: the queue is looked at once more,                    *)
SpoolDone(w) ==
    /\ fileset_state[w] = "done"
    /\ \E from \in {"empty", "reread"} : WorkerGoes(w, from, "loop")
    /\ fileset_state' = [fileset_state EXCEPT ![w] = "ready"]
    /\ UNCHANGED <<xact_state, pending_stream_count, xactLock, stream_fd>>

(* and then the file is read.                                              *)
SpoolReady(w) ==
    /\ fileset_state[w] = "ready"
    /\ WorkerGoes(w, "empty", "replay")
    /\ stream_fd' = [stream_fd EXCEPT ![w] = 0]
    /\ UNCHANGED <<xact_state, pending_stream_count, fileset_state, xactLock>>

(* apply_spooled_messages().                                               *)
ReplayRecord(w) ==
    /\ wpc[w] = "replay"
    /\ \E x \in xid_of[w] :
        /\ stream_fd[w] < Len(file[x])
        /\ Dispatch(w, file[x][stream_fd[w] + 1])
    /\ stream_fd' = [stream_fd EXCEPT ![w] = @ + 1]
    /\ UNCHANGED mq

ReplayEnd(w) ==
    /\ \E x \in xid_of[w] : stream_fd[w] = Len(file[x])
    /\ WorkerGoes(w, "replay", "loop")
    /\ fileset_state' = [fileset_state EXCEPT ![w] = "empty"]
    /\ stream_fd' = [stream_fd EXCEPT ![w] = Closed]
    /\ UNCHANGED <<xact_state, pending_stream_count, xactLock>>

WorkerStep(w) ==
    /\ session = "up"
    /\ \/ Receive(w) \/ SetStarted(w) \/ UnlockTransaction(w)
       \/ DecrStreamBlock(w) \/ WaitStreamBlock(w)
       \/ QueueEmpty(w) \/ SpoolNone(w) \/ SpoolInProgress(w) \/ SpoolDone(w) \/ SpoolReady(w)
       \/ ReplayRecord(w) \/ ReplayEnd(w)

(* The worker fails at a transaction; its locks go with it.                *)
WorkerError(w) ==
    /\ session = "up" /\ errors < MaxErrors
    /\ xid_of[w] # {} /\ wpc[w] # "dead"
    /\ wpc' = [wpc EXCEPT ![w] = "dead"]
    /\ xactLock' = xactLock \ {w}
    /\ errors' = errors + 1
    /\ UNCHANGED <<spooledVars, xact_state, pending_stream_count, fileset_state, mq, streamLock,
                   leaderVars, stream_fd, historyVars, session>>

-----------------------------------------------------------------------------

Publisher ==
    /\ session = "up"
    /\ StreamNext
    /\ UNCHANGED <<spoolVars, sharedVars, leaderVars, workerVars, historyVars, faultVars>>

(* Nothing to receive, or the walsender starts again from the beginning.   *)
Rest == outbox = <<>> \/ session = "over"

ParallelNext ==
    \/ Publisher \/ LeaderStep \/ LeaderAlone \/ LeaderFails
    \/ \E w \in Worker : WorkerStep(w) \/ WorkerError(w)
    \/ Rest /\ UNCHANGED parallelVars

ParallelSpec == ParallelInit /\ [][ParallelNext]_parallelVars

(* Processes that can run do.                                              *)
ParallelFairSpec ==
    /\ ParallelSpec
    /\ WF_parallelVars(LeaderStep) /\ WF_parallelVars(LeaderFails)
    /\ \A w \in Worker : WF_parallelVars(WorkerStep(w))

-----------------------------------------------------------------------------
(* Properties                                                              *)

ParallelTypeOK ==
    /\ StreamTypeOK
    /\ pool \subseteq Worker
    /\ \A w \in Worker :
        /\ Cardinality(xid_of[w]) <= 1 /\ (xid_of[w] # {} => w \in pool)
        /\ wpc[w] = "out" <=> w \notin pool
        /\ xact_state[w] \in {"unknown", "started", "finished"}
        /\ fileset_state[w] \in {"empty", "in_progress", "done", "ready"}
        /\ Len(mq[w]) <= QueueSize /\ pending_stream_count[w] \in Nat
    /\ streamLock \subseteq Worker /\ xactLock \subseteq Worker

(* What the file has for the worker that it has not read.                 *)
Unread(w, x) ==
    IF fileset_state[w] = "empty" THEN <<>>
    ELSE IF stream_fd[w] = Closed THEN file[x]
    ELSE SubSeq(file[x], stream_fd[w] + 1, Len(file[x]))

(* What the leader passes on is what the worker applies, in that order,    *)
(* although part of it goes through the queue and part through the file:   *)
(* the file is read after the queue is empty for good.                     *)
TransferExact ==
    \A w \in Worker : \A x \in xid_of[w] : handed[x] = (applied[x] \o mq[w]) \o Unread(w, x)

(* The error "invalid pending streaming chunk 0" is never raised: however  *)
(* the worker overtakes the leader between sending a block and counting    *)
(* it, a STREAM STOP or a rollback it handles has been counted or is from  *)
(* the file.                                                               *)
ChunkCounted ==
    \A w \in Worker : wpc[w] = "decr"
        => pending_stream_count[w] > 0 \/ fileset_state[w] # "empty"

(* A worker that goes back to the pool brings nothing of its transaction   *)
(* with it: no message, no block it would count, no lock.                  *)
ReusedClean ==
    \A w \in pool : xid_of[w] = {} =>
        /\ mq[w] = <<>> /\ pending_stream_count[w] = 0
        /\ fileset_state[w] = "empty" /\ stream_fd[w] = Closed
        /\ w \notin streamLock \cup xactLock

(* A handler of the leader comes to its end, whatever the worker is        *)
(* waiting for: neither waits for the other for ever.                      *)
LeaderGoesOn == (todo # <<>>) ~> (todo = <<>> \/ session = "over")

(* A change that was rolled back, with its transaction or to a savepoint,  *)
(* has been sent only by a parallel apply worker, which dispatches what it *)
(* is passed before the end of the transaction is known: the leader itself *)
(* sends nothing of a streamed transaction before it ends, whether or not  *)
(* it had a worker for another one.                                        *)
SentByWorkerOnly ==
    \A m \in produced :
        phase[m.xid] = "abort" \/ m.sub \in dead[m.xid] =>
            \E i \in 1..Len(applied[m.xid]) : applied[m.xid][i] = m
=============================================================================
