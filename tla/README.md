# A TLA+ verification of postgres-cdc-kafka

`postgres-cdc-kafka` is a fork of PostgreSQL 18.  A subscriber receives logical
replication as usual, but the apply step is replaced: a replicated INSERT,
UPDATE or DELETE is formatted as JSON and produced to a Kafka topic, and nothing
is written to the local table.  This directory specifies that system in TLA+,
checks small instances of it with TLC and proves its main safety properties with
TLAPS.

Paths below are relative to `src/postgres-cdc-kafka/src/backend/`.

## 1. The system

| Part | Code | State | Operations |
|---|---|---|---|
| Kafka producer | `utils/adt/kafka.c` | a librdkafka handle, its queue, `message_count`, `local_memory_usage` | `kafka_init`, `kafka_send_optimized`, `kafka_close_copy` |
| Leader apply worker | `replication/logical/worker.c` | `last_received`, local transaction, `lsn_mapping`, `skip_xact_finish_lsn`, cached `MySubscription` | one handler per protocol message, the apply loop, `send_feedback` |
| Resume positions | `replication/logical/{origin,logical,snapbuild}.c`, `replication/{slot,walsender}.c`, `access/transam/{xact,xlog}.c` | origin progress, `confirmed_flush` in memory and on disk, flushed WAL | commit, confirm, checkpoint, crash recovery, start of decoding |
| Subscription catalog | `commands/subscriptioncmds.c` | `subenabled`, `subskiplsn` | `ALTER SUBSCRIPTION ... SKIP`, `... ENABLE` |
| Table synchronization worker | `replication/logical/tablesync.c` | relation states INIT to READY | COPY, hand-shake with the leader, catch-up |
| COPY to JSON | `commands/copyfromparse.c`, `copyfrom.c` | the COPY handle | one message per row |
| Streaming, parallel apply | `worker.c`, `applyparallelworker.c` | spool files, worker pool | stream start, stop, abort, commit |
| Two-phase transactions | `worker.c` | prepared transactions | begin prepare, prepare, commit or rollback prepared |
| JSON messages | `worker.c`, `utils/adt/cJSON.c` | none | tuple to text |
| Launcher, parameters | `launcher.c`, `utils/misc/guc_tables.c` | worker slots, settings | restart workers |

How they interact.  The walsender of the publisher sends committed transactions
in commit order, from the later of the position the worker asks for and the
slot's `confirmed_flush`.  The worker hands each change to the producer inside
its process and confirms positions back to the slot.  librdkafka delivers from
its own threads.  The subscriber's own WAL is involved only through commits that
have an XID, and here lies what is special about this fork: an applied row
change writes nothing, so its commit has no XID, writes no commit record and
**does not advance the replication origin**.  Only a TRUNCATE (its
AccessExclusiveLock assigns an XID), clearing `subskiplsn` and the READY commit
of a synchronized table do.

What is hard here: two servers that crash independently and forget different
things (the publisher its unsaved `confirmed_flush`, the subscriber its
unflushed commits); a worker that may end between any two messages; positions
cached in several places (origin, slot, feedback message, `lsn_mapping`,
`last_received`, `last_flushpos`); keepalives in the middle of a transaction; a
cached skip LSN the user may change; and a producer that blocks, drops and never
reports back.  `PROJECT.json` lists these hazards with their lines.

What correctness means: no change is passed over (it is handed to the producer
or the user asked to skip it), nothing is confirmed that a crash can undo, the
slot eventually catches up, a partition is in commit order up to restarts, and
every message has exactly one fate.  A table that the
catalog calls synchronized had its rows and its changes sent.  Of a streamed
transaction, what was not rolled back is sent, and in order.  A prepared
transaction is finished on both sides.

## 2. Modules

```
component            composed                 model checking       proofs

KafkaChannel                                                       KafkaChannelProofs
KafkaProducer                                 MCKafkaProducer      KafkaProducerProofs
ApplyWorker -------- Pipeline                 MCApplyWorker        PipelineProofs
                                              MCPipeline
Publication
TableFollow
TableSync ---------- SyncPipeline             MCTableSync          TableSyncWorkers,
                                              MCSyncPipeline       TableSyncProofs,
                                                                   SyncPipelineProofs
TwoPhase                                      MCTwoPhase           TwoPhaseProofs
StreamProtocol
SpooledApply                                  MCSpooledApply       SpooledApplyProofs
ParallelApply ------ StreamPipeline           MCParallelApply
                                              MCStreamPipeline
```

The composed modules connect a component with KafkaChannel.  KafkaProducer
implements KafkaChannel, TableSync implements TableFollow.

**KafkaChannel** is the abstract specification of a producer: a message is
accepted into a queue or refused; a queued message is delivered to the log of
its partition, expires, or is destroyed with the handle.  Order is kept within a
partition (`enable.idempotence`), and only there, because messages carry no key.

**KafkaProducer** translates `kafka.c`.  A call of `kafka_send_optimized()` is
several steps, because it blocks in `rd_kafka_flush()` while librdkafka works;
`pc` is the place it is blocked at:

| Action | Code |
|---|---|
| `FirstSend`, `InitFails`, `Send` | `check_kafka_init()` / `COPY_TO_JSON()` and the entry of `kafka_send_optimized()` up to the limit test |
| `ForcedFlushReturns` | the one-second flush; only `message_count` is reset |
| `ProduceOk`, `ProduceError` | the results of `rd_kafka_produce()`, 0 and -1 |
| `CloseCopy`, `CloseReturns` | `kafka_close_copy()` around its five-second flush |
| `Terminate`, `Restart`, `Broker` | process exit and restart; librdkafka's threads |

There is no action for the loop over a full queue (`kafka.c:346`).
`rd_kafka_produce()` returns 0 or -1 and leaves the reason in
`rd_kafka_last_error()`, but the loop compares its result with
`RD_KAFKA_RESP_ERR__QUEUE_FULL`, which is neither: it is never entered, and a full
queue drops the message at `kafka.c:364` like any other error.

**ApplyWorker** translates the leader apply worker for plain transactions.
Transaction `i` occupies the positions `3i-2` (its changes), `3i-1` (start of
its commit record) and `3i` (end of it), which is all the comparisons in the
code tell apart.  The subscriber's WAL is the sequence `db` of the states its
commits leave (origin, skip LSN, enabled), of which the first `local_flush` are
on disk.  A message is received and handled in one action, because the worker is
a single thread and the connection is a FIFO:

| Action | Code |
|---|---|
| `StartWorker` | `run_apply_worker()`, `CreateDecodingContext()` |
| `ReceiveBegin`, `ApplyInsert`, `ApplyUpdate`, `ApplyDelete`, `ApplyTruncate`, `SkipChange`, `ReceiveCommit` | the handlers behind `apply_dispatch()` |
| `ReceiveKeepalive`, `EndOfRound` | `LogicalRepApplyLoop()` with `send_feedback()`, `maybe_reread_subscription()`, `process_syncing_tables()` |
| `WorkerExit`, `ConnectionLost`, `ApplyError` | `apply_worker_exit()`, end of stream and timeout, `PG_CATCH` of `start_apply()` |
| `ConfirmReceived`, `SaveSlot`, `PublisherCrash` | `LogicalConfirmReceivedLocation()`, slot checkpoint, `RestoreSlotFromDisk()` |
| `WalWriter`, `ServerCrash` | `XLogBackgroundFlush()`, recovery |
| `AlterSkip`, `Enable` | `AlterSubscription()` |

`handed`, `skipped`, `requested` and `acked` are history variables; no action
reads them.  A feedback message is a single slot `fb`: a newer one overtakes an
older one, and losing it models losing the connection.

**Pipeline** composes the two: `ProduceChange` is `ApplyDml` together with
`Accept` or `Refuse`; every way a process ends is together with `Destroy`; all
other steps are of one side only.  It uses KafkaChannel and not KafkaProducer,
which is sound because KafkaProducer implements KafkaChannel
(`ProducerImplementsChannel`, proved).

**Publication** is what the publisher has: rows of tables, a WAL with one row
change per transaction, and the rows a snapshot contains.  A message is a row and
the number of the transaction that made this version of it (0: there from the
start), which is what a consumer of the topic could tell apart.

**TableSync** translates `tablesync.c` for any number of tables: the worker of
each table and the leader's side of the hand-shake.  Position `2i` is the end of
transaction `i` and `2i+1` a position after it that is not the end of a
transaction.  `db` is again the local WAL from what is on disk to now; an entry
has the state, LSN and origin of every table.  Every commit is asynchronous
(`Logged`), also the one of `finish_sync_worker()`: its `XLogFlush()` goes as far
as the WAL is written, which a commit still in the WAL buffers is not.

| Action | Code |
|---|---|
| `SyncNothingToDo`, `SyncBegin`, `CreateSlot`, `CreateSlotFails`, `SyncResume` | `LogicalRepSyncTableStart()` up to the COPY, with the three commits it makes |
| `CopyRow`, `CopyNullRow`, `CopyBinaryRow`, `FinishCopy`, `CloseCopy`, `CloseCopyCrash` | the COPY, one row a step, FINISHEDCOPY, and `kafka_close_copy()` after the wait |
| `SyncApply`, `SyncKeepalive`, `SyncRound` | the catch-up: the apply loop of the worker and `process_syncing_tables_for_sync()` |
| `DropSyncSlot`, `CommitSyncDone`, `FinishSync` | its end: slot, SYNCDONE, `finish_sync_worker()` |
| `LeaderApply`, `LeaderKeepalive`, `LeaderRound` | the rounds of the leader, with `FetchTableStates()` |
| `ScanReady`, `ScanBehind`, `ScanWorker`, `ScanCatchup`, `LaunchSync`, `LaunchLater`, `ScanEnds`, `LeaderWaitEnds` | `process_syncing_tables_for_apply()`, one table a step, and `wait_for_relation_state_change()` |
| `SyncError`, `LeaderExit`, `ServerCrash`, `RelInvalidated`, `StartLeader`, `WalWriter` | faults, the launcher, the WAL writer |

**TableFollow** is what TableSync promises: a table is copied as of some
position, then followed, and what is said to be synchronized has been sent; a
crash may make the subscriber forget how far it was.

**SyncPipeline** composes TableSync with one producer for the leader and one for
the worker of each table (`queue[p]`), all on one topic, and has the flush in
`kafka_close_copy()` complete or not.  Its steps `Accept`, `Refuse`, `Deliver`,
`Expire` and `Destroy` are those of KafkaChannel for one of several queues.
`reliable` says of a behaviour that the broker refuses and expires nothing and
that no flush times out; `late` records that a worker committed SYNCDONE with
changes in its queue.

**TwoPhase** has the publisher's WAL of plain commits, prepares and their ends,
the change of the subscription from PENDING to ENABLED with `two_phase_at`, what
the reorder buffer sends of a record (`DecodeRecord`), the handlers of the
subscriber (`ApplyChange`, `ApplyCommit`, `ApplyPrepare`, `PrepareFails`,
`ApplyCommitPrepared`, `ApplyRollbackPrepared`, `ApplyRollbackIgnored`), feedback
(`Confirm`), and the exits and crashes of both sides.

**StreamProtocol** is what the walsender sends of transactions in progress:
blocks of changes, rollbacks to savepoints, and the ends.

**SpooledApply** is the leader serializing them: `SerializeStart`,
`SerializeChange`, `SerializeStop`, `SerializeAbortSub` (which cuts the changes
file at the offset `subxact_info_add()` remembered), `SerializeAbort`,
`SpoolReplay` and `SpoolEnd`.

**ParallelApply** adds the parallel apply workers of `applyparallelworker.c`.  A
handler of the leader is a sequence of operations on what it shares with the
worker (`SendProgram`, `SerializeProgram`), each of them a step: `SendData`,
`SendTimeout` (the switch to a file), `LockStream`, `UnlockStream`, `CountBlock`,
`WriteChange`, `SerializeDone`, `WaitStarted`, `WaitFinished`, and `StopWorker` or
`KeepWorker`.  The worker goes through `Receive`, `SetStarted`,
`DecrStreamBlock`, `WaitStreamBlock`, `UnlockTransaction`, and the steps of
`pa_process_spooled_messages_if_required()`; it may fail at any of them
(`WorkerError`).

**StreamPipeline** gives the leader and its worker a producer each.

## 3. What the runs show

| Run | Result | Distinct states | Bounds |
|---|---|---|---|
| `producer` | pass | 90,602 | 5 messages, a queue of 2 messages or 1 kbyte, 2 partitions, 1 restart |
| `apply` | pass | 911,623 | 2 WALs of 2 transactions; `disable_on_error`; 1 exit, 1 crash of each server and 1 table synchronization, or 1 error, 1 subscriber crash and 1 SKIP |
| `pipeline` | pass | 2.19M | 2 WALs, 2 partitions; 1 exit and 1 publisher crash, or 1 error, or 1 subscriber crash, or 1 SKIP |
| `table_sync` | pass | 401,563 | 1 table, 1 row, a WAL that puts a NULL and deletes; text and binary; 1 error of the worker and 1 exit of the leader, or 1 server crash, or 1 relation cache invalidation |
| `sync_pipeline` | pass | 2.48M | see below |
| `two_phase` | pass | 383,632 | 2 transactions; every fault once, or 2 exits |
| `spool` | pass | 2.08M | a transaction of 4 changes, 3 savepoints and 4 blocks, and a small one |
| `parallel` | pass | 797,932 | 2 transactions, 2 workers, a queue of 2 messages, 1 error |
| `stream` | pass | 1.99M | 2 transactions, 1 worker, a queue of 1 message, 2 partitions, 1 error |
| `throttle`, `acked_not_delivered`, `sync_resume` | violation | up to the counterexample | see section 4 |

`producer` checks that the local estimate covers librdkafka's queue
(`GaugeCoversQueue`), that every message is in exactly one place
(`ExactlyOnePlace`), `PartitionOrder`, that a message that fits meets a full
queue, and is dropped, only after the WARNING about a forced flush that timed out
(`FullOnlyAfterWarning`), and that `kafka.c` implements KafkaChannel.

`apply` checks that no position replication may resume from is past an unhandled
change (`NothingSkippedOver`), that an unflushed local commit holds the feedback
back (`PendingNotReported`), that only what the user named is skipped
(`SkippedOnRequest`), that a confirmed transaction is sent again only after a
crash (`ResentOnlyAfterCrash`), and that the slot reaches the end of the WAL and
stays there (`CaughtUp`).

`pipeline` checks that every change that will not be sent again is in the topic,
queued, or lost in a way KafkaChannel names (`FateKnown`), and that a partition's
log goes back only where a worker was restarted (`RewindsAreRestarts`).

`table_sync` checks that whatever part of the catalog survives a crash tells the
truth about what has been sent (`SyncedMeansSent`) and about the origin to go on
from (`OriginMatchesState`), that the worker stops at or after the leader's
position (`WorkerPastLeader`), that its slot outlives its stream
(`StreamHasSlot`), that TableFollow is implemented (`FollowsTables`), that both
waits of the hand-shake end (`WaitsEnd`), and that every table becomes READY
unless the server crashes again and again (`ReadyOrCrashing`).

`sync_pipeline` adds the topic: every message has a fate (`SentHasFate`), the
copy is in the topic before its worker catches up, when the broker takes
everything and no flush times out (`CopyBeforeCatchup`, which is about the changes
the worker itself sends, not the leader's), and without faults the last message
about a row of a synchronized table is the row the publisher has
(`TopicConverges`).  The last one has two conditions that are not bounds of the
model but limits of the code.  The topic has one partition, since messages are
produced with `RD_KAFKA_PARTITION_UA` and no key (`kafka.c:339`).  And no worker was
`late`: between the commit of SYNCDONE and the end of the process nothing flushes
the worker's queue, while the leader goes on; a change of a row may then be
overtaken by the leader's next change of that row, and come last, or be lost in
`finish_sync_worker()`.  Without this condition TLC refutes the property with two
changes of one row.

The instance has two tables, one of them empty, one row, two workers and seven
messages, and explores three scenarios of them (`Explored` in MCSyncPipeline): a
put with a NULL column, one worker and at most three messages, with one error of
the worker, or one exit of the leader, or one server crash and one relation cache
invalidation (a text copy with either broker, a binary one with the unreliable
broker); one put and both workers at the same time; two changes of the row, put
and put or put and delete, and one worker at a time.  The last two are text copies
without faults and with a broker that takes everything.

`two_phase` checks that COMMIT PREPARED finds its transaction
(`CommitFindsPrepared`), that nothing is confirmed unsent (`ConfirmedMeansSent`)
or left prepared (`NoneLeftPrepared`), that prepared transactions are not sent
twice (`PreparedOnce`), which rolled-back ones are sent at all
(`RolledBackSentAtPrepare`), and that every prepared transaction is finished
unless one of them is stuck (`PreparedFinishes`).

`spool` checks that cutting the file at an offset removes exactly what was rolled
back (`SpoolExact`, `OnlyCommittedSent`).  `parallel` checks that what goes
through queue and file arrives in order (`TransferExact`), that a worker never
meets a block that was not counted (`ChunkCounted`), that a worker that is used
again is clean (`ReusedClean`), what is flushed was sent (`FlushedMeansSent`), who
sends what is rolled back later (`SentByWorkerOnly`), and that leader and worker
do not wait for each other (`LeaderGoesOn`).  `stream` checks the order of a
transaction's changes in a partition (`ChangesInOrder`) and that what is flushed
has a fate (`FlushedHasFate`).

Why the bounds are enough to be interesting: a queue of two messages is full by
count and by size, before and after a forced flush that timed out; the WALs
combine transactions that leave a commit record, that leave none and that are
empty; one fault of each kind in a behaviour lets a second fault hit the recovery
from the first; the delete in `table_sync` may come before, during and after the
copy; three savepoints allow a rollback to the middle one of a nest after a
release; a queue as short as a block forces the switch to the file at every
message.  The bounded events are `Budgets`, sets of limits of which a behaviour
keeps within one: the faults that interact are in one limit, the others get a
limit of their own.  The sizes of streamed transactions are bounded by `Shapes` in
the same way.  Deadlock is checked everywhere but in the producer runs, where the
process really may stop once its restarts are used up.

Fairness.  `ApplyWorker!FairSpec` is weakly fair to the launcher
restarting a worker, the worker reading, ending its rounds and noticing a dead
connection (`wal_receiver_timeout`), the walsender handling replies, and the WAL
writer.  `TableSync!FairSpec` is weakly fair to every step of a process that is
not blocked; it is strongly fair to the leader reading its socket, since every
round reads before it walks over the tables, and to `LaunchSync`, which
`wal_retrieve_retry_interval` refuses for a time but not for ever.
`TwoPhase!FairSpec` and `ParallelApply!ParallelFairSpec` are weakly fair to the
processes.  Faults, keepalives, slot checkpoints, clients and users get no
fairness.

## 4. Where code and text disagree

Three runs show a disagreement with a text of the repository:

* `acked_not_delivered`: the slot is confirmed past changes that were refused,
  expired or lost with the process (`utils/adt/kafka.c:364`, no delivery report,
  no flush on exit).  `README_EN.md:38` says the changes are delivered to Kafka.
  Among what is refused is what a full queue turns away, although the comment at
  `utils/adt/kafka.c:333` announces a loop for it.
* `throttle`: after `kafka_queue_buffering_max_kbytes` in total every send goes
  through a forced flush, because `local_memory_usage` is not reset; the comment
  at `utils/adt/kafka.c:328` says the counters are.  The flush returns at once
  when the queue is empty and blocks for up to a second when it is not.
* `sync_resume`: a synchronization worker that finds FINISHEDCOPY crashes the
  server at `tablesync.c:1650`, and so does the next one; the comments at
  `tablesync.c:34` and `:1457` say the restart goes on from there.

What the models show besides, and the properties take into account:

* `kafka_close_copy()` logs success after destroying a handle whose flush may
  have timed out with rows in the queue.
* A COPY row with a NULL column takes the server down, a binary COPY sends no row.
* A copy that is done again may send a row that was deleted in between.
* A worker that is done does not flush its producer, so the end of a catch-up may
  be lost although the table becomes READY, or be delivered after the leader's
  next change of the same row; the former holds for a parallel apply worker that is
  stopped, too.
* After a forced flush that timed out `message_count` starts again at 0 with the
  queue still full: from then on a full queue drops messages.
* A worker that drops its slot and fails before SYNCDONE is committed leaves
  FINISHEDCOPY without a slot.  `StreamHasSlot` does not show what that would do to
  a restarted worker, because the restart crashes first (`tablesync.c:1650`).
* A table goes from FINISHEDCOPY to READY without SYNCDONE in the catalog when its
  worker fails between setting SYNCDONE in shared memory, where the leader reads
  it (`tablesync.c:548`), and committing it; the header at `:54` gives SYNCDONE in
  between.  Nothing is left out on that path (`SyncedMeansSent`).
* A parallel apply worker sends changes that are rolled back later, and a prepared
  transaction is sent before it is known whether it commits.
* A transaction prepared before `two_phase_at` is prepared here with its COMMIT
  PREPARED; after a restart between the two the prepare fails every time.
* After a publisher crash confirmed changes are produced again, because their
  commits did not advance the origin (cf. the comment at `worker.c:2304`).
* Messages of transactions that different processes produced are not ordered.

## 5. What is proved

The proofs hold for every value of the constants: any publisher WAL, any number
of faults, messages, partitions, tables, rows and transactions, any sizes and
limits.  They rest on the named assumptions of the modules: `ProducerAssumption`
(message numbers in call order, natural sizes, positive limits, at least one
partition), `ApplyAssumption` (WALs are sequences of sequences of changes),
`PipelineAssumption` (every change of every WAL has a message of its own, and the
topic has a partition), `SyncAssumption` (WALs are sequences of row changes),
`SyncPipelineAssumption` (the leader is no table, and the topic has a partition),
`TwoPhaseAssumption` and `StreamAssumption` (the types of the bounds).  TLC checks
each of them on its instance.  The inductive invariants below were checked
with TLC on the instances above before they were proved.

*KafkaChannelProofs* holds what both sides need about the channel: its steps
keep its types (`ChannelTypes`), what each of them does to queue, logs and losses
(`Accepts`, `Leaves`, `Delivers`), and that none forgets a message that is in the
topic, queued or lost (`FatesGrow`).

*KafkaProducerProofs*

* `TypeCorrect`: `TypeOK` is inductive as it stands.
* `GaugeCorrect`: the gauge covers the queue.  Inductive together with "no
  handle, no queue": the gauge is reset only together with the queue.
* `CountCorrect`: `message_count` covers the queue until a forced flush of the
  handle has timed out.  This is the half of `FullOnlyAfterWarning` that is about
  the number of messages.
* `PartitionOrderCorrect`: needs the order inside the queue and that everything
  in a partition's log was sent before everything queued for it.
  `RemovalKeepsOrder` carries both across a delivery or expiry out of the middle
  of the queue.
* `ExactlyOnePlaceCorrect`: messages are numbered in the order of the calls, so a
  message is in the queue, in a log or lost at most once (`OneCopy`).  A delivery
  takes it out of one place and puts it into another (`LeavesQueue`, `JoinsLog`);
  counting is left to the last step, where a set with one member has cardinality
  one (`PlaceIsUnique`).
* `ProducerImplementsChannel`: every step of `kafka.c` is a channel step or
  leaves the channel alone; a message in the hands of a blocked call counts as
  not yet sent.

*PipelineProofs*, of the worker alone:

* `TypeCorrect`.
* `NothingSkippedOverCorrect`, `PendingNotReportedCorrect`,
  `SkippedOnRequestCorrect`, from one inductive invariant `IInv`:
  * `SafePositions`: *every* position in the system (slot in memory and on
    disk, feedback under way, `last_flushpos`, `last_received`, the session
    origin, every `lsn_mapping` entry and every origin in the local WAL) is safe
    to resume from.  The property alone is not inductive: each of these
    positions becomes the slot's or the origin's a step or a crash later;
  * `StreamHandled`: what was sent before the current message is handled, which
    makes a new position safe when it is received;
  * `FeedbackOrder`: `last_flushpos` < every `lsn_mapping` entry <=
    `last_received` <= the next commit record, and the entries ascend.  It is
    what makes "report everything received" right when nothing is pending;
  * `SkipsRequested`: every skip LSN in the catalog's history, in the worker's
    cache or in force was asked for; `GoneIsGone`: a dead process leaves nothing.

  `PositionsStep` is the heart: a step makes no new position but one the stream
  has reached or, at COMMIT, the end of a transaction that `HandledAtCommit`
  shows handled.
* `ResentOnlyAfterCrashCorrect`, an action property: `AckedInv` says that as long
  as no server has crashed, what was ever confirmed is within the slot's position
  in memory, which a session does not start before.

and of the composition:

* `PipelineImplementsWorker`: `PipelineSpec => Spec`, so the theorems about the
  worker hold of the composition.
* `PipelineTypeCorrect`: every pipeline step is a channel step or leaves the
  channel alone; the message of a change is one of `Message` because the worker
  is inside a transaction of its WAL (`ChangeIsMessage`).
* `FateKnownCorrect`: the inductive invariant is `HandedHasFate`, every change in
  the worker's history `handed` has a fate in the channel; with
  `NothingSkippedOver` of the worker it gives `FateKnown`.
* `RewindsAreRestartsCorrect`: a log goes back only as often as a session was
  severed.  The count of rewinds is not inductive, since messages of a session
  that has ended are still to be delivered when the next one repeats them.
  `RewindInv` adds what is queued: within a session the queued messages and what
  the worker sends next are ahead of what it has sent (`Ahead`), and a partition
  whose last entry is not ahead of the stream has a restart in hand that no rewind
  has used (`Credit`).

*TableSyncWorkers* and *TableSyncProofs* (the former has the types, the inductive
invariant and the steps of a worker, the latter those of the leader, the crashes
and the theorems):

* `TypeCorrect`.
* `SyncedMeansSentCorrect`, `OriginMatchesStateCorrect`,
  `WorkerPastLeaderCorrect`, `StreamHasSlotCorrect`, from `IInv`:
  * `CatalogInv`: every catalog a crash may leave behind is true (`EntryTrue`),
    and is behind the current one (`Behind`), so that a crash never moves a table
    forward;
  * `WorkerInv`: what the place of a worker says of the catalog (`PlaceInv`), of
    what it has sent (`ProgressInv`), and of its slot;
  * `LeaderInv`, `ViewInv`: what the leader's stale copy of the states still
    guarantees.  A table it holds for SYNCDONE may be only FINISHEDCOPY in the
    catalog; then its worker has sent everything and is finishing, or is gone.
* `SyncImplementsFollow`: `Spec => FollowsTables`.  Each step of either side is a
  step of TableFollow or leaves it alone; a crash is `Forget`, by `Behind`.

*SyncPipelineProofs*:

* `SyncPipelineImplementsSync`: `SyncPipelineSpec => Spec` of TableSync, so the
  theorems above hold of the composition.  It needs only that the leader is not
  ahead of its own positions (`NotAhead`): a message handed over is then one the
  worker or the leader sends in that step.
* `SentHasFateCorrect`: no step of a producer makes a message disappear, in its own
  queue or in another one's (`Keeps`, shown of each step in `Accepting` to
  `Destroying`), and what a step newly sends it hands to a producer
  (`SentIsHanded`).
* `CopyBeforeCatchupCorrect`, for any number of workers at a time, from `CopyInv`:
  the rows a worker has copied are in the topic or in its own queue, and once it
  catches up they are in the topic (`CopyPlace`).  A step of another process
  touches neither the worker nor its queue (`Touches`, `Arriving`).  The step that
  counts is the flush of `kafka_close_copy()`, which returns with an empty queue
  when the broker takes everything.

*TwoPhaseProofs*: `TypeCorrect` and the five invariants of the run.  The inductive
invariant says what a record leaves behind that is *settled*, covered by the
origin or by the slot, or passed by the session (`SettledInv`); that the origin
covers what is prepared here and the end of what is no longer (`PreparedInv`);
how far a session lets the positions go (`SlotInv`); and which messages can be
left of a record (`OutInv`).  The change of `two_phase_at` is covered by telling
prepares decoded before it (`Late`) from the others.

*SpooledApplyProofs*: `SpoolExactCorrect`,
`OnlyCommittedSentCorrect`, `FlushedMeansSentCorrect`, for any nesting of
savepoints.  `NestInv` says that the subtransactions in progress or released into
one are those that were not rolled back, in ascending order; `SubxactsInv` that
`subxacts` has the place of the first change of each; and `Closes`, which carries
the proof, that from the first change of a subtransaction in progress on the file
has none of an earlier one, so that cutting it there removes no other change.

Only model-checked:

* liveness, which needs fairness and is beyond the prover: `CaughtUp`, `WaitsEnd`,
  `ReadyOrCrashing`, `PreparedFinishes`, `LeaderGoesOn`;
* `FullOnlyAfterWarning`: that a flushed queue holds 0 bytes needs the sum of the
  sizes over the queue, an induction over data (`GaugeCorrect` and `CountCorrect`
  are proved);
* `TopicConverges`: what was delivered by whom, and when, has to be described for
  the leader and all workers together;
* the invariants of `ParallelApply` and `StreamPipeline` (`ParallelTypeOK`,
  `TransferExact`, `ChunkCounted`, `ReusedClean`, `SentByWorkerOnly`,
  `ChangesInOrder`, `FlushedHasFate`): a queue, a file and a worker's place in
  both have to be described together.

## 6. Not modelled

See the components in `PROJECT.json`.  Formatting (JSON, COPY parsing) and
configuration tables are data, not control.  Backup copies of sources and the
FIFO transport have no caller.  RELATION, TYPE and ORIGIN messages change no state
the properties are about.  Of the launcher only the restart of a leader and the
limit on synchronization workers are modelled; of the subscription commands SKIP
and ENABLE, but not REFRESH and DROP.  The catch-up of a synchronization worker
has row changes only: a TRUNCATE there takes an XID and moves the worker's origin,
and SKIP is for the leader's stream.  Messages in the queue of a parallel apply
worker are taken as a whole or not at all; a send that `shm_mq` has taken half when
it times out is not told apart from one it has not taken.  Locks of other backends,
which a parallel apply worker may wait for while the leader waits for it, are
outside the model.  The publisher's reassembly of transactions,
spilling and snapshots are below what the subscriber sees.  The rest of PostgreSQL
is unchanged and is not reached by the apply step.
