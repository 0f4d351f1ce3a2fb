---------------------------- MODULE ApplyWorker ----------------------------
(***************************************************************************)
(* The leader apply worker of one subscription (worker.c), between the     *)
(* publisher's walsender and the Kafka producer, and the positions that    *)
(* decide where replication resumes.                                       *)
(*                                                                         *)
(* The publisher's WAL is a sequence of committed transactions, each a     *)
(* sequence of changes.  Transaction i occupies three positions: its last  *)
(* change, the start of its commit record and the end of that record.      *)
(* The walsender sends it as BEGIN, the changes, COMMIT; the connection is *)
(* a FIFO, so handing a message straight to the worker loses nothing.      *)
(*                                                                         *)
(* The subscriber's own WAL is the sequence db of the states its commits   *)
(* leave behind (replication origin progress, subskiplsn, subenabled);     *)
(* local_flush is how much of it is on disk.  A commit extends db only if  *)
(* the local transaction has an XID, and in this fork an applied INSERT,   *)
(* UPDATE or DELETE writes nothing locally, so it gets none.               *)
(*                                                                         *)
(* Streamed and two-phase transactions are not in this module.             *)
(***************************************************************************)
EXTENDS Naturals, Sequences

CONSTANTS Workloads,    \* the WALs the publisher may have
          Budgets,      \* how often the bounded events may happen: within one of these
          DisableOnError \* the subscription's disable_on_error

Event == {"exit", "error", "serverCrash", "publisherCrash", "alterSkip", "sync"}
ChangeKind == {"insert", "update", "delete", "truncate"}

ASSUME ApplyAssumption ==
    /\ Workloads \subseteq Seq(Seq(ChangeKind))
    /\ Budgets \subseteq [Event -> Nat]
    /\ DisableOnError \in BOOLEAN

VARIABLES
    (* the publisher *)
    wal,                \* its committed transactions
    confirmed,          \* the slot's confirmed_flush, in memory
    confirmed_disk,     \* and as last saved
    next, pos,          \* the walsender: transaction being sent, messages of it sent
    connected,          \* the worker's connection is alive
    fb,                 \* flush position in a feedback message under way, or 0
    (* the worker process *)
    up,                 \* it is running
    last_received,
    local_xact,         \* IsTransactionState()
    has_xid,            \* and the local transaction has an XID
    skipping,           \* is_skipping_changes()
    my_skiplsn,         \* MySubscription->skiplsn, the cached copy
    lsn_mapping,        \* [remote_end, local_end] of commits not reported flushed
    last_flushpos,      \* static in send_feedback
    XactLastCommitEnd,
    session_origin_lsn, \* replorigin_session_origin_lsn
    (* the subscriber's server *)
    db, local_flush,
    (* history *)
    handed,             \* changes given to the producer, taken or refused
    skipped,            \* transactions left out on the user's request
    requested,          \* skip LSNs the user has asked for
    acked,              \* the highest confirmed position so far
    used                \* used[e]: how often event e has happened

publisherVars == <<wal, confirmed, confirmed_disk, acked>>
streamVars == <<next, pos, connected, fb>>
xactVars == <<local_xact, has_xid, skipping>>
feedbackVars == <<lsn_mapping, last_flushpos>>
workerVars == <<up, last_received, my_skiplsn, XactLastCommitEnd, session_origin_lsn>>
serverVars == <<db, local_flush>>
historyVars == <<handed, skipped, requested>>
vars == <<publisherVars, streamVars, xactVars, feedbackVars, workerVars,
          serverVars, historyVars, used>>

-----------------------------------------------------------------------------
(* WAL positions                                                           *)

FirstLsn(i) == 3 * i - 2        \* of a change
CommitLsn(i) == 3 * i - 1       \* start of the commit record: final_lsn, commit_lsn
EndLsn(i) == 3 * i              \* its end: end_lsn

Txns == 1..Len(wal)
Dml(i) == {k \in 1..Len(wal[i]) : wal[i][k] # "truncate"}

Later(a, b) == IF a < b THEN b ELSE a

DbState == [origin : Nat, skip : Nat, enabled : BOOLEAN]
FlushPosition == [remote_end : Nat, local_end : Nat]

(* The state of the subscriber's catalogs and origin now, and what would   *)
(* be left of it after a crash.                                            *)
Now == db[Len(db)]
Surviving == SubSeq(db, 1, local_flush)

Spend(e) ==
    /\ used' = [used EXCEPT ![e] = @ + 1]
    /\ \E b \in Budgets : \A x \in Event : used'[x] <= b[x]

StreamTypeOK ==
    /\ wal \in Workloads
    /\ {confirmed, confirmed_disk, acked, fb} \subseteq Nat
    /\ connected \in BOOLEAN
    /\ next \in 1..(Len(wal) + 1)
    /\ pos \in Nat
    /\ next \in Txns => pos <= Len(wal[next]) + 1
    /\ next \notin Txns => pos = 0

WorkerTypeOK ==
    /\ {up, local_xact, has_xid, skipping} \subseteq BOOLEAN
    /\ {last_received, my_skiplsn, last_flushpos, session_origin_lsn} \subseteq Nat
    /\ lsn_mapping \in Seq(FlushPosition)

ServerTypeOK ==
    /\ db \in Seq(DbState)
    /\ local_flush \in 1..Len(db)
    /\ XactLastCommitEnd \in 0..Len(db)

HistoryTypeOK ==
    /\ handed \subseteq Nat \X Nat
    /\ skipped \subseteq Nat
    /\ requested \subseteq Nat
    /\ used \in [Event -> Nat]

TypeOK == StreamTypeOK /\ WorkerTypeOK /\ ServerTypeOK /\ HistoryTypeOK

Init ==
    /\ wal \in Workloads
    /\ confirmed = 0 /\ confirmed_disk = 0 /\ acked = 0
    /\ next = 1 /\ pos = 0 /\ connected = FALSE /\ fb = 0
    /\ up = FALSE /\ last_received = 0 /\ my_skiplsn = 0
    /\ XactLastCommitEnd = 0 /\ session_origin_lsn = 0
    /\ local_xact = FALSE /\ has_xid = FALSE /\ skipping = FALSE
    /\ lsn_mapping = <<>> /\ last_flushpos = 0
    /\ db = <<[origin |-> 0, skip |-> 0, enabled |-> TRUE]>> /\ local_flush = 1
    /\ handed = {} /\ skipped = {} /\ requested = {}
    /\ used = [e \in Event |-> 0]

-----------------------------------------------------------------------------
(* Starting and stopping                                                   *)

(* Mutant: the slot's confirmed_flush is ignored.                          *)
StartDecodingAsked(start) == start

(* Where decoding starts when the worker asks for position start: never    *)
(* before the slot's confirmed_flush.                                      *)
StartDecodingAt(start) == IF start = 0 \/ start < confirmed THEN confirmed ELSE start

(* Mutant: the test is made on the transaction's first record.             *)
XactNeedsSkipEarly(i, start) == FirstLsn(i) < start

(* The walsender skips transaction i iff its commit record starts before   *)
(* the point decoding starts at.                                           *)
XactNeedsSkip(i, start) == CommitLsn(i) < start

(* The launcher starts the worker; run_apply_worker() reads the origin's   *)
(* progress and starts streaming there.  All of the worker's state is new. *)
StartWorker ==
    /\ ~up /\ Now.enabled
    /\ up' = TRUE
    /\ connected' = TRUE
    /\ fb' = 0
    /\ next' \in 1..(Len(wal) + 1) /\ pos' = 0
    /\ \A i \in Txns : i < next' <=> XactNeedsSkip(i, StartDecodingAt(Now.origin))
    /\ last_received' = Now.origin
    /\ my_skiplsn' = Now.skip
    /\ UNCHANGED <<publisherVars, xactVars, feedbackVars, XactLastCommitEnd,
                   session_origin_lsn, serverVars, historyVars, used>>

(* The process is gone.  A feedback message that was sent may still        *)
(* arrive.                                                                 *)
ProcessGone ==
    /\ up' = FALSE /\ connected' = FALSE
    /\ next' = 1 /\ pos' = 0
    /\ last_received' = 0 /\ my_skiplsn' = 0
    /\ XactLastCommitEnd' = 0 /\ session_origin_lsn' = 0
    /\ local_xact' = FALSE /\ has_xid' = FALSE /\ skipping' = FALSE
    /\ lsn_mapping' = <<>> /\ last_flushpos' = 0

(* The worker exits without an ERROR: it is terminated, or finds the       *)
(* subscription changed or disabled.                                       *)
WorkerExit ==
    /\ up
    /\ Spend("exit")
    /\ ProcessGone
    /\ UNCHANGED <<publisherVars, fb, serverVars, historyVars>>

(* PG_CATCH in start_apply(), for any ERROR of the apply loop: the origin  *)
(* is reset, and either the subscription is disabled or the error ends the *)
(* process.                                                                *)
StartApplyCatch ==
    /\ up
    /\ ProcessGone
    /\ db' = IF DisableOnError THEN Append(db, [Now EXCEPT !.enabled = FALSE]) ELSE db
    /\ UNCHANGED <<publisherVars, fb, local_flush, historyVars>>

(* The connection is gone: the stream ends, or the next read or write      *)
(* fails.                                                                  *)
ConnectionLost ==
    /\ ~connected
    /\ \/ /\ up
          /\ ProcessGone
          /\ UNCHANGED <<publisherVars, fb, serverVars, historyVars>>
       \/ StartApplyCatch
    /\ UNCHANGED used

(* A handler, the producer or the wait for the publisher raises an ERROR.  *)
ApplyError == Spend("error") /\ StartApplyCatch

(* The subscriber's server crashes: commits that were not flushed are      *)
(* undone.                                                                 *)
ServerCrash ==
    /\ Spend("serverCrash")
    /\ db' = Surviving
    /\ ProcessGone
    /\ UNCHANGED <<publisherVars, fb, local_flush, historyVars>>

(* The publisher crashes: the slot comes back as last saved.               *)
PublisherCrash ==
    /\ Spend("publisherCrash")
    /\ confirmed' = confirmed_disk
    /\ connected' = FALSE
    /\ fb' = 0
    /\ UNCHANGED <<wal, confirmed_disk, acked, next, pos, xactVars, feedbackVars,
                   workerVars, serverVars, historyVars>>

-----------------------------------------------------------------------------
(* Feedback                                                                *)

(* The first n entries of lsn_mapping are the ones get_flush_position()    *)
(* finds flushed: it stops at the first one that is not.                   *)
FlushedPrefix(n) ==
    /\ \A j \in 1..n : lsn_mapping[j].local_end <= local_flush
    /\ n < Len(lsn_mapping) => lsn_mapping[n + 1].local_end > local_flush

(* Mutant: have_pending_txes is ignored.                                   *)
FlushPosEager(n, recvpos) == recvpos

(* Mutant: the received position is never reported.                        *)
FlushPosOfCommits(n, recvpos) == IF n = 0 THEN 0 ELSE lsn_mapping[n].remote_end

(* The flush position to report after those n entries: everything received *)
(* if nothing is pending, else the last flushed entry.                     *)
FlushPos(n, recvpos) ==
    IF n = Len(lsn_mapping) THEN recvpos
    ELSE IF n = 0 THEN 0
    ELSE lsn_mapping[n].remote_end

(* send_feedback().  last_received never decreases in a process, so the    *)
(* function's own last_recvpos never matters.                              *)
SendFeedback(recvpos) ==
    \E n \in 0..Len(lsn_mapping) :
        /\ FlushedPrefix(n)
        /\ lsn_mapping' = SubSeq(lsn_mapping, n + 1, Len(lsn_mapping))
        /\ last_flushpos' = Later(last_flushpos, FlushPos(n, recvpos))
        /\ fb' = IF connected THEN last_flushpos' ELSE fb

(* The walsender handles a feedback message.                               *)
ConfirmReceived ==
    /\ fb > 0
    /\ confirmed' = Later(confirmed, fb)
    /\ acked' = Later(acked, fb)
    /\ fb' = 0
    /\ UNCHANGED <<wal, confirmed_disk, next, pos, connected, xactVars, feedbackVars,
                   workerVars, serverVars, historyVars, used>>

(* A checkpoint of the publisher saves the slot.                           *)
SaveSlot ==
    /\ confirmed_disk # confirmed
    /\ confirmed_disk' = confirmed
    /\ UNCHANGED <<wal, confirmed, acked, streamVars, xactVars, feedbackVars,
                   workerVars, serverVars, historyVars, used>>

-----------------------------------------------------------------------------
(* The apply loop, one action per message: LogicalRepApplyLoop() records   *)
(* the position and apply_dispatch() runs the handler.                     *)

Received(lsn) == last_received' = Later(last_received, lsn)

(* Mutant: any transaction is skipped while subskiplsn is set.             *)
StartsSkippingAny(i) == my_skiplsn # 0

(* maybe_start_skipping_changes()                                          *)
StartsSkipping(i) == my_skiplsn # 0 /\ my_skiplsn = CommitLsn(i)

ReceiveBegin ==
    /\ up /\ next \in Txns /\ pos = 0
    /\ Received(FirstLsn(next))
    /\ skipping' = StartsSkipping(next)
    /\ pos' = 1
    /\ UNCHANGED <<publisherVars, next, connected, fb, local_xact, has_xid,
                   feedbackVars, up, my_skiplsn, XactLastCommitEnd,
                   session_origin_lsn, serverVars, historyVars, used>>

(* The next message of the stream is a change.                             *)
ReceiveChange ==
    /\ up /\ next \in Txns /\ pos \in 1..Len(wal[next])
    /\ Received(FirstLsn(next))
    /\ pos' = pos + 1
    /\ UNCHANGED <<publisherVars, next, connected, fb, skipping, feedbackVars, up,
                   XactLastCommitEnd, session_origin_lsn, serverVars, skipped,
                   requested>>

(* Quick return of every handler while a transaction is skipped.           *)
SkipChange ==
    /\ skipping
    /\ ReceiveChange
    /\ UNCHANGED <<local_xact, has_xid, my_skiplsn, handed, used>>

(* begin_replication_step(): the first step of a transaction starts a      *)
(* local one and rereads the subscription.                                 *)
BeginReplicationStep ==
    /\ local_xact' = TRUE
    /\ my_skiplsn' = IF local_xact THEN my_skiplsn ELSE Now.skip

(* A changed row goes to the producer as JSON.  The producer takes it or   *)
(* logs a failure and drops it; either way the handler goes on.            *)
SendRow(kind) ==
    /\ ~skipping
    /\ ReceiveChange
    /\ wal[next][pos] = kind
    /\ BeginReplicationStep
    /\ handed' = handed \cup {<<next, pos>>}
    /\ UNCHANGED <<has_xid, used>>

ApplyInsert == SendRow("insert")
ApplyUpdate == SendRow("update")
ApplyDelete == SendRow("delete")
ApplyDml == ApplyInsert \/ ApplyUpdate \/ ApplyDelete

(* TRUNCATE sends nothing, but its AccessExclusiveLock assigns an XID.     *)
ApplyTruncate ==
    /\ ~skipping
    /\ ReceiveChange
    /\ wal[next][pos] = "truncate"
    /\ BeginReplicationStep
    /\ has_xid' = TRUE
    /\ UNCHANGED <<handed, used>>

(* process_syncing_tables(): a table that has become READY is recorded in  *)
(* a transaction of its own, which carries the session's origin position.  *)
(* base is the local WAL before it.                                        *)
ProcessSyncingTables(base, lsn) ==
    \/ /\ db' = base
       /\ XactLastCommitEnd' = IF base = db THEN XactLastCommitEnd ELSE Len(base)
       /\ UNCHANGED used
    \/ /\ Spend("sync")
       /\ db' = Append(base, [base[Len(base)] EXCEPT !.origin = Later(@, lsn)])
       /\ XactLastCommitEnd' = Len(base) + 1

(* clear_subscription_skip_lsn() updates the catalog unless the user has   *)
(* changed subskiplsn since it was read.                                   *)
ClearsSkipLsn == my_skiplsn # 0 /\ Now.skip = my_skiplsn

(* apply_handle_commit() of a transaction that made a local one, or was    *)
(* skipped and makes one now.  The local commit advances the origin only   *)
(* if it has an XID; without one it leaves XactLastCommitEnd as it was.    *)
CommitBase(i) ==
    IF has_xid \/ ClearsSkipLsn
    THEN Append(db, [Now EXCEPT !.origin = Later(@, EndLsn(i)),
                                !.skip = IF ClearsSkipLsn THEN 0 ELSE @])
    ELSE db

CommitLocal ==
    /\ local_xact \/ skipping
    /\ session_origin_lsn' = EndLsn(next)
    /\ lsn_mapping' = Append(lsn_mapping,
            [remote_end |-> EndLsn(next),
             local_end  |-> IF CommitBase(next) = db THEN XactLastCommitEnd
                                                     ELSE Len(db) + 1])
    /\ skipped' = IF skipping THEN skipped \cup {next} ELSE skipped
    /\ ProcessSyncingTables(CommitBase(next), EndLsn(next))
    /\ UNCHANGED my_skiplsn

(* apply_handle_commit() of an empty transaction: nothing to commit.       *)
CommitEmpty ==
    /\ ~local_xact /\ ~skipping
    /\ my_skiplsn' = Now.skip
    /\ ProcessSyncingTables(db, session_origin_lsn)
    /\ UNCHANGED <<session_origin_lsn, lsn_mapping, skipped>>

ReceiveCommit ==
    /\ up /\ next \in Txns /\ pos = Len(wal[next]) + 1
    /\ Received(EndLsn(next))
    /\ CommitLocal \/ CommitEmpty
    /\ next' = next + 1 /\ pos' = 0
    /\ local_xact' = FALSE /\ has_xid' = FALSE /\ skipping' = FALSE
    /\ UNCHANGED <<publisherVars, connected, fb, last_flushpos, up, local_flush,
                   handed, requested>>

(* What a keepalive may carry: the walsender has read past the last        *)
(* transaction it sent and not past the commit record of the next one.     *)
SentPtr == {lsn \in 0..EndLsn(Len(wal)) :
                /\ EndLsn(next - 1) <= lsn
                /\ next \in Txns => lsn <= CommitLsn(next)}

ReceiveKeepalive ==
    /\ up
    /\ \E lsn \in SentPtr :
            /\ Received(lsn)
            /\ SendFeedback(Later(last_received, lsn))
    /\ UNCHANGED <<publisherVars, next, pos, connected, xactVars, up, my_skiplsn,
                   XactLastCommitEnd, session_origin_lsn, serverVars, historyVars,
                   used>>

(* The end of one round of the outer loop, when the socket is drained or   *)
(* the wait has timed out: feedback, and between transactions a look at    *)
(* the subscription and at the tables being synchronized.                  *)
EndOfRound ==
    /\ up
    /\ SendFeedback(last_received)
    /\ \/ /\ pos = 0
          /\ my_skiplsn' = Now.skip
          /\ ProcessSyncingTables(db, session_origin_lsn)
       \/ /\ pos > 0
          /\ UNCHANGED <<my_skiplsn, db, XactLastCommitEnd, used>>
    /\ UNCHANGED <<publisherVars, next, pos, connected, xactVars, up, last_received,
                   session_origin_lsn, local_flush, historyVars>>

-----------------------------------------------------------------------------
(* The rest of the subscriber's server, and its users.                     *)

(* The WAL writer flushes asynchronous commits.                            *)
WalWriter ==
    /\ local_flush < Len(db)
    /\ local_flush' \in (local_flush + 1)..Len(db)
    /\ UNCHANGED <<publisherVars, streamVars, xactVars, feedbackVars, workerVars,
                   db, historyVars, used>>

(* A user's command commits synchronously.                                 *)
UserCommit(state) ==
    /\ db' = Append(db, state)
    /\ local_flush' = Len(db) + 1
    /\ UNCHANGED <<publisherVars, streamVars, xactVars, feedbackVars, workerVars,
                   handed, skipped>>

(* ALTER SUBSCRIPTION ... SKIP (lsn = ...) accepts positions that are not  *)
(* behind the origin, and NONE.                                            *)
AlterSkip ==
    \E lsn \in {0} \cup {CommitLsn(i) : i \in Txns} :
        /\ Spend("alterSkip")
        /\ lsn # 0 => lsn >= Now.origin
        /\ UserCommit([Now EXCEPT !.skip = lsn])
        /\ requested' = requested \cup {lsn}

(* ALTER SUBSCRIPTION ... ENABLE after the subscription was disabled.      *)
Enable ==
    /\ ~Now.enabled
    /\ UserCommit([Now EXCEPT !.enabled = TRUE])
    /\ UNCHANGED <<requested, used>>

Receive == ReceiveBegin \/ SkipChange \/ ApplyDml \/ ApplyTruncate \/ ReceiveCommit

Next ==
    \/ StartWorker \/ WorkerExit \/ ConnectionLost \/ ServerCrash \/ PublisherCrash
    \/ Receive \/ ApplyError \/ ReceiveKeepalive \/ EndOfRound
    \/ ConfirmReceived \/ SaveSlot
    \/ WalWriter \/ AlterSkip \/ Enable

Spec == Init /\ [][Next]_vars

(* The launcher restarts a worker that is gone, a worker keeps reading,    *)
(* ends its rounds and notices a dead connection (wal_receiver_timeout),   *)
(* the walsender handles the replies it gets and the WAL writer flushes    *)
(* asynchronous commits every wal_writer_delay.                            *)
FairSpec ==
    /\ Spec
    /\ WF_vars(StartWorker) /\ WF_vars(ConnectionLost)
    /\ WF_vars(Receive) /\ WF_vars(EndOfRound)
    /\ WF_vars(ConfirmReceived) /\ WF_vars(WalWriter)

-----------------------------------------------------------------------------
(* Properties                                                              *)

(* Every change of transaction i that Kafka should see has been given to   *)
(* the producer, or the user asked for the transaction to be skipped.      *)
Handled(i) == i \in skipped \/ \A k \in Dml(i) : <<i, k>> \in handed

(* A transaction that will not be sent again, because the publisher's slot *)
(* or the worker's own replication origin is past its commit record, has   *)
(* been handed to the producer in full or skipped on request.  Neither the *)
(* feedback of send_feedback() nor an origin advanced by a commit of       *)
(* process_syncing_tables(), of clear_subscription_skip_lsn() or of a      *)
(* TRUNCATE runs ahead of INSERT_TO_JSON and its like: across restarts,    *)
(* crashes of either server, errors, and keepalives in the middle of a     *)
(* transaction.                                                            *)
NothingSkippedOver ==
    \A i \in Txns : CommitLsn(i) < Later(confirmed, Now.origin) => Handled(i)

(* get_flush_position() holds back: while the local commit of a remote     *)
(* transaction is not on disk, no flush position at or past the end of     *)
(* that transaction has been reported by this worker.                      *)
PendingNotReported ==
    \A j \in 1..Len(lsn_mapping) :
        lsn_mapping[j].local_end > local_flush
            => last_flushpos < lsn_mapping[j].remote_end

(* A transaction is left out only because the user named its finish LSN,   *)
(* whatever stale copy of the subscription the worker acted on.            *)
SkippedOnRequest == \A i \in skipped : CommitLsn(i) \in requested

(* A transaction the publisher has been told is flushed is not given to    *)
(* the producer again, by this worker or by any later one, unless the      *)
(* publisher has crashed since: the origin, which a transaction that wrote *)
(* nothing locally leaves behind, is only where run_apply_worker() asks    *)
(* for, and CreateDecodingContext() starts no earlier than confirmed_flush.*)
ResentOnlyAfterCrash ==
    [][ApplyDml => acked <= CommitLsn(next) \/ used["publisherCrash"] > 0]_vars

(* With finitely many faults the publisher's slot is eventually confirmed  *)
(* to the end of its WAL and stays there, so the WAL can be recycled,      *)
(* unless an error has disabled the subscription for good.  In particular  *)
(* a transaction that wrote nothing locally, which leaves                  *)
(* XactLastCommitEnd at an older commit, never holds the feedback back.    *)
CaughtUp == <>[](confirmed >= EndLsn(Len(wal))) \/ <>[]~Now.enabled

=============================================================================
