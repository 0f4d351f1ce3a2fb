------------------------------ MODULE TwoPhase ------------------------------
(***************************************************************************)
(* Two-phase transactions of a subscription created with two_phase = on:   *)
(* what the walsender makes of PREPARE, COMMIT PREPARED and ROLLBACK       *)
(* PREPARED, the handlers of the apply worker, and the change of the       *)
(* subscription from PENDING to ENABLED.                                   *)
(*                                                                         *)
(* A transaction has one change.  Record i of the publisher's WAL starts   *)
(* at StartLsn(i) and ends at EndLsn(i).  A local PREPARE or COMMIT        *)
(* PREPARED always has an XID and is flushed before it returns, so it      *)
(* moves the replication origin for good; the commit of an ordinary        *)
(* transaction has none in this fork, and moves nothing (ApplyWorker).     *)
(***************************************************************************)
EXTENDS Naturals, Sequences

CONSTANTS Xid,
          Budgets       \* how often the faults may happen: within one of these

Fault == {"exit", "serverCrash", "publisherCrash"}

ASSUME TwoPhaseAssumption == Budgets \subseteq [Fault -> Nat]

VARIABLES
    (* the publisher *)
    wal,                \* the records [xid, kind]
    confirmed, confirmed_disk,      \* the slot's confirmed_flush
    two_phase, two_phase_at,        \* and its other fields, saved when they change
    (* a replication session *)
    up,
    twophase,           \* ctx->twophase
    start,              \* start_decoding_at
    sent,               \* records decoded
    out,                \* messages [kind, rec] of the last one, not handled
    (* the subscriber *)
    tables_ready,       \* AllTablesyncsReady()
    state, state_disk,  \* subtwophasestate, and what a crash leaves of it
    gids,               \* transactions prepared here
    origin,
    (* history *)
    handed,             \* transactions whose change was given to the producer
    prepared,           \* transactions that were prepared here
    repeated,           \* and whose change was given to the producer again
    used

slotVars == <<confirmed, confirmed_disk, two_phase, two_phase_at>>
sessionVars == <<up, twophase, start, sent, out>>
subscriberVars == <<tables_ready, state, state_disk, gids, origin>>
historyVars == <<handed, prepared, repeated>>
vars == <<wal, slotVars, sessionVars, subscriberVars, historyVars, used>>

StartLsn(i) == 2 * i - 1
EndLsn(i) == 2 * i

Later(a, b) == IF a < b THEN b ELSE a

RecordKind == {"plain", "prepare", "commitPrepared", "rollbackPrepared"}

Has(x, kinds) == \E i \in 1..Len(wal) : wal[i].xid = x /\ wal[i].kind \in kinds
PrepareOf(x) == CHOOSE i \in 1..Len(wal) : wal[i] = [xid |-> x, kind |-> "prepare"]

Init ==
    /\ wal = <<>>
    /\ confirmed = 0 /\ confirmed_disk = 0
    /\ two_phase = FALSE /\ two_phase_at = 0
    /\ up = FALSE /\ twophase = FALSE /\ start = 0 /\ sent = 0 /\ out = <<>>
    /\ tables_ready = FALSE
    /\ state = "pending" /\ state_disk = "pending"
    /\ gids = {} /\ origin = 0
    /\ handed = {} /\ prepared = {} /\ repeated = {}
    /\ used = [e \in Fault |-> 0]

Spend(e) ==
    /\ used' = [used EXCEPT ![e] = @ + 1]
    /\ \E b \in Budgets : \A x \in Fault : used'[x] <= b[x]

-----------------------------------------------------------------------------
(* The publisher's clients and the tables' synchronization                 *)

Writes(x, k) ==
    /\ wal' = Append(wal, [xid |-> x, kind |-> k])
    /\ UNCHANGED <<slotVars, sessionVars, subscriberVars, historyVars, used>>

ClientCommits(x) == ~Has(x, RecordKind) /\ Writes(x, "plain")

ClientPrepares(x) == ~Has(x, RecordKind) /\ Writes(x, "prepare")

ClientFinishes(x, k) ==
    /\ Has(x, {"prepare"}) /\ ~Has(x, {"commitPrepared", "rollbackPrepared"})
    /\ Writes(x, k)

TablesReady ==
    /\ ~tables_ready
    /\ tables_ready' = TRUE
    /\ UNCHANGED <<wal, slotVars, sessionVars, state, state_disk, gids, origin,
                   historyVars, used>>

-----------------------------------------------------------------------------
(* Sessions                                                                *)

(* Mutant: the point from which prepares are sent is not remembered.       *)
TwoPhaseAtUnset(at) == 0

(* Mutant: it is one too far.                                              *)
TwoPhaseAtPast(at) == at + 1

(* CreateDecodingContext(): two_phase_at of a slot that is being enabled   *)
(* for two-phase decoding.                                                 *)
TwoPhaseAt(at) == at

(* run_apply_worker() and CreateDecodingContext().  The subscription asks  *)
(* for two-phase decoding while it is PENDING and all its tables are       *)
(* READY; the slot remembers it, and from when on.  Then the subscription  *)
(* is ENABLED, by a commit that is not flushed.                            *)
StartSession ==
    LET asks == state = "pending" /\ tables_ready
        at == Later(origin, confirmed)
    IN  /\ ~up
        /\ up' = TRUE
        /\ start' = at
        /\ sent' = 0 /\ out' = <<>>
        /\ twophase' = (two_phase \/ asks)
        /\ two_phase' = (two_phase \/ asks)
        /\ two_phase_at' = IF asks /\ ~two_phase THEN TwoPhaseAt(at) ELSE two_phase_at
        /\ confirmed_disk' = IF asks /\ ~two_phase THEN confirmed ELSE confirmed_disk
        /\ state' = IF asks THEN "enabled" ELSE state
        /\ UNCHANGED <<wal, confirmed, tables_ready, state_disk, gids, origin, historyVars, used>>

Ended == up' = FALSE /\ twophase' = FALSE /\ start' = 0 /\ sent' = 0 /\ out' = <<>>

(* Mutant: the worker also restarts when two_phase is enabled already.     *)
ExitWhenReady ==
    /\ up /\ out = <<>>
    /\ tables_ready
    /\ Ended
    /\ UNCHANGED <<wal, slotVars, subscriberVars, historyVars, used>>

(* process_syncing_tables_for_apply(): the worker restarts so that         *)
(* two_phase can be enabled.                                               *)
ExitToEnable ==
    /\ up /\ out = <<>>
    /\ state = "pending" /\ tables_ready
    /\ Ended
    /\ UNCHANGED <<wal, slotVars, subscriberVars, historyVars, used>>

(* The worker exits, by an ERROR or on request, at any message.            *)
WorkerExit ==
    /\ up /\ Spend("exit")
    /\ Ended
    /\ UNCHANGED <<wal, slotVars, subscriberVars, historyVars>>

ServerCrash ==
    /\ Spend("serverCrash")
    /\ state' = state_disk
    /\ Ended
    /\ UNCHANGED <<wal, slotVars, tables_ready, state_disk, gids, origin, historyVars>>

PublisherCrash ==
    /\ Spend("publisherCrash")
    /\ confirmed' = confirmed_disk
    /\ Ended
    /\ UNCHANGED <<wal, confirmed_disk, two_phase, two_phase_at, subscriberVars, historyVars>>

(* send_feedback() and LogicalConfirmReceivedLocation(): between two       *)
(* records nothing is pending, and all that was received is confirmed.     *)
Confirm ==
    /\ up /\ out = <<>> /\ sent > 0
    /\ EndLsn(sent) > confirmed
    /\ confirmed' = EndLsn(sent)
    /\ UNCHANGED <<wal, confirmed_disk, two_phase, two_phase_at, sessionVars, subscriberVars,
                   historyVars, used>>

SaveSlot ==
    /\ confirmed_disk # confirmed
    /\ confirmed_disk' = confirmed
    /\ UNCHANGED <<wal, confirmed, two_phase, two_phase_at, sessionVars, subscriberVars,
                   historyVars, used>>

-----------------------------------------------------------------------------
(* The walsender                                                           *)

(* ReorderBufferFinishPrepared(): a transaction whose prepare was before   *)
(* two_phase_at is prepared now.                                           *)
FinishPrepared(x) ==
    IF StartLsn(PrepareOf(x)) < two_phase_at
    THEN <<"change", "prepare", "commitPrepared">> ELSE <<"commitPrepared">>

(* Mutant: a prepared transaction is expected to have been sent before.    *)
DecodedAtPrepare(i) ==
    LET r == wal[i]
    IN  IF StartLsn(i) < start THEN <<>>
        ELSE CASE r.kind = "plain" -> <<"change", "commit">>
               [] r.kind = "prepare" /\ twophase -> <<"change", "prepare">>
               [] r.kind = "commitPrepared" /\ twophase -> FinishPrepared(r.xid)
               [] r.kind = "rollbackPrepared" /\ twophase -> <<"rollbackPrepared">>
               [] OTHER -> <<>>

(* Mutant: a prepared transaction is sent at its prepare in any case.      *)
DecodedAlwaysAtPrepare(i) ==
    LET r == wal[i]
    IN  IF StartLsn(i) < start THEN <<>>
        ELSE CASE r.kind = "plain" -> <<"change", "commit">>
               [] r.kind = "prepare" -> <<"change", "prepare">>
               [] r.kind = "commitPrepared" ->
                     IF twophase THEN FinishPrepared(r.xid) ELSE <<"change", "commit">>
               [] r.kind = "rollbackPrepared" /\ twophase -> <<"rollbackPrepared">>
               [] OTHER -> <<>>

(* DecodePrepare(), DecodeCommit(), DecodeAbort(): what is sent of record  *)
(* i.  Without two-phase decoding a prepared transaction is sent when it   *)
(* commits.                                                                *)
Decoded(i) ==
    LET r == wal[i]
    IN  IF StartLsn(i) < start THEN <<>>
        ELSE CASE r.kind = "plain" -> <<"change", "commit">>
               [] r.kind = "prepare" /\ twophase -> <<"change", "prepare">>
               [] r.kind = "commitPrepared" ->
                     IF twophase THEN FinishPrepared(r.xid) ELSE <<"change", "commit">>
               [] r.kind = "rollbackPrepared" /\ twophase -> <<"rollbackPrepared">>
               [] OTHER -> <<>>

DecodeRecord ==
    /\ up /\ out = <<>> /\ sent < Len(wal)
    /\ sent' = sent + 1
    /\ out' = Decoded(sent + 1)
    /\ UNCHANGED <<wal, slotVars, up, twophase, start, subscriberVars, historyVars, used>>

-----------------------------------------------------------------------------
(* The handlers; the messages are of record sent                           *)

Gets(k) == up /\ out # <<>> /\ Head(out) = k
Of == wal[sent].xid

(* BEGIN or BEGIN PREPARE, and the change.                                 *)
ApplyChange ==
    /\ Gets("change")
    /\ handed' = handed \cup {Of}
    /\ repeated' = IF Of \in prepared THEN repeated \cup {Of} ELSE repeated
    /\ out' = Tail(out)
    /\ UNCHANGED <<wal, slotVars, up, twophase, start, sent, subscriberVars, prepared, used>>

ApplyCommit ==
    /\ Gets("commit")
    /\ out' = Tail(out)
    /\ UNCHANGED <<wal, slotVars, up, twophase, start, sent, subscriberVars, historyVars, used>>

(* Mutant: the position of the prepared transaction is not recorded.       *)
FlushesWithoutOrigin(lsn) == UNCHANGED origin /\ state_disk' = state

(* The record that is flushed has the origin in it, and everything before  *)
(* it is flushed too.  The origin never moves back.                        *)
Flushes(lsn) == origin' = Later(origin, lsn) /\ state_disk' = state

(* apply_handle_prepare(), apply_handle_prepare_internal(): the prepare    *)
(* has the position of the publisher's, however late it is sent.           *)
ApplyPrepare ==
    /\ Gets("prepare") /\ Of \notin gids
    /\ gids' = gids \cup {Of}
    /\ prepared' = prepared \cup {Of}
    /\ Flushes(EndLsn(PrepareOf(Of)))
    /\ out' = Tail(out)
    /\ UNCHANGED <<wal, slotVars, up, twophase, start, sent, tables_ready, state, handed,
                   repeated, used>>

(* MarkAsPreparing(): "transaction identifier is already in use".          *)
PrepareFails ==
    /\ Gets("prepare") /\ Of \in gids
    /\ Ended
    /\ UNCHANGED <<wal, slotVars, subscriberVars, historyVars, used>>

(* apply_handle_commit_prepared(): FinishPreparedTransaction() fails       *)
(* without the prepared transaction.                                       *)
ApplyCommitPrepared ==
    /\ Gets("commitPrepared") /\ Of \in gids
    /\ gids' = gids \ {Of}
    /\ Flushes(EndLsn(sent))
    /\ out' = Tail(out)
    /\ UNCHANGED <<wal, slotVars, up, twophase, start, sent, tables_ready, state,
                   historyVars, used>>

(* Mutant: nothing is rolled back.                                         *)
ApplyRollbackIgnored ==
    /\ Gets("rollbackPrepared")
    /\ out' = Tail(out)
    /\ UNCHANGED <<wal, slotVars, up, twophase, start, sent, subscriberVars, historyVars, used>>

(* apply_handle_rollback_prepared(), for a transaction that is prepared    *)
(* here and for one whose prepare was never sent.                          *)
ApplyRollbackPrepared ==
    /\ Gets("rollbackPrepared")
    /\ \/ Of \in gids /\ gids' = gids \ {Of} /\ Flushes(EndLsn(sent))
       \/ Of \notin gids /\ UNCHANGED <<gids, origin, state_disk>>
    /\ out' = Tail(out)
    /\ UNCHANGED <<wal, slotVars, up, twophase, start, sent, tables_ready, state,
                   historyVars, used>>

Apply == \/ ApplyChange \/ ApplyCommit \/ ApplyPrepare \/ PrepareFails
         \/ ApplyCommitPrepared \/ ApplyRollbackPrepared

Client ==
    \E x \in Xid :
        \/ ClientCommits(x) \/ ClientPrepares(x)
        \/ \E k \in {"commitPrepared", "rollbackPrepared"} : ClientFinishes(x, k)

(* Nothing left to decode; the session waits.                              *)
Waits == up /\ out = <<>> /\ sent = Len(wal)

Next ==
    \/ Client \/ TablesReady \/ StartSession \/ ExitToEnable
    \/ WorkerExit \/ ServerCrash \/ PublisherCrash
    \/ Confirm \/ SaveSlot \/ DecodeRecord \/ Apply
    \/ Waits /\ UNCHANGED vars

Spec == Init /\ [][Next]_vars

(* The launcher starts a worker that is not running, and a session goes on *)
(* decoding and applying.                                                  *)
FairSpec ==
    /\ Spec
    /\ WF_vars(StartSession) /\ WF_vars(DecodeRecord) /\ WF_vars(Apply)
    /\ WF_vars(ExitToEnable) /\ WF_vars(TablesReady)

-----------------------------------------------------------------------------
(* Properties                                                              *)

TypeOK ==
    /\ wal \in Seq([xid : Xid, kind : RecordKind])
    /\ {confirmed, confirmed_disk, origin} \subseteq 0..EndLsn(Len(wal))
    /\ two_phase_at <= Later(origin, confirmed)
    /\ sent \in 0..Len(wal)
    /\ twophase = (up /\ two_phase)
    /\ state_disk = "enabled" => state = "enabled"
    /\ state = "enabled" => two_phase
    /\ gids \subseteq prepared /\ prepared \subseteq handed /\ handed \subseteq Xid

(* COMMIT PREPARED never fails for want of the transaction it commits:     *)
(* whichever session sent the prepare, or none did, and whatever crashed   *)
(* since, it is prepared here when the message is handled.                 *)
CommitFindsPrepared == Gets("commitPrepared") => Of \in gids

(* What is confirmed to the publisher has been sent: a transaction         *)
(* prepared before two_phase was enabled is neither left out by the old    *)
(* session nor by the new one.                                             *)
ConfirmedMeansSent ==
    \A i \in 1..Len(wal) :
        (wal[i].kind \in {"plain", "commitPrepared"} /\ confirmed >= EndLsn(i))
            => wal[i].xid \in handed

(* No prepared transaction, with its locks and its hold on vacuum, is left *)
(* behind once its end has been confirmed.                                 *)
NoneLeftPrepared ==
    \A i \in 1..Len(wal) :
        (wal[i].kind \in {"commitPrepared", "rollbackPrepared"} /\ confirmed >= EndLsn(i))
            => wal[i].xid \notin gids

(* The changes of a transaction that has been prepared are not sent again, *)
(* unlike those of an ordinary one, if it was prepared after two_phase was *)
(* enabled.                                                                *)
PreparedOnce ==
    \A x \in repeated : StartLsn(PrepareOf(x)) < two_phase_at

(* A transaction that was rolled back has been sent only if it was         *)
(* prepared after two-phase decoding was enabled: its change goes to the   *)
(* producer at the prepare, and nothing takes it back.                     *)
RolledBackSentAtPrepare ==
    \A x \in handed : Has(x, {"rollbackPrepared"}) =>
        two_phase /\ StartLsn(PrepareOf(x)) >= two_phase_at

(* Every transaction that is committed in two phases is finished here, or  *)
(* handled as an ordinary one, unless a transaction that was prepared      *)
(* before two_phase_at stays prepared here: its prepare is sent with its   *)
(* COMMIT PREPARED (ReorderBufferFinishPrepared), again after a restart    *)
(* between the two, and fails then every time.                             *)
Finished(x) == x \in handed /\ x \notin gids
LeftOver == \E x \in gids : StartLsn(PrepareOf(x)) < two_phase_at
PreparedFinishes ==
    <>[]LeftOver \/ \A x \in Xid : Has(x, {"commitPrepared"}) ~> Finished(x)
=============================================================================
