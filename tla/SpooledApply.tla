---------------------------- MODULE SpooledApply ----------------------------
(***************************************************************************)
(* The leader apply worker and streamed transactions it keeps in a file    *)
(* until they end (worker.c, TRANS_LEADER_SERIALIZE and                    *)
(* TRANS_LEADER_APPLY).  subxacts is the array of the file                 *)
(* <sub>-<xid>.subxacts: where in the changes file the first change of     *)
(* each subtransaction is.                                                 *)
(***************************************************************************)
EXTENDS StreamProtocol

VARIABLES stream_xid,   \* the transaction of the open block
          file,         \* file[x]: the changes file of x
          subxacts,     \* subxacts[x]: [xid, offset] in the order they were added
          replay,       \* how much of the file of the ending transaction was replayed
          produced,     \* changes handed to a producer so far
          flushed       \* transactions whose end store_flush_position() has been told

spoolVars == <<stream_xid, file, subxacts, replay, produced, flushed>>
spooledVars == <<streamVars, spoolVars>>

SpoolInit ==
    /\ stream_xid = {}
    /\ file = [x \in Xid |-> <<>>]
    /\ subxacts = [x \in Xid |-> <<>>]
    /\ replay = 0
    /\ produced = {}
    /\ flushed = {}

Gets(k) == outbox # <<>> /\ Head(outbox).kind = k

Handled == outbox' = Tail(outbox) /\ UNCHANGED publisherVars

-----------------------------------------------------------------------------

(* apply_handle_stream_start(), stream_start_internal().                   *)
SerializeStart(x) ==
    /\ Gets("first") \/ Gets("start")
    /\ Head(outbox).xid = x
    /\ stream_xid' = {x}
    /\ file' = IF Gets("first") THEN [file EXCEPT ![x] = <<>>] ELSE file
    /\ Handled
    /\ UNCHANGED <<subxacts, replay, produced, flushed>>

Known(x, s) == \E i \in 1..Len(subxacts[x]) : subxacts[x][i].xid = s

(* subxact_info_add(); s is 0 when the change is of the top level.         *)
SubxactInfoAdd(x, s) ==
    IF s = 0 \/ Known(x, s) THEN subxacts
    ELSE [subxacts EXCEPT ![x] = Append(@, [xid |-> s, offset |-> Len(file[x])])]

(* handle_streamed_transaction(), stream_write_change().                   *)
SerializeChange(x) ==
    /\ Gets("change") /\ Head(outbox).xid = x
    /\ subxacts' = SubxactInfoAdd(x, Head(outbox).sub)
    /\ file' = [file EXCEPT ![x] = Append(@, Head(outbox))]
    /\ Handled
    /\ UNCHANGED <<stream_xid, replay, produced, flushed>>

(* apply_handle_stream_stop(), stream_stop_internal().                     *)
SerializeStop(x) ==
    /\ Gets("stop") /\ Head(outbox).xid = x
    /\ stream_xid' = {}
    /\ Handled
    /\ UNCHANGED <<file, subxacts, replay, produced, flushed>>

Cut(x, i) == file' = [file EXCEPT ![x] = SubSeq(@, 1, subxacts[x][i].offset)]

ForgetFrom(x, i) == subxacts' = [subxacts EXCEPT ![x] = SubSeq(@, 1, i - 1)]

(* Mutant: the array is truncated and written, the file is not.            *)
SerializeAbortSubKeepsFile(x) ==
    /\ Gets("abortSub") /\ Head(outbox).xid = x
    /\ \/ \E i \in 1..Len(subxacts[x]) :
            subxacts[x][i].xid = Head(outbox).sub /\ ForgetFrom(x, i)
       \/ ~Known(x, Head(outbox).sub) /\ UNCHANGED subxacts
    /\ Handled
    /\ UNCHANGED <<stream_xid, file, replay, produced, flushed>>

(* stream_abort_internal() for a subtransaction: the changes file is cut   *)
(* where the subtransaction began, and the later ones are forgotten.  One  *)
(* without changes is not in the array.                                    *)
SerializeAbortSub(x) ==
    /\ Gets("abortSub") /\ Head(outbox).xid = x
    /\ \/ \E i \in 1..Len(subxacts[x]) :
            subxacts[x][i].xid = Head(outbox).sub /\ Cut(x, i) /\ ForgetFrom(x, i)
       \/ ~Known(x, Head(outbox).sub) /\ UNCHANGED <<file, subxacts>>
    /\ Handled
    /\ UNCHANGED <<stream_xid, replay, produced, flushed>>

(* stream_cleanup_files().                                                 *)
CleanupFiles(x) ==
    /\ file' = [file EXCEPT ![x] = <<>>]
    /\ subxacts' = [subxacts EXCEPT ![x] = <<>>]

SerializeAbort(x) ==
    /\ Gets("abort") /\ Head(outbox).xid = x
    /\ CleanupFiles(x)
    /\ Handled
    /\ UNCHANGED <<stream_xid, replay, produced, flushed>>

(* Mutant: the end of an aborted transaction is handled like the others.   *)
EndsOrAborts == Gets("commit") \/ Gets("prepare") \/ Gets("abort")

Ends == Gets("commit") \/ Gets("prepare")

(* STREAM COMMIT or STREAM PREPARE: apply_spooled_messages() replays the   *)
(* file,                                                                   *)
SpoolReplay(x) ==
    /\ Ends /\ Head(outbox).xid = x
    /\ replay < Len(file[x])
    /\ produced' = produced \cup {file[x][replay + 1]}
    /\ replay' = replay + 1
    /\ UNCHANGED <<streamVars, stream_xid, file, subxacts, flushed>>

(* then the local transaction ends and the files are removed.              *)
SpoolEnd(x) ==
    /\ Ends /\ Head(outbox).xid = x
    /\ replay = Len(file[x])
    /\ replay' = 0
    /\ flushed' = flushed \cup {x}
    /\ CleanupFiles(x)
    /\ Handled
    /\ UNCHANGED <<stream_xid, produced>>

(* A transaction that was not streamed.                                    *)
ApplyPlain(x) ==
    /\ Gets("plain") /\ Head(outbox).xid = x
    /\ produced' = produced \cup {Msg("change", x, 0, 1)}
    /\ flushed' = flushed \cup {x}
    /\ Handled
    /\ UNCHANGED <<stream_xid, file, subxacts, replay>>

SerializeStep(x) ==
    \/ SerializeStart(x) \/ SerializeChange(x) \/ SerializeStop(x)
    \/ SerializeAbortSub(x) \/ SerializeAbort(x) \/ SpoolReplay(x) \/ SpoolEnd(x)

(* The apply loop, with nothing to do.                                     *)
Idle == outbox = <<>> /\ UNCHANGED spooledVars

SpooledInit == StreamInit /\ SpoolInit

SpooledNext ==
    \/ StreamNext /\ UNCHANGED spoolVars
    \/ \E x \in Xid : SerializeStep(x) \/ ApplyPlain(x)
    \/ Idle

SpooledSpec == SpooledInit /\ [][SpooledNext]_spooledVars

-----------------------------------------------------------------------------
(* Properties                                                              *)

StreamTypeOK ==
    /\ phase \in [Xid -> {"new", "open", "commit", "prepare", "abort"}]
    /\ \A x \in Xid :
        /\ nest[x] # <<>> /\ \A i \in 1..Len(nest[x]) : nest[x][i] # <<>>
        /\ (\A n \in 1..Len(log[x]) : log[x][n] \in 0..subs[x]) /\ dead[x] \subseteq 1..subs[x]
        /\ \A i \in 1..Len(file[x]) : file[x][i].kind \in Kind /\ file[x][i].xid = x
        /\ \A i \in 1..Len(subxacts[x]) : subxacts[x][i].offset < Len(file[x])
    /\ block \subseteq Xid /\ stream_xid \subseteq Xid
    /\ replay \in Nat
    /\ flushed \subseteq Xid

(* Cutting the file at the offset of the first change of an aborted        *)
(* subtransaction removes its changes and those of the subtransactions     *)
(* released into it, and no other change: between two messages the file of *)
(* an open transaction holds what has not been rolled back, in order       *)
(* (stream_abort_internal, subxact_info_add).                              *)
SpoolExact ==
    \A x \in Xid : (outbox = <<>> /\ phase[x] = "open") =>
        /\ {file[x][i] : i \in 1..Len(file[x])} = Alive(x)
        /\ \A i, j \in 1..Len(file[x]) : i < j => file[x][i].n < file[x][j].n

(* Only changes of transactions that commit, or prepare, are sent, and of  *)
(* those only what was not rolled back.                                    *)
OnlyCommittedSent ==
    \A m \in produced : /\ phase[m.xid] \in {"commit", "prepare"}
                        /\ m.sub \notin dead[m.xid]

(* A transaction whose end is reported as flushed had all its changes      *)
(* handed to a producer.                                                   *)
FlushedMeansSent ==
    \A x \in flushed : Alive(x) \subseteq produced
=============================================================================
