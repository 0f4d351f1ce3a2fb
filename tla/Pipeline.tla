------------------------------ MODULE Pipeline ------------------------------
(***************************************************************************)
(* From the publisher's WAL to the Kafka topic: the leader apply worker    *)
(* composed with the channel its producer gives it.  Every step is a step  *)
(* of the worker, a step of the channel, or the two together where         *)
(* INSERT_TO_JSON(), UPDATE_TO_JSON() and DELETE_TO_JSON() call            *)
(* kafka_send_optimized() and where the end of the process ends the        *)
(* producer.  A message is named by the transaction and the change it      *)
(* carries.                                                                *)
(***************************************************************************)
EXTENDS FiniteSets, ApplyWorker, KafkaChannel

ASSUME PipelineAssumption ==
    /\ \A w \in Workloads : \A i \in 1..Len(w) : \A k \in 1..Len(w[i]) : <<i, k>> \in Message
    /\ Message \subseteq Nat \X Nat
    /\ Partition # {}

pipelineVars == <<vars, channelVars>>

PipelineTypeOK == TypeOK /\ ChannelTypeOK

PipelineInit == Init /\ ChannelInit

-----------------------------------------------------------------------------

(* Mutant: a message may be dropped before it reaches rd_kafka_produce().  *)
ProduceChangeSilently ==
    /\ ApplyDml
    /\ Accept(<<next, pos>>) \/ UNCHANGED channelVars

(* The handler's call returns whether the producer took the message or     *)
(* logged "Produce failed" and dropped it.                                 *)
ProduceChange ==
    /\ ApplyDml
    /\ Accept(<<next, pos>>) \/ Refuse(<<next, pos>>)

(* The worker's steps that do not touch the producer.                      *)
OtherWorkerStep ==
    /\ \/ StartWorker \/ PublisherCrash
       \/ ReceiveBegin \/ SkipChange \/ ApplyTruncate \/ ReceiveCommit
       \/ ReceiveKeepalive \/ EndOfRound \/ ConfirmReceived \/ SaveSlot
       \/ WalWriter \/ AlterSkip \/ Enable
    /\ UNCHANGED channelVars

(* The change the worker is at, which is in the producer's hands if an     *)
(* ERROR comes from kafka_init() or kafka_send_optimized().                *)
AtHand == {<<next, pos>>} \cap Message

(* The ways a process ends.  None of them flushes the producer.            *)
WorkerEnds ==
    \/ WorkerExit /\ Destroy({})
    \/ ConnectionLost /\ Destroy({})
    \/ ServerCrash /\ Destroy({})
    \/ ApplyError /\ \E S \in SUBSET AtHand : Destroy(S)

(* librdkafka's threads.                                                   *)
Broker ==
    /\ \E i \in 1..Len(queue) : Deliver(i) \/ Expire(i)
    /\ UNCHANGED vars

PipelineNext == ProduceChange \/ OtherWorkerStep \/ WorkerEnds \/ Broker

PipelineSpec == PipelineInit /\ [][PipelineNext]_pipelineVars

-----------------------------------------------------------------------------
(* Properties                                                              *)

(* The channel knows the fate of every change of a transaction that will   *)
(* not be sent again: it is in the topic, on its way there, or lost in one *)
(* of the ways KafkaChannel lists.  No change is dropped silently between  *)
(* the walsender and rd_kafka_produce().                                   *)
FateKnown ==
    \A i \in Txns \ skipped : CommitLsn(i) < Later(confirmed, Now.origin) =>
        \A k \in Dml(i) : <<i, k>> \in Delivered \cup Queued \cup lost

(* Where a partition's log goes back to an earlier change.                 *)
Before(m, n) == m[1] < n[1] \/ (m[1] = n[1] /\ m[2] < n[2])
Rewinds(log) == {n \in 1..(Len(log) - 1) : ~Before(log[n], log[n + 1])}

(* The log of a partition is in commit order except where a worker was     *)
(* restarted: it goes back at most once per fault that ends a worker.  In  *)
(* particular a single process never sends a change twice.                 *)
RewindsAreRestarts ==
    \A p \in Partition :
        Cardinality(Rewinds(topic[p]))
            <= used["exit"] + used["error"] + used["serverCrash"] + used["publisherCrash"]

(* README_EN.md: the fork "receives logical WAL logs, decodes them into    *)
(* JSON format, and delivers them to Kafka", and slot tracking "works      *)
(* normally".  Then a transaction the slot is confirmed past is in the     *)
(* topic, or at least still on its way.                                    *)
AckedIsDelivered ==
    \A i \in Txns \ skipped : CommitLsn(i) < confirmed =>
        \A k \in Dml(i) : <<i, k>> \in Delivered \cup Queued

=============================================================================
