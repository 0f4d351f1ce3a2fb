---------------------------- MODULE SyncPipeline ----------------------------
(***************************************************************************)
(* The initial synchronization of the tables down to the Kafka topic: the  *)
(* leader and the synchronization workers of TableSync, each with a        *)
(* producer of its own, over one topic.  A synchronization worker has two  *)
(* handles, one after the other: the COPY handle, which kafka_close_copy() *)
(* flushes and destroys, and the handle of the changes it catches up with, *)
(* which ends with the process.                                            *)
(***************************************************************************)
EXTENDS TableSync

CONSTANTS Leader,       \* the leader, as a process with a producer
          Partition,    \* the partitions of the topic
          Reliable,     \* whether the broker may be trusted to take everything
          MaxMessages   \* bound: the messages queued and stored

ASSUME SyncPipelineAssumption ==
    /\ Leader \notin Table
    /\ Partition # {}
    /\ Reliable \subseteq BOOLEAN
    /\ MaxMessages \in Nat

VARIABLES queue,        \* queue[p]: the queue of the producer of process p
          topic, lost,
          reliable,     \* no message is refused or expires, and no flush times out
          late          \* history: a worker was done with messages in its queue

pipeVars == <<queue, topic, lost, reliable, late>>
syncPipelineVars == <<vars, pipeVars>>

(* The leader, and the worker of each table.                               *)
Process == Table \cup {Leader}

(* KafkaChannel, for the producer of p; the topic is that of all of them.  *)
Producer(p) == INSTANCE KafkaChannel WITH queue <- queue[p]

SyncPipelineInit ==
    /\ Init
    /\ queue = [p \in Process |-> <<>>]
    /\ topic = [k \in Partition |-> <<>>]
    /\ lost = {}
    /\ reliable \in Reliable
    /\ late = FALSE

-----------------------------------------------------------------------------
(* The steps of KafkaChannel, for one of several producers                 *)

Accept(p, m) ==
    /\ \E k \in Partition :
          queue' = [queue EXCEPT ![p] = Append(@, [msg |-> m, part |-> k])]
    /\ UNCHANGED <<topic, lost>>

Refuse(p, m) ==
    /\ lost' = lost \cup {m}
    /\ UNCHANGED <<queue, topic>>

Deliver(p, i) ==
    /\ Producer(p)!FirstOfPartition(i)
    /\ topic' = [topic EXCEPT ![queue[p][i].part] = Append(@, queue[p][i].msg)]
    /\ queue' = [queue EXCEPT ![p] = Producer(p)!Without(@, i)]
    /\ UNCHANGED lost

Expire(p, i) ==
    /\ lost' = lost \cup {queue[p][i].msg}
    /\ queue' = [queue EXCEPT ![p] = Producer(p)!Without(@, i)]
    /\ UNCHANGED topic

(* The handles of the processes P go away with their queues.               *)
Destroy(P) ==
    /\ lost' = lost \cup UNION {Producer(p)!Queued : p \in P}
    /\ queue' = [p \in Process |-> IF p \in P THEN <<>> ELSE queue[p]]
    /\ UNCHANGED topic

-----------------------------------------------------------------------------

Held == UNION {{p} \X (1..Len(queue[p])) : p \in Process}

(* A server that crashes again and again sends the same changes again and  *)
(* again; the bound stops it.                                              *)
Room == \A k \in Partition : Cardinality(Held) + Len(topic[k]) < MaxMessages

(* Mutant: a row or a change may be dropped before rd_kafka_produce().     *)
ProducesSilently(p, m) ==
    /\ Room
    /\ Accept(p, m) \/ UNCHANGED <<queue, topic, lost>>
    /\ UNCHANGED <<reliable, late>>

(* A call of kafka_send_optimized() returns whether the producer took the  *)
(* message or dropped it.                                                  *)
Produces(p, m) ==
    /\ Room
    /\ Accept(p, m) \/ (~reliable /\ Refuse(p, m))
    /\ UNCHANGED <<reliable, late>>

ProduceRow(t) == \E m \in sync[t].todo : CopyOne(t, m) /\ Produces(t, m)
ProduceCatchup(t) == SyncApply(t) /\ Produces(t, ChangeOf(wal, sync[t].pos + 1))
ProduceChange == LeaderApply /\ Produces(Leader, ChangeOf(wal, lpos + 1))

(* Mutant: the COPY handle is destroyed without a flush.                   *)
CloseUnflushed(t) ==
    /\ CloseCopy(t)
    /\ Destroy({t})
    /\ UNCHANGED <<reliable, late>>

(* rd_kafka_flush(rk, 5000), then the handle is destroyed.                 *)
CloseFlushed(t) ==
    /\ CloseCopy(t)
    /\ queue[t] = <<>> \/ ~reliable
    /\ Destroy({t})
    /\ UNCHANGED <<reliable, late>>

(* SYNCDONE is committed whatever is left in the queue: nothing between    *)
(* the last change of the catch-up and the end of the process flushes it.  *)
CommitDone(t) ==
    /\ CommitSyncDone(t)
    /\ late' = (late \/ queue[t] # <<>>)
    /\ UNCHANGED <<queue, topic, lost, reliable>>

(* No way out of a process flushes its producer.                           *)
SyncEnds(t) ==
    /\ SyncError(t) \/ FinishSync(t) \/ SyncNothingToDo(t) \/ CreateSlotFails(t)
    /\ Destroy({t})
    /\ UNCHANGED <<reliable, late>>

LeaderEnds == LeaderExit /\ Destroy({Leader}) /\ UNCHANGED <<reliable, late>>

ServerEnds ==
    /\ ServerCrash \/ \E t \in Table : CopyNullRow(t) \/ CloseCopyCrash(t)
    /\ Destroy(Process)
    /\ UNCHANGED <<reliable, late>>

(* The steps that do not touch a producer.                                 *)
QuietStep ==
    /\ \/ PublisherCommit \/ WalWriter
       \/ StartLeader \/ LeaderKeepalive \/ LeaderRound \/ LeaderWaitEnds \/ ScanEnds
       \/ \E t \in Table :
            \/ SyncBegin(t) \/ CreateSlot(t) \/ CopyBinaryRow(t) \/ FinishCopy(t)
            \/ SyncResume(t) \/ RelInvalidated(t) \/ SyncKeepalive(t) \/ SyncRound(t)
            \/ DropSyncSlot(t)
            \/ ScanReady(t) \/ ScanBehind(t) \/ ScanWorker(t) \/ ScanCatchup(t)
            \/ LaunchSync(t) \/ LaunchLater(t)
    /\ UNCHANGED pipeVars

(* librdkafka's threads.                                                   *)
Broker ==
    /\ \E p \in Process : \E i \in 1..Len(queue[p]) :
          Deliver(p, i) \/ (~reliable /\ Expire(p, i))
    /\ UNCHANGED <<reliable, late, vars>>

SyncPipelineNext ==
    \/ ProduceChange \/ LeaderEnds \/ ServerEnds \/ QuietStep \/ Broker
    \/ \E t \in Table : \/ ProduceRow(t) \/ ProduceCatchup(t) \/ CloseFlushed(t)
                        \/ CommitDone(t) \/ SyncEnds(t)

SyncPipelineSpec == SyncPipelineInit /\ [][SyncPipelineNext]_syncPipelineVars

-----------------------------------------------------------------------------
(* Properties                                                              *)

OnItsWay == UNION {Producer(p)!Queued : p \in Process}
Delivered == UNION {{topic[k][n] : n \in 1..Len(topic[k])} : k \in Partition}

(* Every message a process sent is in the topic, in the queue of a process *)
(* that lives, or lost in one of the ways KafkaChannel names, whichever of *)
(* them goes away.                                                         *)
SentHasFate == Sent \subseteq Delivered \cup OnItsWay \cup lost

(* If the broker takes everything, and the copy is not a binary one, a     *)
(* worker that has begun to catch up has its whole copy in the topic:      *)
(* kafka_close_copy() stands between the last row and the first change, so *)
(* no change of a row that the worker sends is overtaken by the row's      *)
(* copy.                                                                   *)
CopyBeforeCatchup ==
    reliable /\ ~binary =>
        \A t \in Table : SyncPc(t) \in {"stream", "done", "dropped", "committed"}
                            => Snapshot(wal, t, from[t]) \subseteq Delivered

(* Partition k says of row r what the publisher does.                      *)
LastSays(k, r) ==
    LET about == {n \in 1..Len(topic[k]) : topic[k][n][1] = r}
        final == Version(wal, r, Len(wal))
    IN  IF about = {} THEN ~Exists(wal, r, final)
        ELSE \E n \in about : (\A j \in about : j <= n) /\ topic[k][n][2] = final

(* If no process fails, the broker takes everything, the topic has one     *)
(* partition and no worker set SYNCDONE (process_syncing_tables_for_sync)  *)
(* with a change in its queue, then once the leader has caught up, no      *)
(* worker runs and the queues are empty, the last message about a row of a *)
(* table that is SYNCDONE or READY is the row as the publisher has it,     *)
(* although the leader and every worker send the changes.  A worker that   *)
(* was late is overtaken by the leader, which goes on when SYNCDONE is     *)
(* committed: its old change may come last, or be lost in                  *)
(* finish_sync_worker().                                                   *)
TopicConverges ==
    (/\ reliable /\ ~binary /\ ~late /\ \A e \in Event : used[e] = 0
     /\ \A j, k \in Partition : j = k
     /\ up /\ lpos = Len(wal) /\ OnItsWay = {} /\ Running = {})
        => \A k \in Partition, r \in Row :
                Now[TableOf[r]].state \in {"s", "r"} => LastSays(k, r)
=============================================================================
