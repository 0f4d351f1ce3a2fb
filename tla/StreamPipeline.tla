--------------------------- MODULE StreamPipeline ---------------------------
(***************************************************************************)
(* Streamed transactions down to the Kafka topic: the leader and one       *)
(* parallel apply worker of ParallelApply, each process with the producer  *)
(* it opened for itself, over one topic.                                   *)
(***************************************************************************)
EXTENDS ParallelApply

CONSTANT Partition      \* the partitions of the topic

(* One parallel apply worker, so that wqueue is its queue.                 *)
ASSUME StreamPipelineAssumption ==
    /\ Partition # {}
    /\ Cardinality(Worker) = 1

VARIABLES lqueue,       \* the queue of the leader's producer
          wqueue,       \* the queue of the worker's
          topic, lost

pipeVars == <<lqueue, wqueue, topic, lost>>
streamPipelineVars == <<parallelVars, pipeVars>>

Change == [kind : {"change"}, xid : Xid, sub : Nat, n : Nat]

LeaderChannel == INSTANCE KafkaChannel WITH queue <- lqueue, Message <- Change
WorkerChannel == INSTANCE KafkaChannel WITH queue <- wqueue, Message <- Change

StreamPipelineInit ==
    /\ ParallelInit
    /\ LeaderChannel!ChannelInit /\ WorkerChannel!ChannelInit

-----------------------------------------------------------------------------

(* kafka_send_optimized() returns whether the producer took the message or *)
(* dropped it.                                                             *)
LeaderProduces(m) ==
    /\ LeaderChannel!Accept(m) \/ LeaderChannel!Refuse(m)
    /\ UNCHANGED wqueue

(* Mutant: the worker may drop a change before rd_kafka_produce().         *)
WorkerProducesSilently(m) ==
    /\ WorkerChannel!Accept(m) \/ UNCHANGED <<wqueue, topic, lost>>
    /\ UNCHANGED lqueue

WorkerProduces(m) ==
    /\ WorkerChannel!Accept(m) \/ WorkerChannel!Refuse(m)
    /\ UNCHANGED lqueue

(* A step that sends a change is the one produced grows by.                *)
LeaderTurn ==
    /\ LeaderAlone
    /\ IF produced' = produced THEN UNCHANGED pipeVars
       ELSE \E m \in produced' \ produced : LeaderProduces(m)

WorkerTurn(w) ==
    /\ WorkerStep(w)
    /\ IF produced' = produced THEN UNCHANGED pipeVars
       ELSE \E m \in produced' \ produced : WorkerProduces(m)

(* No way out of a process flushes its producer.                           *)
WorkerEnds(w) ==
    /\ StopWorker(w) \/ WorkerError(w)
    /\ WorkerChannel!Destroy({})
    /\ UNCHANGED lqueue

SessionEnds ==
    /\ LeaderFails
    /\ lost' = lost \cup LeaderChannel!Queued \cup WorkerChannel!Queued
    /\ lqueue' = <<>> /\ wqueue' = <<>>
    /\ UNCHANGED topic

(* The leader's other steps do not touch a producer.                       *)
LeaderQuiet(w) ==
    /\ \/ AllocateWorker(w) \/ SendData(w) \/ SendTimeout(w)
       \/ UnlockStream(w) \/ LockStream(w) \/ CountBlock(w)
       \/ WriteChange(w) \/ SerializeDone(w)
       \/ WaitStarted(w) \/ WaitFinished(w) \/ KeepWorker(w)
    /\ UNCHANGED pipeVars

PublisherTurn ==
    /\ Publisher
    /\ UNCHANGED pipeVars

(* librdkafka's threads.                                                   *)
Broker ==
    /\ \/ /\ \E i \in 1..Len(lqueue) :
               LeaderChannel!Deliver(i) \/ LeaderChannel!Expire(i)
          /\ UNCHANGED wqueue
       \/ /\ \E i \in 1..Len(wqueue) :
               WorkerChannel!Deliver(i) \/ WorkerChannel!Expire(i)
          /\ UNCHANGED lqueue
    /\ UNCHANGED parallelVars

StreamPipelineNext ==
    \/ PublisherTurn \/ LeaderTurn \/ SessionEnds \/ Broker
    \/ \E w \in Worker : LeaderQuiet(w) \/ WorkerTurn(w) \/ WorkerEnds(w)
    \/ Rest /\ UNCHANGED streamPipelineVars

StreamPipelineSpec == StreamPipelineInit /\ [][StreamPipelineNext]_streamPipelineVars

-----------------------------------------------------------------------------
(* Properties                                                              *)

OnItsWay == LeaderChannel!Queued \cup WorkerChannel!Queued
Delivered == LeaderChannel!Delivered

(* The changes of one transaction are in a partition in the order they     *)
(* were made, although they went through the shared memory queue, or the   *)
(* file, or both, and whatever the broker refuses or drops: a transaction  *)
(* has one producer.                                                       *)
ChangesInOrder ==
    \A p \in Partition : \A i, j \in 1..Len(topic[p]) :
        (i < j /\ topic[p][i].xid = topic[p][j].xid) => topic[p][i].n <= topic[p][j].n

(* What is reported as flushed is in the topic, on its way, or lost in one *)
(* of the ways KafkaChannel names: store_flush_position() is called after  *)
(* the last change has been given to a producer, the worker's or the       *)
(* leader's, and no change goes missing between the two.                   *)
FlushedHasFate ==
    \A x \in flushed : Alive(x) \subseteq Delivered \cup OnItsWay \cup lost
=============================================================================
