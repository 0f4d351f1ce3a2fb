---------------------------- MODULE KafkaChannel ----------------------------
(***************************************************************************)
(* What the fork gets from Kafka: the promise of a librdkafka producer     *)
(* handle as this code uses it, and nothing more.                          *)
(*                                                                         *)
(* A message handed to the channel is either refused on the spot or sits   *)
(* in the producer's local queue.  From there it reaches the log of the    *)
(* partition it was assigned to (kafka.c passes RD_KAFKA_PARTITION_UA and  *)
(* no key, so any partition), or it is given up when message.timeout.ms    *)
(* runs out, or it disappears with the process.  No delivery-report        *)
(* callback is registered, so none of these outcomes is reported back.     *)
(*                                                                         *)
(* The apply worker and the table synchronization worker are written       *)
(* against this module; KafkaProducer, the translation of kafka.c, is      *)
(* shown to implement it.                                                  *)
(***************************************************************************)
EXTENDS Naturals, Sequences

CONSTANTS Message,      \* the payloads
          Partition     \* the partitions of the topic

VARIABLES queue,        \* the producer's local queue: [msg, part] in send order
          topic,        \* topic[p]: the log of partition p
          lost          \* messages that were refused, timed out or destroyed

channelVars == <<queue, topic, lost>>

Entry == [msg : Message, part : Partition]

ChannelTypeOK ==
    /\ queue \in Seq(Entry)
    /\ topic \in [Partition -> Seq(Message)]
    /\ lost \in SUBSET Message

ChannelInit ==
    /\ queue = <<>>
    /\ topic = [p \in Partition |-> <<>>]
    /\ lost = {}

Queued == {queue[i].msg : i \in 1..Len(queue)}
Delivered == UNION {{topic[p][n] : n \in 1..Len(topic[p])} : p \in Partition}

-----------------------------------------------------------------------------

(* rd_kafka_produce() takes the message and assigns it to some partition.  *)
Accept(m) ==
    /\ \E p \in Partition : queue' = Append(queue, [msg |-> m, part |-> p])
    /\ UNCHANGED <<topic, lost>>

(* The send fails: the message never enters the queue.                     *)
Refuse(m) ==
    /\ lost' = lost \cup {m}
    /\ UNCHANGED <<queue, topic>>

(* Mutant: without idempotence a retried batch is overtaken by a later     *)
(* one.                                                                    *)
AnyOfPartition(i) == i \in 1..Len(queue)

(* enable.idempotence keeps the order of the queue within a partition, and *)
(* only there.                                                             *)
FirstOfPartition(i) == \A j \in 1..(i - 1) : queue[j].part # queue[i].part

(* A queue whose i-th message has left it.                                 *)
Without(s, i) == SubSeq(s, 1, i - 1) \o SubSeq(s, i + 1, Len(s))

(* The broker stores and acknowledges the i-th message of the queue.       *)
Deliver(i) ==
    /\ FirstOfPartition(i)
    /\ topic' = [topic EXCEPT ![queue[i].part] = Append(@, queue[i].msg)]
    /\ queue' = Without(queue, i)
    /\ UNCHANGED lost

(* message.timeout.ms runs out for the i-th message of the queue.          *)
Expire(i) ==
    /\ lost' = lost \cup {queue[i].msg}
    /\ queue' = Without(queue, i)
    /\ UNCHANGED topic

(* The handle, or the process that owns it, goes away, with the queue and  *)
(* the messages S that were on their way into it.                          *)
Destroy(S) ==
    /\ lost' = lost \cup Queued \cup S
    /\ queue' = <<>>
    /\ UNCHANGED topic

ChannelNext ==
    \/ \E m \in Message : Accept(m) \/ Refuse(m)
    \/ \E i \in 1..Len(queue) : Deliver(i) \/ Expire(i)
    \/ \E S \in SUBSET Message : Destroy(S)

ChannelSpec == ChannelInit /\ [][ChannelNext]_channelVars
=============================================================================
