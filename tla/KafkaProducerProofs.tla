------------------------ MODULE KafkaProducerProofs ------------------------
(***************************************************************************)
(* Proofs about KafkaProducer, for every topic, every sequence of message  *)
(* sizes and every setting of the two limits.                              *)
(***************************************************************************)
EXTENDS KafkaProducer, KafkaChannelProofs

(* A leaf is tried with SMT, then with Zenon, then with SMT again: the     *)
(* larger ones need more than the default time.                            *)
USE SMTT(30), ZenonT(30), SMTT(60)

-----------------------------------------------------------------------------
(* Type correctness                                                        *)

(* Every variable of the producer keeps its type; in particular kafka.c's  *)
(* counters stay natural numbers.                                          *)
THEOREM TypeCorrect == Spec => []TypeOK
<1> USE ProducerAssumption
<1>1. Init => TypeOK
  <2> SUFFICES ASSUME Init PROVE TypeOK
    OBVIOUS
  <2>1. <<>> \in Seq(Entry) /\ <<>> \in Seq(Message)
    BY SeqEmpty
  <2>2. ChannelTypeOK
    BY <2>1 DEF Init, ChannelInit, ChannelTypeOK
  <2>3. rk \in BOOLEAN /\ kafka_initialized \in BOOLEAN /\ warned \in BOOLEAN
    BY Zenon DEF Init
  <2> QED
    BY <2>2, <2>3 DEF Init, TypeOK, Blocked
<1>2. TypeOK /\ [Next]_vars => TypeOK'
  <2> SUFFICES ASSUME TypeOK, [Next]_vars PROVE TypeOK'
    OBVIOUS
  <2> USE DEF TypeOK
  <2>1. CASE FirstSend
    BY <2>1 DEF FirstSend, EnterSend, channelVars, counterVars, Blocked, ChannelTypeOK
  <2>2. CASE InitFails
    BY <2>2, ChannelTypes DEF ChannelNext, InitFails, handleVars, counterVars, Blocked
  <2>3. CASE Send
    BY <2>3 DEF Send, EnterSend, channelVars, handleVars, counterVars, Blocked,
                ChannelTypeOK
  <2>4. CASE ForcedFlushReturns
    <3>1. warned' \in BOOLEAN
      BY <2>4, Zenon DEF ForcedFlushReturns
    <3> QED
      BY <2>4, <3>1 DEF ForcedFlushReturns, channelVars, handleVars, Blocked, ChannelTypeOK
  <2>6. CASE ProduceError
    BY <2>6, ChannelTypes DEF ChannelNext, ProduceError, handleVars, counterVars, Blocked
  <2>7. CASE ProduceOk
    BY <2>7, ChannelTypes DEF ChannelNext, ProduceOk, handleVars, Blocked, EstimatedSize
  <2>9. CASE Exit
    <3>1. InHand \subseteq Message
      BY DEF InHand, Blocked
    <3> QED
      BY <2>9, <3>1, ChannelTypes DEF ChannelNext, Exit, handleVars, counterVars, Blocked
  <2>10. CASE CloseCopy
    BY <2>10 DEF CloseCopy, channelVars, handleVars, counterVars, Blocked, ChannelTypeOK
  <2>11. CASE CloseReturns
    <3>1. ChannelNext
      <4>1. Destroy({}) /\ {} \in SUBSET Message
        BY <2>11 DEF CloseReturns
      <4> QED
        BY <4>1 DEF ChannelNext
    <3>2. ChannelTypeOK'
      BY <3>1, ChannelTypes
    <3>3. (rk \in BOOLEAN /\ kafka_initialized \in BOOLEAN /\ warned \in BOOLEAN)'
      BY <2>11, Zenon DEF CloseReturns
    <3> QED
      BY <2>11, <3>2, <3>3 DEF CloseReturns, Blocked
  <2>12. CASE Broker
    <3>1. PICK i \in 1..Len(queue) :
              (Deliver(i) \/ Expire(i)) /\ curr_bytes' = curr_bytes - Size[queue[i].msg]
      BY <2>12, Zenon DEF Broker
    <3>2. Size[queue[i].msg] \in Nat
      BY ChannelFacts, Zenon
    <3>3. ChannelTypeOK'
      BY <3>1, ChannelTypes DEF ChannelNext
    <3>4. curr_bytes' \in Int
      BY <3>1, <3>2
    <3> QED
      BY <2>12, <3>3, <3>4, Zenon DEF Broker, callVars, handleVars, counterVars
  <2>13. CASE Restart
    <3>1. ChannelTypeOK' /\ restarts' \in 0..MaxRestarts
      BY <2>13 DEF Restart, channelVars, ChannelTypeOK
    <3>2. (rk \in BOOLEAN /\ kafka_initialized \in BOOLEAN /\ warned \in BOOLEAN)'
      BY <2>13, Zenon DEF Restart
    <3> QED
      BY <2>13, <3>1, <3>2 DEF Restart, Blocked
  <2>14. CASE UNCHANGED vars
    BY <2>14 DEF vars, channelVars, callVars, handleVars, counterVars, ChannelTypeOK
  <2> QED
    BY <2>1, <2>2, <2>3, <2>4, <2>6, <2>7, <2>9, <2>10, <2>11, <2>12, <2>13, <2>14, Zenon DEF Next, Call, SendStep, Terminate
<1> QED
  BY <1>1, <1>2, PTL DEF Spec

-----------------------------------------------------------------------------
(* The local gauge and librdkafka's                                        *)

(* A process that is gone, or has no handle, holds no messages.  Without   *)
(* it a fresh process would reset the gauge under a queue that is not      *)
(* empty.                                                                  *)
NoHandleNoQueue ==
    /\ pc \in Blocked => rk
    /\ pc = "dead" \/ ~rk => queue = <<>> /\ curr_bytes = 0

GaugeInv == NoHandleNoQueue /\ GaugeCoversQueue

LEMMA GaugeInvariant == Spec => []GaugeInv
<1> USE ProducerAssumption DEF GaugeInv
<1>1. Init => NoHandleNoQueue /\ GaugeCoversQueue
  BY SeqEmpty DEF Init, ChannelInit, NoHandleNoQueue, GaugeCoversQueue, Blocked
<1>2. TypeOK /\ TypeOK' /\ NoHandleNoQueue /\ GaugeCoversQueue /\ [Next]_vars
          => NoHandleNoQueue' /\ GaugeCoversQueue'
  <2> SUFFICES ASSUME TypeOK, TypeOK', NoHandleNoQueue, GaugeCoversQueue, [Next]_vars
               PROVE  NoHandleNoQueue' /\ GaugeCoversQueue'
    OBVIOUS
  <2> USE DEF NoHandleNoQueue, GaugeCoversQueue
  <2>0. /\ Len(queue) \in Nat /\ Len(<<>>) = 0
        /\ curr_bytes \in Int /\ local_memory_usage \in Nat
    BY SeqLength, SeqEmpty DEF TypeOK, ChannelTypeOK
  <2>1. CASE FirstSend \/ Send
    BY <2>0, <2>1 DEF FirstSend, Send, EnterSend, channelVars, handleVars, counterVars, Blocked
  <2>2. CASE InitFails
    BY <2>0, <2>2 DEF InitFails, Refuse, handleVars, counterVars, Blocked
  <2>3. CASE ForcedFlushReturns
    BY <2>0, <2>3 DEF ForcedFlushReturns, channelVars, handleVars, Blocked
  <2>4. CASE CloseCopy
    BY <2>0, <2>4 DEF CloseCopy, channelVars, handleVars, counterVars, Blocked
  <2>5. CASE ProduceError
    BY <2>0, <2>5 DEF ProduceError, Refuse, handleVars, counterVars, Blocked
  <2>6. CASE ProduceOk
    <3>1. sent \in Message /\ Size[sent] \in Nat
      BY <2>6 DEF ProduceOk, TypeOK, Blocked
    <3>2. Len(queue') = Len(queue) + 1
      BY <2>6, <3>1, SeqAppend DEF ProduceOk, Accept, TypeOK, ChannelTypeOK, Entry
    <3>3. GaugeCoversQueue'
      BY <2>0, <2>6, <3>1, <3>2, SMTT(20) DEF ProduceOk, EstimatedSize
    <3>4. NoHandleNoQueue'
      BY <2>6 DEF ProduceOk, handleVars, Blocked
    <3> QED
      BY <3>3, <3>4
  <2>7. CASE Exit
    BY <2>0, <2>7 DEF Exit, Destroy, handleVars, counterVars, Blocked
  <2>8. CASE CloseReturns
    BY <2>0, <2>8 DEF CloseReturns, Destroy, Blocked
  <2>9. CASE Broker
    <3>1. PICK i \in 1..Len(queue) :
              (Deliver(i) \/ Expire(i)) /\ curr_bytes' = curr_bytes - Size[queue[i].msg]
      BY <2>9, Zenon DEF Broker
    <3>2. Size[queue[i].msg] \in Nat
      BY ChannelFacts, Zenon DEF TypeOK
    <3>3. Len(queue') = Len(queue) - 1
      <4>1. queue \in Seq(Entry) /\ queue' = Without(queue, i)
        BY <3>1, Zenon DEF Deliver, Expire, TypeOK, ChannelTypeOK
      <4> QED
        BY <4>1, WithoutProperties
    <3>4. queue # <<>>
      BY <2>0, <3>1
    <3>5. UNCHANGED <<pc, rk, local_memory_usage>>
      BY <2>9 DEF Broker, callVars, handleVars, counterVars
    <3>6. NoHandleNoQueue'
      BY <3>4, <3>5
    <3>7. GaugeCoversQueue'
      BY <2>0, <3>1, <3>2, <3>3, <3>5, SMTT(20)
    <3> QED
      BY <3>6, <3>7
  <2>10. CASE Restart
    BY <2>0, <2>10 DEF Restart, channelVars, Blocked
  <2>11. CASE UNCHANGED vars
    BY <2>0, <2>11 DEF vars, channelVars, callVars, handleVars, counterVars
  <2> QED
    BY <2>1, <2>2, <2>3, <2>4, <2>5, <2>6, <2>7, <2>8, <2>9, <2>10, <2>11, Zenon
       DEF Next, Call, SendStep, Terminate
<1> QED
  BY <1>1, <1>2, TypeCorrect, PTL DEF Spec

(* kafka.c's estimate of the memory in use covers what librdkafka holds,   *)
(* in every state of every run.                                            *)
THEOREM GaugeCorrect == Spec => []GaugeCoversQueue
<1>1. GaugeInv => GaugeCoversQueue
  BY DEF GaugeInv
<1> QED
  BY <1>1, GaugeInvariant, PTL

-----------------------------------------------------------------------------
(* The count of messages                                                   *)

(* Until a forced flush has timed out, message_count is not below the      *)
(* number of messages librdkafka holds.                                    *)
CountCoversQueue == ~warned => message_count >= Len(queue)

LEMMA CountStep ==
    ASSUME TypeOK, TypeOK', NoHandleNoQueue, CountCoversQueue, [Next]_vars
    PROVE  CountCoversQueue'
<1>0. /\ Len(queue) \in Nat /\ Len(<<>>) = 0 /\ message_count \in Nat
      /\ message_count' \in Nat
  BY SeqLength, SeqEmpty DEF TypeOK, ChannelTypeOK
<1>1. CASE UNCHANGED <<queue, message_count, warned>>
  BY <1>1 DEF CountCoversQueue
<1>2. CASE queue' = <<>>
  BY <1>0, <1>2 DEF CountCoversQueue
<1>3. CASE Call \/ CloseCopy \/ ProduceError
  BY <1>1, <1>3
     DEF Call, FirstSend, InitFails, Send, CloseCopy, ProduceError, Refuse, channelVars,
         counterVars
<1>4. CASE ForcedFlushReturns
  <2>1. queue # <<>> => warned'
    BY <1>4, Zenon DEF ForcedFlushReturns
  <2>2. queue' = queue /\ message_count' = 0
    BY <1>4 DEF ForcedFlushReturns, channelVars
  <2> QED
    BY <1>0, <2>1, <2>2 DEF CountCoversQueue
<1>5. CASE ProduceOk
  <2>1. sent \in Message
    BY <1>5, ProducerAssumption DEF ProduceOk, TypeOK, Blocked
  <2>2. Len(queue') = Len(queue) + 1
    BY <1>5, <2>1, SeqAppend DEF ProduceOk, Accept, TypeOK, ChannelTypeOK, Entry
  <2>3. message_count' = message_count + 1 /\ warned' = warned
    BY <1>5 DEF ProduceOk
  <2> QED
    BY <1>0, <2>2, <2>3 DEF CountCoversQueue
<1>6. CASE Exit \/ CloseReturns
  BY <1>2, <1>6 DEF Exit, CloseReturns, Destroy
<1>7. CASE Broker
  <2>1. PICK i \in 1..Len(queue) : queue' = Without(queue, i)
    BY <1>7, Zenon DEF Broker, Deliver, Expire
  <2>2. Len(queue') = Len(queue) - 1
    BY <2>1, WithoutProperties DEF TypeOK, ChannelTypeOK
  <2>3. message_count' = message_count /\ warned' = warned
    BY <1>7 DEF Broker, counterVars
  <2> QED
    BY <1>0, <2>2, <2>3 DEF CountCoversQueue
<1>8. CASE Restart
  <2>1. queue' = queue /\ queue = <<>>
    BY <1>8 DEF Restart, channelVars, NoHandleNoQueue
  <2> QED
    BY <1>2, <2>1
<1>9. CASE UNCHANGED vars
  BY <1>1, <1>9 DEF vars, channelVars, counterVars
<1> QED
  BY <1>3, <1>4, <1>5, <1>6, <1>7, <1>8, <1>9, Zenon DEF Next, SendStep, Terminate

(* Until a forced flush of the handle has timed out, message_count covers  *)
(* the messages librdkafka holds: kafka_send_optimized() then flushes      *)
(* before the queue is full.  The WARNING is where it stops doing so, for  *)
(* message_count is set to 0 with messages still in the queue.             *)
THEOREM CountCorrect == Spec => []CountCoversQueue
<1>1. Init => CountCoversQueue
  BY SeqEmpty DEF Init, ChannelInit, CountCoversQueue
<1>2. GaugeInv => NoHandleNoQueue
  BY DEF GaugeInv
<1> QED
  BY <1>1, <1>2, CountStep, TypeCorrect, GaugeInvariant, PTL DEF Spec

-----------------------------------------------------------------------------
(* The order within a partition                                            *)

(* The last message the channel can know of.                               *)
LastIn == IF pc \in Blocked THEN sent - 1 ELSE sent

QueueOrder ==
    \A i, j \in 1..Len(queue) : i < j => queue[i].msg < queue[j].msg

KnownBound ==
    /\ \A i \in 1..Len(queue) : queue[i].msg <= LastIn
    /\ \A p \in Partition : \A n \in 1..Len(topic[p]) : topic[p][n] <= LastIn

TopicBeforeQueue ==
    \A i \in 1..Len(queue) : \A n \in 1..Len(topic[queue[i].part]) :
        topic[queue[i].part][n] < queue[i].msg

(* PartitionOrder alone is not inductive: a delivery appends to the log    *)
(* what the queue holds, so the queue must be in order and ahead of the    *)
(* log.                                                                    *)
OrderInv == QueueOrder /\ KnownBound /\ TopicBeforeQueue /\ PartitionOrder

(* Taking a message out of the queue leaves the rest in order.             *)
LEMMA RemovalKeepsOrder ==
    ASSUME TypeOK, OrderInv, NEW i \in 1..Len(queue), queue' = Without(queue, i)
    PROVE  /\ QueueOrder'
           /\ \A j \in 1..Len(queue') : \E k \in 1..Len(queue) : k # i /\ queue'[j] = queue[k]
<1>1. /\ Len(queue) \in Nat
      /\ Len(queue') = Len(queue) - 1
      /\ \A j \in 1..(Len(queue) - 1) : queue'[j] = IF j < i THEN queue[j] ELSE queue[j + 1]
  BY SeqLength, WithoutProperties, Zenon DEF TypeOK, ChannelTypeOK
<1>2. ASSUME NEW j \in 1..Len(queue')
      PROVE  \E k \in 1..Len(queue) : k # i /\ queue'[j] = queue[k]
  <2>1. CASE j < i
    BY <1>1, <2>1
  <2>2. CASE ~(j < i)
    BY <1>1, <2>2
  <2> QED
    BY <2>1, <2>2
<1>3. QueueOrder'
  <2> SUFFICES ASSUME NEW j \in 1..Len(queue'), NEW k \in 1..Len(queue'), j < k
               PROVE  queue'[j].msg < queue'[k].msg
    BY DEF QueueOrder
  <2> DEFINE Old(n) == IF n < i THEN n ELSE n + 1
  <2>1. /\ Old(j) \in 1..Len(queue) /\ Old(k) \in 1..Len(queue) /\ Old(j) < Old(k)
        /\ queue'[j] = queue[Old(j)] /\ queue'[k] = queue[Old(k)]
    BY <1>1
  <2> QED
    BY <2>1 DEF OrderInv, QueueOrder
<1> QED
  BY <1>2, <1>3

(* The queue and the logs stay in the order of the calls, as OrderInv says *)
(* of them.                                                                *)
LEMMA OrderInvariant == Spec => []OrderInv
<1> USE ProducerAssumption
<1>1. Init => OrderInv
  BY SeqEmpty DEF Init, ChannelInit, OrderInv, QueueOrder, KnownBound, TopicBeforeQueue,
                  PartitionOrder
<1>2. TypeOK /\ TypeOK' /\ OrderInv /\ [Next]_vars => OrderInv'
  <2> SUFFICES ASSUME TypeOK, TypeOK', OrderInv, [Next]_vars
               PROVE  OrderInv'
    OBVIOUS
  <2>0. /\ Len(queue) \in Nat /\ Len(<<>>) = 0
        /\ \A i \in 1..Len(queue) : queue[i].msg \in Nat /\ queue[i].part \in Partition
        /\ \A p \in Partition : Len(topic[p]) \in Nat
        /\ \A p \in Partition : \A n \in 1..Len(topic[p]) : topic[p][n] \in Nat
        /\ sent \in Nat
    <3>1. Message \subseteq Nat
      OBVIOUS
    <3>2. ChannelTypeOK /\ sent \in Nat
      BY DEF TypeOK
    <3>3. Len(<<>>) = 0
      BY SeqEmpty
    <3> QED
      BY <3>1, <3>2, <3>3, ChannelFacts
  <2>1. ASSUME UNCHANGED <<queue, topic>>, LastIn' >= LastIn PROVE OrderInv'
    <3>1. LastIn \in Int /\ LastIn' \in Int
      BY DEF LastIn, TypeOK
    <3> QED
      BY <2>0, <2>1, <3>1 DEF OrderInv, QueueOrder, KnownBound, TopicBeforeQueue, PartitionOrder
  <2>2. ASSUME queue' = <<>>, topic' = topic, LastIn' >= LastIn PROVE OrderInv'
    <3>1. LastIn \in Int /\ LastIn' \in Int
      BY DEF LastIn, TypeOK
    <3> QED
      BY <2>0, <2>2, <3>1 DEF OrderInv, QueueOrder, KnownBound, TopicBeforeQueue, PartitionOrder
  <2>3. CASE Call
    <3>1. UNCHANGED <<queue, topic>> /\ sent' = sent + 1 /\ pc = "idle"
      BY <2>3 DEF Call, FirstSend, InitFails, Send, EnterSend, Refuse, channelVars
    <3> QED
      BY <2>0, <2>1, <3>1 DEF LastIn, Blocked
  <2>4. CASE ForcedFlushReturns \/ CloseCopy
    <3>1. UNCHANGED <<queue, topic, sent>> /\ (pc \in Blocked <=> pc' \in Blocked)
      BY <2>4 DEF ForcedFlushReturns, CloseCopy, channelVars, Blocked
    <3> QED
      BY <2>0, <2>1, <3>1 DEF LastIn
  <2>5. CASE ProduceError
    BY <2>1, <2>5 DEF ProduceError, Refuse, LastIn, TypeOK, Blocked
  <2>6. CASE ProduceOk
    <3>1. PICK p \in Partition : queue' = Append(queue, [msg |-> sent, part |-> p])
      BY <2>6 DEF ProduceOk, Accept
    <3>2. [msg |-> sent, part |-> p] \in Entry
      BY <2>6 DEF ProduceOk, TypeOK, Blocked, Entry
    <3>3. /\ Len(queue') = Len(queue) + 1
          /\ \A i \in 1..Len(queue) : queue'[i] = queue[i]
          /\ queue'[Len(queue) + 1] = [msg |-> sent, part |-> p]
      BY <3>1, <3>2, SeqAppend DEF TypeOK, ChannelTypeOK
    <3>4. topic' = topic /\ LastIn = sent - 1 /\ LastIn' = sent
      BY <2>6 DEF ProduceOk, Accept, LastIn, Blocked
    <3>5. QueueOrder'
      <4> SUFFICES ASSUME NEW i \in 1..(Len(queue) + 1), NEW j \in 1..(Len(queue) + 1), i < j
                   PROVE  queue'[i].msg < queue'[j].msg
        BY <3>3 DEF QueueOrder
      <4>1. i \in 1..Len(queue) /\ queue'[i] = queue[i]
        BY <2>0, <3>3
      <4>2. CASE j = Len(queue) + 1
        BY <2>0, <3>3, <3>4, <4>1, <4>2 DEF OrderInv, KnownBound
      <4>3. CASE j \in 1..Len(queue)
        BY <3>3, <4>1, <4>3 DEF OrderInv, QueueOrder
      <4> QED
        BY <2>0, <4>2, <4>3
    <3>6. KnownBound'
      <4>1. ASSUME NEW i \in 1..(Len(queue) + 1) PROVE queue'[i].msg <= sent
        <5>1. CASE i = Len(queue) + 1
          BY <2>0, <3>3, <5>1
        <5>2. CASE i \in 1..Len(queue)
          BY <2>0, <3>3, <3>4, <5>2 DEF OrderInv, KnownBound
        <5> QED
          BY <2>0, <5>1, <5>2
      <4>2. ASSUME NEW q \in Partition, NEW n \in 1..Len(topic[q]) PROVE topic[q][n] <= sent
        BY <2>0, <3>4 DEF OrderInv, KnownBound
      <4> QED
        BY <3>3, <3>4, <4>1, <4>2 DEF KnownBound
    <3>7. TopicBeforeQueue'
      <4> SUFFICES ASSUME NEW i \in 1..(Len(queue) + 1),
                          NEW n \in 1..Len(topic[queue'[i].part])
                   PROVE  topic[queue'[i].part][n] < queue'[i].msg
        BY <3>3, <3>4, Zenon DEF TopicBeforeQueue
      <4>1. CASE i = Len(queue) + 1
        <5>1. queue'[i].part = p /\ queue'[i].msg = sent
          BY <3>3, <4>1
        <5> QED
          BY <2>0, <3>4, <5>1 DEF OrderInv, KnownBound
      <4>2. CASE i \in 1..Len(queue)
        BY <3>3, <4>2, Zenon DEF OrderInv, TopicBeforeQueue
      <4> QED
        BY <2>0, <4>1, <4>2
    <3>8. PartitionOrder'
      BY <3>4 DEF OrderInv, PartitionOrder
    <3> QED
      BY <3>5, <3>6, <3>7, <3>8 DEF OrderInv
  <2>7. CASE Exit \/ CloseReturns
    <3>1. queue' = <<>> /\ topic' = topic /\ sent' = sent /\ pc' \notin Blocked
      BY <2>7 DEF Exit, CloseReturns, Destroy, Blocked
    <3> QED
      BY <2>0, <2>2, <3>1 DEF LastIn
  <2>8. CASE Broker
    <3>1. PICK i \in 1..Len(queue) : Deliver(i) \/ Expire(i)
      BY <2>8 DEF Broker
    <3>2. LastIn' = LastIn
      BY <2>8 DEF Broker, callVars, LastIn
    <3>3. queue' = Without(queue, i)
      BY <3>1, Zenon DEF Deliver, Expire
    <3>4. /\ QueueOrder'
          /\ \A j \in 1..Len(queue') : \E k \in 1..Len(queue) : k # i /\ queue'[j] = queue[k]
      BY <3>3, RemovalKeepsOrder
    <3>5. CASE Expire(i)
      BY <3>2, <3>4, <3>5, Zenon
         DEF Expire, OrderInv, KnownBound, TopicBeforeQueue, PartitionOrder
    <3>6. CASE Deliver(i)
      <4> DEFINE p == queue[i].part
                 m == queue[i].msg
      <4>1. /\ p \in Partition /\ m \in Message
            /\ topic[p] \in Seq(Message) /\ Len(topic[p]) \in Nat
        BY ChannelFacts, Zenon DEF TypeOK
      <4>2. /\ Len(topic'[p]) = Len(topic[p]) + 1
            /\ \A n \in 1..Len(topic[p]) : topic'[p][n] = topic[p][n]
            /\ topic'[p][Len(topic[p]) + 1] = m
            /\ \A q \in Partition : q # p => topic'[q] = topic[q]
        <5>1. topic' = [topic EXCEPT ![p] = Append(topic[p], m)]
          BY <3>6, Zenon DEF Deliver
        <5>2. topic'[p] = Append(topic[p], m) /\ \A q \in Partition : q # p => topic'[q] = topic[q]
          BY <4>1, <5>1, Zenon DEF TypeOK, ChannelTypeOK
        <5>3. /\ Len(Append(topic[p], m)) = Len(topic[p]) + 1
              /\ \A n \in 1..Len(topic[p]) : Append(topic[p], m)[n] = topic[p][n]
              /\ Append(topic[p], m)[Len(topic[p]) + 1] = m
          <6>1. \A s \in Seq(Message), e \in Message :
                    /\ Len(Append(s, e)) = Len(s) + 1
                    /\ \A n \in 1..Len(s) : Append(s, e)[n] = s[n]
                    /\ Append(s, e)[Len(s) + 1] = e
            BY SeqAppend
          <6> HIDE DEF p, m
          <6> QED
            BY <4>1, <6>1, Zenon
        <5> QED
          <6> HIDE DEF p, m
          <6> QED
            BY <5>2, <5>3, Zenon
      <4>3. \A k \in 1..Len(queue) : k # i /\ queue[k].part = p => m < queue[k].msg
        BY <2>0, <3>6 DEF Deliver, FirstOfPartition, OrderInv, QueueOrder
      <4> HIDE DEF p, m
      <4>4. \A n \in 1..Len(topic[p]) : topic[p][n] < m
        BY Zenon DEF p, m, OrderInv, TopicBeforeQueue
      <4>5. m \in Nat /\ m <= LastIn /\ LastIn \in Int
        BY <2>0 DEF m, OrderInv, KnownBound, LastIn
      <4>6. KnownBound'
        <5>1. ASSUME NEW j \in 1..Len(queue') PROVE queue'[j].msg <= LastIn
          BY <3>4 DEF OrderInv, KnownBound
        <5>2. ASSUME NEW q \in Partition, NEW n \in 1..Len(topic'[q])
              PROVE  topic'[q][n] <= LastIn
          <6>1. CASE q = p
            <7>1. n \in 1..(Len(topic[p]) + 1)
              BY <4>2, <6>1
            <7>2. CASE n = Len(topic[p]) + 1
              BY <4>2, <4>5, <6>1, <7>2
            <7>3. CASE n \in 1..Len(topic[p])
              BY <4>1, <4>2, <6>1, <7>3, Zenon DEF OrderInv, KnownBound
            <7> QED
              BY <4>1, <7>1, <7>2, <7>3, LastOrBefore
          <6>2. CASE q # p
            BY <4>2, <6>2 DEF OrderInv, KnownBound
          <6> QED
            BY <6>1, <6>2
        <5> QED
          BY <3>2, <5>1, <5>2 DEF KnownBound
      <4>7. TopicBeforeQueue'
        <5> SUFFICES ASSUME NEW j \in 1..Len(queue'), NEW n \in 1..Len(topic'[queue'[j].part])
                     PROVE  topic'[queue'[j].part][n] < queue'[j].msg
          BY Zenon DEF TopicBeforeQueue
        <5>1. PICK k \in 1..Len(queue) : k # i /\ queue'[j] = queue[k]
          BY <3>4
        <5>2. CASE queue[k].part = p
          <6>1. m < queue[k].msg
            BY <4>3, <5>1, <5>2 DEF p, m
          <6>2. CASE n = Len(topic[p]) + 1
            BY <4>2, <5>1, <5>2, <6>1, <6>2
          <6>3. CASE n \in 1..Len(topic[p])
            BY <4>2, <5>1, <5>2, <6>3, Zenon DEF OrderInv, TopicBeforeQueue
          <6>4. n \in 1..(Len(topic[p]) + 1)
            BY <4>2, <5>1, <5>2
          <6> QED
            BY <4>1, <6>2, <6>3, <6>4, LastOrBefore, Zenon
        <5>3. CASE queue[k].part # p
          <6>1. queue[k].part \in Partition
            BY <5>1, ChannelFacts, Zenon DEF TypeOK
          <6>2. topic'[queue[k].part] = topic[queue[k].part]
            BY <4>2, <5>3, <6>1, Zenon
          <6> QED
            BY <5>1, <6>2, Zenon DEF OrderInv, TopicBeforeQueue
        <5> QED
          BY <5>2, <5>3, Zenon
      <4>8. PartitionOrder'
        <5> SUFFICES ASSUME NEW q \in Partition, NEW j \in 1..Len(topic'[q]),
                            NEW k \in 1..Len(topic'[q]), j < k
                     PROVE  topic'[q][j] < topic'[q][k]
          BY DEF PartitionOrder
        <5>1. CASE q # p
          BY <4>2, <5>1 DEF OrderInv, PartitionOrder
        <5>2. CASE q = p
          <6>1. j \in 1..Len(topic[p]) /\ topic'[q][j] = topic[p][j]
            <7>1. j \in Nat /\ k \in Nat /\ j < Len(topic[p]) + 1 /\ j >= 1
              BY <4>1, <4>2, <5>2
            <7>2. j \in 1..Len(topic[p])
              BY <4>1, <7>1
            <7> QED
              BY <4>2, <5>2, <7>2
          <6>2. CASE k = Len(topic[p]) + 1
            BY <4>2, <4>4, <5>2, <6>1, <6>2
          <6>3. CASE k \in 1..Len(topic[p])
            BY <4>1, <4>2, <5>2, <6>1, <6>3 DEF OrderInv, PartitionOrder
          <6>4. k \in 1..(Len(topic[p]) + 1)
            BY <4>2, <5>2
          <6> QED
            BY <4>1, <6>2, <6>3, <6>4, LastOrBefore, Zenon
        <5> QED
          BY <5>1, <5>2
      <4> QED
        BY <3>4, <4>6, <4>7, <4>8 DEF OrderInv
    <3> QED
      BY <3>1, <3>5, <3>6
  <2>9. CASE Restart
    BY <2>1, <2>9 DEF Restart, channelVars, LastIn, TypeOK, Blocked
  <2>10. CASE UNCHANGED vars
    BY <2>1, <2>10 DEF vars, channelVars, callVars, LastIn, TypeOK
  <2> QED
    BY <2>3, <2>4, <2>5, <2>6, <2>7, <2>8, <2>9, <2>10
       DEF Next, SendStep, Terminate
<1> QED
  BY <1>1, <1>2, TypeCorrect, PTL DEF Spec

(* Every partition's log is in the order of the calls of                   *)
(* kafka_send_optimized(), whatever was refused, expired or destroyed and  *)
(* however often the process was restarted.                                *)
THEOREM PartitionOrderCorrect == Spec => []PartitionOrder
<1>1. OrderInv => PartitionOrder
  BY DEF OrderInv
<1> QED
  BY <1>1, OrderInvariant, PTL

-----------------------------------------------------------------------------
(* Every message in one place                                              *)

(* The log of a partition is in order, so it is no longer than what was    *)
(* sent; no message is in two logs.                                        *)
OneCopy ==
    /\ \A p \in Partition : \A n \in 1..Len(topic[p]) : n <= topic[p][n]
    /\ \A p, q \in Partition : \A n \in 1..Len(topic[p]), k \in 1..Len(topic[q]) :
           topic[p][n] = topic[q][k] => p = q

(* What the channel knows of is what kafka_send_optimized() is done with,  *)
(* and the queue, the topic and the lost messages have none in common.     *)
PlacesInv ==
    /\ Fates = 1..LastIn
    /\ Queued \cap Delivered = {} /\ Queued \cap lost = {} /\ Delivered \cap lost = {}
    /\ OneCopy

(* A message leaves the queue, for one reason or another.                  *)
LEMMA LeavesQueue ==
    ASSUME TypeOK, OrderInv, NEW i \in 1..Len(queue), queue' = Without(queue, i)
    PROVE  Queued' = Queued \ {queue[i].msg}
<1> USE ProducerAssumption
<1>1. /\ queue \in Seq(Entry) /\ Len(queue) \in Nat
      /\ \A k \in 1..Len(queue) : queue[k].msg \in Nat
  BY ChannelFacts DEF TypeOK, ChannelTypeOK
<1>2. /\ Len(queue') = Len(queue) - 1
      /\ \A j \in 1..(Len(queue) - 1) : queue'[j] = IF j < i THEN queue[j] ELSE queue[j + 1]
  BY <1>1, WithoutProperties, Zenon
<1>3. \A k \in 1..Len(queue) : k # i => queue[k].msg # queue[i].msg
  <2> SUFFICES ASSUME NEW k \in 1..Len(queue), k # i PROVE queue[k].msg # queue[i].msg
    OBVIOUS
  <2>1. k < i \/ i < k
    OBVIOUS
  <2>2. queue[k].msg < queue[i].msg \/ queue[i].msg < queue[k].msg
    BY <2>1 DEF OrderInv, QueueOrder
  <2> QED
    BY <1>1, <2>2
<1>4. \A j \in 1..Len(queue') : \E k \in 1..Len(queue) : k # i /\ queue'[j] = queue[k]
  BY RemovalKeepsOrder
<1>5. \A k \in 1..Len(queue) : k # i => \E j \in 1..Len(queue') : queue'[j] = queue[k]
  <2> SUFFICES ASSUME NEW k \in 1..Len(queue), k # i
               PROVE  \E j \in 1..Len(queue') : queue'[j] = queue[k]
    OBVIOUS
  <2>1. CASE k < i
    <3>1. k \in 1..Len(queue') /\ queue'[k] = queue[k]
      BY <1>1, <1>2, <2>1
    <3> QED
      BY <3>1
  <2>2. CASE k > i
    <3>1. k - 1 \in 1..Len(queue') /\ queue'[k - 1] = queue[k]
      BY <1>1, <1>2, <2>2
    <3> QED
      BY <3>1
  <2> QED
    BY <2>1, <2>2
<1>6. ASSUME NEW v \in Queued' PROVE v \in Queued \ {queue[i].msg}
  BY <1>3, <1>4, <1>6 DEF Queued
<1>7. ASSUME NEW v \in Queued, v # queue[i].msg PROVE v \in Queued'
  BY <1>5, <1>7 DEF Queued
<1> QED
  BY <1>6, <1>7

(* A message is delivered to its partition.                                *)
LEMMA JoinsLog ==
    ASSUME ChannelTypeOK, NEW p \in Partition, NEW m \in Message,
           topic' = [topic EXCEPT ![p] = Append(@, m)]
    PROVE  /\ Len(topic'[p]) = Len(topic[p]) + 1 /\ topic'[p][Len(topic[p]) + 1] = m
           /\ \A n \in 1..Len(topic[p]) : topic'[p][n] = topic[p][n]
           /\ \A q \in Partition \ {p} : topic'[q] = topic[q]
           /\ Delivered' = Delivered \cup {m}
<1>1. topic[p] \in Seq(Message) /\ Len(topic[p]) \in Nat
  BY ChannelFacts
<1>2. topic'[p] = Append(topic[p], m) /\ \A q \in Partition \ {p} : topic'[q] = topic[q]
  BY DEF ChannelTypeOK
<1>3. /\ Len(topic'[p]) = Len(topic[p]) + 1 /\ topic'[p][Len(topic[p]) + 1] = m
      /\ \A n \in 1..Len(topic[p]) : topic'[p][n] = topic[p][n]
  BY <1>1, <1>2, SeqAppend
<1>4. \A n : n \in 1..Len(topic'[p]) <=> n \in 1..Len(topic[p]) \/ n = Len(topic[p]) + 1
  BY <1>1, <1>3
<1>5. {topic'[p][n] : n \in 1..Len(topic'[p])} = {topic[p][n] : n \in 1..Len(topic[p])} \cup {m}
  BY <1>3, <1>4, Zenon
<1>6. \A q \in Partition \ {p} :
          {topic'[q][n] : n \in 1..Len(topic'[q])} = {topic[q][n] : n \in 1..Len(topic[q])}
  BY <1>2, Zenon
<1>7. Delivered' = Delivered \cup {m}
  <2> DEFINE Log(q) == {topic[q][n] : n \in 1..Len(topic[q])}
  <2>1. Log(p)' = Log(p) \cup {m} /\ \A q \in Partition \ {p} : Log(q)' = Log(q)
    BY <1>5, <1>6
  <2>2. Delivered = UNION {Log(q) : q \in Partition} /\ Delivered' = UNION {Log(q)' : q \in Partition}
    BY DEF Delivered
  <2> HIDE DEF Log
  <2> QED
    BY <2>1, <2>2
<1> QED
  BY <1>2, <1>3, <1>7

(* A call that ends accounts for the message it held.                      *)
LEMMA PlacesStep ==
    ASSUME TypeOK, TypeOK', OrderInv, PlacesInv, [Next]_vars
    PROVE  PlacesInv'
<1> USE ProducerAssumption
<1>0. /\ sent \in Nat /\ LastIn \in Nat /\ ChannelTypeOK
      /\ \A p \in Partition : /\ Len(topic[p]) \in Nat
                              /\ \A n \in 1..Len(topic[p]) : topic[p][n] \in Nat
  <2>1. sent \in Nat /\ LastIn \in Nat /\ ChannelTypeOK
    BY DEF TypeOK, LastIn, Blocked
  <2>2. Message \subseteq Nat
    OBVIOUS
  <2> QED
    BY <2>1, <2>2, ChannelFacts
<1>1. ASSUME UNCHANGED channelVars, LastIn' = LastIn PROVE PlacesInv'
  <2>1. UNCHANGED <<Queued, Delivered, Fates>>
    BY <1>1 DEF channelVars, Queued, Delivered, Fates
  <2>2. OneCopy'
    BY <1>1, Zenon DEF channelVars, PlacesInv, OneCopy
  <2> QED
    BY <1>1, <2>1, <2>2 DEF PlacesInv, channelVars
<1>2. ASSUME queue' = queue \/ queue' = <<>>, topic' = topic,
             lost' = lost \cup (Queued \ Queued') \cup (LastIn + 1 .. LastIn'),
             LastIn' \in {LastIn, LastIn + 1}
      PROVE  PlacesInv'
  <2>1. Queued' \subseteq Queued /\ Delivered' = Delivered
    BY <1>2, SeqEmpty DEF Queued, Delivered
  <2>2. 1..LastIn' = (1..LastIn) \cup (LastIn + 1 .. LastIn')
    BY <1>0, <1>2
  <2>3. \A n \in LastIn + 1 .. LastIn' : n \notin 1..LastIn
    BY <1>0, <1>2
  <2>4. OneCopy'
    BY <1>2, Zenon DEF PlacesInv, OneCopy
  <2> QED
    BY <1>2, <2>1, <2>2, <2>3, <2>4 DEF PlacesInv, Fates
<1>3. CASE \/ FirstSend \/ Send \/ ForcedFlushReturns \/ CloseCopy \/ Restart
           \/ UNCHANGED vars
  <2>1. UNCHANGED channelVars /\ LastIn' = LastIn
    BY <1>0, <1>3 DEF FirstSend, Send, EnterSend, ForcedFlushReturns, CloseCopy,
                          Restart, vars, callVars, LastIn, Blocked
  <2> QED
    BY <1>1, <2>1
<1>4. CASE InitFails \/ ProduceError
  <2>1. Refuse(LastIn + 1) /\ LastIn' = LastIn + 1
    BY <1>0, <1>4 DEF InitFails, ProduceError, LastIn, Blocked
  <2>2. LastIn + 1 .. LastIn' = {LastIn + 1} /\ Queued' = Queued
    BY <1>0, <2>1 DEF Refuse, Queued
  <2> QED
    BY <1>2, <2>1, <2>2 DEF Refuse
<1>5. CASE ProduceOk
  <2>1. Accept(sent) /\ LastIn' = LastIn + 1 /\ sent = LastIn + 1 /\ sent \in Message
    BY <1>0, <1>5 DEF ProduceOk, LastIn, Blocked, TypeOK
  <2>2. PICK p \in Partition : queue' = Append(queue, [msg |-> sent, part |-> p])
    BY <2>1 DEF Accept
  <2>3. /\ queue \in Seq(Entry) /\ Len(queue) \in Nat /\ [msg |-> sent, part |-> p] \in Entry
    BY <1>0, <2>1, ChannelFacts DEF ChannelTypeOK, Entry
  <2>4. /\ Len(queue') = Len(queue) + 1
        /\ \A k \in 1..Len(queue) : queue'[k] = queue[k]
        /\ queue'[Len(queue) + 1] = [msg |-> sent, part |-> p]
    BY <2>2, <2>3, SeqAppend
  <2>5. Queued' = Queued \cup {sent}
    <3>1. \A n : n \in 1..Len(queue') <=> n \in 1..Len(queue) \/ n = Len(queue) + 1
      BY <2>3, <2>4
    <3>2. queue'[Len(queue) + 1].msg = sent
      BY <2>4
    <3> QED
      BY <2>4, <3>1, <3>2 DEF Queued
  <2>6. 1..LastIn' = (1..LastIn) \cup {sent} /\ sent \notin 1..LastIn
    BY <1>0, <2>1
  <2>7. topic' = topic /\ lost' = lost /\ Delivered' = Delivered
    BY <2>1 DEF Accept, Delivered
  <2>8. OneCopy'
    BY <2>7, Zenon DEF PlacesInv, OneCopy
  <2> QED
    BY <2>5, <2>6, <2>7, <2>8 DEF PlacesInv, Fates
<1>6. CASE Exit \/ CloseReturns
  <2>1. \E S \in {InHand, {}} : Destroy(S) /\ S = LastIn + 1 .. LastIn' /\ LastIn' \in {LastIn, LastIn + 1}
    <3>1. CASE Exit /\ pc \in Blocked
      BY <1>0, <3>1 DEF Exit, LastIn, InHand, Blocked
    <3>2. CASE Exit /\ pc \notin Blocked
      BY <1>0, <3>2 DEF Exit, LastIn, InHand, Blocked
    <3>3. CASE CloseReturns
      BY <1>0, <3>3 DEF CloseReturns, LastIn, Blocked
    <3> QED
      BY <1>6, <3>1, <3>2, <3>3
  <2>2. queue' = <<>> => Queued' = {}
    BY SeqEmpty DEF Queued
  <2> QED
    BY <1>2, <2>1, <2>2 DEF Destroy
<1>7. CASE Broker
  <2>1. PICK i \in 1..Len(queue) : Deliver(i) \/ Expire(i)
    BY <1>7 DEF Broker
  <2> DEFINE p == queue[i].part
             m == queue[i].msg
  <2>2. p \in Partition /\ m \in Message /\ m \in Queued /\ m \in Nat
    BY <1>0, ChannelFacts DEF Queued
  <2>3. LastIn' = LastIn /\ Queued' = Queued \ {m}
    BY <1>7, <2>1, LeavesQueue DEF Broker, callVars, LastIn, Deliver, Expire
  <2>4. CASE Expire(i)
    <3>1. topic' = topic /\ lost' = lost \cup {m} /\ Delivered' = Delivered
      BY <2>4 DEF Expire, Delivered
    <3>2. OneCopy'
      BY <3>1, Zenon DEF PlacesInv, OneCopy
    <3> HIDE DEF m
    <3> QED
      BY <2>2, <2>3, <3>1, <3>2 DEF PlacesInv, Fates
  <2>5. CASE Deliver(i)
    <3>1. topic' = [topic EXCEPT ![p] = Append(@, m)] /\ lost' = lost
      BY <2>5 DEF Deliver
    <3>2. \A n \in 1..Len(topic[p]) : topic[p][n] < m
      BY DEF OrderInv, TopicBeforeQueue
    <3>3. m \notin Delivered
      BY <2>2 DEF PlacesInv
    <3> HIDE DEF p, m
    <3>4. /\ Len(topic'[p]) = Len(topic[p]) + 1 /\ topic'[p][Len(topic[p]) + 1] = m
          /\ \A n \in 1..Len(topic[p]) : topic'[p][n] = topic[p][n]
          /\ \A q \in Partition \ {p} : topic'[q] = topic[q]
          /\ Delivered' = Delivered \cup {m}
      BY <1>0, <2>2, <3>1, JoinsLog, Zenon
    <3>5. Len(topic[p]) + 1 <= m
      <4>1. CASE Len(topic[p]) = 0
        BY <2>2, <4>1
      <4>2. CASE Len(topic[p]) > 0
        <5>1. Len(topic[p]) \in 1..Len(topic[p])
          BY <1>0, <2>2, <4>2
        <5>2. Len(topic[p]) <= topic[p][Len(topic[p])] /\ topic[p][Len(topic[p])] < m
          BY <2>2, <3>2, <5>1 DEF PlacesInv, OneCopy
        <5> QED
          BY <1>0, <2>2, <5>1, <5>2
      <4> QED
        BY <1>0, <2>2, <4>1, <4>2
    <3>6. ASSUME NEW q \in Partition, NEW n \in 1..Len(topic'[q])
          PROVE  \/ n \in 1..Len(topic[q]) /\ topic'[q][n] = topic[q][n] /\ topic[q][n] # m
                 \/ q = p /\ n = Len(topic[p]) + 1 /\ topic'[q][n] = m
      <4>1. \A k \in 1..Len(topic[q]) : topic[q][k] # m
        BY <3>3 DEF Delivered
      <4>2. CASE q = p
        <5>1. n = Len(topic[p]) + 1 \/ n \in 1..Len(topic[p])
          BY <1>0, <3>4, <4>2, LastOrBefore
        <5> QED
          BY <3>4, <4>1, <4>2, <5>1
      <4>3. CASE q # p
        BY <3>4, <4>1, <4>3
      <4> QED
        BY <4>2, <4>3
    <3>7. OneCopy'
      <4>1. ASSUME NEW q \in Partition, NEW n \in 1..Len(topic'[q]) PROVE n <= topic'[q][n]
        BY <3>5, <3>6, Zenon DEF PlacesInv, OneCopy
      <4>2. ASSUME NEW q \in Partition, NEW r \in Partition, NEW n \in 1..Len(topic'[q]),
                   NEW k \in 1..Len(topic'[r]), topic'[q][n] = topic'[r][k]
            PROVE  q = r
        BY <3>6, <4>2, Zenon DEF PlacesInv, OneCopy
      <4> QED
        BY <4>1, <4>2, Zenon DEF OneCopy
    <3> QED
      BY <2>2, <2>3, <3>1, <3>3, <3>4, <3>7 DEF PlacesInv, Fates
  <2> QED
    BY <2>1, <2>4, <2>5
<1> QED
  BY <1>3, <1>4, <1>5, <1>6, <1>7 DEF Next, Call, SendStep, Terminate

(* The place of a message, from the sets it is in or is not in.            *)
LEMMA PlaceIsUnique ==
    ASSUME TypeOK, OrderInv, PlacesInv, NEW m \in 1..sent
    PROVE  \E place : Places(m) = {place}
<1> USE ProducerAssumption
<1> DEFINE inQueue == {i \in 1..Len(queue) : queue[i].msg = m}
           inTopic == {t \in Partition \X (1..MaxSends) :
                           t[2] <= Len(topic[t[1]]) /\ topic[t[1]][t[2]] = m}
<1>0. /\ sent \in Nat /\ LastIn \in Nat /\ ChannelTypeOK
      /\ \A p \in Partition : /\ Len(topic[p]) \in Nat
                              /\ \A n \in 1..Len(topic[p]) : topic[p][n] \in 1..MaxSends
      /\ \A i \in 1..Len(queue) : queue[i].msg \in Nat
  <2>1. sent \in Nat /\ LastIn \in Nat /\ ChannelTypeOK
    BY DEF TypeOK, LastIn, Blocked
  <2>2. Message = 1..MaxSends /\ Message \subseteq Nat
    OBVIOUS
  <2> QED
    BY <2>1, <2>2, ChannelFacts
<1>1. m \in Queued <=> inQueue # {}
  BY DEF Queued
<1>2. ASSUME m \in Queued PROVE \E i : inQueue = {i}
  <2>1. PICK i \in 1..Len(queue) : queue[i].msg = m
    BY <1>2 DEF Queued
  <2>2. ASSUME NEW k \in inQueue PROVE k = i
    <3>1. k < i => queue[k].msg < queue[i].msg
      BY DEF OrderInv, QueueOrder
    <3>2. i < k => queue[i].msg < queue[k].msg
      BY DEF OrderInv, QueueOrder
    <3> QED
      BY <1>0, <2>1, <3>1, <3>2
  <2>3. inQueue = {i}
    BY <2>1, <2>2
  <2> QED
    BY <2>3, Zenon
<1>3. m \notin Delivered => inTopic = {}
  BY <1>0 DEF Delivered
<1>4. ASSUME m \in Delivered PROVE \E t : inTopic = {t}
  <2>0. PICK p \in Partition : \E k \in 1..Len(topic[p]) : topic[p][k] = m
    BY <1>4 DEF Delivered
  <2>1. PICK n \in 1..Len(topic[p]) : topic[p][n] = m
    BY <2>0
  <2>2. n \in 1..MaxSends /\ n <= Len(topic[p])
    <3>1. n <= topic[p][n] /\ topic[p][n] \in 1..MaxSends
      BY <1>0, <2>1 DEF PlacesInv, OneCopy
    <3> QED
      BY <1>0, <2>1, <3>1
  <2>3. <<p, n>> \in inTopic
    BY <2>1, <2>2
  <2>4. ASSUME NEW t \in inTopic PROVE t = <<p, n>>
    <3>1. /\ t[1] \in Partition /\ t[2] \in 1..Len(topic[t[1]]) /\ topic[t[1]][t[2]] = m
          /\ t = <<t[1], t[2]>>
      BY <1>0
    <3>2. t[1] = p
      BY <2>1, <3>1, Zenon DEF PlacesInv, OneCopy
    <3>3. t[2] < n => topic[p][t[2]] < topic[p][n]
      BY <3>1, <3>2 DEF OrderInv, PartitionOrder
    <3>4. n < t[2] => topic[p][n] < topic[p][t[2]]
      BY <3>1, <3>2 DEF OrderInv, PartitionOrder
    <3>5. t[2] = n
      BY <1>0, <2>1, <3>1, <3>2, <3>3, <3>4
    <3> QED
      BY <3>1, <3>2, <3>5
  <2>5. inTopic = {<<p, n>>}
    BY <2>3, <2>4
  <2> QED
    BY <2>5, Zenon
<1>5. Places(m) = {<<"queue", i>> : i \in inQueue} \cup {<<"topic", t>> : t \in inTopic}
                      \cup {<<"lost", x>> : x \in lost \cap {m}}
                      \cup {<<"hand", x>> : x \in InHand \cap {m}}
  BY DEF Places
<1>6. m \in InHand <=> m \notin 1..LastIn
  BY <1>0 DEF InHand, LastIn
<1>7. /\ m \in Queued \/ m \in Delivered \/ m \in lost \/ m \in InHand
      /\ m \in Queued => m \notin Delivered /\ m \notin lost /\ m \notin InHand
      /\ m \in Delivered => m \notin lost /\ m \notin InHand
      /\ m \in lost => m \notin InHand
  BY <1>6 DEF PlacesInv, Fates
<1> HIDE DEF inQueue, inTopic
<1>8. CASE m \in Queued
  <2>1. PICK i : inQueue = {i}
    BY <1>2, <1>8, Zenon
  <2>2. inTopic = {} /\ lost \cap {m} = {} /\ InHand \cap {m} = {}
    BY <1>3, <1>7, <1>8
  <2>3. Places(m) = {<<"queue", i>>}
    BY <1>5, <2>1, <2>2
  <2> QED
    BY <2>3, Zenon
<1>9. CASE m \in Delivered
  <2>1. PICK t : inTopic = {t}
    BY <1>4, <1>9, Zenon
  <2>2. inQueue = {} /\ lost \cap {m} = {} /\ InHand \cap {m} = {}
    BY <1>1, <1>7, <1>9
  <2>3. Places(m) = {<<"topic", t>>}
    BY <1>5, <2>1, <2>2
  <2> QED
    BY <2>3, Zenon
<1>10. CASE m \in lost
  <2>1. inQueue = {} /\ inTopic = {} /\ lost \cap {m} = {m} /\ InHand \cap {m} = {}
    BY <1>1, <1>3, <1>7, <1>10
  <2>2. Places(m) = {<<"lost", m>>}
    BY <1>5, <2>1
  <2> QED
    BY <2>2, Zenon
<1>11. CASE m \in InHand
  <2>1. inQueue = {} /\ inTopic = {} /\ lost \cap {m} = {} /\ InHand \cap {m} = {m}
    BY <1>1, <1>3, <1>7, <1>11
  <2>2. Places(m) = {<<"hand", m>>}
    BY <1>5, <2>1
  <2> QED
    BY <2>2, Zenon
<1> QED
  BY <1>7, <1>8, <1>9, <1>10, <1>11, Zenon

(* The facts about Cardinality.                                           *)
INSTANCE FiniteSetTheorems

(* Every message passed to kafka_send_optimized() is in one place: a full  *)
(* queue, the forced flushes, the closing of the COPY handle and the end   *)
(* of the process neither make a message disappear, other than among the   *)
(* lost ones, nor make a second copy of it.                                *)
THEOREM ExactlyOnePlaceCorrect == Spec => []ExactlyOnePlace
<1>1. Init => PlacesInv
  <2> SUFFICES ASSUME Init PROVE PlacesInv
    OBVIOUS
  <2>1. LastIn = 0 /\ queue = <<>> /\ lost = {} /\ \A p \in Partition : topic[p] = <<>>
    BY DEF Init, ChannelInit, LastIn, Blocked
  <2>2. Queued = {} /\ Delivered = {} /\ OneCopy
    BY <2>1, SeqEmpty DEF Queued, Delivered, OneCopy
  <2> QED
    BY <2>1, <2>2 DEF PlacesInv, Fates
<1>2. TypeOK /\ OrderInv /\ PlacesInv => ExactlyOnePlace
  <2> SUFFICES ASSUME TypeOK, OrderInv, PlacesInv, NEW m \in 1..sent
               PROVE  Cardinality(Places(m)) = 1
    BY DEF ExactlyOnePlace
  <2>1. PICK place : Places(m) = {place}
    BY PlaceIsUnique, Zenon
  <2> QED
    BY <2>1, FS_Singleton, Zenon
<1> QED
  BY <1>1, <1>2, PlacesStep, TypeCorrect, OrderInvariant, PTL DEF Spec

-----------------------------------------------------------------------------
(* Refinement                                                              *)

(* Whatever kafka.c does, its effect on the queue, the topic and the lost  *)
(* messages is one the channel allows; the forced flushes  *)
(* are stuttering steps.                                                   *)
THEOREM ProducerImplementsChannel == Spec => ImplementsChannel
<1> USE ProducerAssumption
<1>1. Init => ChannelInit
  BY DEF Init
<1>2. TypeOK /\ [Next]_vars => [ChannelNext]_channelVars
  <2> SUFFICES ASSUME TypeOK, [Next]_vars PROVE [ChannelNext]_channelVars
    OBVIOUS
  <2>1. CASE FirstSend \/ Send \/ ForcedFlushReturns \/ CloseCopy \/ Restart
    BY <2>1 DEF FirstSend, Send, ForcedFlushReturns, CloseCopy, Restart
  <2>2. CASE InitFails
    <3>1. sent + 1 \in Message /\ Refuse(sent + 1)
      BY <2>2 DEF InitFails, TypeOK
    <3> QED
      BY <3>1 DEF ChannelNext
  <2>3. CASE ProduceError \/ ProduceOk
    <3>1. sent \in Message /\ (Refuse(sent) \/ Accept(sent))
      BY <2>3 DEF ProduceError, ProduceOk, TypeOK, Blocked
    <3> QED
      BY <3>1 DEF ChannelNext
  <2>4. CASE Exit \/ CloseReturns
    <3>1. InHand \subseteq Message
      BY DEF InHand, Blocked, TypeOK
    <3>2. Destroy(InHand) \/ Destroy({})
      BY <2>4 DEF Exit, CloseReturns
    <3> QED
      BY <3>1, <3>2 DEF ChannelNext
  <2>5. CASE Broker
    BY <2>5 DEF Broker, ChannelNext
  <2>6. CASE UNCHANGED vars
    BY <2>6 DEF vars
  <2> QED
    BY <2>1, <2>2, <2>3, <2>4, <2>5, <2>6
       DEF Next, Call, SendStep, Terminate
<1> QED
  BY <1>1, <1>2, TypeCorrect, PTL DEF Spec, ImplementsChannel, ChannelSpec
=============================================================================
