------------------------- MODULE KafkaChannelProofs -------------------------
(***************************************************************************)
(* Facts about KafkaChannel that the proofs about the producer and about   *)
(* the pipeline share.                                                     *)
(***************************************************************************)
EXTENDS Integers, KafkaChannel, TLAPS

(* A leaf is tried with SMT, then with Zenon, then with SMT again: the     *)
(* larger ones need more than the default time.                            *)
USE SMTT(30), ZenonT(30), SMTT(60)

(* What the proofs use of sequences: their elements, their length, what    *)
(* Append, concatenation and SubSeq give, and an index that has moved.     *)
LEMMA SeqElement ==
    ASSUME NEW S, NEW s \in Seq(S), NEW i \in 1..Len(s)
    PROVE  s[i] \in S
OBVIOUS

LEMMA SeqLength ==
    ASSUME NEW S, NEW s \in Seq(S)
    PROVE  Len(s) \in Nat /\ DOMAIN s = 1..Len(s) /\ s \in [1..Len(s) -> S]
OBVIOUS

LEMMA SeqEmpty ==
    ASSUME NEW S
    PROVE  /\ <<>> \in Seq(S) /\ Len(<<>>) = 0
           /\ \A s \in Seq(S) : s # <<>> => Len(s) \in Nat \ {0}
OBVIOUS

LEMMA SeqAppend ==
    ASSUME NEW S, NEW s \in Seq(S), NEW x \in S
    PROVE  /\ Append(s, x) \in Seq(S) /\ Append(s, x) # <<>>
           /\ Len(Append(s, x)) = Len(s) + 1
           /\ Append(s, x)[Len(s) + 1] = x
           /\ \A i \in 1..Len(s) : Append(s, x)[i] = s[i]
OBVIOUS

LEMMA SeqConcat ==
    ASSUME NEW S, NEW a \in Seq(S), NEW b \in Seq(S)
    PROVE  /\ a \o b \in Seq(S) /\ Len(a \o b) = Len(a) + Len(b)
           /\ \A i \in 1..(Len(a) + Len(b)) :
                  (a \o b)[i] = IF i <= Len(a) THEN a[i] ELSE b[i - Len(a)]
OBVIOUS

LEMMA SeqSlice ==
    ASSUME NEW S, NEW s, NEW first \in Int, NEW last \in Int,
           \A i \in first..last : s[i] \in S
    PROVE  /\ SubSeq(s, first, last) \in Seq(S)
           /\ Len(SubSeq(s, first, last)) = IF first <= last THEN last - first + 1 ELSE 0
           /\ \A i \in 1..(last - first + 1) : SubSeq(s, first, last)[i] = s[first + i - 1]
OBVIOUS

LEMMA SeqDrop ==
    ASSUME NEW S, NEW s \in Seq(S), NEW n \in 0..Len(s), NEW t, t = SubSeq(s, n + 1, Len(s))
    PROVE  /\ t \in Seq(S) /\ Len(t) = Len(s) - n
           /\ \A j \in 1..Len(t) : n + j \in 1..Len(s) /\ t[j] = s[n + j]
<1>1. Len(s) \in Nat /\ \A i \in (n + 1)..Len(s) : s[i] \in S
  BY SeqLength, SeqElement
<1> QED
  BY <1>1, SeqSlice

LEMMA NotEmpty ==
    ASSUME NEW s, NEW i \in 1..Len(s)
    PROVE  s # <<>>
OBVIOUS

(* Of two indices of a sequence the smaller one is not the last.          *)
LEMMA OneBefore ==
    ASSUME NEW len \in Nat, NEW i \in 1..(len + 1), NEW j \in 1..(len + 1), i < j
    PROVE  i \in 1..len
OBVIOUS

(* An index of a sequence that has grown by one.                           *)
LEMMA LastOrBefore ==
    ASSUME NEW len \in Nat, NEW n \in 1..(len + 1)
    PROVE  n = len + 1 \/ n \in 1..len
OBVIOUS

(* Without, which Deliver and Expire use, closes the gap.                 *)
LEMMA WithoutProperties ==
    ASSUME NEW S, NEW s \in Seq(S), NEW i \in 1..Len(s)
    PROVE  /\ Without(s, i) \in Seq(S)
           /\ Len(Without(s, i)) = Len(s) - 1
           /\ \A j \in 1..(Len(s) - 1) :
                  Without(s, i)[j] = IF j < i THEN s[j] ELSE s[j + 1]
<1> DEFINE a == SubSeq(s, 1, i - 1)
           b == SubSeq(s, i + 1, Len(s))
<1>1. Len(s) \in Nat
  BY SeqLength
<1>2. a \in Seq(S) /\ Len(a) = i - 1 /\ \A j \in 1..(i - 1) : a[j] = s[j]
  BY <1>1, SeqSlice, SMTT(20)
<1>3. b \in Seq(S) /\ Len(b) = Len(s) - i /\ \A j \in 1..(Len(s) - i) : b[j] = s[i + j]
  BY <1>1, SeqSlice, SMTT(20)
<1>4. Without(s, i) = a \o b
  BY DEF Without
<1> HIDE DEF a, b
<1>5. /\ a \o b \in Seq(S)
      /\ Len(a \o b) = Len(a) + Len(b)
      /\ \A j \in 1..(Len(a) + Len(b)) :
             (a \o b)[j] = IF j <= Len(a) THEN a[j] ELSE b[j - Len(a)]
  BY <1>2, <1>3, SeqConcat, Zenon
<1>6. Len(a) + Len(b) = Len(s) - 1
  BY <1>1, <1>2, <1>3
<1>7. ASSUME NEW j \in 1..(Len(s) - 1)
      PROVE  (a \o b)[j] = IF j < i THEN s[j] ELSE s[j + 1]
  <2>1. CASE j < i
    BY <1>1, <1>2, <1>5, <1>6, <2>1
  <2>2. CASE ~(j < i)
    <3>1. j - (i - 1) \in 1..(Len(s) - i) /\ i + (j - (i - 1)) = j + 1
      BY <1>1, <2>2
    <3>2. b[j - (i - 1)] = s[j + 1]
      BY <1>3, <3>1
    <3> QED
      BY <1>1, <1>2, <1>5, <1>6, <2>2, <3>2
  <2> QED
    BY <2>1, <2>2, Zenon
<1> QED
  BY <1>4, <1>5, <1>6, <1>7

(* What the type invariant says of the members of the queue and the logs.  *)
LEMMA ChannelFacts ==
    ASSUME ChannelTypeOK
    PROVE  /\ Len(queue) \in Nat
           /\ \A i \in 1..Len(queue) : /\ queue[i] \in Entry
                                       /\ queue[i].msg \in Message
                                       /\ queue[i].part \in Partition
           /\ Queued \subseteq Message
           /\ \A p \in Partition : /\ topic[p] \in Seq(Message)
                                   /\ Len(topic[p]) \in Nat
                                   /\ \A n \in 1..Len(topic[p]) : topic[p][n] \in Message
<1>1. queue \in Seq(Entry) /\ topic \in [Partition -> Seq(Message)]
  BY DEF ChannelTypeOK
<1>2. \A i \in 1..Len(queue) : queue[i] \in Entry
  BY <1>1, SeqElement
<1>3. \A i \in 1..Len(queue) : queue[i].msg \in Message /\ queue[i].part \in Partition
  BY <1>2 DEF Entry
<1>4. Queued \subseteq Message
  BY <1>3 DEF Queued
<1>5. ASSUME NEW p \in Partition
      PROVE  /\ topic[p] \in Seq(Message) /\ Len(topic[p]) \in Nat
             /\ \A n \in 1..Len(topic[p]) : topic[p][n] \in Message
  <2>1. topic[p] \in Seq(Message)
    BY <1>1
  <2> QED
    BY <2>1, SeqLength, SeqElement
<1> QED
  BY <1>1, <1>2, <1>3, <1>4, <1>5, SeqLength

(* The channel's operations keep the type of its state.                    *)
LEMMA ChannelTypes ==
    ASSUME ChannelTypeOK, ChannelNext
    PROVE  ChannelTypeOK'
<1> USE DEF ChannelTypeOK, Entry
<1>1. ASSUME NEW m \in Message, Accept(m) PROVE ChannelTypeOK'
  BY <1>1, SeqAppend DEF Accept
<1>2. ASSUME NEW m \in Message, Refuse(m) PROVE ChannelTypeOK'
  BY <1>2 DEF Refuse
<1>3. ASSUME NEW i \in 1..Len(queue), Deliver(i) \/ Expire(i) PROVE ChannelTypeOK'
  <2>1. Without(queue, i) \in Seq(Entry)
    BY WithoutProperties
  <2>2. queue[i] \in Entry
    BY SeqElement, Zenon
  <2>3. CASE Deliver(i)
    <3>1. Append(topic[queue[i].part], queue[i].msg) \in Seq(Message)
      BY <2>2, SeqAppend
    <3> QED
      BY <2>1, <2>2, <2>3, <3>1 DEF Deliver
  <2>4. CASE Expire(i)
    BY <2>1, <2>2, <2>4 DEF Expire
  <2> QED
    BY <1>3, <2>3, <2>4
<1>4. ASSUME NEW S \in SUBSET Message, Destroy(S) PROVE ChannelTypeOK'
  <2>1. Queued \subseteq Message
    BY ChannelFacts
  <2> QED
    BY <1>4, <2>1 DEF Destroy
<1> QED
  BY <1>1, <1>2, <1>3, <1>4, Zenon DEF ChannelNext

(* The messages whose fate is known.                                       *)
Fates == Delivered \cup Queued \cup lost

(* A message that is taken is in the queue, and nothing leaves it.         *)
LEMMA Accepts ==
    ASSUME ChannelTypeOK, NEW m \in Message, Accept(m)
    PROVE  Queued \subseteq Queued' /\ m \in Queued'
<1>0. queue \in Seq(Entry) /\ Len(queue) \in Nat
  BY ChannelFacts DEF ChannelTypeOK
<1>1. PICK p \in Partition : queue' = Append(queue, [msg |-> m, part |-> p])
  BY DEF Accept
<1>2. [msg |-> m, part |-> p] \in Entry
  BY DEF Entry
<1>3. /\ Len(queue') = Len(queue) + 1
      /\ queue'[Len(queue) + 1] = [msg |-> m, part |-> p]
      /\ \A j \in 1..Len(queue) : queue'[j] = queue[j]
  BY <1>0, <1>1, <1>2, SeqAppend
<1>4. /\ Len(queue) + 1 \in 1..Len(queue')
      /\ \A j \in 1..Len(queue) : j \in 1..Len(queue')
  BY <1>0, <1>3
<1> QED
  BY <1>3, <1>4 DEF Queued

(* A message that leaves the queue is the only one that does.              *)
LEMMA Leaves ==
    ASSUME ChannelTypeOK, NEW i \in 1..Len(queue), queue' = Without(queue, i)
    PROVE  Queued \subseteq Queued' \cup {queue[i].msg}
<1>0. /\ queue \in Seq(Entry) /\ Len(queue) \in Nat
      /\ topic \in [Partition -> Seq(Message)]
  BY ChannelFacts DEF ChannelTypeOK
<1>1. /\ Len(queue') = Len(queue) - 1
      /\ \A j \in 1..(Len(queue) - 1) :
             queue'[j] = IF j < i THEN queue[j] ELSE queue[j + 1]
  BY <1>0, WithoutProperties, Zenon
<1>2. ASSUME NEW j \in 1..Len(queue), j # i
      PROVE  queue[j].msg \in Queued'
  <2>1. CASE j < i
    <3>1. j \in 1..Len(queue') /\ queue'[j] = queue[j]
      BY <1>0, <1>1, <2>1
    <3> QED
      BY <3>1 DEF Queued
  <2>2. CASE j > i
    <3>1. j - 1 \in 1..Len(queue') /\ queue'[j - 1] = queue[j]
      BY <1>0, <1>1, <2>2
    <3> QED
      BY <3>1 DEF Queued
  <2> QED
    BY <1>0, <1>2, <2>1, <2>2
<1> QED
  BY <1>2 DEF Queued

(* A message that is stored goes from the queue to the topic, and nothing  *)
(* else leaves either.                                                     *)
LEMMA Delivers ==
    ASSUME ChannelTypeOK, NEW i \in 1..Len(queue), Deliver(i)
    PROVE  Delivered \subseteq Delivered' /\ Queued \cup Delivered \subseteq Queued' \cup Delivered'
<1>0. /\ queue \in Seq(Entry) /\ Len(queue) \in Nat
      /\ topic \in [Partition -> Seq(Message)]
  BY ChannelFacts DEF ChannelTypeOK
<1> DEFINE q == queue[i].part
           m == queue[i].msg
<1>1. q \in Partition /\ m \in Message /\ topic[q] \in Seq(Message) /\ Len(topic[q]) \in Nat
  BY ChannelFacts
<1>2. /\ topic' = [topic EXCEPT ![q] = Append(@, m)]
      /\ queue' = Without(queue, i) /\ lost' = lost
  BY DEF Deliver
<1>3. Queued \subseteq Queued' \cup {m}
  BY <1>2, Leaves
<1> HIDE DEF q, m
<1>4. topic'[q] = Append(topic[q], m) /\ \A p \in Partition \ {q} : topic'[p] = topic[p]
  BY <1>0, <1>1, <1>2
<1>5. /\ Len(topic'[q]) = Len(topic[q]) + 1
      /\ topic'[q][Len(topic[q]) + 1] = m
      /\ \A n \in 1..Len(topic[q]) : topic'[q][n] = topic[q][n]
  BY <1>1, <1>4, SeqAppend
<1>6. m \in Delivered'
  <2>1. Len(topic[q]) + 1 \in 1..Len(topic'[q])
    BY <1>1, <1>5
  <2> QED
    BY <1>1, <1>5, <2>1 DEF Delivered
<1>7. ASSUME NEW p \in Partition, NEW n \in 1..Len(topic[p])
      PROVE  n \in 1..Len(topic'[p]) /\ topic'[p][n] = topic[p][n]
  <2>1. CASE p = q
    BY <1>1, <1>5, <2>1
  <2>2. CASE p # q
    BY <1>4, <2>2
  <2> QED
    BY <2>1, <2>2
<1>8. Delivered \subseteq Delivered'
  BY <1>7 DEF Delivered
<1> QED
  BY <1>3, <1>6, <1>8

(* No operation of the channel forgets a message.                          *)
LEMMA FatesGrow ==
    ASSUME ChannelTypeOK, [ChannelNext]_channelVars
    PROVE  Fates \subseteq Fates'
<1>1. ASSUME NEW m \in Message, Accept(m) PROVE Fates \subseteq Fates'
  BY <1>1, Accepts DEF Accept, Fates, Delivered
<1>2. ASSUME NEW m \in Message, Refuse(m) PROVE Fates \subseteq Fates'
  BY <1>2 DEF Refuse, Fates, Delivered, Queued
<1>3. ASSUME NEW i \in 1..Len(queue), Deliver(i) PROVE Fates \subseteq Fates'
  BY <1>3, Delivers DEF Deliver, Fates
<1>4. ASSUME NEW i \in 1..Len(queue), Expire(i) PROVE Fates \subseteq Fates'
  BY <1>4, Leaves DEF Expire, Fates, Delivered
<1>5. ASSUME NEW S \in SUBSET Message, Destroy(S) PROVE Fates \subseteq Fates'
  BY <1>5 DEF Destroy, Fates, Delivered
<1>6. CASE UNCHANGED channelVars
  BY <1>6 DEF channelVars, Fates, Delivered, Queued
<1> QED
  BY <1>1, <1>2, <1>3, <1>4, <1>5, <1>6 DEF ChannelNext
=============================================================================
