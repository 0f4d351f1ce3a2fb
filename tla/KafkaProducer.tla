--------------------------- MODULE KafkaProducer ---------------------------
(***************************************************************************)
(* The producer side of one worker process: kafka.c, and the lazy          *)
(* initialization its callers do (check_kafka_init in worker.c,            *)
(* COPY_TO_JSON in copyfromparse.c).                                       *)
(*                                                                         *)
(* A process has two handles, copy_g_rk for COPY rows and apply_g_rk for   *)
(* replicated changes, each with an "initialized" flag of its own, but one *)
(* pair of static counters in kafka.c.  The handles are never open         *)
(* together: a table synchronization worker closes the first               *)
(* (kafka_close_copy) before it can open the second, and the leader only   *)
(* ever opens the second.  So one handle is modelled, and "phase" says     *)
(* which one it is.                                                        *)
(*                                                                         *)
(* A call of kafka_send_optimized() is not atomic: it blocks in            *)
(* rd_kafka_flush() while librdkafka's threads deliver and expire          *)
(* messages.  pc is the place the process is blocked at.                   *)
(*                                                                         *)
(* rd_kafka_produce() returns 0 or -1 and leaves the reason in             *)
(* rd_kafka_last_error().  kafka_send_optimized() compares what it returns *)
(* with RD_KAFKA_RESP_ERR__QUEUE_FULL, which is neither, so its loop over  *)
(* a full queue is never entered and is not in this module: a full queue   *)
(* is an error like any other.                                             *)
(***************************************************************************)
EXTENDS Integers, FiniteSets, KafkaChannel

CONSTANTS MaxSends,     \* bound: the number of messages sent
          Size,         \* Size[m]: strlen(msg)
          MaxMessages,  \* kafka_queue_buffering_max_messages
          MaxKbytes,    \* kafka_queue_buffering_max_kbytes
          MaxRestarts   \* bound: the number of times the process is restarted

ASSUME ProducerAssumption ==
    /\ MaxSends \in Nat
    /\ Message = 1..MaxSends
    /\ Size \in [Message -> Nat]
    /\ MaxMessages \in Nat \ {0}
    /\ MaxKbytes \in Nat \ {0}
    /\ MaxRestarts \in Nat
    /\ Partition # {}

VARIABLES pc,                   \* "idle", "flush", "produce", "close" or "dead"
          phase,                \* which handle: "copy" or "apply"
          rk,                   \* the handle exists
          kafka_initialized,    \* the caller's flag for it
          message_count,        \* static, kafka.c
          local_memory_usage,   \* static, kafka.c
          sent,                 \* messages 1..sent have been passed in; the last one
                                \* is in hand while pc is "flush" or "produce"
          curr_bytes,           \* librdkafka's count of the payload bytes it holds
          restarts,             \* restarts so far
          warned                \* history: a forced flush of this handle has timed out

callVars == <<pc, sent>>
handleVars == <<phase, rk, kafka_initialized>>
counterVars == <<message_count, local_memory_usage>>
vars == <<channelVars, callVars, handleVars, counterVars, curr_bytes, restarts, warned>>

Blocked == {"flush", "produce"}

(* The message a blocked call of kafka_send_optimized() holds.             *)
InHand == IF pc \in Blocked THEN {sent} ELSE {}

EstimatedSize(m) == Size[m] + 100
MemoryLimit == MaxKbytes * 1024

TypeOK ==
    /\ ChannelTypeOK
    /\ pc \in Blocked \cup {"idle", "close", "dead"}
    /\ phase \in {"copy", "apply"}
    /\ rk \in BOOLEAN
    /\ kafka_initialized \in BOOLEAN
    /\ message_count \in Nat
    /\ local_memory_usage \in Nat
    /\ sent \in 0..MaxSends
    /\ pc \in Blocked => sent > 0
    /\ curr_bytes \in Int
    /\ restarts \in 0..MaxRestarts
    /\ warned \in BOOLEAN

Init ==
    /\ ChannelInit
    /\ pc = "idle"
    /\ phase \in {"copy", "apply"}
    /\ rk = FALSE
    /\ kafka_initialized = FALSE
    /\ message_count = 0
    /\ local_memory_usage = 0
    /\ sent = 0
    /\ curr_bytes = 0
    /\ restarts = 0
    /\ warned = FALSE

-----------------------------------------------------------------------------
(* Leaving the process: nothing flushes the queue.                         *)

(* An ERROR unwinds to start_apply() or out of the worker, which exits.    *)
(* The queue, and the message in hand if there is one, go with it.         *)
Exit ==
    /\ pc' = "dead"
    /\ Destroy(InHand)
    /\ curr_bytes' = 0
    /\ UNCHANGED <<sent, handleVars, counterVars, restarts, warned>>

(* The process is killed, or exits on a parameter change or at the end of  *)
(* its work.                                                               *)
Terminate == pc # "dead" /\ Exit

(* The launcher starts a new process: every static is fresh.               *)
Restart ==
    /\ pc = "dead"
    /\ restarts < MaxRestarts
    /\ restarts' = restarts + 1
    /\ pc' = "idle"
    /\ phase' \in {"copy", "apply"}
    /\ rk' = FALSE
    /\ kafka_initialized' = FALSE
    /\ message_count' = 0
    /\ local_memory_usage' = 0
    /\ warned' = FALSE
    /\ UNCHANGED <<channelVars, sent, curr_bytes>>

-----------------------------------------------------------------------------
(* Calling: check_kafka_init() or COPY_TO_JSON(), then                     *)
(* kafka_send_optimized().                                                 *)

(* Mutant: a message more than the limit is let through.                   *)
OverLimitByOne(m) ==
    \/ message_count > MaxMessages
    \/ local_memory_usage + EstimatedSize(m) >= MemoryLimit

(* The local limits of kafka_send_optimized(), for message m.              *)
OverLimit(m) ==
    \/ message_count >= MaxMessages
    \/ local_memory_usage + EstimatedSize(m) >= MemoryLimit

(* The handle is there, so the call reaches the limit check.               *)
EnterSend ==
    /\ sent' = sent + 1
    /\ pc' = IF OverLimit(sent + 1) THEN "flush" ELSE "produce"

(* The first message of a handle runs kafka_init().  It either sets the    *)
(* handle and returns 0, or fails: both failure results end in ERROR.      *)
FirstSend ==
    /\ pc = "idle"
    /\ sent < MaxSends
    /\ ~rk /\ ~kafka_initialized
    /\ rk' = TRUE
    /\ kafka_initialized' = TRUE
    /\ EnterSend
    /\ UNCHANGED <<channelVars, phase, counterVars, curr_bytes, restarts, warned>>

InitFails ==
    /\ pc = "idle"
    /\ sent < MaxSends
    /\ ~rk
    /\ sent' = sent + 1
    /\ pc' = "dead"
    /\ Refuse(sent + 1)
    /\ UNCHANGED <<handleVars, counterVars, curr_bytes, restarts, warned>>

Send ==
    /\ pc = "idle"
    /\ sent < MaxSends
    /\ rk /\ kafka_initialized
    /\ EnterSend
    /\ UNCHANGED <<channelVars, handleVars, counterVars, curr_bytes, restarts, warned>>

(* Mutant: both counters are reset although the flush may have timed out.  *)
ForcedFlushResetsBoth ==
    /\ pc = "flush"
    /\ message_count' = 0
    /\ local_memory_usage' = 0
    /\ warned' = (warned \/ queue # <<>>)
    /\ pc' = "produce"
    /\ UNCHANGED <<channelVars, sent, handleVars, curr_bytes, restarts>>

(* Mutant: the queue is purged, not flushed.                               *)
ForcedPurge ==
    /\ pc = "flush"
    /\ message_count' = 0
    /\ warned' = (warned \/ queue # <<>>)
    /\ pc' = "produce"
    /\ queue' = <<>>
    /\ UNCHANGED <<topic, lost, sent, handleVars, local_memory_usage, curr_bytes,
                   restarts>>

(* rd_kafka_flush(rk, 1000) returns: the queue is empty, or a second has   *)
(* passed, which is worth a WARNING and nothing else.                      *)
ForcedFlushReturns ==
    /\ pc = "flush"
    /\ message_count' = 0
    /\ warned' = (warned \/ queue # <<>>)
    /\ pc' = "produce"
    /\ UNCHANGED <<channelVars, sent, handleVars, local_memory_usage, curr_bytes,
                   restarts>>

(* librdkafka refuses to exceed the limits kafka_init() configured.        *)
QueueFull(m) ==
    \/ Len(queue) >= MaxMessages
    \/ curr_bytes + Size[m] > MemoryLimit

(* A full queue, or any other error: -1 is logged and the call returns.    *)
(* The message is dropped.                                                 *)
ProduceError ==
    /\ pc = "produce"
    /\ pc' = "idle"
    /\ Refuse(sent)
    /\ UNCHANGED <<sent, handleVars, counterVars, curr_bytes, restarts, warned>>

(* Mutant: the loop goes on when the message was taken.                    *)
ProduceAgain ==
    /\ pc = "produce"
    /\ ~QueueFull(sent)
    /\ Accept(sent)
    /\ message_count' = message_count + 1
    /\ local_memory_usage' = local_memory_usage + EstimatedSize(sent)
    /\ curr_bytes' = curr_bytes + Size[sent]
    /\ UNCHANGED <<pc, sent, handleVars, restarts, warned>>

ProduceOk ==
    /\ pc = "produce"
    /\ ~QueueFull(sent)
    /\ pc' = "idle"
    /\ Accept(sent)
    /\ message_count' = message_count + 1
    /\ local_memory_usage' = local_memory_usage + EstimatedSize(sent)
    /\ curr_bytes' = curr_bytes + Size[sent]
    /\ UNCHANGED <<sent, handleVars, restarts, warned>>

-----------------------------------------------------------------------------
(* kafka_close_copy(), by the table synchronization worker.                *)

(* The topic handle goes first, then rd_kafka_flush(rk, 5000) blocks.      *)
CloseCopy ==
    /\ pc = "idle"
    /\ phase = "copy"
    /\ pc' = "close"
    /\ UNCHANGED <<channelVars, sent, handleVars, counterVars,
                   curr_bytes, restarts, warned>>

(* Flushed or not, the handle is destroyed and the counters are reset.     *)
(* The apply handle of the process has not been initialized yet.           *)
CloseReturns ==
    /\ pc = "close"
    /\ pc' = "idle"
    /\ Destroy({})
    /\ curr_bytes' = 0
    /\ phase' = "apply"
    /\ rk' = FALSE
    /\ kafka_initialized' = FALSE
    /\ message_count' = 0
    /\ local_memory_usage' = 0
    /\ warned' = FALSE
    /\ UNCHANGED <<sent, restarts>>

-----------------------------------------------------------------------------
(* librdkafka's threads.                                                   *)

Broker ==
    \E i \in 1..Len(queue) :
        /\ Deliver(i) \/ Expire(i)
        /\ curr_bytes' = curr_bytes - Size[queue[i].msg]
        /\ UNCHANGED <<callVars, handleVars, counterVars, restarts, warned>>

Call == FirstSend \/ InitFails \/ Send
SendStep == ForcedFlushReturns \/ ProduceError \/ ProduceOk

Next == Call \/ SendStep \/ CloseCopy \/ CloseReturns \/ Broker
            \/ Terminate \/ Restart

Spec == Init /\ [][Next]_vars

-----------------------------------------------------------------------------
(* Properties                                                              *)

(* kafka_send_optimized() throttles on its own estimate because it cannot  *)
(* see librdkafka's.  The estimate is never below what librdkafka holds,   *)
(* the 100 bytes of overhead per message included, for any interleaving of *)
(* sends, timed-out flushes, deliveries, expiries and closes.              *)
GaugeCoversQueue == local_memory_usage >= curr_bytes + 100 * Len(queue)

(* Where message m is, one element per copy of it.                         *)
Places(m) ==
    {<<"queue", i>> : i \in {i \in 1..Len(queue) : queue[i].msg = m}}
        \cup {<<"topic", t>> : t \in {t \in Partition \X (1..MaxSends) :
                                  t[2] <= Len(topic[t[1]]) /\ topic[t[1]][t[2]] = m}}
        \cup {<<"lost", x>> : x \in lost \cap {m}}
        \cup {<<"hand", x>> : x \in InHand \cap {m}}

(* A message that has been passed to kafka_send_optimized() is in exactly  *)
(* one place: in the hands of the call, in the queue, in one partition, or *)
(* lost.  A forced flush that times out, a close, an expiry or the end of  *)
(* the process neither duplicates a message nor makes one disappear        *)
(* without a trace; a message a full queue turns away is lost.             *)
ExactlyOnePlace == \A m \in 1..sent : Cardinality(Places(m)) = 1

(* Within a partition the log is in the order of the calls, whatever was   *)
(* lost between two messages: the "original produce order" the idempotent  *)
(* producer is configured for.                                             *)
PartitionOrder ==
    \A p \in Partition : \A i, j \in 1..Len(topic[p]) :
        i < j => topic[p][i] < topic[p][j]

(* A message that fits meets a full queue, and is dropped, only after the  *)
(* WARNING "forced flush timed out. Proceeding with risk." has been given  *)
(* for this handle: until then the two counters together keep              *)
(* kafka_send_optimized() below both of librdkafka's limits.  After it     *)
(* they do not: message_count starts again at 0 with the queue still full. *)
FullOnlyAfterWarning ==
    pc = "produce" /\ QueueFull(sent) /\ Size[sent] <= MemoryLimit => warned

(* kafka.c keeps the promise of KafkaChannel.                              *)
ImplementsChannel == ChannelSpec

(* kafka.c:328 says that after the forced flush the counters are reset.    *)
(* Then a flush that emptied the queue lifts the throttle: the message in  *)
(* hand fits, unless it is over the limit all by itself.                   *)
FlushLiftsThrottle ==
    pc = "produce" /\ queue = <<>> /\ EstimatedSize(sent) < MemoryLimit
        => local_memory_usage + EstimatedSize(sent) < MemoryLimit

=============================================================================
