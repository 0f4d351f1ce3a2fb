-------------------------- MODULE MCKafkaProducer --------------------------
(* A small instance of KafkaProducer for TLC.                              *)
EXTENDS KafkaProducer

MCMessage == 1..MaxSends

(* With 100 estimated bytes a message more, and limits of two messages and *)
(* 1 kbyte, the third send reaches the limit on messages only, and the     *)
(* fourth kafka.c's estimate, whatever librdkafka still holds.             *)
MCSize == [m \in MCMessage |-> IF m <= 2 THEN 100 ELSE 500]
=============================================================================
