---------------------------- MODULE TableFollow ----------------------------
(***************************************************************************)
(* What the subscription promises of a table (the header of tablesync.c):  *)
(* it is copied as of some position, then followed, and once it is said to *)
(* be synchronized as of position p, every row of the copy and every       *)
(* change after it up to p has been sent.  A crash of the server may make  *)
(* it forget how far it was; messages that were sent stay sent.  Of the    *)
(* rows of a binary copy it promises nothing in this fork.                 *)
(***************************************************************************)
EXTENDS Publication

CONSTANT Workloads      \* the WALs the publisher may write

VARIABLES wal,          \* the publisher's transactions
          binary,       \* the copies are binary
          phase,        \* phase[t]: "none", "copied", "synced" or "ready"
          base,         \* base[t]: how many transactions the copy of t contains
          upto,         \* upto[t]: how many transactions t is said to have followed
          sent          \* the messages sent so far

followVars == <<wal, binary, phase, base, upto, sent>>

FollowInit ==
    /\ wal \in Workloads
    /\ binary \in BOOLEAN
    /\ phase = [t \in Table |-> "none"]
    /\ base = [t \in Table |-> 0]
    /\ upto = [t \in Table |-> 0]
    /\ sent = {}

Send ==
    /\ \E r \in Row, v \in 0..Len(wal) : sent' = sent \cup {<<r, v>>}
    /\ UNCHANGED <<wal, binary, phase, base, upto>>

(* A new attempt to copy t takes a snapshot.                               *)
Attempt(t) ==
    /\ phase[t] = "none"
    /\ \E n \in 0..Len(wal) : base' = [base EXCEPT ![t] = n]
    /\ UNCHANGED <<wal, binary, phase, upto, sent>>

Copied(t) ==
    /\ phase[t] = "none"
    /\ binary \/ Snapshot(wal, t, base[t]) \subseteq sent
    /\ phase' = [phase EXCEPT ![t] = "copied"]
    /\ UNCHANGED <<wal, binary, base, upto, sent>>

(* t is synchronized as of transaction k.                                  *)
Synced(t) ==
    /\ phase[t] = "copied"
    /\ \E k \in 0..Len(wal) :
        /\ Changes(wal, t, base[t], k) \subseteq sent
        /\ upto' = [upto EXCEPT ![t] = k]
    /\ phase' = [phase EXCEPT ![t] = "synced"]
    /\ UNCHANGED <<wal, binary, base, sent>>

(* The leader takes the tables of S over, having followed them itself.     *)
Ready(S) ==
    /\ \A t \in S : phase[t] \in {"copied", "synced"}
    /\ \E k \in 0..Len(wal) :
        /\ \A t \in S : Changes(wal, t, base[t], k) \subseteq sent
        /\ upto' = [t \in Table |-> IF t \in S THEN k ELSE upto[t]]
    /\ phase' = [t \in Table |-> IF t \in S THEN "ready" ELSE phase[t]]
    /\ UNCHANGED <<wal, binary, base, sent>>

Rank == [none |-> 0, copied |-> 1, synced |-> 2, ready |-> 3]

(* Every table falls back, or stays.                                       *)
Forget ==
    /\ phase' \in [Table -> DOMAIN Rank]
    /\ \A t \in Table : Rank[phase'[t]] <= Rank[phase[t]]
    /\ upto' \in [Table -> 0..Len(wal)]
    /\ \A t \in Table : upto'[t] <= upto[t]
    /\ UNCHANGED <<wal, binary, base, sent>>

FollowNext ==
    \/ Send
    \/ \E t \in Table : Attempt(t) \/ Copied(t) \/ Synced(t)
    \/ \E S \in SUBSET Table : Ready(S)
    \/ Forget

FollowSpec == FollowInit /\ [][FollowNext]_followVars

(* Without faults every table is ready in the end.                         *)
EventuallyReady == <>[](\A t \in Table : phase[t] = "ready")
=============================================================================
