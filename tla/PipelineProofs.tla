--------------------------- MODULE PipelineProofs ---------------------------
(***************************************************************************)
(* The apply worker, and the apply worker with its channel to the broker.  *)
(***************************************************************************)
EXTENDS Pipeline, KafkaChannelProofs

(* A leaf is tried with SMT, then with Zenon, then with SMT again: the     *)
(* larger ones need more than the default time.                            *)
USE SMTT(30), ZenonT(30), SMTT(60)

-----------------------------------------------------------------------------
(* Facts about the data                                                    *)

(* The later of two positions is a position.                               *)
LEMMA LaterNat ==
    ASSUME NEW a \in Nat, NEW b \in Nat
    PROVE  Later(a, b) \in Nat
BY DEF Later

(* A transaction of the publisher is a sequence of changes.                *)
LEMMA WalFacts ==
    ASSUME StreamTypeOK
    PROVE  /\ Len(wal) \in Nat
           /\ \A i \in Txns : i \in Nat \ {0} /\ wal[i] \in Seq(ChangeKind) /\ Len(wal[i]) \in Nat
<1>1. wal \in Seq(Seq(ChangeKind))
  BY ApplyAssumption DEF StreamTypeOK
<1>2. Len(wal) \in Nat
  BY <1>1, SeqLength
<1>3. ASSUME NEW i \in Txns
      PROVE  i \in Nat \ {0} /\ wal[i] \in Seq(ChangeKind) /\ Len(wal[i]) \in Nat
  <2>1. i \in 1..Len(wal)
    BY DEF Txns
  <2>2. wal[i] \in Seq(ChangeKind)
    BY <1>1, <2>1, SeqElement
  <2> QED
    BY <1>2, <2>1, <2>2, SeqLength
<1> QED
  BY <1>2, <1>3

(* The last state of db, and what an update of one of its fields gives.    *)
LEMMA NowFacts ==
    ASSUME ServerTypeOK
    PROVE  /\ Len(db) \in Nat \ {0}
           /\ Now \in DbState
           /\ Now.origin \in Nat /\ Now.skip \in Nat /\ Now.enabled \in BOOLEAN
<1>1. Len(db) \in Nat
  BY SeqLength DEF ServerTypeOK
<1>2. Len(db) \in 1..Len(db)
  BY <1>1 DEF ServerTypeOK
<1>3. Now \in DbState
  BY <1>2, SeqElement DEF ServerTypeOK, Now
<1> QED
  BY <1>1, <1>2, <1>3 DEF DbState

(* An origin update and what it leaves alone.                              *)
LEMMA OriginUpdate ==
    ASSUME NEW d \in DbState, NEW lsn \in Nat
    PROVE  LET e == [d EXCEPT !.origin = Later(@, lsn)]
           IN  e \in DbState /\ e.origin \in {d.origin, lsn} /\ e.skip = d.skip
BY DEF DbState, Later

(* Counting a fault keeps the counters natural numbers.                    *)
LEMMA SpendType ==
    ASSUME used \in [Event -> Nat], NEW e \in Event, Spend(e)
    PROVE  used' \in [Event -> Nat]
BY DEF Spend

-----------------------------------------------------------------------------
(* The local WAL of the subscriber                                         *)

OriginsOf(d) == {d[j].origin : j \in 1..Len(d)}
SkipsOf(d) == {d[j].skip : j \in 1..Len(d)}

(* What appending one state does to the origins and skip LSNs in db.       *)
LEMMA AppendState ==
    ASSUME NEW d \in Seq(DbState), NEW e \in DbState
    PROVE  /\ Append(d, e) \in Seq(DbState)
           /\ Len(d) \in Nat /\ Len(Append(d, e)) = Len(d) + 1
           /\ Append(d, e)[Len(d) + 1] = e
           /\ OriginsOf(Append(d, e)) = OriginsOf(d) \cup {e.origin}
           /\ SkipsOf(Append(d, e)) = SkipsOf(d) \cup {e.skip}
<1>1. /\ Append(d, e) \in Seq(DbState)
      /\ Len(d) \in Nat /\ Len(Append(d, e)) = Len(d) + 1
      /\ \A j \in 1..Len(d) : Append(d, e)[j] = d[j]
      /\ Append(d, e)[Len(d) + 1] = e
  BY SeqAppend, SeqLength
<1>2. \A j : j \in 1..(Len(d) + 1) <=> j \in 1..Len(d) \/ j = Len(d) + 1
  BY <1>1
<1>3. OriginsOf(Append(d, e)) = OriginsOf(d) \cup {e.origin}
  BY <1>1, <1>2 DEF OriginsOf
<1>4. SkipsOf(Append(d, e)) = SkipsOf(d) \cup {e.skip}
  BY <1>1, <1>2 DEF SkipsOf
<1> QED
  BY <1>1, <1>3, <1>4

(* The last state is one of the states.                                    *)
LEMMA LastState ==
    ASSUME NEW d \in Seq(DbState), Len(d) # 0
    PROVE  /\ d[Len(d)] \in DbState
           /\ d[Len(d)].origin \in OriginsOf(d) /\ d[Len(d)].skip \in SkipsOf(d)
<1>1. Len(d) \in 1..Len(d)
  BY SeqLength
<1> QED
  BY <1>1, SeqElement, Zenon DEF OriginsOf, SkipsOf

(* process_syncing_tables() appends at most one state to base.             *)
LEMMA SyncStep ==
    ASSUME ServerTypeOK, used \in [Event -> Nat],
           NEW base \in Seq(DbState), Len(base) >= Len(db),
           NEW lsn \in Nat, ProcessSyncingTables(base, lsn)
    PROVE  /\ db' \in Seq(DbState) /\ Len(db') >= Len(base)
           /\ XactLastCommitEnd' \in 0..Len(db')
           /\ used' \in [Event -> Nat]
           /\ OriginsOf(db') \subseteq OriginsOf(base) \cup {lsn}
           /\ SkipsOf(db') \subseteq SkipsOf(base)
<1>1. /\ Len(db) \in Nat \ {0} /\ Len(base) \in Nat \ {0}
      /\ XactLastCommitEnd \in 0..Len(db)
  BY NowFacts, SeqLength DEF ServerTypeOK
<1>2. CASE /\ db' = base
           /\ XactLastCommitEnd' = IF base = db THEN XactLastCommitEnd ELSE Len(base)
           /\ UNCHANGED used
  BY <1>1, <1>2
<1>3. CASE /\ Spend("sync")
           /\ db' = Append(base, [base[Len(base)] EXCEPT !.origin = Later(@, lsn)])
           /\ XactLastCommitEnd' = Len(base) + 1
  <2> DEFINE last == base[Len(base)]
             e == [last EXCEPT !.origin = Later(@, lsn)]
  <2>1. last \in DbState /\ last.origin \in OriginsOf(base) /\ last.skip \in SkipsOf(base)
    BY <1>1, LastState
  <2>2. e \in DbState /\ e.origin \in {last.origin, lsn} /\ e.skip = last.skip
    BY <2>1, OriginUpdate
  <2>3. db' = Append(base, e)
    BY <1>3
  <2> HIDE DEF e, last
  <2>4. used' \in [Event -> Nat]
    BY <1>3, SpendType, Zenon DEF Event
  <2>5. /\ db' \in Seq(DbState) /\ Len(db') = Len(base) + 1
        /\ OriginsOf(db') = OriginsOf(base) \cup {e.origin}
        /\ SkipsOf(db') = SkipsOf(base) \cup {e.skip}
    BY <2>2, <2>3, AppendState
  <2>6. XactLastCommitEnd' \in 0..Len(db')
    BY <1>1, <1>3, <2>5
  <2> QED
    BY <1>1, <2>1, <2>2, <2>4, <2>5, <2>6
<1> QED
  BY <1>2, <1>3 DEF ProcessSyncingTables

(* The local commit of a remote transaction appends at most one state.     *)
LEMMA CommitStep ==
    ASSUME ServerTypeOK, NEW i \in Nat \ {0}
    PROVE  /\ CommitBase(i) \in Seq(DbState) /\ Len(CommitBase(i)) >= Len(db)
           /\ OriginsOf(CommitBase(i)) \subseteq OriginsOf(db) \cup {EndLsn(i)}
           /\ SkipsOf(CommitBase(i)) \subseteq SkipsOf(db) \cup {0}
<1>1. /\ db \in Seq(DbState) /\ Len(db) \in Nat \ {0} /\ Now \in DbState
      /\ Now.origin \in OriginsOf(db) /\ Now.skip \in SkipsOf(db)
  BY NowFacts, LastState DEF ServerTypeOK, Now
<1>2. EndLsn(i) \in Nat
  BY DEF EndLsn
<1>3. CASE has_xid \/ ClearsSkipLsn
  <2> DEFINE e == [Now EXCEPT !.origin = Later(@, EndLsn(i)),
                              !.skip = IF ClearsSkipLsn THEN 0 ELSE @]
  <2>1. e \in DbState /\ e.origin \in {Now.origin, EndLsn(i)} /\ e.skip \in {Now.skip, 0}
    BY <1>1, <1>2, Zenon DEF DbState, Later
  <2>2. CommitBase(i) = Append(db, e)
    BY <1>3 DEF CommitBase
  <2> HIDE DEF e
  <2> QED
    BY <1>1, <2>1, <2>2, AppendState
<1>4. CASE ~(has_xid \/ ClearsSkipLsn)
  BY <1>1, <1>4 DEF CommitBase
<1> QED
  BY <1>3, <1>4

(* What the handlers of INSERT, UPDATE, DELETE and TRUNCATE and their      *)
(* quick return have in common.                                            *)
LEMMA ChangeStep ==
    ASSUME SkipChange \/ ApplyDml \/ ApplyTruncate
    PROVE  /\ ReceiveChange
           /\ local_xact' \in {local_xact, TRUE} /\ has_xid' \in {has_xid, TRUE}
           /\ my_skiplsn' \in {my_skiplsn, Now.skip}
           /\ handed' \in {handed, handed \cup {<<next, pos>>}}
           /\ used' = used
<1>1. CASE SkipChange
  BY <1>1 DEF SkipChange
<1>2. ASSUME NEW kind, SendRow(kind)
      PROVE  /\ ReceiveChange
             /\ local_xact' = TRUE /\ has_xid' = has_xid
             /\ my_skiplsn' \in {my_skiplsn, Now.skip}
             /\ handed' = handed \cup {<<next, pos>>}
             /\ used' = used
  BY <1>2 DEF SendRow, BeginReplicationStep
<1>3. CASE ApplyDml
  BY <1>2, <1>3, Zenon DEF ApplyDml, ApplyInsert, ApplyUpdate, ApplyDelete
<1>4. CASE ApplyTruncate
  BY <1>4 DEF ApplyTruncate, BeginReplicationStep
<1> QED
  BY <1>1, <1>3, <1>4, Zenon

(* Events are counted, never uncounted.                                    *)
LEMMA UsedGrows ==
    ASSUME TypeOK, [Next]_vars
    PROVE  \A e \in Event : used'[e] >= used[e]
<1>1. used \in [Event -> Nat]
  BY DEF TypeOK, HistoryTypeOK
<1>2. ASSUME NEW x \in Event, Spend(x) PROVE \A e \in Event : used'[e] >= used[e]
  BY <1>1, <1>2 DEF Spend
<1>3. ASSUME used' = used PROVE \A e \in Event : used'[e] >= used[e]
  BY <1>1, <1>3
<1>4. ASSUME NEW base, NEW lsn, ProcessSyncingTables(base, lsn)
      PROVE  \A e \in Event : used'[e] >= used[e]
  BY <1>2, <1>3, <1>4 DEF ProcessSyncingTables, Event
<1>5. CASE StartWorker \/ ConnectionLost \/ ReceiveBegin \/ SkipChange \/ ApplyDml \/ ApplyTruncate
  BY <1>3, <1>5, ChangeStep, Zenon DEF StartWorker, ConnectionLost, ReceiveBegin
<1>6. CASE WorkerExit \/ ServerCrash \/ PublisherCrash \/ ApplyError \/ AlterSkip
  BY <1>2, <1>6, Zenon DEF WorkerExit, ServerCrash, PublisherCrash, ApplyError, AlterSkip, Event
<1>7. CASE ReceiveCommit \/ EndOfRound
  BY <1>3, <1>4, <1>7, Zenon DEF ReceiveCommit, CommitLocal, CommitEmpty, EndOfRound
<1>8. CASE \/ ReceiveKeepalive \/ ConfirmReceived \/ SaveSlot \/ WalWriter \/ Enable
           \/ UNCHANGED vars
  BY <1>3, <1>8 DEF ReceiveKeepalive, ConfirmReceived, SaveSlot, WalWriter, Enable, vars
<1> QED
  BY <1>5, <1>6, <1>7, <1>8 DEF Next, Receive

(* A step of the composition is a step of the worker.                      *)
LEMMA PipelineStepOfWorker ==
    ASSUME [PipelineNext]_pipelineVars
    PROVE  [Next]_vars
BY DEF PipelineNext, pipelineVars, ProduceChange, OtherWorkerStep, WorkerEnds, Broker, Next,
       Receive

(* A change the worker handles is a message.                               *)
LEMMA ChangeIsMessage ==
    ASSUME TypeOK, next \in Txns, pos \in 1..Len(wal[next])
    PROVE  <<next, pos>> \in Message
BY PipelineAssumption DEF TypeOK, StreamTypeOK, Txns

-----------------------------------------------------------------------------
(* How often a log goes back: the steps                                    *)

(* The faults that end a worker.                                           *)
Faults == used["exit"] + used["error"] + used["serverCrash"] + used["publisherCrash"]

(* The connection is gone, and the worker has yet to find out.             *)
Severed == up /\ ~connected

(* What goes to partition p next goes back: its log ends with a change     *)
(* that is not before everything the queue holds for p and the stream has  *)
(* to come.                                                                *)
LastOf(p) == topic[p][Len(topic[p])]
Ahead(p) ==
    /\ Len(topic[p]) > 0
    /\ ~ /\ Before(LastOf(p), <<next, pos>>)
         /\ \A i \in 1..Len(queue) : queue[i].part = p => Before(LastOf(p), queue[i].msg)

(* What may still go back without another fault.                           *)
Credit(p) == (IF Ahead(p) THEN 1 ELSE 0) + (IF Severed THEN 1 ELSE 0)

RewindInv ==
    /\ ~up => next = 1 /\ pos = 0 /\ queue = <<>>
    /\ \A i \in 1..Len(queue) : Before(queue[i].msg, <<next, pos>>)
    /\ \A i, j \in 1..Len(queue) : i < j => Before(queue[i].msg, queue[j].msg)
    /\ \A p \in Partition : Cardinality(Rewinds(topic[p])) + Credit(p) <= Faults

LEMMA BeforeTransitive ==
    ASSUME NEW l \in Nat \X Nat, NEW m \in Nat \X Nat, NEW n \in Nat \X Nat,
           Before(l, m), Before(m, n)
    PROVE  Before(l, n)
<1>1. l[1] \in Nat /\ l[2] \in Nat /\ m[1] \in Nat /\ m[2] \in Nat /\ n[1] \in Nat /\ n[2] \in Nat
  OBVIOUS
<1> QED
  BY <1>1 DEF Before

(* What the counting uses of Cardinality. RewindsCounted proves it from    *)
(* the theorems about finite sets, which only the end of the module has in *)
(* scope.                                                                  *)
Counting ==
    \A log \in Seq(Message) :
        /\ Cardinality(Rewinds(log)) \in Nat
        /\ \A m \in Message :
               Cardinality(Rewinds(Append(log, m)))
                   = Cardinality(Rewinds(log))
                       + (IF Len(log) > 0 /\ ~Before(log[Len(log)], m) THEN 1 ELSE 0)

(* The types of what the counting is about.                                *)
LEMMA RewindFacts ==
    ASSUME Counting, TypeOK, ChannelTypeOK
    PROVE  /\ Faults \in Nat
           /\ next \in Nat /\ pos \in Nat /\ <<next, pos>> \in Nat \X Nat
           /\ Len(queue) \in Nat
           /\ \A i \in 1..Len(queue) : queue[i].msg \in Nat \X Nat
           /\ \A p \in Partition : /\ Len(topic[p]) \in Nat
                                   /\ Len(topic[p]) > 0 => LastOf(p) \in Nat \X Nat
                                   /\ Cardinality(Rewinds(topic[p])) \in Nat
<1>1. used \in [Event -> Nat]
  BY DEF TypeOK, HistoryTypeOK
<1>2. Faults \in Nat
  BY <1>1 DEF Faults, Event
<1>3. next \in Nat /\ pos \in Nat
  BY WalFacts DEF TypeOK, StreamTypeOK
<1>4. Message \subseteq Nat \X Nat
  BY PipelineAssumption
<1>5. ASSUME NEW p \in Partition
      PROVE  /\ Len(topic[p]) \in Nat
             /\ Len(topic[p]) > 0 => LastOf(p) \in Nat \X Nat
             /\ Cardinality(Rewinds(topic[p])) \in Nat
  <2>1. topic[p] \in Seq(Message) /\ Len(topic[p]) \in Nat
    BY ChannelFacts
  <2>2. Len(topic[p]) > 0 => Len(topic[p]) \in 1..Len(topic[p])
    BY <2>1
  <2>3. Len(topic[p]) > 0 => LastOf(p) \in Message
    BY <2>1, <2>2, SeqElement DEF LastOf
  <2>4. Cardinality(Rewinds(topic[p])) \in Nat
    BY <2>1, Zenon DEF Counting
  <2> QED
    BY <1>4, <2>1, <2>3, <2>4, Zenon
<1> QED
  BY <1>2, <1>3, <1>4, <1>5, ChannelFacts

(* Every event counts, and the faults among them by one.                   *)
LEMMA FaultsGrow ==
    ASSUME TypeOK, TypeOK', [Next]_vars
    PROVE  /\ Faults' >= Faults
           /\ \A e \in {"exit", "error", "serverCrash", "publisherCrash"} :
                  Spend(e) => Faults' = Faults + 1
<1>1. used \in [Event -> Nat] /\ used' \in [Event -> Nat]
  BY DEF TypeOK, HistoryTypeOK
<1>2. \A e \in Event : used'[e] >= used[e]
  BY UsedGrows
<1>3. Faults' >= Faults
  BY <1>1, <1>2 DEF Faults, Event
<1>4. ASSUME NEW e \in {"exit", "error", "serverCrash", "publisherCrash"}, Spend(e)
      PROVE  Faults' = Faults + 1
  <2>1. used' = [used EXCEPT ![e] = @ + 1]
    BY <1>4, Zenon DEF Spend
  <2> QED
    BY <1>1, <2>1 DEF Faults, Event
<1> QED
  BY <1>3, <1>4

(* The stream goes on, the queue and the topic are left alone.             *)
LEMMA RewindGoesOn ==
    ASSUME Counting, TypeOK, TypeOK', ChannelTypeOK, RewindInv, UNCHANGED <<queue, topic>>,
           ~up' => next' = 1 /\ pos' = 0 /\ queue' = <<>>,
           <<next', pos'>> = <<next, pos>> \/ Before(<<next, pos>>, <<next', pos'>>),
           Faults' >= Faults, Severed' => Severed \/ Faults' >= Faults + 1
    PROVE  RewindInv'
<1>0. /\ Faults \in Nat /\ Faults' \in Nat
      /\ <<next, pos>> \in Nat \X Nat /\ <<next', pos'>> \in Nat \X Nat
      /\ \A i \in 1..Len(queue) : queue[i].msg \in Nat \X Nat
      /\ \A p \in Partition : /\ Len(topic[p]) > 0 => LastOf(p) \in Nat \X Nat
                              /\ Cardinality(Rewinds(topic[p])) \in Nat
  <2>1. Faults' \in Nat
    BY DEF TypeOK, HistoryTypeOK, Faults, Event
  <2>2. next' \in Nat /\ pos' \in Nat
    BY DEF TypeOK, StreamTypeOK
  <2> QED
    BY <2>1, <2>2, RewindFacts, Zenon
<1>1. ASSUME NEW m \in Nat \X Nat, Before(m, <<next, pos>>) PROVE Before(m, <<next', pos'>>)
  BY <1>0, <1>1, BeforeTransitive
<1>2. \A i \in 1..Len(queue') : Before(queue'[i].msg, <<next', pos'>>)
  BY <1>0, <1>1, Zenon DEF RewindInv
<1>3. ASSUME NEW p \in Partition
      PROVE  Cardinality(Rewinds(topic'[p])) + Credit(p)' <= Faults'
  <2>1. LastOf(p)' = LastOf(p)
    BY DEF LastOf
  <2>2. Ahead(p)' => Ahead(p)
    BY <1>0, <1>1, <2>1, Zenon DEF Ahead
  <2>3. Cardinality(Rewinds(topic[p])) + Credit(p) <= Faults
    BY Zenon DEF RewindInv
  <2> QED
    BY <1>0, <2>2, <2>3 DEF Credit
<1> QED
  BY <1>2, <1>3 DEF RewindInv

(* A process ends, with its queue.                                         *)
LEMMA RewindEnds ==
    ASSUME Counting, TypeOK, TypeOK', ChannelTypeOK, ChannelTypeOK', RewindInv, ~up', next' = 1, pos' = 0,
           queue' = <<>>, topic' = topic,
           Faults' >= Faults, Severed \/ Faults' >= Faults + 1
    PROVE  RewindInv'
<1>0. Faults \in Nat /\ Faults' \in Nat
      /\ \A p \in Partition : Cardinality(Rewinds(topic[p])) \in Nat
  <2>1. Faults' \in Nat
    BY DEF TypeOK, HistoryTypeOK, Faults, Event
  <2> QED
    BY <2>1, RewindFacts
<1>1. ASSUME NEW p \in Partition
      PROVE  Cardinality(Rewinds(topic'[p])) + Credit(p)' <= Faults'
  <2>1. Cardinality(Rewinds(topic[p])) + Credit(p) <= Faults
    BY Zenon DEF RewindInv
  <2>2. ~Severed'
    BY DEF Severed
  <2> QED
    BY <1>0, <2>1, <2>2 DEF Credit
<1> QED
  BY <1>1, SeqEmpty DEF RewindInv

(* A message leaves the queue: what is left is still in order, and behind  *)
(* the stream.                                                             *)
LEMMA ShorterQueue ==
    ASSUME TypeOK, ChannelTypeOK, RewindInv, NEW i \in 1..Len(queue),
           queue' = Without(queue, i), UNCHANGED <<next, pos>>
    PROVE  /\ \A j \in 1..Len(queue') : \E k \in 1..Len(queue) : k # i /\ queue'[j] = queue[k]
           /\ \A j \in 1..Len(queue') : Before(queue'[j].msg, <<next', pos'>>)
           /\ \A j, k \in 1..Len(queue') : j < k => Before(queue'[j].msg, queue'[k].msg)
<1> DEFINE Old(j) == IF j < i THEN j ELSE j + 1
<1>1. /\ Len(queue) \in Nat /\ Len(queue') = Len(queue) - 1
      /\ \A j \in 1..(Len(queue) - 1) : queue'[j] = queue[Old(j)]
  BY ChannelFacts, WithoutProperties DEF ChannelTypeOK
<1>2. \A j \in 1..Len(queue') :
          Old(j) \in 1..Len(queue) /\ Old(j) # i /\ queue'[j] = queue[Old(j)]
  BY <1>1
<1>3. \A j, k \in 1..Len(queue') : j < k => Old(j) < Old(k)
  BY <1>1
<1> HIDE DEF Old
<1> QED
  BY <1>2, <1>3, Zenon DEF RewindInv

(* A change joins the queue.                                               *)
LEMMA RewindAccept ==
    ASSUME Counting, TypeOK, TypeOK', ChannelTypeOK, RewindInv, NEW q \in Partition,
           <<next, pos>> \in Message, queue' = Append(queue, [msg |-> <<next, pos>>, part |-> q]), up,
           up', next' = next, pos' = pos + 1, UNCHANGED <<topic, connected, used>>
    PROVE  RewindInv'
<1> DEFINE e == [msg |-> <<next, pos>>, part |-> q]
<1>0. /\ Faults \in Nat /\ Faults' = Faults /\ Len(queue) \in Nat
      /\ next \in Nat /\ pos \in Nat
      /\ <<next, pos>> \in Nat \X Nat /\ <<next', pos'>> \in Nat \X Nat
      /\ \A i \in 1..Len(queue) : queue[i].msg \in Nat \X Nat
      /\ \A p \in Partition : /\ Len(topic[p]) > 0 => LastOf(p) \in Nat \X Nat
                              /\ Cardinality(Rewinds(topic[p])) \in Nat
  BY RewindFacts DEF Faults
<1>1. Before(<<next, pos>>, <<next', pos'>>)
  BY <1>0 DEF Before
<1>2. ASSUME NEW m \in Nat \X Nat, Before(m, <<next, pos>>) PROVE Before(m, <<next', pos'>>)
  BY <1>0, <1>1, <1>2, BeforeTransitive, Zenon
<1>3. e \in Entry /\ e.msg = <<next, pos>> /\ e.part = q
  BY Zenon DEF Entry
<1> HIDE DEF e
<1>4. /\ Len(queue') = Len(queue) + 1 /\ queue'[Len(queue) + 1] = e
      /\ \A i \in 1..Len(queue) : queue'[i] = queue[i]
  <2>1. queue \in Seq(Entry) /\ queue' = Append(queue, e)
    BY Zenon DEF ChannelTypeOK, e
  <2> QED
    BY <1>3, <2>1, SeqAppend
<1>5. ASSUME NEW i \in 1..Len(queue')
      PROVE  \/ i \in 1..Len(queue) /\ queue'[i] = queue[i]
             \/ i = Len(queue) + 1 /\ queue'[i] = e
  BY <1>0, <1>4, LastOrBefore
<1>6. \A i \in 1..Len(queue') : Before(queue'[i].msg, <<next', pos'>>)
  BY <1>0, <1>1, <1>2, <1>3, <1>5, Zenon DEF RewindInv
<1>7. ASSUME NEW i \in 1..Len(queue'), NEW j \in 1..Len(queue'), i < j
      PROVE  Before(queue'[i].msg, queue'[j].msg)
  <2>1. i \in 1..Len(queue)
    BY <1>0, <1>4, <1>7, OneBefore, Zenon
  <2> QED
    BY <1>3, <1>4, <1>5, <1>7, <2>1, Zenon DEF RewindInv
<1>8. ASSUME NEW p \in Partition
      PROVE  Cardinality(Rewinds(topic'[p])) + Credit(p)' <= Faults'
  <2>1. LastOf(p)' = LastOf(p)
    BY DEF LastOf
  <2>2. Ahead(p)' => Ahead(p)
    <3> SUFFICES ASSUME ~Ahead(p), Len(topic[p]) > 0 PROVE ~Ahead(p)'
      BY Zenon DEF Ahead
    <3>1. /\ Before(LastOf(p), <<next, pos>>) /\ LastOf(p) \in Nat \X Nat
          /\ \A i \in 1..Len(queue) : queue[i].part = p => Before(LastOf(p), queue[i].msg)
      BY <1>0, Zenon DEF Ahead
    <3>2. Before(LastOf(p), <<next', pos'>>)
      BY <1>2, <3>1, Zenon
    <3>3. ASSUME NEW i \in 1..Len(queue'), queue'[i].part = p
          PROVE  Before(LastOf(p), queue'[i].msg)
      BY <1>3, <1>5, <3>1, <3>3, Zenon
    <3> QED
      BY <2>1, <3>2, <3>3, Zenon DEF Ahead
  <2>3. Cardinality(Rewinds(topic[p])) + Credit(p) <= Faults
    BY Zenon DEF RewindInv
  <2>4. Severed' = Severed
    BY DEF Severed
  <2> QED
    BY <1>0, <2>2, <2>3, <2>4 DEF Credit
<1> QED
  BY <1>6, <1>7, <1>8, Zenon DEF RewindInv

(* The broker: a message that is stored may go back, but after it nothing  *)
(* for its partition does.                                                 *)
LEMMA RewindBroker ==
    ASSUME Counting, TypeOK, ChannelTypeOK, RewindInv, Broker
    PROVE  RewindInv'
<1>0. /\ Faults \in Nat /\ Faults' = Faults /\ Len(queue) \in Nat
      /\ <<next, pos>> \in Nat \X Nat /\ UNCHANGED <<next, pos, up, Severed>>
      /\ \A j \in 1..Len(queue) : queue[j].msg \in Nat \X Nat
      /\ \A p \in Partition : /\ Len(topic[p]) \in Nat
                              /\ Len(topic[p]) > 0 => LastOf(p) \in Nat \X Nat
                              /\ Cardinality(Rewinds(topic[p])) \in Nat
  BY RewindFacts, Zenon DEF Broker, vars, streamVars, workerVars, Faults, Severed
<1>1. PICK i \in 1..Len(queue) : Deliver(i) \/ Expire(i)
  BY DEF Broker
<1>2. queue' = Without(queue, i)
  BY <1>1 DEF Deliver, Expire
<1>3. /\ \A j \in 1..Len(queue') : \E k \in 1..Len(queue) : k # i /\ queue'[j] = queue[k]
      /\ \A j \in 1..Len(queue') : Before(queue'[j].msg, <<next', pos'>>)
      /\ \A j, k \in 1..Len(queue') : j < k => Before(queue'[j].msg, queue'[k].msg)
  BY <1>0, <1>2, ShorterQueue, Zenon
<1>4. up
  <2>1. queue # <<>>
    BY NotEmpty, Zenon
  <2> QED
    BY <2>1, Zenon DEF RewindInv
<1>5. ASSUME NEW p \in Partition, topic'[p] = topic[p]
      PROVE  Cardinality(Rewinds(topic'[p])) + Credit(p)' <= Faults'
  <2>1. LastOf(p)' = LastOf(p)
    BY <1>5 DEF LastOf
  <2>2. Ahead(p)' => Ahead(p)
    BY <1>0, <1>3, <1>5, <2>1, ZenonT(30) DEF Ahead
  <2>3. Cardinality(Rewinds(topic[p])) + Credit(p) <= Faults
    BY Zenon DEF RewindInv
  <2> QED
    BY <1>0, <1>5, <2>2, <2>3 DEF Credit
<1>6. CASE Expire(i)
  <2>1. topic' = topic
    BY <1>6 DEF Expire
  <2> QED
    BY <1>0, <1>3, <1>4, <1>5, <2>1, Zenon DEF RewindInv
<1>7. CASE Deliver(i)
  <2>0. PICK q \in Partition, m \in Message : q = queue[i].part /\ m = queue[i].msg
    BY ChannelFacts, Zenon
  <2>1. /\ m \in Nat \X Nat /\ topic[q] \in Seq(Message)
        /\ topic' = [topic EXCEPT ![q] = Append(@, m)] /\ topic \in [Partition -> Seq(Message)]
    BY <1>0, <1>7, <2>0, ChannelFacts, Zenon DEF Deliver, ChannelTypeOK
  <2>2. \A j \in 1..Len(queue) : j # i /\ queue[j].part = q => Before(m, queue[j].msg)
    <3> SUFFICES ASSUME NEW j \in 1..Len(queue), j # i, queue[j].part = q
                 PROVE  Before(m, queue[j].msg)
      OBVIOUS
    <3>1. ~(j \in 1..(i - 1))
      BY <1>7, <2>0 DEF Deliver, FirstOfPartition
    <3>2. i < j
      BY <1>0, <3>1
    <3> QED
      BY <2>0, <3>2, Zenon DEF RewindInv
  <2>3. Before(m, <<next, pos>>)
    BY <2>0, Zenon DEF RewindInv
  <2>4. Ahead(q) \/ Len(topic[q]) = 0 \/ Before(LastOf(q), m)
    BY <1>0, <2>0 DEF Ahead
  <2>5. topic'[q] = Append(topic[q], m) /\ \A p \in Partition \ {q} : topic'[p] = topic[p]
    BY <2>1
  <2>6. Len(topic'[q]) = Len(topic[q]) + 1 /\ topic'[q][Len(topic[q]) + 1] = m
    BY <2>1, <2>5, SeqAppend
  <2>7. LastOf(q)' = m
    BY <2>6 DEF LastOf
  <2>8. ~Ahead(q)'
    <3>1. \A j \in 1..Len(queue') : queue'[j].part = q => Before(m, queue'[j].msg)
      BY <1>3, <2>2, Zenon
    <3> QED
      BY <1>0, <2>3, <2>7, <3>1, Zenon DEF Ahead
  <2>9. Cardinality(Rewinds(topic'[q]))
            = Cardinality(Rewinds(topic[q]))
                + (IF Len(topic[q]) > 0 /\ ~Before(LastOf(q), m) THEN 1 ELSE 0)
    BY <2>1, <2>5, Zenon DEF LastOf, Counting
  <2>10. Cardinality(Rewinds(topic[q])) + Credit(q) <= Faults
    BY <2>1, Zenon DEF RewindInv
  <2>11. Cardinality(Rewinds(topic'[q])) + Credit(q)' <= Faults'
    BY <1>0, <2>1, <2>4, <2>8, <2>9, <2>10 DEF Credit
  <2>12. ASSUME NEW p \in Partition
         PROVE  Cardinality(Rewinds(topic'[p])) + Credit(p)' <= Faults'
    BY <1>5, <2>5, <2>11, Zenon
  <2> QED
    BY <1>0, <1>3, <1>4, <2>12, Zenon DEF RewindInv
<1> QED
  BY <1>1, <1>6, <1>7, Zenon

(* A step of the pipeline.                                                 *)
LEMMA RewindStep ==
    ASSUME Counting, PipelineTypeOK, PipelineTypeOK', RewindInv, [PipelineNext]_pipelineVars
    PROVE  RewindInv'
<1>0. /\ TypeOK /\ TypeOK' /\ ChannelTypeOK /\ ChannelTypeOK' /\ next \in Nat /\ pos \in Nat
      /\ next' \in Nat /\ pos' \in Nat
  BY DEF PipelineTypeOK, TypeOK, StreamTypeOK
<1>1. /\ Faults' >= Faults
      /\ \A e \in {"exit", "error", "serverCrash", "publisherCrash"} :
             Spend(e) => Faults' = Faults + 1
  BY <1>0, FaultsGrow, PipelineStepOfWorker
<1>2. ASSUME UNCHANGED <<next, pos, up, queue, topic>>,
             Severed' => Severed \/ Faults' >= Faults + 1
      PROVE  RewindInv'
  BY <1>0, <1>1, <1>2, RewindGoesOn, Zenon DEF RewindInv
<1>3. CASE ProduceChange
  <2>1. /\ next \in Txns /\ pos \in 1..Len(wal[next]) /\ up /\ up' /\ next' = next
        /\ pos' = pos + 1 /\ UNCHANGED <<connected, used>>
    BY <1>3, ChangeStep DEF ProduceChange, ReceiveChange
  <2>2. <<next, pos>> \in Message
    BY <1>0, <2>1, ChangeIsMessage
  <2>3. CASE Accept(<<next, pos>>)
    <3>1. /\ topic' = topic
          /\ \E q \in Partition : queue' = Append(queue, [msg |-> <<next, pos>>, part |-> q])
      BY <2>3 DEF Accept
    <3> QED
      BY <1>0, <2>1, <2>2, <3>1, RewindAccept, Zenon
  <2>4. CASE Refuse(<<next, pos>>)
    <3>1. Before(<<next, pos>>, <<next', pos'>>)
      BY <1>0, <2>1 DEF Before
    <3> QED
      BY <1>0, <1>1, <2>1, <2>4, <3>1, RewindGoesOn DEF Refuse, Severed
  <2> QED
    BY <1>3, <2>3, <2>4 DEF ProduceChange
<1>4. CASE StartWorker /\ UNCHANGED channelVars
  <2>1. ~up /\ up' /\ next' \in 1..(Len(wal) + 1) /\ pos' = 0 /\ connected' /\ used' = used
    BY <1>4 DEF StartWorker
  <2>2. next = 1 /\ pos = 0
    BY <2>1 DEF RewindInv
  <2>3. <<next', pos'>> = <<next, pos>> \/ Before(<<next, pos>>, <<next', pos'>>)
    BY <1>0, <2>1, <2>2 DEF Before
  <2> QED
    BY <1>0, <1>1, <1>4, <2>1, <2>3, RewindGoesOn, Zenon DEF Severed, channelVars
<1>5. CASE PublisherCrash /\ UNCHANGED channelVars
  <2>1. Spend("publisherCrash") /\ UNCHANGED <<next, pos, up, queue, topic>>
    BY <1>5, Zenon DEF PublisherCrash, channelVars, workerVars
  <2>2. Faults \in Nat /\ Faults' = Faults + 1
    BY <1>0, <1>1, <2>1, RewindFacts
  <2> QED
    BY <1>2, <2>1, <2>2
<1>6. CASE /\ ReceiveBegin \/ SkipChange \/ ApplyTruncate \/ ReceiveCommit
           /\ UNCHANGED channelVars
  <2>1. /\ up /\ up' /\ connected' = connected
        /\ \/ next' = next /\ pos' = pos + 1
           \/ next' = next + 1 /\ pos' = 0
    <3>1. CASE ReceiveBegin
      BY <3>1 DEF ReceiveBegin
    <3>2. CASE SkipChange \/ ApplyTruncate
      <4>1. ReceiveChange
        BY <3>2, ChangeStep, Zenon
      <4> QED
        BY <4>1 DEF ReceiveChange
    <3>3. CASE ReceiveCommit
      BY <3>3 DEF ReceiveCommit
    <3> QED
      BY <1>6, <3>1, <3>2, <3>3
  <2>2. Before(<<next, pos>>, <<next', pos'>>)
    BY <1>0, <2>1 DEF Before
  <2> QED
    BY <1>0, <1>1, <1>6, <2>1, <2>2, RewindGoesOn, Zenon DEF Severed, channelVars
<1>7. CASE /\ \/ ReceiveKeepalive \/ EndOfRound \/ ConfirmReceived \/ SaveSlot
              \/ WalWriter \/ AlterSkip \/ Enable
           /\ UNCHANGED channelVars
  <2>1. UNCHANGED <<next, pos, up, connected>>
    BY <1>7, Zenon DEF ReceiveKeepalive, EndOfRound, ConfirmReceived, SaveSlot, WalWriter, AlterSkip,
                Enable, UserCommit, workerVars, streamVars
  <2> QED
    BY <1>2, <1>7, <2>1 DEF Severed, channelVars
<1>8. CASE WorkerEnds
  <2>1. queue' = <<>> /\ topic' = topic
    BY <1>8 DEF WorkerEnds, Destroy
  <2>2. ~up' /\ next' = 1 /\ pos' = 0
    BY <1>8, Zenon DEF WorkerEnds, WorkerExit, ConnectionLost, ServerCrash, ApplyError,
                StartApplyCatch, ProcessGone
  <2>3. Severed \/ \E e \in {"exit", "error", "serverCrash"} : Spend(e)
    BY <1>8 DEF WorkerEnds, WorkerExit, ConnectionLost, ServerCrash, ApplyError,
                StartApplyCatch, Severed
  <2>4. Severed \/ Faults' >= Faults + 1
    <3>1. Faults' \in Nat /\ Faults \in Nat
      BY <1>0 DEF TypeOK, HistoryTypeOK, Faults, Event
    <3> QED
      BY <1>1, <2>3, <3>1
  <2> QED
    BY <1>0, <1>1, <2>1, <2>2, <2>4, RewindEnds
<1>9. CASE Broker
  BY <1>0, <1>9, RewindBroker
<1>10. CASE UNCHANGED pipelineVars
  BY <1>2, <1>10
     DEF pipelineVars, vars, streamVars, workerVars, channelVars, Severed
<1> QED
  BY <1>3, <1>4, <1>5, <1>6, <1>7, <1>8, <1>9, <1>10 DEF PipelineNext, OtherWorkerStep

-----------------------------------------------------------------------------
(* Types                                                                   *)

(* What any step may do to the subscriber's server: a replication origin   *)
(* in db is an old one or the session's, a skip LSN an old one or one the  *)
(* user has asked for.                                                     *)
LEMMA ServerStep ==
    ASSUME TypeOK, [Next]_vars
    PROVE  /\ ServerTypeOK'
           /\ used' \in [Event -> Nat]
           /\ OriginsOf(db') \subseteq OriginsOf(db) \cup {session_origin_lsn, session_origin_lsn'}
           /\ SkipsOf(db') \subseteq SkipsOf(db) \cup {0} \cup requested'
<1>0. /\ db \in Seq(DbState) /\ Len(db) \in Nat \ {0} /\ local_flush \in 1..Len(db)
      /\ XactLastCommitEnd \in 0..Len(db)
      /\ used \in [Event -> Nat]
      /\ Now \in DbState /\ Now.origin \in OriginsOf(db) /\ Now.skip \in SkipsOf(db)
  BY NowFacts, LastState DEF TypeOK, ServerTypeOK, HistoryTypeOK, Now
<1> DEFINE Goal == /\ ServerTypeOK'
                   /\ used' \in [Event -> Nat]
                   /\ OriginsOf(db') \subseteq OriginsOf(db)
                                               \cup {session_origin_lsn, session_origin_lsn'}
                   /\ SkipsOf(db') \subseteq SkipsOf(db) \cup {0} \cup requested'
<1>1. ASSUME db' = db, local_flush' = local_flush, used' \in [Event -> Nat],
             XactLastCommitEnd' \in {0, XactLastCommitEnd}
      PROVE  Goal
  BY <1>0, <1>1 DEF ServerTypeOK
<1>2. ASSUME NEW e \in DbState, db' = Append(db, e), used' \in [Event -> Nat],
             e.origin = Now.origin, e.skip \in {Now.skip} \cup requested',
             local_flush' \in {local_flush, Len(db) + 1},
             XactLastCommitEnd' \in {0, XactLastCommitEnd}
      PROVE  Goal
  <2>1. /\ db' \in Seq(DbState) /\ Len(db') = Len(db) + 1
        /\ OriginsOf(db') = OriginsOf(db) \cup {e.origin}
        /\ SkipsOf(db') = SkipsOf(db) \cup {e.skip}
    BY <1>0, <1>2, AppendState
  <2>2. local_flush' \in 1..Len(db') /\ XactLastCommitEnd' \in 0..Len(db')
    BY <1>0, <1>2, <2>1
  <2> QED
    BY <1>0, <1>2, <2>1, <2>2 DEF ServerTypeOK
<1>3. CASE StartWorker \/ ConfirmReceived \/ SaveSlot \/ ReceiveBegin \/ SkipChange
             \/ ApplyDml \/ ApplyTruncate \/ ReceiveKeepalive
  <2>1. CASE StartWorker \/ ConfirmReceived \/ SaveSlot \/ ReceiveBegin \/ ReceiveKeepalive
    BY <1>0, <1>1, <2>1, Zenon
       DEF StartWorker, ConfirmReceived, SaveSlot, ReceiveBegin, ReceiveKeepalive, serverVars,
           workerVars
  <2>2. CASE SkipChange \/ ApplyDml \/ ApplyTruncate
    BY <1>0, <1>1, <2>2, ChangeStep, Zenon DEF ReceiveChange, serverVars
  <2> QED
    BY <1>3, <2>1, <2>2
<1>4. CASE WorkerExit
  <2>1. used' \in [Event -> Nat]
    BY <1>0, <1>4, SpendType, Zenon DEF WorkerExit, Event
  <2> QED
    BY <1>1, <1>4, <2>1 DEF WorkerExit, ProcessGone, serverVars
<1>5. CASE PublisherCrash
  <2>1. used' \in [Event -> Nat]
    BY <1>0, <1>5, SpendType, Zenon DEF PublisherCrash, Event
  <2> QED
    BY <1>1, <1>5, <2>1 DEF PublisherCrash, serverVars, workerVars
<1>6. ASSUME StartApplyCatch, used' \in [Event -> Nat] PROVE Goal
  <2>1. CASE DisableOnError
    <3>1. /\ [Now EXCEPT !.enabled = FALSE] \in DbState
          /\ [Now EXCEPT !.enabled = FALSE].origin = Now.origin
          /\ [Now EXCEPT !.enabled = FALSE].skip = Now.skip
      BY <1>0, Zenon DEF DbState
    <3> QED
      BY <1>2, <1>6, <2>1, <3>1, Zenon DEF StartApplyCatch, ProcessGone
  <2>2. CASE ~DisableOnError
    BY <1>1, <1>6, <2>2 DEF StartApplyCatch, ProcessGone
  <2> QED
    BY <2>1, <2>2
<1>7. CASE ConnectionLost
  <2>1. used' \in [Event -> Nat]
    BY <1>0, <1>7 DEF ConnectionLost
  <2>2. CASE StartApplyCatch
    BY <1>6, <2>1, <2>2
  <2>3. CASE ProcessGone /\ UNCHANGED serverVars
    BY <1>1, <2>1, <2>3 DEF ProcessGone, serverVars
  <2> QED
    BY <1>7, <2>2, <2>3 DEF ConnectionLost
<1>8. CASE ApplyError
  <2>1. used' \in [Event -> Nat]
    BY <1>0, <1>8, SpendType, Zenon DEF ApplyError, Event
  <2> QED
    BY <1>6, <1>8, <2>1 DEF ApplyError
<1>9. CASE ServerCrash
  <2>1. used' \in [Event -> Nat]
    BY <1>0, <1>9, SpendType, Zenon DEF ServerCrash, Event
  <2>2. /\ db' \in Seq(DbState) /\ Len(db') = local_flush
        /\ \A j \in 1..local_flush : db'[j] = db[j]
    <3>1. \A j \in 1..local_flush : db[j] \in DbState
      BY <1>0, SeqElement
    <3> QED
      BY <1>0, <1>9, <3>1, SeqSlice DEF ServerCrash, Surviving
  <2>3. OriginsOf(db') \subseteq OriginsOf(db) /\ SkipsOf(db') \subseteq SkipsOf(db)
    <3>1. \A j \in 1..Len(db') : j \in 1..Len(db) /\ db'[j] = db[j]
      BY <1>0, <2>2
    <3> QED
      BY <3>1 DEF OriginsOf, SkipsOf
  <2>4. ServerTypeOK'
    BY <1>0, <1>9, <2>2 DEF ServerTypeOK, ServerCrash, ProcessGone
  <2> QED
    BY <2>1, <2>3, <2>4
<1>10. CASE ReceiveCommit
  <2>1. next \in Nat \ {0} /\ EndLsn(next) \in Nat /\ session_origin_lsn \in Nat
    <3>1. next \in Txns
      BY <1>10 DEF ReceiveCommit
    <3>2. StreamTypeOK /\ session_origin_lsn \in Nat
      BY DEF TypeOK, WorkerTypeOK
    <3>3. next \in Nat \ {0}
      BY <3>1, <3>2, WalFacts
    <3> QED
      BY <3>2, <3>3 DEF EndLsn
  <2>2. CASE CommitLocal
    <3> DEFINE base == CommitBase(next)
    <3>1. /\ base \in Seq(DbState) /\ Len(base) >= Len(db)
          /\ OriginsOf(base) \subseteq OriginsOf(db) \cup {EndLsn(next)}
          /\ SkipsOf(base) \subseteq SkipsOf(db) \cup {0}
      BY <2>1, CommitStep DEF TypeOK
    <3>2. ProcessSyncingTables(base, EndLsn(next)) /\ session_origin_lsn' = EndLsn(next)
      BY <2>2 DEF CommitLocal
    <3> HIDE DEF base
    <3>3. /\ db' \in Seq(DbState) /\ Len(db') >= Len(base)
          /\ XactLastCommitEnd' \in 0..Len(db')
          /\ used' \in [Event -> Nat]
          /\ OriginsOf(db') \subseteq OriginsOf(base) \cup {EndLsn(next)}
          /\ SkipsOf(db') \subseteq SkipsOf(base)
      BY <1>0, <2>1, <3>1, <3>2, SyncStep DEF TypeOK
    <3>4. local_flush' \in 1..Len(db')
      <4>1. local_flush' = local_flush
        BY <1>10 DEF ReceiveCommit
      <4>2. Len(base) \in Nat /\ Len(db') \in Nat
        BY <3>1, <3>3, SeqLength
      <4> QED
        BY <1>0, <3>1, <3>3, <4>1, <4>2
    <3> QED
      BY <3>1, <3>2, <3>3, <3>4 DEF ServerTypeOK
  <2>3. CASE CommitEmpty
    <3>1. ProcessSyncingTables(db, session_origin_lsn) /\ local_flush' = local_flush
      BY <1>10, <2>3 DEF CommitEmpty, ReceiveCommit
    <3>2. /\ db' \in Seq(DbState) /\ Len(db') >= Len(db)
          /\ XactLastCommitEnd' \in 0..Len(db')
          /\ used' \in [Event -> Nat]
          /\ OriginsOf(db') \subseteq OriginsOf(db) \cup {session_origin_lsn}
          /\ SkipsOf(db') \subseteq SkipsOf(db)
      BY <1>0, <2>1, <3>1, SyncStep DEF TypeOK
    <3>3. local_flush' \in 1..Len(db')
      BY <1>0, <3>1, <3>2, SeqLength
    <3> QED
      BY <3>2, <3>3 DEF ServerTypeOK
  <2> QED
    BY <1>10, <2>2, <2>3 DEF ReceiveCommit
<1>11. CASE EndOfRound
  <2>1. CASE ProcessSyncingTables(db, session_origin_lsn)
    <3>1. session_origin_lsn \in Nat
      BY DEF TypeOK, WorkerTypeOK
    <3>2. /\ db' \in Seq(DbState) /\ Len(db') >= Len(db)
          /\ XactLastCommitEnd' \in 0..Len(db')
          /\ used' \in [Event -> Nat]
          /\ OriginsOf(db') \subseteq OriginsOf(db) \cup {session_origin_lsn}
          /\ SkipsOf(db') \subseteq SkipsOf(db)
      BY <1>0, <2>1, <3>1, SyncStep DEF TypeOK
    <3>3. local_flush' \in 1..Len(db')
      <4>1. local_flush' = local_flush
        BY <1>11 DEF EndOfRound
      <4> QED
        BY <1>0, <3>2, <4>1, SeqLength
    <3> QED
      BY <3>2, <3>3 DEF ServerTypeOK
  <2>2. CASE UNCHANGED <<my_skiplsn, db, XactLastCommitEnd, used>>
    BY <1>0, <1>1, <1>11, <2>2 DEF EndOfRound
  <2> QED
    BY <1>11, <2>1, <2>2 DEF EndOfRound
<1>12. CASE WalWriter
  <2>1. UNCHANGED <<db, used, XactLastCommitEnd>> /\ local_flush' \in (local_flush + 1)..Len(db)
    BY <1>12 DEF WalWriter, workerVars
  <2>2. ServerTypeOK'
    BY <1>0, <2>1 DEF ServerTypeOK
  <2> QED
    BY <1>0, <2>1, <2>2
<1>13. CASE AlterSkip
  <2>1. PICK lsn \in {0} \cup {CommitLsn(i) : i \in Txns} :
            /\ Spend("alterSkip")
            /\ UserCommit([Now EXCEPT !.skip = lsn])
            /\ requested' = requested \cup {lsn}
    BY <1>13 DEF AlterSkip
  <2>2. lsn \in Nat
    BY <2>1, WalFacts DEF TypeOK, CommitLsn
  <2> DEFINE e == [Now EXCEPT !.skip = lsn]
  <2>3. e \in DbState /\ e.origin = Now.origin /\ e.skip = lsn
    BY <1>0, <2>2, Zenon DEF DbState
  <2>4. used' \in [Event -> Nat]
    BY <1>0, <2>1, SpendType, Zenon DEF Event
  <2>5. /\ db' = Append(db, e) /\ local_flush' = Len(db) + 1
        /\ XactLastCommitEnd' = XactLastCommitEnd
    BY <2>1 DEF UserCommit, workerVars
  <2>6. e.skip \in {Now.skip} \cup requested'
    BY <2>1, <2>3
  <2> HIDE DEF e
  <2> QED
    BY <1>2, <2>3, <2>4, <2>5, <2>6
<1>14. CASE Enable
  <2>1. /\ [Now EXCEPT !.enabled = TRUE] \in DbState
        /\ [Now EXCEPT !.enabled = TRUE].origin = Now.origin
        /\ [Now EXCEPT !.enabled = TRUE].skip = Now.skip
    BY <1>0, Zenon DEF DbState
  <2> QED
    BY <1>0, <1>2, <1>14, <2>1, Zenon DEF Enable, UserCommit, workerVars
<1>15. CASE UNCHANGED vars
  BY <1>0, <1>1, <1>15 DEF vars, serverVars, workerVars
<1> QED
  BY <1>3, <1>4, <1>5, <1>7, <1>8, <1>9, <1>10, <1>11, <1>12, <1>13, <1>14, <1>15, Zenon
     DEF Next, Receive

-----------------------------------------------------------------------------
(* Type correctness                                                        *)

(* Feedback keeps the types of what it changes.                            *)
LEMMA FeedbackType ==
    ASSUME TypeOK, NEW recvpos \in Nat, SendFeedback(recvpos)
    PROVE  /\ lsn_mapping' \in Seq(FlushPosition)
           /\ last_flushpos' \in Nat /\ fb' \in Nat
<1>1. /\ lsn_mapping \in Seq(FlushPosition) /\ Len(lsn_mapping) \in Nat
      /\ last_flushpos \in Nat /\ fb \in Nat
  BY SeqLength DEF TypeOK, WorkerTypeOK, StreamTypeOK
<1>2. PICK n \in 0..Len(lsn_mapping) :
          /\ lsn_mapping' = SubSeq(lsn_mapping, n + 1, Len(lsn_mapping))
          /\ last_flushpos' = Later(last_flushpos, FlushPos(n, recvpos))
          /\ fb' = IF connected THEN last_flushpos' ELSE fb
  BY DEF SendFeedback
<1>3. \A j \in 1..Len(lsn_mapping) : lsn_mapping[j] \in FlushPosition
  BY <1>1, SeqElement
<1>5. lsn_mapping' \in Seq(FlushPosition)
  BY <1>1, <1>2, SeqDrop, Zenon
<1>6. FlushPos(n, recvpos) \in Nat
  BY <1>1, <1>3 DEF FlushPos, FlushPosition
<1> QED
  BY <1>1, <1>2, <1>5, <1>6, LaterNat, Zenon

(* Every variable of the apply worker, the publisher's slot and the        *)
(* subscriber's server keeps its type; in particular the walsender never   *)
(* runs past the transaction it is sending.                                *)
THEOREM TypeCorrect == Spec => []TypeOK
<1>1. Init => TypeOK
  <2> SUFFICES ASSUME Init PROVE TypeOK
    OBVIOUS
  <2>1. StreamTypeOK
    <3>1. wal \in Seq(Seq(ChangeKind))
      BY ApplyAssumption DEF Init
    <3>2. Len(wal) \in Nat /\ \A i \in 1..Len(wal) : Len(wal[i]) \in Nat
      BY <3>1, SeqLength, SeqElement
    <3>3. 1 \in 1..(Len(wal) + 1) /\ 1 \in Txns => 0 <= Len(wal[1]) + 1
      BY <3>2 DEF Txns
    <3>4. connected \in BOOLEAN
      BY Zenon DEF Init
    <3> QED
      BY <3>2, <3>3, <3>4 DEF Init, StreamTypeOK
  <2>2. WorkerTypeOK
    <3>1. up \in BOOLEAN /\ local_xact \in BOOLEAN /\ has_xid \in BOOLEAN /\ skipping \in BOOLEAN
      BY Zenon DEF Init
    <3> QED
      BY <3>1, SeqEmpty DEF Init, WorkerTypeOK
  <2>3. ServerTypeOK
    <3> DEFINE d == [origin |-> 0, skip |-> 0, enabled |-> TRUE]
    <3>1. d \in DbState
      BY DEF DbState
    <3>2. db = <<d>> /\ local_flush = 1 /\ XactLastCommitEnd = 0
      BY DEF Init
    <3> HIDE DEF d
    <3> QED
      BY <3>1, <3>2 DEF ServerTypeOK
  <2>4. HistoryTypeOK
    BY DEF Init, HistoryTypeOK
  <2> QED
    BY <2>1, <2>2, <2>3, <2>4 DEF TypeOK
<1>2. TypeOK /\ [Next]_vars => TypeOK'
  <2> SUFFICES ASSUME TypeOK, [Next]_vars PROVE StreamTypeOK' /\ WorkerTypeOK' /\ HistoryTypeOK'
    BY ServerStep DEF TypeOK
  <2> USE DEF TypeOK
  <2>0. /\ Len(wal) \in Nat
        /\ \A i \in Txns : i \in Nat \ {0} /\ Len(wal[i]) \in Nat
        /\ Now.origin \in Nat /\ Now.skip \in Nat
        /\ used' \in [Event -> Nat]
        /\ \A i \in Txns : FirstLsn(i) \in Nat /\ CommitLsn(i) \in Nat /\ EndLsn(i) \in Nat
    <3>1. \A i \in Txns : FirstLsn(i) \in Nat /\ CommitLsn(i) \in Nat /\ EndLsn(i) \in Nat
      BY WalFacts DEF FirstLsn, CommitLsn, EndLsn
    <3> QED
      BY <3>1, WalFacts, NowFacts, ServerStep
  <2>1. ASSUME ProcessGone, UNCHANGED <<publisherVars, historyVars>>, fb' = fb
        PROVE  StreamTypeOK' /\ WorkerTypeOK' /\ HistoryTypeOK'
    <3>1. (up \in BOOLEAN /\ local_xact \in BOOLEAN /\ has_xid \in BOOLEAN
             /\ skipping \in BOOLEAN /\ connected \in BOOLEAN)'
      BY <2>1, Zenon DEF ProcessGone
    <3>2. WorkerTypeOK'
      BY <2>1, <3>1, SeqEmpty DEF ProcessGone, WorkerTypeOK
    <3>3. StreamTypeOK'
      BY <2>0, <2>1, <3>1, SMTT(20) DEF ProcessGone, StreamTypeOK, publisherVars, Txns
    <3> QED
      BY <2>0, <2>1, <3>2, <3>3 DEF HistoryTypeOK, historyVars
  <2>2. CASE StartWorker
    <3>1. up' \in BOOLEAN /\ connected' \in BOOLEAN
      BY <2>2 DEF StartWorker
    <3>2. next' \in Txns => pos' <= Len(wal[next']) + 1
      BY <2>0, <2>2 DEF StartWorker
    <3>3. StreamTypeOK'
      BY <2>2, <3>1, <3>2 DEF StartWorker, StreamTypeOK, publisherVars, Txns
    <3>4. WorkerTypeOK'
      BY <2>0, <2>2, <3>1 DEF StartWorker, WorkerTypeOK, xactVars, feedbackVars
    <3> QED
      BY <2>0, <2>2, <3>3, <3>4 DEF StartWorker, HistoryTypeOK, historyVars
  <2>3. CASE WorkerExit \/ ConnectionLost \/ ServerCrash \/ ApplyError
    BY <2>1, <2>3 DEF WorkerExit, ConnectionLost, ServerCrash, ApplyError, StartApplyCatch
  <2>4. CASE PublisherCrash
    <3>1. connected' \in BOOLEAN
      BY <2>4, Zenon DEF PublisherCrash
    <3>2. StreamTypeOK'
      BY <2>4, <3>1 DEF PublisherCrash, StreamTypeOK, Txns
    <3>3. WorkerTypeOK'
      BY <2>4 DEF PublisherCrash, WorkerTypeOK, xactVars, feedbackVars, workerVars
    <3> QED
      BY <2>0, <2>4, <3>2, <3>3 DEF PublisherCrash, HistoryTypeOK, historyVars
  <2>5. CASE ConfirmReceived
    <3>1. confirmed' \in Nat /\ acked' \in Nat
      BY <2>5, LaterNat, Zenon DEF ConfirmReceived, StreamTypeOK
    <3>2. StreamTypeOK'
      BY <2>5, <3>1 DEF ConfirmReceived, StreamTypeOK, Txns
    <3>3. WorkerTypeOK'
      BY <2>5 DEF ConfirmReceived, WorkerTypeOK, xactVars, feedbackVars, workerVars
    <3> QED
      BY <2>0, <2>5, <3>2, <3>3 DEF ConfirmReceived, HistoryTypeOK, historyVars
  <2>6. CASE SaveSlot
    BY <2>0, <2>6, Zenon
       DEF SaveSlot, StreamTypeOK, WorkerTypeOK, HistoryTypeOK, streamVars, xactVars,
           feedbackVars, workerVars, historyVars, Txns
  <2>7. CASE ReceiveBegin
    <3>1. skipping' \in BOOLEAN
      BY <2>7 DEF ReceiveBegin, StartsSkipping
    <3>2. last_received' \in Nat
      BY <2>0, <2>7, LaterNat, Zenon DEF ReceiveBegin, Received, WorkerTypeOK
    <3>3. pos' = 1 /\ 1 <= Len(wal[next]) + 1 /\ next' = next /\ next \in Txns
      BY <2>0, <2>7 DEF ReceiveBegin
    <3>4. StreamTypeOK'
      BY <2>7, <3>3 DEF ReceiveBegin, StreamTypeOK, publisherVars, Txns
    <3>5. WorkerTypeOK'
      BY <2>7, <3>1, <3>2 DEF ReceiveBegin, WorkerTypeOK, feedbackVars
    <3> QED
      BY <2>0, <2>7, <3>4, <3>5 DEF ReceiveBegin, HistoryTypeOK, historyVars
  <2>8. CASE SkipChange \/ ApplyDml \/ ApplyTruncate
    <3>1. ReceiveChange
      BY <2>8, ChangeStep, Zenon
    <3>2. last_received' \in Nat
      BY <2>0, <3>1, LaterNat, Zenon DEF ReceiveChange, Received, WorkerTypeOK
    <3>3. local_xact' \in BOOLEAN /\ has_xid' \in BOOLEAN
      BY <2>0, <2>8, ChangeStep, Zenon DEF WorkerTypeOK
    <3>4. my_skiplsn' \in Nat /\ handed' \subseteq Nat \X Nat
      <4>1. my_skiplsn \in Nat /\ Now.skip \in Nat /\ handed \subseteq Nat \X Nat
        BY <2>0 DEF WorkerTypeOK, HistoryTypeOK
      <4>2. next \in Nat /\ pos \in Nat
        BY <2>0 DEF StreamTypeOK
      <4>3. handed \cup {<<next, pos>>} \subseteq Nat \X Nat
        BY <4>1, <4>2
      <4>4. /\ my_skiplsn' \in {my_skiplsn, Now.skip}
            /\ handed' \in {handed, handed \cup {<<next, pos>>}}
        BY <2>8, ChangeStep, Zenon
      <4> QED
        BY <4>1, <4>3, <4>4
    <3>5. StreamTypeOK'
      BY <2>0, <3>1, SMTT(20) DEF ReceiveChange, StreamTypeOK, publisherVars, Txns
    <3> QED
      BY <2>0, <3>1, <3>2, <3>3, <3>4, <3>5, Zenon
         DEF ReceiveChange, WorkerTypeOK, HistoryTypeOK, feedbackVars
  <2>9. CASE ReceiveCommit
    <3>1. EndLsn(next) \in Nat /\ next \in Txns
      BY <2>0, <2>9 DEF ReceiveCommit
    <3>2. last_received' \in Nat
      BY <2>9, <3>1, LaterNat DEF ReceiveCommit, Received, WorkerTypeOK
    <3>3. (local_xact \in BOOLEAN /\ has_xid \in BOOLEAN /\ skipping \in BOOLEAN)'
      BY <2>9, Zenon DEF ReceiveCommit
    <3>4. StreamTypeOK'
      BY <2>0, <2>9, SMTT(20) DEF ReceiveCommit, StreamTypeOK, publisherVars, Txns
    <3>5. CASE CommitLocal
      <4>1. [remote_end |-> EndLsn(next),
             local_end |-> IF CommitBase(next) = db THEN XactLastCommitEnd ELSE Len(db) + 1]
               \in FlushPosition
        BY <3>1, NowFacts DEF FlushPosition, ServerTypeOK
      <4>2. lsn_mapping' \in Seq(FlushPosition)
        BY <3>5, <4>1, SeqAppend, Zenon DEF CommitLocal, WorkerTypeOK
      <4>3. WorkerTypeOK'
        BY <2>9, <3>1, <3>2, <3>3, <3>5, <4>2 DEF CommitLocal, ReceiveCommit, WorkerTypeOK
      <4>4. skipped' \subseteq Nat
        BY <2>0, <3>1, <3>5, Zenon DEF CommitLocal, HistoryTypeOK
      <4> QED
        BY <2>0, <2>9, <3>4, <4>3, <4>4, Zenon DEF ReceiveCommit, HistoryTypeOK
    <3>6. CASE CommitEmpty
      BY <2>0, <2>9, <3>2, <3>3, <3>4, <3>6, Zenon
         DEF CommitEmpty, ReceiveCommit, WorkerTypeOK, HistoryTypeOK
    <3> QED
      BY <2>9, <3>5, <3>6 DEF ReceiveCommit
  <2>10. CASE ReceiveKeepalive
    <3>1. PICK lsn \in SentPtr : Received(lsn) /\ SendFeedback(Later(last_received, lsn))
      BY <2>10 DEF ReceiveKeepalive
    <3>2. lsn \in Nat
      BY <2>0 DEF SentPtr, EndLsn
    <3>3. Later(last_received, lsn) \in Nat
      BY <3>2, LaterNat, Zenon DEF WorkerTypeOK
    <3>4. lsn_mapping' \in Seq(FlushPosition) /\ last_flushpos' \in Nat /\ fb' \in Nat
      BY <3>1, <3>3, FeedbackType
    <3> QED
      BY <2>0, <2>10, <3>1, <3>3, <3>4, Zenon
         DEF ReceiveKeepalive, Received, StreamTypeOK, WorkerTypeOK, HistoryTypeOK,
             publisherVars, xactVars, historyVars, Txns
  <2>11. CASE EndOfRound
    <3>1. lsn_mapping' \in Seq(FlushPosition) /\ last_flushpos' \in Nat /\ fb' \in Nat
      BY <2>11, FeedbackType DEF EndOfRound, WorkerTypeOK
    <3>2. my_skiplsn' \in Nat
      BY <2>0, <2>11 DEF EndOfRound, WorkerTypeOK
    <3> QED
      BY <2>0, <2>11, <3>1, <3>2, Zenon
         DEF EndOfRound, StreamTypeOK, WorkerTypeOK, HistoryTypeOK, publisherVars, xactVars,
             historyVars, Txns
  <2>12. CASE WalWriter
    BY <2>0, <2>12, Zenon
       DEF WalWriter, StreamTypeOK, WorkerTypeOK, HistoryTypeOK, publisherVars, streamVars,
           xactVars, feedbackVars, workerVars, historyVars, Txns
  <2>13. CASE AlterSkip \/ Enable
    <3>1. requested' \subseteq Nat
      <4>1. CASE AlterSkip
        <5>1. PICK lsn \in {0} \cup {CommitLsn(i) : i \in Txns} :
                  requested' = requested \cup {lsn}
          BY <4>1 DEF AlterSkip
        <5>2. lsn \in Nat
          BY <2>0
        <5> QED
          BY <5>1, <5>2 DEF HistoryTypeOK
      <4>2. CASE Enable
        BY <4>2 DEF Enable, HistoryTypeOK
      <4> QED
        BY <2>13, <4>1, <4>2
    <3>2. \E d : UserCommit(d)
      BY <2>13, Zenon DEF AlterSkip, Enable
    <3> QED
      BY <2>0, <3>1, <3>2, Zenon
         DEF UserCommit, StreamTypeOK, WorkerTypeOK, HistoryTypeOK, publisherVars, streamVars,
             xactVars, feedbackVars, workerVars, Txns
  <2>14. CASE UNCHANGED vars
    BY <2>0, <2>14, Zenon
       DEF vars, StreamTypeOK, WorkerTypeOK, HistoryTypeOK, publisherVars, streamVars, xactVars,
           feedbackVars, workerVars, historyVars, Txns
  <2> QED
    BY <2>2, <2>3, <2>4, <2>5, <2>6, <2>7, <2>8, <2>9, <2>10, <2>11, <2>12, <2>13, <2>14
       DEF Next, Receive
<1> QED
  BY <1>1, <1>2, PTL DEF Spec

-----------------------------------------------------------------------------
(* The inductive invariant.                                                *)

RemoteEnds(m) == {m[j].remote_end : j \in 1..Len(m)}

(* Every position from which replication may resume, or that a later step  *)
(* may turn into one.                                                      *)
Positions ==
    {confirmed, confirmed_disk, fb, last_flushpos, last_received, session_origin_lsn}
        \cup RemoteEnds(lsn_mapping) \cup OriginsOf(db)

HandledBefore(p) == \A i \in Txns : CommitLsn(i) < p => Handled(i)

(* The worker has handled what was sent to it, up to the change it is at.  *)
StreamHandled ==
    /\ \A i \in Txns : i < next => Handled(i)
    /\ pos > 0 => skipping \/ \A k \in Dml(next) : k < pos => <<next, k>> \in handed

SafePositions == \A p \in Positions : HandledBefore(p)

(* A process that is gone has left nothing behind.                         *)
GoneIsGone == ~up => ~skipping /\ lsn_mapping = <<>> /\ last_flushpos = 0

(* The order of the positions the worker keeps.                            *)
FeedbackOrder ==
    /\ last_flushpos <= last_received
    /\ next \in Txns => last_received <= CommitLsn(next)
    /\ \A j \in 1..Len(lsn_mapping) :
           /\ last_flushpos < lsn_mapping[j].remote_end
           /\ lsn_mapping[j].remote_end <= last_received
           /\ lsn_mapping[j].remote_end < EndLsn(next)
           /\ \A k \in 1..(j - 1) : lsn_mapping[k].remote_end < lsn_mapping[j].remote_end

(* Every skip LSN in sight was asked for.                                  *)
SkipsRequested ==
    /\ {my_skiplsn} \cup SkipsOf(db) \subseteq {0} \cup requested
    /\ skipping => CommitLsn(next) \in requested

IInv == /\ TypeOK /\ StreamHandled /\ SafePositions
        /\ GoneIsGone /\ FeedbackOrder /\ SkipsRequested

-----------------------------------------------------------------------------
(* What a step does to the history                                         *)

(* The worker's history only grows, and the publisher's WAL is given.      *)
LEMMA HistoryGrows ==
    ASSUME [Next]_vars
    PROVE  wal' = wal /\ handed \subseteq handed' /\ skipped \subseteq skipped'
                      /\ requested \subseteq requested'
<1>1. CASE StartWorker \/ WorkerExit \/ ConnectionLost \/ ServerCrash \/ PublisherCrash
           \/ ApplyError
  BY <1>1 DEF StartWorker, WorkerExit, ConnectionLost, ServerCrash, PublisherCrash, ApplyError,
              StartApplyCatch, publisherVars, historyVars
<1>2. CASE Receive
  <2>1. CASE SkipChange \/ ApplyDml \/ ApplyTruncate
    BY <2>1, ChangeStep, Zenon DEF ReceiveChange, publisherVars
  <2>2. CASE ReceiveBegin
    BY <2>2 DEF ReceiveBegin, publisherVars, historyVars
  <2>3. CASE ReceiveCommit
    BY <2>3 DEF ReceiveCommit, CommitLocal, CommitEmpty, publisherVars, historyVars
  <2> QED
    BY <1>2, <2>1, <2>2, <2>3 DEF Receive
<1>3. CASE ReceiveKeepalive \/ EndOfRound \/ ConfirmReceived \/ SaveSlot
  BY <1>3 DEF ReceiveKeepalive, EndOfRound, ConfirmReceived, SaveSlot, publisherVars, historyVars
<1>4. CASE WalWriter \/ AlterSkip \/ Enable
  BY <1>4, Zenon DEF WalWriter, AlterSkip, Enable, UserCommit, publisherVars, historyVars
<1>5. CASE UNCHANGED vars
  BY <1>5 DEF vars, publisherVars, historyVars
<1> QED
  BY <1>1, <1>2, <1>3, <1>4, <1>5, Zenon DEF Next

(* What is handled stays handled.                                          *)
LEMMA HandledGrows ==
    ASSUME [Next]_vars
    PROVE  /\ Txns' = Txns
           /\ \A i : Handled(i) => Handled(i)'
           /\ \A p : HandledBefore(p) => (\A i \in Txns' : CommitLsn(i) < p => Handled(i)')
BY HistoryGrows DEF Handled, HandledBefore, Txns, Dml

(* What the worker has handled covers every position the stream has        *)
(* reached: nothing at or before the next commit record is unhandled.      *)
LEMMA StreamPosition ==
    ASSUME TypeOK, StreamHandled, NEW p \in Nat, next \in Txns => p <= CommitLsn(next)
    PROVE  HandledBefore(p)
<1>1. Len(wal) \in Nat /\ next \in 1..(Len(wal) + 1)
  BY WalFacts DEF TypeOK, StreamTypeOK
<1>2. ASSUME NEW i \in Txns, CommitLsn(i) < p
      PROVE  i < next
  BY <1>1, <1>2 DEF Txns, CommitLsn
<1> QED
  BY <1>2 DEF HandledBefore, StreamHandled

(* When its COMMIT arrives a transaction has been handled.                 *)
LEMMA HandledAtCommit ==
    ASSUME IInv, ReceiveCommit, NEW i \in Txns, i = next
    PROVE  Handled(i)'
<1>1. CASE skipping
  BY <1>1 DEF ReceiveCommit, CommitLocal, CommitEmpty, Handled
<1>2. CASE ~skipping
  <2>1. next \in Txns /\ pos = Len(wal[next]) + 1 /\ Len(wal[next]) \in Nat /\ pos > 0
    BY WalFacts DEF ReceiveCommit, IInv, TypeOK
  <2>2. \A k \in Dml(next) : <<next, k>> \in handed
    BY <1>2, <2>1 DEF IInv, StreamHandled, Dml
  <2>3. handed' = handed /\ wal' = wal
    BY DEF ReceiveCommit, publisherVars
  <2> QED
    BY <2>2, <2>3 DEF Handled, Dml
<1> QED
  BY <1>1, <1>2

(* A step keeps StreamHandled: what the walsender is past is handled.      *)
LEMMA StreamHandledStep ==
    ASSUME IInv, [Next]_vars
    PROVE  StreamHandled'
<1> USE DEF IInv
<1>0. /\ Len(wal) \in Nat /\ next \in Nat \ {0} /\ pos \in Nat
      /\ \A i \in Txns : i \in Nat \ {0} /\ Len(wal[i]) \in Nat
      /\ \A i : Dml(i) \subseteq Nat \ {0}
      /\ Txns' = Txns /\ wal' = wal /\ handed \subseteq handed'
  BY WalFacts, HandledGrows, HistoryGrows DEF TypeOK, StreamTypeOK, Dml
<1>1. \A i \in Txns : i < next => Handled(i)'
  BY HandledGrows DEF StreamHandled
<1>2. CASE WorkerExit \/ ConnectionLost \/ ServerCrash \/ ApplyError
  <2>1. next' = 1 /\ pos' = 0
    BY <1>2 DEF WorkerExit, ConnectionLost, ServerCrash, ApplyError, StartApplyCatch, ProcessGone
  <2> QED
    BY <1>0, <2>1 DEF StreamHandled
<1>3. CASE StartWorker
  <2>1. pos' = 0
    BY <1>3, Zenon DEF StartWorker
  <2>2. Now.origin \in Positions /\ confirmed \in Positions
    BY NowFacts, LastState DEF Positions, TypeOK, ServerTypeOK, Now
  <2>3. ASSUME NEW i \in Txns, i < next' PROVE Handled(i)'
    <3>1. CommitLsn(i) < StartDecodingAt(Now.origin)
      BY <1>3, <2>3 DEF StartWorker, XactNeedsSkip
    <3>2. Handled(i)
      BY <2>2, <3>1 DEF StartDecodingAt, SafePositions, HandledBefore
    <3> QED
      BY <3>2, HandledGrows
  <2> QED
    BY <1>0, <2>1, <2>3 DEF StreamHandled
<1>4. CASE ReceiveBegin
  <2>1. next' = next /\ pos' = 1
    BY <1>4 DEF ReceiveBegin
  <2>2. \A k \in Dml(next)' : ~(k < pos')
    BY <1>0, <2>1 DEF Dml
  <2> QED
    BY <1>0, <1>1, <2>1, <2>2 DEF StreamHandled
<1>5. CASE SkipChange
  <2>1. next' = next /\ skipping'
    BY <1>5 DEF SkipChange, ReceiveChange
  <2> QED
    BY <1>0, <1>1, <2>1 DEF StreamHandled
<1>6. CASE ApplyDml \/ ApplyTruncate
  <2>1. next' = next /\ pos' = pos + 1 /\ pos > 0 /\ ~skipping
    <3>1. ReceiveChange
      BY <1>6, ChangeStep, Zenon
    <3>2. ~skipping
      BY <1>6, Zenon DEF ApplyDml, ApplyInsert, ApplyUpdate, ApplyDelete, SendRow, ApplyTruncate
    <3> QED
      BY <1>0, <3>1, <3>2 DEF ReceiveChange
  <2>2. pos \in Dml(next) => <<next, pos>> \in handed'
    BY <1>6 DEF ApplyDml, ApplyInsert, ApplyUpdate, ApplyDelete, SendRow, ApplyTruncate, Dml
  <2>3. \A k \in Dml(next) : k < pos => <<next, k>> \in handed'
    BY <1>0, <2>1 DEF StreamHandled
  <2>4. \A k \in Dml(next) : k < pos + 1 => k < pos \/ k = pos
    BY <1>0
  <2>5. \A k \in Dml(next)' : k < pos' => <<next', k>> \in handed'
    BY <1>0, <2>1, <2>2, <2>3, <2>4 DEF Dml
  <2> QED
    BY <1>0, <1>1, <2>1, <2>5 DEF StreamHandled
<1>7. CASE ReceiveCommit
  <2>1. next' = next + 1 /\ pos' = 0
    BY <1>7 DEF ReceiveCommit
  <2>2. \A i \in Txns : i = next => Handled(i)'
    BY <1>7, HandledAtCommit
  <2>3. \A i \in Txns : i < next' => i < next \/ i = next
    BY <1>0, <2>1
  <2>4. \A i \in Txns' : i < next' => Handled(i)'
    BY <1>0, <1>1, <2>2, <2>3
  <2> QED
    BY <2>1, <2>4 DEF StreamHandled
<1>8. ASSUME next' = next, pos' = pos, skipping' = skipping
      PROVE  StreamHandled'
  BY <1>0, <1>1, <1>8, Zenon DEF StreamHandled, Dml
<1>9. CASE PublisherCrash \/ ReceiveKeepalive \/ EndOfRound \/ ConfirmReceived \/ SaveSlot
  BY <1>8, <1>9 DEF PublisherCrash, ReceiveKeepalive, EndOfRound, ConfirmReceived, SaveSlot,
                    streamVars, xactVars
<1>10. CASE WalWriter \/ AlterSkip \/ Enable \/ UNCHANGED vars
  BY <1>8, <1>10, Zenon DEF WalWriter, AlterSkip, Enable, UserCommit, vars, streamVars, xactVars
<1> QED
  BY <1>2, <1>3, <1>4, <1>5, <1>6, <1>7, <1>9, <1>10, Zenon DEF Next, Receive

(* send_feedback() reports the received position, the end of a flushed     *)
(* transaction or what it reported before, and only shortens lsn_mapping.  *)
LEMMA FeedbackPositions ==
    ASSUME TypeOK, NEW recvpos \in Nat, SendFeedback(recvpos)
    PROVE  /\ RemoteEnds(lsn_mapping') \subseteq RemoteEnds(lsn_mapping)
           /\ last_flushpos' \in {last_flushpos, recvpos, 0} \cup RemoteEnds(lsn_mapping)
           /\ fb' \in {fb, last_flushpos'}
<1>1. lsn_mapping \in Seq(FlushPosition) /\ Len(lsn_mapping) \in Nat
  BY SeqLength DEF TypeOK, WorkerTypeOK
<1>2. PICK n \in 0..Len(lsn_mapping) :
          /\ lsn_mapping' = SubSeq(lsn_mapping, n + 1, Len(lsn_mapping))
          /\ last_flushpos' = Later(last_flushpos, FlushPos(n, recvpos))
          /\ fb' = IF connected THEN last_flushpos' ELSE fb
  BY DEF SendFeedback
<1>3. \A j \in 1..Len(lsn_mapping) : lsn_mapping[j] \in FlushPosition
  BY <1>1, SeqElement, Zenon
<1>5. /\ Len(lsn_mapping') = Len(lsn_mapping) - n
      /\ \A j \in 1..Len(lsn_mapping') : lsn_mapping'[j] = lsn_mapping[n + j]
  BY <1>1, <1>2, SeqDrop
<1>6. \A j \in 1..Len(lsn_mapping') : n + j \in 1..Len(lsn_mapping)
  BY <1>1, <1>2, SeqDrop, Zenon
<1>7. RemoteEnds(lsn_mapping') \subseteq RemoteEnds(lsn_mapping)
  BY <1>5, <1>6, Zenon DEF RemoteEnds
<1>8. FlushPos(n, recvpos) \in {recvpos, 0} \cup RemoteEnds(lsn_mapping)
  <2>1. CASE n \in 1..Len(lsn_mapping)
    BY <2>1 DEF FlushPos, RemoteEnds
  <2>2. CASE n = 0
    BY <2>2 DEF FlushPos
  <2> QED
    BY <1>1, <2>1, <2>2
<1> QED
  BY <1>2, <1>7, <1>8 DEF Later

(* A step makes no position but those the stream has reached and, at a     *)
(* COMMIT, the end of that transaction.                                    *)
LEMMA PositionsStep ==
    ASSUME IInv, [Next]_vars
    PROVE  \A p \in Positions' :
               \/ p \in Positions
               \/ p \in Nat /\ (next \in Txns => p <= CommitLsn(next))
               \/ ReceiveCommit /\ p = EndLsn(next)
<1> DEFINE Reached == {p \in Nat : next \in Txns => p <= CommitLsn(next)}
           Ended == {p \in {EndLsn(next)} : ReceiveCommit}
           Ok == Positions \cup Reached \cup Ended
           Kept == {confirmed', confirmed_disk', fb', last_flushpos', last_received',
                    session_origin_lsn'} \cup RemoteEnds(lsn_mapping)'
<1> USE DEF IInv
<1>1. SUFFICES Kept \subseteq Ok
  <2>1. OriginsOf(db') \subseteq OriginsOf(db) \cup {session_origin_lsn, session_origin_lsn'}
    BY ServerStep
  <2> QED
    BY <1>1, <2>1, Zenon DEF Positions
<1>2. 0 \in Ok /\ (\A i \in Txns : i \in Nat \ {0}) /\ Len(wal) \in Nat
  <2>1. \A i \in Txns : i \in Nat \ {0} /\ 0 <= CommitLsn(i)
    BY WalFacts DEF TypeOK, CommitLsn
  <2> QED
    BY <2>1, WalFacts DEF TypeOK
<1>3. /\ {confirmed, confirmed_disk, fb, last_flushpos, last_received, session_origin_lsn}
             \subseteq Ok
      /\ RemoteEnds(lsn_mapping) \subseteq Ok
      /\ Now.origin \in Ok
  <2>1. Now.origin \in OriginsOf(db)
    BY NowFacts, LastState DEF TypeOK, ServerTypeOK, Now
  <2> QED
    BY <2>1, Zenon DEF Positions
<1>4. next \in Txns => FirstLsn(next) \in Ok
  BY <1>2 DEF FirstLsn, CommitLsn
<1>5. ReceiveCommit => EndLsn(next) \in Ok
  OBVIOUS
<1>6. SentPtr \subseteq Ok
  BY <1>2 DEF SentPtr, EndLsn
<1>7. RemoteEnds(<<>>) = {}
  BY DEF RemoteEnds
<1> HIDE DEF Ok
<1>8. ASSUME ProcessGone, UNCHANGED <<publisherVars, fb>> PROVE Kept \subseteq Ok
  BY <1>2, <1>3, <1>7, <1>8 DEF ProcessGone, publisherVars
<1>9. CASE WorkerExit \/ ConnectionLost \/ ServerCrash \/ ApplyError
  BY <1>8, <1>9 DEF WorkerExit, ConnectionLost, ServerCrash, ApplyError, StartApplyCatch
<1>10. CASE StartWorker
  BY <1>2, <1>3, <1>10 DEF StartWorker, publisherVars, feedbackVars
<1>11. CASE PublisherCrash
  BY <1>2, <1>3, <1>11 DEF PublisherCrash, feedbackVars, workerVars
<1>12. CASE ConfirmReceived
  BY <1>2, <1>3, <1>12, Zenon DEF ConfirmReceived, Later, feedbackVars, workerVars
<1>13. CASE SaveSlot
  BY <1>3, <1>13 DEF SaveSlot, streamVars, feedbackVars, workerVars
<1>14. CASE ReceiveBegin
  BY <1>3, <1>4, <1>14, Zenon DEF ReceiveBegin, Received, Later, publisherVars, feedbackVars
<1>15. CASE SkipChange \/ ApplyDml \/ ApplyTruncate
  <2>1. ReceiveChange
    BY <1>15, ChangeStep, Zenon
  <2> QED
    BY <1>3, <1>4, <2>1, Zenon DEF ReceiveChange, Received, Later, publisherVars, feedbackVars
<1>16. CASE ReceiveCommit
  <2>1. {confirmed', confirmed_disk', fb', last_flushpos', last_received'} \subseteq Ok
    BY <1>3, <1>5, <1>16 DEF ReceiveCommit, Received, Later, publisherVars
  <2>2. CASE CommitLocal
    <3> DEFINE e == [remote_end |-> EndLsn(next),
                     local_end |-> IF CommitBase(next) = db THEN XactLastCommitEnd
                                                            ELSE Len(db) + 1]
    <3>1. lsn_mapping \in Seq(FlushPosition) /\ Len(lsn_mapping) \in Nat
      BY SeqLength DEF TypeOK, WorkerTypeOK
    <3>2. e \in FlushPosition /\ e.remote_end = EndLsn(next)
      <4>1. EndLsn(next) \in Nat
        BY <1>2, <1>16 DEF ReceiveCommit, EndLsn
      <4> QED
        BY <4>1, NowFacts DEF FlushPosition, TypeOK, ServerTypeOK
    <3>3. lsn_mapping' = Append(lsn_mapping, e) /\ session_origin_lsn' = EndLsn(next)
      BY <2>2 DEF CommitLocal
    <3> HIDE DEF e
    <3>4. /\ Len(lsn_mapping') = Len(lsn_mapping) + 1
          /\ \A j \in 1..Len(lsn_mapping) : lsn_mapping'[j] = lsn_mapping[j]
          /\ lsn_mapping'[Len(lsn_mapping) + 1] = e
      BY <3>1, <3>2, <3>3, SeqAppend
    <3>5. \A j : j \in 1..Len(lsn_mapping')
                     <=> j \in 1..Len(lsn_mapping) \/ j = Len(lsn_mapping) + 1
      BY <3>1, <3>4
    <3>6. RemoteEnds(lsn_mapping') \subseteq RemoteEnds(lsn_mapping) \cup {EndLsn(next)}
      BY <3>2, <3>4, <3>5 DEF RemoteEnds
    <3> QED
      BY <1>3, <1>5, <1>16, <2>1, <3>3, <3>6
  <2>3. CASE CommitEmpty
    BY <1>3, <2>1, <2>3 DEF CommitEmpty
  <2> QED
    BY <1>16, <2>2, <2>3, Zenon DEF ReceiveCommit
<1>17. ASSUME NEW recvpos \in Nat, recvpos \in Ok, SendFeedback(recvpos),
              last_received' = recvpos, UNCHANGED publisherVars,
              session_origin_lsn' = session_origin_lsn
       PROVE  Kept \subseteq Ok
  <2>1. /\ RemoteEnds(lsn_mapping') \subseteq RemoteEnds(lsn_mapping)
        /\ last_flushpos' \in {last_flushpos, recvpos, 0} \cup RemoteEnds(lsn_mapping)
        /\ fb' \in {fb, last_flushpos'}
    BY <1>17, FeedbackPositions
  <2> QED
    BY <1>2, <1>3, <1>17, <2>1 DEF publisherVars
<1>18. CASE ReceiveKeepalive
  <2>1. PICK lsn \in SentPtr : Received(lsn) /\ SendFeedback(Later(last_received, lsn))
    BY <1>18 DEF ReceiveKeepalive
  <2>2. lsn \in Nat /\ lsn \in Ok
    BY <1>6 DEF SentPtr
  <2>3. Later(last_received, lsn) \in Nat /\ Later(last_received, lsn) \in Ok
    BY <1>3, <2>2, Zenon DEF Later, TypeOK, WorkerTypeOK
  <2> QED
    BY <1>17, <1>18, <2>1, <2>3 DEF ReceiveKeepalive, Received
<1>19. CASE EndOfRound
  BY <1>3, <1>17, <1>19 DEF EndOfRound, TypeOK, WorkerTypeOK
<1>20. CASE WalWriter \/ AlterSkip \/ Enable \/ UNCHANGED vars
  BY <1>3, <1>20, Zenon DEF WalWriter, AlterSkip, Enable, UserCommit, vars, publisherVars, streamVars,
                     feedbackVars, workerVars
<1> QED
  BY <1>9, <1>10, <1>11, <1>12, <1>13, <1>14, <1>15, <1>16, <1>18, <1>19, <1>20, Zenon
     DEF Next, Receive

(* A step makes no position that is past an unhandled change.              *)
LEMMA SafePositionsStep ==
    ASSUME IInv, [Next]_vars
    PROVE  SafePositions'
<1> SUFFICES ASSUME NEW p \in Positions', NEW i \in Txns', CommitLsn(i) < p
             PROVE  Handled(i)'
  BY DEF SafePositions, HandledBefore
<1>1. CASE p \in Positions
  BY <1>1, HandledGrows DEF IInv, SafePositions
<1>2. CASE p \in Nat /\ (next \in Txns => p <= CommitLsn(next))
  BY <1>2, StreamPosition, HandledGrows DEF IInv
<1>3. CASE ReceiveCommit /\ p = EndLsn(next)
  <2>1. i \in Txns /\ i \in Nat /\ next \in Nat
    <3>1. TypeOK /\ i \in Txns
      BY HandledGrows DEF IInv
    <3> QED
      BY <3>1, WalFacts DEF TypeOK, StreamTypeOK
  <2>2. i < next \/ i = next
    BY <1>3, <2>1 DEF EndLsn, CommitLsn
  <2>3. CASE i < next
    BY <2>1, <2>3, HandledGrows DEF IInv, StreamHandled
  <2>4. CASE i = next
    BY <1>3, <2>1, <2>4, HandledAtCommit
  <2> QED
    BY <2>2, <2>3, <2>4
<1> QED
  BY <1>1, <1>2, <1>3, PositionsStep

(* Whichever way the process ends, its memory goes with it.                *)
LEMMA GoneIsGoneStep ==
    ASSUME IInv, [Next]_vars
    PROVE  GoneIsGone'
<1> USE DEF IInv
<1>1. CASE WorkerExit \/ ConnectionLost \/ ServerCrash \/ ApplyError
  BY <1>1 DEF WorkerExit, ConnectionLost, ServerCrash, ApplyError, StartApplyCatch, ProcessGone,
              GoneIsGone
<1>2. CASE StartWorker \/ Receive \/ ReceiveKeepalive \/ EndOfRound
  <2>1. CASE SkipChange \/ ApplyDml \/ ApplyTruncate
    <3>1. ReceiveChange
      BY <2>1, ChangeStep, Zenon
    <3> QED
      BY <3>1 DEF ReceiveChange, GoneIsGone
  <2>2. CASE StartWorker \/ ReceiveBegin \/ ReceiveCommit
    BY <2>2 DEF StartWorker, ReceiveBegin, ReceiveCommit, GoneIsGone
  <2>3. CASE ReceiveKeepalive \/ EndOfRound
    BY <2>3 DEF ReceiveKeepalive, EndOfRound, GoneIsGone
  <2> QED
    BY <1>2, <2>1, <2>2, <2>3 DEF Receive
<1>3. CASE PublisherCrash \/ ConfirmReceived \/ SaveSlot
  BY <1>3 DEF PublisherCrash, ConfirmReceived, SaveSlot, xactVars, feedbackVars, workerVars,
              GoneIsGone
<1>4. CASE WalWriter \/ AlterSkip \/ Enable \/ UNCHANGED vars
  BY <1>4, Zenon DEF WalWriter, AlterSkip, Enable, UserCommit, vars, xactVars, feedbackVars, workerVars,
              GoneIsGone
<1> QED
  BY <1>1, <1>2, <1>3, <1>4, Zenon DEF Next

(* send_feedback() keeps the positions in order, if what it is told was    *)
(* received is not behind the last received position.                      *)
LEMMA FeedbackOrderKept ==
    ASSUME IInv, NEW recvpos \in Nat, last_received <= recvpos, SendFeedback(recvpos),
           last_received' = recvpos, next' = next, wal' = wal,
           next \in Txns => recvpos <= CommitLsn(next)
    PROVE  FeedbackOrder'
<1> DEFINE m == lsn_mapping
<1>1. /\ m \in Seq(FlushPosition) /\ Len(m) \in Nat
      /\ last_flushpos \in Nat /\ last_received \in Nat
  BY SeqLength DEF IInv, TypeOK, WorkerTypeOK
<1>2. PICK n \in 0..Len(m) :
          /\ lsn_mapping' = SubSeq(m, n + 1, Len(m))
          /\ last_flushpos' = Later(last_flushpos, FlushPos(n, recvpos))
  BY DEF SendFeedback
<1>3. \A j \in 1..Len(m) : m[j] \in FlushPosition /\ m[j].remote_end \in Nat
  <2>1. \A j \in 1..Len(m) : m[j] \in FlushPosition
    BY <1>1, SeqElement
  <2> QED
    BY <2>1 DEF FlushPosition
<1>5. /\ Len(lsn_mapping') = Len(m) - n
      /\ \A j \in 1..Len(lsn_mapping') : lsn_mapping'[j] = m[n + j]
  BY <1>1, <1>2, SeqDrop
<1>6. /\ last_flushpos <= last_received
      /\ \A j \in 1..Len(m) : /\ last_flushpos < m[j].remote_end
                              /\ m[j].remote_end <= last_received
                              /\ m[j].remote_end < EndLsn(next)
                              /\ \A k \in 1..(j - 1) : m[k].remote_end < m[j].remote_end
  BY DEF IInv, FeedbackOrder
<1>7. FlushPos(n, recvpos) \in Nat /\ FlushPos(n, recvpos) <= recvpos
  <2>1. CASE n \in 1..Len(m)
    BY <1>1, <1>3, <1>6, <2>1 DEF FlushPos
  <2>2. CASE n = 0
    BY <2>2 DEF FlushPos
  <2> QED
    BY <1>1, <2>1, <2>2
<1>8. ASSUME NEW j \in (n + 1)..Len(m)
      PROVE  last_flushpos' < m[j].remote_end
  <2>1. j \in 1..Len(m) /\ n # Len(m) /\ (n # 0 => n \in 1..(j - 1))
    BY <1>1
  <2>2. FlushPos(n, recvpos) < m[j].remote_end
    <3>1. CASE n = 0
      BY <1>1, <1>3, <1>6, <2>1, <3>1 DEF FlushPos
    <3>2. CASE n # 0
      BY <1>6, <2>1, <3>2 DEF FlushPos
    <3> QED
      BY <3>1, <3>2, Zenon
  <2> QED
    BY <1>2, <1>6, <2>1, <2>2 DEF Later
<1>9. \A j \in 1..Len(lsn_mapping') : /\ n + j \in (n + 1)..Len(m) /\ n + j \in 1..Len(m)
                                      /\ \A k \in 1..(j - 1) : k \in 1..Len(lsn_mapping')
                                                               /\ n + k \in 1..(n + j - 1)
  BY <1>1, <1>5
<1>10. ASSUME NEW j \in 1..Len(lsn_mapping')
       PROVE  /\ last_flushpos' < lsn_mapping'[j].remote_end
              /\ lsn_mapping'[j].remote_end <= last_received'
              /\ lsn_mapping'[j].remote_end < EndLsn(next')
              /\ \A k \in 1..(j - 1) :
                     lsn_mapping'[k].remote_end < lsn_mapping'[j].remote_end
  <2>1. lsn_mapping'[j] = m[n + j] /\ n + j \in 1..Len(m)
    BY <1>5, <1>9, Zenon
  <2>2. last_flushpos' < m[n + j].remote_end
    BY <1>8, <1>9, Zenon
  <2>3. m[n + j].remote_end <= recvpos
    BY <1>1, <1>3, <1>6, <2>1
  <2>4. \A k \in 1..(j - 1) : lsn_mapping'[k].remote_end < m[n + j].remote_end
    <3>1. \A k \in 1..(n + j - 1) : m[k].remote_end < m[n + j].remote_end
      BY <1>6, <2>1
    <3> QED
      BY <1>5, <1>9, <3>1, Zenon
  <2> QED
    BY <1>6, <2>1, <2>2, <2>3, <2>4, Zenon
<1>11. last_flushpos' <= last_received'
  BY <1>1, <1>2, <1>6, <1>7 DEF Later
<1> QED
  BY <1>10, <1>11, Zenon DEF FeedbackOrder, Txns

(* A step keeps the positions the worker keeps in order.                   *)
LEMMA FeedbackOrderStep ==
    ASSUME IInv, [Next]_vars
    PROVE  FeedbackOrder'
<1> USE DEF IInv
<1>0. /\ Len(wal) \in Nat /\ next \in Nat \ {0}
      /\ \A i \in Txns : i \in Nat \ {0} /\ CommitLsn(i) \in Nat /\ EndLsn(i) \in Nat
      /\ last_received \in Nat /\ last_flushpos \in Nat
      /\ wal' = wal /\ Txns' = Txns
  <2>1. Len(wal) \in Nat /\ \A i \in Txns : i \in Nat \ {0}
    BY WalFacts DEF TypeOK
  <2>2. \A i \in Txns : CommitLsn(i) \in Nat /\ EndLsn(i) \in Nat
    BY <2>1 DEF CommitLsn, EndLsn
  <2> QED
    BY <2>1, <2>2, HistoryGrows, HandledGrows DEF TypeOK, StreamTypeOK, WorkerTypeOK
<1>1. CASE WorkerExit \/ ConnectionLost \/ ServerCrash \/ ApplyError
  <2>1. next' = 1 /\ last_received' = 0 /\ last_flushpos' = 0 /\ lsn_mapping' = <<>>
    BY <1>1, Zenon DEF WorkerExit, ConnectionLost, ServerCrash, ApplyError, StartApplyCatch, ProcessGone
  <2> QED
    BY <1>0, <2>1 DEF FeedbackOrder, CommitLsn
<1>2. CASE StartWorker
  <2>1. /\ lsn_mapping' = <<>> /\ last_flushpos' = 0 /\ last_received' = Now.origin
        /\ next' \in Txns => ~XactNeedsSkip(next', StartDecodingAt(Now.origin))
    BY <1>2 DEF StartWorker, GoneIsGone, feedbackVars
  <2>2. Now.origin \in Nat /\ confirmed \in Nat
    BY NowFacts DEF TypeOK, StreamTypeOK
  <2>3. next' \in Txns => Now.origin <= CommitLsn(next')
    BY <1>0, <2>1, <2>2 DEF XactNeedsSkip, StartDecodingAt
  <2> QED
    <3>1. last_flushpos' <= last_received' /\ Len(lsn_mapping') = 0
      BY <2>1, <2>2
    <3>2. (next \in Txns => last_received <= CommitLsn(next))'
      BY <1>0, <2>1, <2>3 DEF CommitLsn
    <3>3. \A j \in 1..Len(lsn_mapping') : FALSE
      BY <3>1
    <3> QED
      BY <3>1, <3>2, <3>3 DEF FeedbackOrder
<1>3. ASSUME next \in Txns, Received(FirstLsn(next)), next' = next, UNCHANGED feedbackVars
      PROVE  FeedbackOrder'
  <2>1. FirstLsn(next) \in Nat /\ FirstLsn(next) <= CommitLsn(next)
    BY <1>0, <1>3 DEF FirstLsn, CommitLsn
  <2>2. last_received' \in Nat /\ last_received <= last_received'
        /\ last_received' <= CommitLsn(next)
    BY <1>0, <1>3, <2>1 DEF Received, Later, FeedbackOrder
  <2>3. \A j \in 1..Len(lsn_mapping) : lsn_mapping[j].remote_end <= last_received'
    <3>1. lsn_mapping \in Seq(FlushPosition)
      BY DEF TypeOK, WorkerTypeOK
    <3>2. \A j \in 1..Len(lsn_mapping) : lsn_mapping[j] \in FlushPosition
      BY <3>1, SeqElement, Zenon
    <3> QED
      BY <1>0, <2>2, <3>2 DEF FlushPosition, FeedbackOrder
  <2>4. last_flushpos <= last_received'
    BY <1>0, <2>2 DEF FeedbackOrder
  <2> QED
    BY <1>0, <1>3, <2>2, <2>3, <2>4 DEF FeedbackOrder, feedbackVars
<1>4. CASE ReceiveBegin
  BY <1>3, <1>4 DEF ReceiveBegin
<1>5. CASE SkipChange \/ ApplyDml \/ ApplyTruncate
  BY <1>3, <1>5, ChangeStep, Zenon DEF ReceiveChange
<1>6. CASE ReceiveCommit
  <2>1. /\ next \in Txns /\ next' = next + 1 /\ last_flushpos' = last_flushpos
        /\ last_received' = Later(last_received, EndLsn(next))
    BY <1>6, Zenon DEF ReceiveCommit, Received
  <2>2. /\ last_received <= CommitLsn(next) /\ CommitLsn(next) < EndLsn(next)
        /\ EndLsn(next) < CommitLsn(next + 1) /\ EndLsn(next) < EndLsn(next + 1)
        /\ last_flushpos <= last_received
    BY <1>0, <2>1 DEF FeedbackOrder, CommitLsn, EndLsn
  <2>3. last_received' = EndLsn(next) /\ EndLsn(next) \in Nat /\ CommitLsn(next) \in Nat
        /\ CommitLsn(next + 1) \in Nat /\ EndLsn(next + 1) \in Nat
    BY <1>0, <2>1, <2>2 DEF Later, CommitLsn, EndLsn
  <2>4. \A j \in 1..Len(lsn_mapping) :
            /\ lsn_mapping[j].remote_end \in Nat
            /\ last_flushpos < lsn_mapping[j].remote_end
            /\ lsn_mapping[j].remote_end < EndLsn(next)
            /\ \A k \in 1..(j - 1) : lsn_mapping[k].remote_end < lsn_mapping[j].remote_end
    <3>1. lsn_mapping \in Seq(FlushPosition)
      BY DEF TypeOK, WorkerTypeOK
    <3>2. \A j \in 1..Len(lsn_mapping) : lsn_mapping[j] \in FlushPosition
      BY <3>1, SeqElement
    <3> QED
      BY <3>2 DEF FlushPosition, FeedbackOrder
  <2>5. \A j \in 1..Len(lsn_mapping) : /\ lsn_mapping[j].remote_end <= EndLsn(next)
                                       /\ lsn_mapping[j].remote_end < EndLsn(next + 1)
    <3> SUFFICES ASSUME NEW j \in 1..Len(lsn_mapping)
                 PROVE  /\ lsn_mapping[j].remote_end <= EndLsn(next)
                        /\ lsn_mapping[j].remote_end < EndLsn(next + 1)
      OBVIOUS
    <3> DEFINE r == lsn_mapping[j].remote_end
    <3>1. r \in Nat /\ r < EndLsn(next)
      BY <2>4
    <3> HIDE DEF r
    <3>2. r <= EndLsn(next) /\ r < EndLsn(next + 1)
      BY <2>2, <2>3, <3>1
    <3> QED
      BY <3>2 DEF r
  <2>6. last_flushpos < EndLsn(next) /\ EndLsn(next) <= CommitLsn(next + 1)
    BY <1>0, <2>2, <2>3
  <2>7. CASE CommitEmpty
    <3>1. lsn_mapping' = lsn_mapping
      BY <2>7 DEF CommitEmpty
    <3>2. last_flushpos' <= last_received'
      BY <1>0, <2>1, <2>3, <2>6
    <3>3. (next \in Txns => last_received <= CommitLsn(next))'
      BY <2>1, <2>3, <2>6 DEF CommitLsn
    <3> QED
      BY <2>1, <2>3, <2>4, <2>5, <3>1, <3>2, <3>3 DEF FeedbackOrder
  <2>8. CASE CommitLocal
    <3> DEFINE e == [remote_end |-> EndLsn(next),
                     local_end |-> IF CommitBase(next) = db THEN XactLastCommitEnd
                                                            ELSE Len(db) + 1]
    <3>1. lsn_mapping \in Seq(FlushPosition) /\ Len(lsn_mapping) \in Nat
      BY SeqLength DEF TypeOK, WorkerTypeOK
    <3>2. e \in FlushPosition /\ e.remote_end = EndLsn(next)
      BY <2>3, NowFacts DEF FlushPosition, TypeOK, ServerTypeOK
    <3>3. lsn_mapping' = Append(lsn_mapping, e)
      BY <2>8, Zenon DEF CommitLocal
    <3> HIDE DEF e
    <3>4. /\ Len(lsn_mapping') = Len(lsn_mapping) + 1
          /\ \A j \in 1..Len(lsn_mapping) : lsn_mapping'[j] = lsn_mapping[j]
          /\ lsn_mapping'[Len(lsn_mapping) + 1] = e
      BY <3>1, <3>2, <3>3, SeqAppend
    <3>5. \A j \in 1..Len(lsn_mapping') :
              /\ j \in 1..Len(lsn_mapping) \/ j = Len(lsn_mapping) + 1
              /\ \A k \in 1..(j - 1) : k \in 1..Len(lsn_mapping)
      BY <3>1, <3>4
    <3>6. ASSUME NEW j \in 1..Len(lsn_mapping')
          PROVE  /\ last_flushpos < lsn_mapping'[j].remote_end
                 /\ lsn_mapping'[j].remote_end <= EndLsn(next)
                 /\ lsn_mapping'[j].remote_end < EndLsn(next + 1)
                 /\ \A k \in 1..(j - 1) :
                        lsn_mapping'[k].remote_end < lsn_mapping'[j].remote_end
      <4>1. CASE j \in 1..Len(lsn_mapping)
        BY <2>4, <2>5, <3>4, <3>5, <4>1, Zenon
      <4>2. CASE j = Len(lsn_mapping) + 1
        <5>1. lsn_mapping'[j].remote_end = EndLsn(next)
          BY <3>2, <3>4, <4>2
        <5>2. EndLsn(next) <= EndLsn(next)
          BY <2>3
        <5> QED
          BY <2>2, <2>4, <2>6, <3>4, <3>5, <5>1, <5>2, Zenon
      <4> QED
        BY <3>5, <4>1, <4>2, Zenon
    <3> QED
      <4>1. last_flushpos' <= last_received'
        BY <1>0, <2>1, <2>3, <2>6
      <4>2. (next \in Txns => last_received <= CommitLsn(next))'
        BY <2>1, <2>3, <2>6 DEF CommitLsn
      <4> QED
        BY <2>1, <2>3, <3>6, <4>1, <4>2, Zenon DEF FeedbackOrder
  <2> QED
    BY <1>6, <2>7, <2>8 DEF ReceiveCommit
<1>7. CASE ReceiveKeepalive
  <2>1. PICK lsn \in SentPtr : Received(lsn) /\ SendFeedback(Later(last_received, lsn))
    BY <1>7 DEF ReceiveKeepalive
  <2>2. lsn \in Nat /\ (next \in Txns => lsn <= CommitLsn(next))
    BY DEF SentPtr
  <2> DEFINE r == Later(last_received, lsn)
  <2>3. r \in Nat /\ last_received <= r /\ (next \in Txns => r <= CommitLsn(next))
    BY <1>0, <2>2 DEF Later, FeedbackOrder
  <2>4. SendFeedback(r) /\ last_received' = r /\ next' = next
    BY <1>7, <2>1 DEF ReceiveKeepalive, Received
  <2> HIDE DEF r
  <2> QED
    BY <1>0, <2>3, <2>4, FeedbackOrderKept
<1>8. CASE EndOfRound
  <2>1. last_received <= last_received /\ (next \in Txns => last_received <= CommitLsn(next))
    BY <1>0 DEF FeedbackOrder
  <2>2. SendFeedback(last_received) /\ last_received' = last_received /\ next' = next
    BY <1>8, Zenon DEF EndOfRound
  <2> QED
    BY <1>0, <2>1, <2>2, FeedbackOrderKept
<1>9. CASE PublisherCrash \/ ConfirmReceived \/ SaveSlot
  BY <1>0, <1>9 DEF PublisherCrash, ConfirmReceived, SaveSlot, streamVars, feedbackVars,
                    workerVars, FeedbackOrder
<1>10. CASE WalWriter \/ AlterSkip \/ Enable \/ UNCHANGED vars
  BY <1>0, <1>10, Zenon DEF WalWriter, AlterSkip, Enable, UserCommit, vars, streamVars, feedbackVars,
                     workerVars, FeedbackOrder
<1> QED
  BY <1>1, <1>2, <1>4, <1>5, <1>6, <1>7, <1>8, <1>9, <1>10, Zenon DEF Next, Receive

(* A step brings no skip LSN into play that the user did not name.         *)
LEMMA SkipsRequestedStep ==
    ASSUME IInv, [Next]_vars
    PROVE  SkipsRequested'
<1> USE DEF IInv
<1>0. /\ requested \subseteq requested'
      /\ my_skiplsn \in {0} \cup requested' /\ Now.skip \in {0} \cup requested'
      /\ SkipsOf(db') \subseteq {0} \cup requested'
      /\ \A i \in Txns : CommitLsn(i) # 0
  <2>1. Now.skip \in SkipsOf(db)
    BY NowFacts, LastState DEF TypeOK, ServerTypeOK, Now
  <2>2. \A i \in Txns : CommitLsn(i) # 0
    BY WalFacts DEF TypeOK, CommitLsn
  <2> QED
    BY <2>1, <2>2, HistoryGrows, ServerStep, Zenon DEF SkipsRequested
<1>1. SUFFICES /\ my_skiplsn' \in {0, my_skiplsn, Now.skip}
               /\ skipping' => CommitLsn(next') \in requested'
  BY <1>0, <1>1, Zenon DEF SkipsRequested
<1>2. CASE WorkerExit \/ ConnectionLost \/ ServerCrash \/ ApplyError
  BY <1>2 DEF WorkerExit, ConnectionLost, ServerCrash, ApplyError, StartApplyCatch, ProcessGone
<1>3. CASE StartWorker
  BY <1>3 DEF StartWorker, GoneIsGone, xactVars
<1>4. CASE ReceiveBegin
  BY <1>0, <1>4, Zenon DEF ReceiveBegin, StartsSkipping
<1>5. CASE SkipChange \/ ApplyDml \/ ApplyTruncate
  <2>1. next' = next /\ skipping' = skipping /\ my_skiplsn' \in {my_skiplsn, Now.skip}
    BY <1>5, ChangeStep, Zenon DEF ReceiveChange
  <2> QED
    BY <1>0, <2>1 DEF SkipsRequested
<1>6. CASE ReceiveCommit
  BY <1>6, Zenon DEF ReceiveCommit, CommitLocal, CommitEmpty
<1>7. CASE ReceiveKeepalive \/ EndOfRound
  BY <1>0, <1>7 DEF ReceiveKeepalive, EndOfRound, xactVars, SkipsRequested
<1>8. CASE PublisherCrash \/ ConfirmReceived \/ SaveSlot
  <2>1. next' = next /\ skipping' = skipping /\ my_skiplsn' = my_skiplsn
    BY <1>8 DEF PublisherCrash, ConfirmReceived, SaveSlot, streamVars, xactVars, workerVars
  <2> QED
    BY <1>0, <2>1 DEF SkipsRequested
<1>9. CASE WalWriter \/ AlterSkip \/ Enable \/ UNCHANGED vars
  <2>1. next' = next /\ skipping' = skipping /\ my_skiplsn' = my_skiplsn
    BY <1>9, Zenon DEF WalWriter, AlterSkip, Enable, UserCommit, vars, streamVars, xactVars, workerVars
  <2> QED
    BY <1>0, <2>1 DEF SkipsRequested
<1> QED
  BY <1>2, <1>3, <1>4, <1>5, <1>6, <1>7, <1>8, <1>9, Zenon DEF Next, Receive

-----------------------------------------------------------------------------
(* The theorems                                                            *)

(* A subscription starts with nothing received, pending or skipped.        *)
LEMMA InitIInv ==
    ASSUME Init, TypeOK
    PROVE  IInv
<1>1. OriginsOf(db) = {0} /\ SkipsOf(db) = {0} /\ RemoteEnds(lsn_mapping) = {}
  <2>1. Len(db) = 1 /\ db[1].origin = 0 /\ db[1].skip = 0 /\ Len(lsn_mapping) = 0
    BY DEF Init
  <2>2. 1..Len(db) = {1} /\ 1..Len(lsn_mapping) = {}
    BY <2>1
  <2> QED
    BY <2>1, <2>2 DEF OriginsOf, SkipsOf, RemoteEnds
<1>2. Positions = {0}
  BY <1>1 DEF Init, Positions
<1>3. \A i \in Txns : i \in Nat \ {0} /\ 0 <= CommitLsn(i) /\ CommitLsn(i) \in Nat
  BY WalFacts DEF TypeOK, CommitLsn
<1>4. SafePositions
  BY <1>2, <1>3 DEF SafePositions, HandledBefore
<1>5. StreamHandled
  BY <1>3 DEF Init, StreamHandled
<1>6. GoneIsGone /\ SkipsRequested
  BY <1>1, Zenon DEF Init, GoneIsGone, SkipsRequested
<1>7. FeedbackOrder
  BY <1>3 DEF Init, FeedbackOrder
<1> QED
  BY <1>4, <1>5, <1>6, <1>7 DEF IInv

(* The inductive invariant holds in every state.                           *)
LEMMA IInvCorrect == Spec => []IInv
<1>1. Init /\ TypeOK => IInv
  BY InitIInv
<1>2. IInv /\ TypeOK' /\ [Next]_vars => IInv'
  BY StreamHandledStep, SafePositionsStep, GoneIsGoneStep, FeedbackOrderStep, SkipsRequestedStep
     DEF IInv
<1> QED
  BY <1>1, <1>2, TypeCorrect, PTL DEF Spec

(* No restart resumes past a change that was never handed to the producer: *)
(* for every publisher WAL and any number of exits, errors, crashes of     *)
(* either server, skips and table synchronizations, the slot's             *)
(* confirmed_flush and the subscriber's origin stay within what the apply  *)
(* handlers have handled.                                                  *)
THEOREM NothingSkippedOverCorrect == Spec => []NothingSkippedOver
<1>1. IInv => NothingSkippedOver
  <2> SUFFICES ASSUME IInv PROVE NothingSkippedOver
    OBVIOUS
  <2>1. Now.origin \in Positions /\ confirmed \in Positions
    BY NowFacts, LastState, Zenon DEF IInv, Positions, TypeOK, ServerTypeOK, Now
  <2>2. Later(confirmed, Now.origin) \in Positions
    BY <2>1, Zenon DEF Later
  <2> QED
    BY <2>2, Zenon DEF IInv, SafePositions, HandledBefore, NothingSkippedOver
<1> QED
  BY <1>1, IInvCorrect, PTL

(* send_feedback() never reports a transaction whose local commit          *)
(* get_flush_position() has found unflushed.                               *)
THEOREM PendingNotReportedCorrect == Spec => []PendingNotReported
<1>1. IInv => PendingNotReported
  BY DEF IInv, FeedbackOrder, PendingNotReported
<1> QED
  BY <1>1, IInvCorrect, PTL

(* maybe_start_skipping_changes() acts on a cached subskiplsn, but never   *)
(* on one that the user has not asked for.                                 *)
THEOREM SkippedOnRequestCorrect == Spec => []SkippedOnRequest
<1>1. Init => SkippedOnRequest
  BY DEF Init, SkippedOnRequest
<1>2. IInv /\ SkippedOnRequest /\ [Next]_vars => SkippedOnRequest'
  <2> SUFFICES ASSUME IInv, SkippedOnRequest, [Next]_vars PROVE SkippedOnRequest'
    OBVIOUS
  <2>1. requested \subseteq requested'
    BY HistoryGrows
  <2>2. CASE ReceiveCommit
    <3>1. skipped' \subseteq skipped \cup {i \in {next} : skipping}
      BY <2>2 DEF ReceiveCommit, CommitLocal, CommitEmpty
    <3>2. skipping => CommitLsn(next) \in requested
      BY DEF IInv, SkipsRequested
    <3> QED
      BY <2>1, <3>1, <3>2, Zenon DEF SkippedOnRequest
  <2>3. ASSUME skipped' = skipped PROVE SkippedOnRequest'
    BY <2>1, <2>3, Zenon DEF SkippedOnRequest
  <2>4. CASE StartWorker \/ WorkerExit \/ ConnectionLost \/ ServerCrash \/ PublisherCrash
             \/ ApplyError
    BY <2>3, <2>4 DEF StartWorker, WorkerExit, ConnectionLost, ServerCrash, PublisherCrash,
                      ApplyError, StartApplyCatch, historyVars
  <2>5. CASE ReceiveBegin \/ SkipChange \/ ApplyDml \/ ApplyTruncate
    BY <2>3, <2>5, ChangeStep, Zenon DEF ReceiveBegin, ReceiveChange, historyVars
  <2>6. CASE ReceiveKeepalive \/ EndOfRound \/ ConfirmReceived \/ SaveSlot
    BY <2>3, <2>6 DEF ReceiveKeepalive, EndOfRound, ConfirmReceived, SaveSlot, historyVars
  <2>7. CASE WalWriter \/ AlterSkip \/ Enable \/ UNCHANGED vars
    BY <2>3, <2>7, Zenon DEF WalWriter, AlterSkip, Enable, UserCommit, vars, historyVars
  <2> QED
    BY <2>2, <2>4, <2>5, <2>6, <2>7 DEF Next, Receive
<1> QED
  BY <1>1, <1>2, IInvCorrect, PTL DEF Spec

-----------------------------------------------------------------------------
(* What is sent again                                                      *)

(* The worker is not ahead of what it reports: while the publisher has     *)
(* not crashed, the next transaction it is sent is not confirmed, and no   *)
(* feedback under way would confirm it.                                    *)
AckedInv ==
    used["publisherCrash"] = 0 =>
        /\ acked = confirmed
        /\ up /\ next \in Txns => confirmed <= CommitLsn(next) /\ fb <= CommitLsn(next)

LEMMA AckedInvStep ==
    ASSUME IInv, IInv', AckedInv, [Next]_vars
    PROVE  AckedInv'
<1>0. /\ TypeOK /\ TypeOK' /\ used \in [Event -> Nat] /\ used' \in [Event -> Nat]
      /\ "publisherCrash" \in Event
      /\ confirmed \in Nat /\ acked \in Nat /\ fb \in Nat
      /\ last_received' \in Nat /\ last_flushpos' \in Nat
  BY Zenon DEF IInv, TypeOK, StreamTypeOK, WorkerTypeOK, HistoryTypeOK, Event
<1> DEFINE Goal == /\ acked' = confirmed'
                   /\ up' /\ next' \in 1..Len(wal')
                          => confirmed' <= CommitLsn(next') /\ fb' <= CommitLsn(next')
<1> SUFFICES ASSUME used'["publisherCrash"] = 0 PROVE Goal
  BY DEF AckedInv, Txns, CommitLsn
<1>1. used["publisherCrash"] = 0
  <2>1. used'["publisherCrash"] >= used["publisherCrash"]
    BY <1>0, UsedGrows
  <2> QED
    BY <1>0, <2>1
<1>2. /\ acked = confirmed
      /\ up /\ next \in Txns => confirmed <= CommitLsn(next) /\ fb <= CommitLsn(next)
  BY <1>1 DEF AckedInv
<1>3. Txns = 1..Len(wal) /\ Len(wal) \in Nat
  BY <1>0, WalFacts DEF Txns, TypeOK
<1>4. ASSUME UNCHANGED publisherVars, up' = FALSE PROVE Goal
  BY <1>2, <1>4 DEF publisherVars
<1>5. CASE WorkerExit \/ ConnectionLost \/ ServerCrash \/ ApplyError
  BY <1>4, <1>5, Zenon DEF WorkerExit, ConnectionLost, ServerCrash, ApplyError, StartApplyCatch,
                    ProcessGone
<1>6. ASSUME UNCHANGED <<wal, confirmed, acked, up, next>>, fb' \in {0, fb} PROVE Goal
  BY <1>0, <1>2, <1>3, <1>6 DEF CommitLsn
<1>7. CASE \/ ReceiveBegin \/ SkipChange \/ ApplyDml \/ ApplyTruncate
           \/ SaveSlot \/ WalWriter \/ AlterSkip \/ Enable \/ UNCHANGED vars
  <2>1. CASE SkipChange \/ ApplyDml \/ ApplyTruncate
    BY <1>6, <2>1, ChangeStep, Zenon DEF ReceiveChange, publisherVars
  <2>2. CASE ReceiveBegin \/ SaveSlot \/ WalWriter \/ AlterSkip \/ Enable \/ UNCHANGED vars
    BY <1>6, <2>2, Zenon DEF ReceiveBegin, SaveSlot, WalWriter, AlterSkip, Enable, UserCommit,
         vars, publisherVars, streamVars, workerVars
  <2> QED
    BY <1>7, <2>1, <2>2
<1>8. CASE StartWorker
  <2>1. /\ acked' = confirmed' /\ confirmed' = confirmed /\ fb' = 0 /\ wal' = wal
        /\ \A i \in Txns : i < next' <=> XactNeedsSkip(i, StartDecodingAt(Now.origin))
    BY <1>2, <1>8 DEF StartWorker, publisherVars
  <2>2. ASSUME next' \in Txns PROVE confirmed <= CommitLsn(next')
    <3>1. ~(CommitLsn(next') < StartDecodingAt(Now.origin))
      BY <1>3, <2>1, <2>2 DEF XactNeedsSkip
    <3>2. Now.origin \in Nat
      BY <1>0, NowFacts DEF TypeOK
    <3>3. StartDecodingAt(Now.origin) \in Nat /\ confirmed <= StartDecodingAt(Now.origin)
      BY <1>0, <3>2 DEF StartDecodingAt
    <3>4. CommitLsn(next') \in Int
      BY <1>3, <2>2 DEF CommitLsn
    <3> QED
      BY <1>0, <3>1, <3>3, <3>4
  <2> QED
    BY <1>3, <2>1, <2>2 DEF CommitLsn
<1>9. CASE ReceiveCommit
  <2>1. /\ next \in Txns /\ up /\ next' = next + 1
        /\ UNCHANGED <<acked, confirmed, fb, wal>>
    BY <1>9 DEF ReceiveCommit, publisherVars
  <2> QED
    BY <1>0, <1>2, <1>3, <2>1 DEF CommitLsn
<1>10. CASE ReceiveKeepalive \/ EndOfRound
  <2>1. UNCHANGED <<acked, confirmed, wal, next, up>> /\ (fb' = last_flushpos' \/ fb' = fb)
    BY <1>10 DEF ReceiveKeepalive, EndOfRound, SendFeedback, publisherVars
  <2>2. next' \in 1..Len(wal') => last_flushpos' <= CommitLsn(next')
    <3>1. last_flushpos' <= last_received' /\ (next \in Txns => last_received <= CommitLsn(next))'
      BY Zenon DEF IInv, FeedbackOrder
    <3> QED
      BY <1>0, <1>3, <2>1, <3>1 DEF Txns, CommitLsn
  <2> QED
    BY <1>2, <1>3, <2>1, <2>2, Zenon
<1>11. CASE ConfirmReceived
  BY <1>0, <1>2, <1>3, <1>11 DEF ConfirmReceived, workerVars, Later, CommitLsn
<1>12. CASE PublisherCrash
  BY <1>0, <1>12 DEF PublisherCrash, Spend
<1> QED
  BY <1>5, <1>7, <1>8, <1>9, <1>10, <1>11, <1>12, Zenon DEF Next, Receive

(* What the publisher was told is flushed is not produced again unless the *)
(* publisher crashes: StartDecodingAt() of the slot makes up for an origin *)
(* that transactions without a local commit record leave behind.           *)
THEOREM ResentOnlyAfterCrashCorrect == Spec => ResentOnlyAfterCrash
<1>1. Init => AckedInv
  BY DEF Init, AckedInv
<1>2. IInv /\ AckedInv /\ [Next]_vars
          => [ApplyDml => acked <= CommitLsn(next) \/ used["publisherCrash"] > 0]_vars
  <2> SUFFICES ASSUME IInv, AckedInv, ApplyDml
               PROVE  acked <= CommitLsn(next) \/ used["publisherCrash"] > 0
    OBVIOUS
  <2>1. up /\ next \in Txns
    BY ChangeStep DEF ReceiveChange
  <2>2. used["publisherCrash"] \in Nat
    BY DEF IInv, TypeOK, HistoryTypeOK, Event
  <2> QED
    BY <2>1, <2>2 DEF AckedInv
<1> QED
  BY <1>1, <1>2, AckedInvStep, IInvCorrect, PTL DEF Spec, ResentOnlyAfterCrash

-----------------------------------------------------------------------------
(* The pipeline                                                            *)

(* The worker of the pipeline is the worker of ApplyWorker: putting a      *)
(* producer behind the handlers adds no behaviour to worker.c, so every    *)
(* safety property of Spec is one of PipelineSpec.                         *)
THEOREM PipelineImplementsWorker == PipelineSpec => Spec
<1>1. PipelineInit => Init
  BY DEF PipelineInit
<1>2. [PipelineNext]_pipelineVars => [Next]_vars
  BY PipelineStepOfWorker
<1> QED
  BY <1>1, <1>2, PTL DEF PipelineSpec, Spec

(* A step of the composition is a step of the channel.                     *)
LEMMA PipelineStepOfChannel ==
    ASSUME TypeOK, [PipelineNext]_pipelineVars
    PROVE  [ChannelNext]_channelVars
<1>1. CASE ProduceChange
  <2>1. next \in Txns /\ pos \in 1..Len(wal[next])
    BY <1>1, Zenon DEF ProduceChange, ApplyDml, ApplyInsert, ApplyUpdate, ApplyDelete, SendRow,
                ReceiveChange
  <2>2. <<next, pos>> \in Message
    BY <2>1, ChangeIsMessage
  <2>3. Accept(<<next, pos>>) \/ Refuse(<<next, pos>>)
    BY <1>1 DEF ProduceChange
  <2> QED
    BY <2>2, <2>3, Zenon DEF ChannelNext
<1>2. CASE OtherWorkerStep
  BY <1>2 DEF OtherWorkerStep
<1>3. CASE WorkerEnds
  <2>1. \E S \in SUBSET Message : Destroy(S)
    BY <1>3 DEF WorkerEnds, AtHand
  <2> QED
    BY <2>1 DEF ChannelNext
<1>4. CASE Broker
  BY <1>4 DEF Broker, ChannelNext
<1>5. CASE UNCHANGED pipelineVars
  BY <1>5 DEF pipelineVars
<1> QED
  BY <1>1, <1>2, <1>3, <1>4, <1>5 DEF PipelineNext

(* Type correctness of the composition.                                    *)
THEOREM PipelineTypeCorrect == PipelineSpec => []PipelineTypeOK
<1>1. PipelineInit => ChannelTypeOK
  <2> SUFFICES ASSUME PipelineInit PROVE ChannelTypeOK
    OBVIOUS
  <2>1. <<>> \in Seq(Entry) /\ <<>> \in Seq(Message)
    BY SeqEmpty
  <2> QED
    BY <2>1 DEF PipelineInit, ChannelInit, ChannelTypeOK
<1>2. TypeOK /\ ChannelTypeOK /\ [PipelineNext]_pipelineVars => ChannelTypeOK'
  <2> SUFFICES ASSUME TypeOK, ChannelTypeOK, [PipelineNext]_pipelineVars
               PROVE  ChannelTypeOK'
    OBVIOUS
  <2>1. [ChannelNext]_channelVars
    BY PipelineStepOfChannel
  <2>2. CASE UNCHANGED channelVars
    BY <2>2 DEF channelVars, ChannelTypeOK
  <2> QED
    BY <2>1, <2>2, ChannelTypes
<1>3. TypeOK /\ ChannelTypeOK => PipelineTypeOK
  BY DEF PipelineTypeOK
<1> QED
  BY <1>1, <1>2, <1>3, PipelineImplementsWorker, TypeCorrect, PTL DEF PipelineSpec

(* What was handed to the producer has a known fate.                       *)
HandedHasFate == handed \subseteq Fates

(* It keeps one: the handlers hand nothing over but through ProduceChange. *)
LEMMA HandedHasFateStep ==
    ASSUME TypeOK, ChannelTypeOK, HandedHasFate, [PipelineNext]_pipelineVars
    PROVE  HandedHasFate'
<1>1. Fates \subseteq Fates'
  BY PipelineStepOfChannel, FatesGrow
<1>2. ASSUME handed' = handed PROVE HandedHasFate'
  BY <1>1, <1>2 DEF HandedHasFate
<1>3. CASE ProduceChange
  <2>1. handed' = handed \cup {<<next, pos>>}
    BY <1>3 DEF ProduceChange, ApplyDml, ApplyInsert, ApplyUpdate, ApplyDelete, SendRow
  <2>2. <<next, pos>> \in Queued' \cup lost'
    <3>1. CASE Accept(<<next, pos>>)
      <4>1. <<next, pos>> \in Message
        BY <1>3, ChangeIsMessage, Zenon
           DEF ProduceChange, ApplyDml, ApplyInsert, ApplyUpdate, ApplyDelete, SendRow,
               ReceiveChange
      <4> QED
        BY <3>1, <4>1, Accepts, Zenon
    <3>2. CASE Refuse(<<next, pos>>)
      BY <3>2 DEF Refuse
    <3> QED
      BY <1>3, <3>1, <3>2 DEF ProduceChange
  <2> QED
    BY <1>1, <2>1, <2>2, Zenon DEF HandedHasFate, Fates
<1>4. CASE OtherWorkerStep
  BY <1>2, <1>4, Zenon
     DEF OtherWorkerStep, StartWorker, PublisherCrash, ReceiveBegin, SkipChange, ApplyTruncate,
         ReceiveCommit, ReceiveKeepalive, EndOfRound, ConfirmReceived, SaveSlot, WalWriter,
         AlterSkip, Enable, UserCommit, historyVars
<1>5. CASE WorkerEnds
  BY <1>2, <1>5
     DEF WorkerEnds, WorkerExit, ConnectionLost, ServerCrash, ApplyError, StartApplyCatch,
         historyVars
<1>6. CASE Broker \/ UNCHANGED pipelineVars
  BY <1>2, <1>6 DEF Broker, pipelineVars, vars, historyVars
<1> QED
  BY <1>3, <1>4, <1>5, <1>6 DEF PipelineNext

(* No change is dropped silently between the walsender and                 *)
(* rd_kafka_produce(), for every publisher WAL, topic and number of        *)
(* faults: from NothingSkippedOver of the worker, and because neither a    *)
(* handler nor the channel forgets a message.                              *)
THEOREM FateKnownCorrect == PipelineSpec => []FateKnown
<1>1. PipelineInit => HandedHasFate
  BY DEF PipelineInit, Init, HandedHasFate
<1>2. PipelineTypeOK /\ HandedHasFate /\ [PipelineNext]_pipelineVars => HandedHasFate'
  BY HandedHasFateStep DEF PipelineTypeOK
<1>3. NothingSkippedOver /\ HandedHasFate => FateKnown
  BY DEF NothingSkippedOver, Handled, HandedHasFate, FateKnown, Fates
<1> QED
  BY <1>1, <1>2, <1>3, PipelineTypeCorrect, PipelineImplementsWorker,
     NothingSkippedOverCorrect, PTL DEF PipelineSpec

-----------------------------------------------------------------------------
(* How often a log goes back: the theorem                                  *)

INSTANCE FiniteSetTheorems

(* The places where a log goes back are finitely many.                     *)
LEMMA RewindsFinite ==
    ASSUME NEW log \in Seq(Message)
    PROVE  IsFiniteSet(Rewinds(log)) /\ Cardinality(Rewinds(log)) \in Nat
<1>1. Len(log) \in Nat
  BY SeqLength
<1>2. Rewinds(log) \subseteq 1..Len(log)
  BY <1>1 DEF Rewinds
<1>3. IsFiniteSet(1..Len(log))
  BY <1>1, FS_Interval
<1> QED
  BY <1>2, <1>3, FS_Subset, FS_CardinalityType, Zenon

(* A log that has grown goes back once more, or not.                       *)
LEMMA LongerLog ==
    ASSUME NEW log \in Seq(Message), NEW m \in Message
    PROVE  LET more == Append(log, m)
               back == Len(log) > 0 /\ ~Before(log[Len(log)], m)
           IN  Cardinality(Rewinds(more)) = Cardinality(Rewinds(log)) + (IF back THEN 1 ELSE 0)
<1> DEFINE more == Append(log, m)
           back == Len(log) > 0 /\ ~Before(log[Len(log)], m)
<1>1. Len(log) \in Nat
  BY SeqLength
<1>2. /\ Len(more) = Len(log) + 1 /\ more[Len(log) + 1] = m
      /\ \A n \in 1..Len(log) : more[n] = log[n]
  BY <1>1, SeqAppend
<1> HIDE DEF more
<1>3. Rewinds(log) \subseteq 1..Len(log) /\ Len(log) \notin Rewinds(log)
  BY <1>1 DEF Rewinds
<1>4. IsFiniteSet(Rewinds(log)) /\ Cardinality(Rewinds(log)) \in Nat
  BY RewindsFinite, Zenon
<1>5. \A n : n \in 1..(Len(more) - 1)
                <=> n \in 1..(Len(log) - 1) \/ (n = Len(log) /\ Len(log) > 0)
  BY <1>1, <1>2
<1>6. ASSUME NEW n \in 1..(Len(log) - 1) PROVE more[n] = log[n] /\ more[n + 1] = log[n + 1]
  <2>1. n \in 1..Len(log) /\ n + 1 \in 1..Len(log)
    BY <1>1
  <2> QED
    BY <1>2, <2>1
<1>7. Len(log) > 0 => more[Len(log)] = log[Len(log)]
  <2>1. Len(log) > 0 => Len(log) \in 1..Len(log)
    BY <1>1
  <2> QED
    BY <1>2, <2>1
<1>8. CASE back
  <2>1. Len(log) > 0 /\ ~Before(more[Len(log)], more[Len(log) + 1])
    BY <1>2, <1>7, <1>8
  <2>2. Rewinds(more) = Rewinds(log) \cup {Len(log)}
    BY <1>5, <1>6, <2>1, Zenon DEF Rewinds
  <2>3. Cardinality(Rewinds(more)) = Cardinality(Rewinds(log)) + 1
    BY <1>3, <1>4, <2>2, FS_AddElement, Zenon
  <2> QED
    BY <1>4, <1>8, <2>3, Zenon DEF more
<1>9. CASE ~back
  <2>1. Len(log) > 0 => Before(more[Len(log)], more[Len(log) + 1])
    BY <1>2, <1>7, <1>9
  <2>2. Rewinds(more) = Rewinds(log)
    BY <1>5, <1>6, <2>1, Zenon DEF Rewinds
  <2> QED
    BY <1>4, <1>9, <2>2 DEF more
<1> QED
  BY <1>8, <1>9

(* What the steps take from the counting.                                  *)
LEMMA RewindsCounted == Counting
<1>1. ASSUME NEW log \in Seq(Message), NEW m \in Message
      PROVE  Cardinality(Rewinds(Append(log, m)))
                 = Cardinality(Rewinds(log))
                     + (IF Len(log) > 0 /\ ~Before(log[Len(log)], m) THEN 1 ELSE 0)
  BY LongerLog, Zenon
<1> QED
  BY <1>1, RewindsFinite, Zenon DEF Counting

(* The log of a partition is in commit order but for the restarts, for     *)
(* every WAL, topic and number of faults: kafka_send_optimized() is called *)
(* in the order of the stream, the producer keeps that order within a      *)
(* partition, and only a fault takes the stream back.                      *)
THEOREM RewindsAreRestartsCorrect == PipelineSpec => []RewindsAreRestarts
<1>1. PipelineInit => RewindInv
  <2> SUFFICES ASSUME PipelineInit PROVE RewindInv
    OBVIOUS
  <2>1. /\ queue = <<>> /\ Len(queue) = 0 /\ next = 1 /\ pos = 0 /\ ~up /\ Faults = 0
        /\ \A p \in Partition : topic[p] = <<>> /\ Len(topic[p]) = 0
    <3>1. /\ queue = <<>> /\ next = 1 /\ pos = 0 /\ ~up /\ used = [e \in Event |-> 0]
          /\ \A p \in Partition : topic[p] = <<>>
      BY Zenon DEF PipelineInit, Init, ChannelInit
    <3>2. Faults = 0
      BY <3>1 DEF Faults, Event
    <3> QED
      BY <3>1, <3>2, SeqEmpty, Zenon
  <2>2. ASSUME NEW p \in Partition PROVE Cardinality(Rewinds(topic[p])) = 0 /\ Credit(p) = 0
    <3>1. Rewinds(topic[p]) = {}
      BY <2>1 DEF Rewinds
    <3> QED
      BY <2>1, <3>1, FS_EmptySet DEF Credit, Ahead, Severed
  <2> QED
    BY <2>1, <2>2 DEF RewindInv
<1>2. PipelineTypeOK /\ PipelineTypeOK' /\ RewindInv /\ [PipelineNext]_pipelineVars => RewindInv'
  BY RewindsCounted, RewindStep
<1>3. PipelineTypeOK /\ RewindInv => RewindsAreRestarts
  <2> SUFFICES ASSUME PipelineTypeOK, RewindInv, NEW p \in Partition
               PROVE  Cardinality(Rewinds(topic[p])) <= Faults
    BY DEF RewindsAreRestarts, Faults
  <2>1. Cardinality(Rewinds(topic[p])) \in Nat /\ Faults \in Nat
    BY RewindFacts, RewindsCounted, Zenon DEF PipelineTypeOK
  <2>2. Cardinality(Rewinds(topic[p])) + Credit(p) <= Faults
    BY DEF RewindInv
  <2> QED
    BY <2>1, <2>2 DEF Credit
<1> QED
  BY <1>1, <1>2, <1>3, PipelineTypeCorrect, PTL DEF PipelineSpec
=============================================================================
