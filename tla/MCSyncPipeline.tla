-------------------------- MODULE MCSyncPipeline --------------------------
(* Instances of SyncPipeline for model checking.                           *)
EXTENDS SyncPipeline, TLC

CONSTANTS t1, t2, r1

(* t2 is empty.                                                            *)
RowOfT1 == [r \in {r1} |-> t1]

Change(o) == [row |-> r1, op |-> o]

(* r1 is there before the copy; it changes once, or twice.                 *)
MCWorkloads == {<<Change("putNull")>>, <<Change("put")>>,
                <<Change("put"), Change("put")>>, <<Change("put"), Change("delete")>>}

Events(syncError, leaderExit, serverCrash, relInval) ==
    ("syncError" :> syncError) @@ ("leaderExit" :> leaderExit)
        @@ ("serverCrash" :> serverCrash) @@ ("relInval" :> relInval)

(* One of the processes fails; or the server crashes and the relation      *)
(* cache drops an entry.                                                   *)
Faults == {Events(1, 0, 0, 0), Events(0, 1, 0, 0), Events(0, 0, 1, 1)}

-----------------------------------------------------------------------------
(* Bounds                                                                  *)

(* The processes and the broker fail while t1 is synchronized, and the     *)
(* topic is small.  That a broker is reliable says nothing of a binary     *)
(* copy.                                                                   *)
OneFaulty ==
    /\ SyncPc(t2) = "none" /\ ~(reliable /\ binary)
    /\ \A k \in Partition : Cardinality(Held) + Len(topic[k]) <= 3

(* Nothing fails, so that it does not matter which commits are on disk,    *)
(* and MaxMessages leaves room for whatever the processes send.            *)
Faultless ==
    /\ reliable /\ ~binary /\ \A e \in Event : used[e] = 0
    /\ Len(db) <= 2

(* Faults with the change that COPY cannot read; both workers at a time    *)
(* with one change; one after the other with two.                          *)
Explored ==
    IF wal = <<Change("putNull")>> THEN OneFaulty
    ELSE Faultless /\ (Len(wal) = 2 => Cardinality(Running) <= 1)
=============================================================================
