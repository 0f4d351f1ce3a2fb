---------------------------- MODULE MCTableSync ----------------------------
(* Instances of TableSync for model checking.                              *)
EXTENDS TableSync, TLC

CONSTANTS t1, r1

OneTable == [r \in {r1} |-> t1]

Change(o) == [row |-> r1, op |-> o]

(* r1 is there before the copy; it is given a NULL column and deleted, or  *)
(* just deleted.                                                           *)
MCWorkloads == {<<Change("putNull"), Change("delete")>>}
OneDelete == {<<Change("delete")>>}

Events(syncError, leaderExit, serverCrash, relInval) ==
    ("syncError" :> syncError) @@ ("leaderExit" :> leaderExit)
        @@ ("serverCrash" :> serverCrash) @@ ("relInval" :> relInval)

(* Both sides of the hand-shake fail; or the server crashes; or the        *)
(* relation cache drops an entry.                                          *)
Faults == {Events(1, 1, 0, 0), Events(0, 0, 1, 0), Events(0, 0, 0, 1)}
OneSyncError == {Events(1, 0, 0, 0)}
=============================================================================
