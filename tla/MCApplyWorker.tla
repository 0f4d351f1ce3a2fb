--------------------------- MODULE MCApplyWorker ---------------------------
(* A small instance of ApplyWorker for TLC.                                *)
EXTENDS ApplyWorker

None == [e \in Event |-> 0]

(* Each crash once, in one behaviour, with a table becoming READY; or an   *)
(* error, which disables the subscription, a crash, and the user skipping. *)
MCBudgets ==
    {[None EXCEPT !["exit"] = 1, !["serverCrash"] = 1, !["publisherCrash"] = 1, !["sync"] = 1],
     [None EXCEPT !["error"] = 1, !["serverCrash"] = 1, !["alterSkip"] = 1]}

(* A transaction that truncates writes a local commit record, one of       *)
(* ordinary changes does not, and an empty one (publishers before version  *)
(* 15 send them) makes no local transaction at all.                        *)
MCWorkloads == {<<<<"truncate", "insert">>, <<"update">>>>,
                <<<<>>, <<"delete">>>>}
=============================================================================
