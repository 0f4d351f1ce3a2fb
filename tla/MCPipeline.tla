----------------------------- MODULE MCPipeline -----------------------------
(* Small instances of Pipeline for TLC.                                    *)
EXTENDS Pipeline, TLC

None == [e \in Event |-> 0]

(* A worker that ends and a publisher that crashes; an error, which        *)
(* disables the subscription; a crash of the subscriber; a skip.           *)
MCBudgets == {[None EXCEPT !["exit"] = 1, !["publisherCrash"] = 1],
              [None EXCEPT !["error"] = 1],
              [None EXCEPT !["serverCrash"] = 1],
              [None EXCEPT !["alterSkip"] = 1]}
ExitBudgets == {[None EXCEPT !["exit"] = 1]}

MCWorkloads == {<<<<"insert">>, <<"update">>>>, <<<<"delete", "truncate">>>>}
TwoRows == {<<<<"insert">>, <<"update">>>>}

(* The partitions play the same part in every definition.                  *)
PartitionSymmetry == Permutations(Partition)

MCMessage == (1..2) \X (1..2)
=============================================================================
