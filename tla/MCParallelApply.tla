--------------------------- MODULE MCParallelApply ---------------------------
(* An instance of ParallelApply for model checking.                        *)
EXTENDS ParallelApply, TLC

CONSTANTS x1, x2

Shape(c, s, b) == [changes |-> c, subs |-> s, blocks |-> b]

(* One transaction with a savepoint and two blocks, and an ordinary one;   *)
(* or two short ones, one after the other or overlapping.                  *)
MCShapes == {x1 :> Shape(1, 1, 2) @@ x2 :> Shape(1, 0, 0),
             x1 :> Shape(1, 0, 1) @@ x2 :> Shape(1, 0, 1)}
=============================================================================
