--------------------------- MODULE MCSpooledApply ---------------------------
(* An instance of SpooledApply for model checking.                         *)
EXTENDS SpooledApply, TLC

CONSTANTS x1, x2

Shape(c, s, b) == [changes |-> c, subs |-> s, blocks |-> b]

(* One transaction with enough changes and savepoints to be rolled back in *)
(* the middle, and a small one between its blocks.                         *)
MCShapes == {x1 :> Shape(4, 3, 4) @@ x2 :> Shape(1, 0, 1)}
=============================================================================
