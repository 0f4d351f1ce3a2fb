-------------------------- MODULE MCStreamPipeline --------------------------
(* An instance of StreamPipeline for model checking.                       *)
EXTENDS StreamPipeline, TLC

CONSTANTS x1, x2

Shape(c, s, b) == [changes |-> c, subs |-> s, blocks |-> b]

(* Two transactions that are streamed or not, one after the other or       *)
(* overlapping.                                                            *)
MCShapes == {x1 :> Shape(2, 0, 1) @@ x2 :> Shape(1, 0, 1)}
=============================================================================
