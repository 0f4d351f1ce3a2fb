------------------------------ MODULE MCTwoPhase ------------------------------
(* An instance of TwoPhase for model checking.                             *)
EXTENDS TwoPhase

(* Every fault once, or the worker alone twice.                            *)
MCBudgets == {[e \in Fault |-> 1], [e \in Fault |-> IF e = "exit" THEN 2 ELSE 0]}
=============================================================================
