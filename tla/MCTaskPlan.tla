------------------------------- MODULE MCTaskPlan -------------------------------
(* Small instance of the task plan. *)
EXTENDS TaskPlan, TLC

CONSTANTS a, b

MCTools == {a, b}
MCOutlines == {<<{a}, {b}>>, <<{b}, {}, {a}>>}

Symmetry == Permutations(Runs)
================================================================================
