-------------------------- MODULE MCParallelTasks --------------------------
(* Values for checking ParallelTasks with TLC. *)
EXTENDS ParallelTasksRefinement

CONSTANTS a, b

MCKeyLists == {<<a>>, <<b>>, <<a, b, a>>}
=============================================================================
