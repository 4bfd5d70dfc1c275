---------------------- MODULE ParallelTasksRefinement ----------------------
(***************************************************************************)
(* The executor of ParallelTasks implements KeyedTaskPool: where a task    *)
(* stands is read off the indexes given out, the tasks taken and the       *)
(* workers that hold them.                                                 *)
(***************************************************************************)
EXTENDS ParallelTasks

StateOf(t) ==
  LET holds(stage) == \E w \in Worker : pc[w] = stage /\ hand[w] = t IN
  CASE t \notin Produced                 -> "unknown"
    [] t \in Completed                   -> "done"
    [] holds("running")                  -> "running"
    [] holds("failed")                   -> "failed"
    [] OTHER                             -> "accepted"

Pool == INSTANCE KeyedTaskPool WITH
  keysOf <- [t \in Task |-> KeysOf(t)],
  state <- [t \in Task |-> StateOf(t)]

\* Whatever the order of continuations, timers and answers, the executor does
\* only what the pool of keyed tasks does: each task is started at most once,
\* after it was given out, with at most MaxParallel running and no key shared,
\* and the promise resolves only when every task given out is done.
ImplementsPool == Pool!Spec
=============================================================================
