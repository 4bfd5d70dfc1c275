--------------------------- MODULE KeyedTaskPool ---------------------------
(***************************************************************************)
(* What the parallel task executor promises, without its stack, queues,    *)
(* lists of parked tasks, timers and workers: tasks are accepted, each is  *)
(* started at most once, at most MaxParallel run at a time, no two running *)
(* tasks share a key, the first failure settles the promise, and the       *)
(* promise resolves only when every accepted task is done.                 *)
(***************************************************************************)
EXTENDS Integers, FiniteSets

CONSTANTS Task, MaxParallel

VARIABLES
  keysOf,   \* the set of keys of each task
  state,    \* how far each task has come
  outcome   \* what the promise has come to

vars == <<keysOf, state, outcome>>

In(s) == {t \in Task : state[t] = s}

Init ==
  /\ state = [t \in Task |-> "unknown"]
  /\ outcome = "pending"

\* More tasks are accepted.  Nothing is accepted once the promise resolved.
Accept(S) ==
  /\ outcome # "resolved"
  /\ S # {} /\ S \subseteq In("unknown")
  /\ state' = [t \in Task |-> IF t \in S THEN "accepted" ELSE state[t]]
  /\ UNCHANGED <<keysOf, outcome>>

Start(t) ==
  /\ state[t] = "accepted"
  /\ Cardinality(In("running")) < MaxParallel
  /\ \A u \in In("running") : keysOf[t] \cap keysOf[u] = {}
  /\ state' = [state EXCEPT ![t] = "running"]
  /\ UNCHANGED <<keysOf, outcome>>

Complete(t) ==
  /\ state[t] = "running"
  /\ state' = [state EXCEPT ![t] = "done"]
  /\ UNCHANGED <<keysOf, outcome>>

Fail(t) ==
  /\ state[t] = "running"
  /\ outcome # "resolved"
  /\ state' = [state EXCEPT ![t] = "failed"]
  /\ outcome' = "rejected"
  /\ UNCHANGED keysOf

Resolve ==
  /\ outcome = "pending"
  /\ \A t \in Task : state[t] \in {"unknown", "done"}
  /\ outcome' = "resolved"
  /\ UNCHANGED <<keysOf, state>>

Next ==
  \/ \E S \in SUBSET Task : Accept(S)
  \/ \E t \in Task : Start(t) \/ Complete(t) \/ Fail(t)
  \/ Resolve

Spec == Init /\ [][Next]_vars
=============================================================================
