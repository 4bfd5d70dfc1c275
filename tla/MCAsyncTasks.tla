---------------------------- MODULE MCAsyncTasks ----------------------------
(* Values for checking AsyncTasks with TLC. *)
EXTENDS AsyncTasks

CONSTANTS a, b

MCKeyLists == {<<a>>, <<b>>}

MCConfigs ==
  {[throwError |-> FALSE, retriesAllowed |-> 1, retryWait |-> TRUE, beforeRetry |-> TRUE],
   [throwError |-> TRUE, retriesAllowed |-> 1, retryWait |-> FALSE, beforeRetry |-> FALSE]}
=============================================================================
