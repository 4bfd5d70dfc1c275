------------------------------ MODULE AsyncTasks ------------------------------
(***************************************************************************)
(* performAsyncTasks() of @dereekb/util: an array of values is worked      *)
(* through by the executor of ParallelTasks, whose tasks are retried when  *)
(* they fail, up to a number of times, after a wait and a callback.  One   *)
(* of its callers is modelled with it: the batches of                      *)
(* iterateFirestoreDocumentSnapshotBatches(), where every call of the task *)
(* function is given the next number.                                      *)
(*                                                                         *)
(* A task is the index of its value in the input.  Every step of the       *)
(* executor is a step here.                                                *)
(***************************************************************************)
EXTENDS ParallelTasks

CONSTANTS
  Configs,  \* values of throwError, retriesAllowed, retryWait and beforeRetry, of
            \* the last two whether there is one
  NoIndex   \* no number yet

ASSUME ConfigsAssumption ==
  Configs \subseteq [throwError : BOOLEAN, retriesAllowed : Nat,
                     retryWait : BOOLEAN, beforeRetry : BOOLEAN]
ASSUME NoIndexAssumption == NoIndex \notin Nat

VARIABLES
  config,       \* input: one of Configs
  tryNumber,    \* for each task, the number of its current try
  progress,     \* for each task, what _performAsyncTask() awaits
  runIndex,     \* for each task, the index its factory call got
  taskResults,  \* for each such index, the task that ended there, and how
  batchIndex,   \* for each task, the number its latest call got
  calls,        \* calls of the task function
  report        \* what performAsyncTasks() has come to

taskVars == <<tryNumber, progress, runIndex, batchIndex, calls>>
asyncVars == <<vars, config, taskVars, taskResults, report>>

Progress == {
  "none",    \* not started
  "trying",  \* taskFn() is awaited
  "wait",    \* the wait before a retry is awaited
  "before",  \* beforeRetry() is awaited
  "succeeded", "gaveUp", "threw",
  "broken"}  \* beforeRetry() rejected

Results == [task : Task, success : BOOLEAN]

NoResult == [task |-> NoTask, success |-> FALSE]

-----------------------------------------------------------------------------
(* The executor *)

\* The whole input array is given out by the first call of the input factory,
\* and null by the second.
InputFactoryAnswers(w) ==
  /\ \/ /\ baseI = 0 /\ FactoryReturnsTasks(w) /\ baseI' = TaskCount
     \/ /\ baseI = TaskCount /\ FactoryReturnsNull(w)
  /\ UNCHANGED <<config, taskVars, taskResults, report>>

TasksProceed(w) ==
  /\ Dispatch(w) \/ ResumeGetNextTask(w) \/ FinishParallel(w)
  /\ UNCHANGED <<config, taskVars, taskResults, report>>

-----------------------------------------------------------------------------
(* _performAsyncTask() *)

CallTaskFn(t, n) ==
  /\ tryNumber' = [tryNumber EXCEPT ![t] = n]
  /\ progress' = [progress EXCEPT ![t] = "trying"]
  /\ batchIndex' = [batchIndex EXCEPT ![t] = calls]
  /\ calls' = calls + 1

\* The index the executor passes to the task factory.
FactoryIndex == currentRunIndex

\* The task factory calls taskFn() for the first time before it returns.
FirstTry(w) ==
  /\ StartTask(w)
  /\ runIndex' = [runIndex EXCEPT ![hand[w]] = FactoryIndex]
  /\ CallTaskFn(hand[w], 0)
  /\ UNCHANGED <<config, taskResults, report>>

\* The rest of the task: its result is stored before the executor goes on.
StoreAtNextFree(t, success) ==
  taskResults' = [taskResults EXCEPT
    ![Cardinality({i \in DOMAIN taskResults : taskResults[i] # NoResult})] =
      [task |-> t, success |-> success]]

StoreAtLatestIndex(t, success) ==
  taskResults' = [taskResults EXCEPT ![currentRunIndex - 1] = [task |-> t, success |-> success]]

StoreResult(t, success) ==
  taskResults' = [taskResults EXCEPT ![runIndex[t]] = [task |-> t, success |-> success]]

End(t, how) ==
  /\ progress' = [progress EXCEPT ![t] = how]
  /\ UNCHANGED <<config, tryNumber, runIndex, batchIndex, calls, report>>

TrySucceeds(w) ==
  /\ TaskSucceeds(w)
  /\ progress[hand[w]] = "trying"
  /\ StoreResult(hand[w], TRUE)
  /\ End(hand[w], "succeeded")

RetriesRemaining(t) == config.retriesAllowed - tryNumber[t] > 0

\* What follows the wait, or a failed try when there is none.
DoNextTry(t) ==
  IF config.beforeRetry
  THEN /\ progress' = [progress EXCEPT ![t] = "before"]
       /\ UNCHANGED <<tryNumber, batchIndex, calls>>
  ELSE CallTaskFn(t, tryNumber[t] + 1)

\* A try has rejected, and there are retries left.
TryFails(w) ==
  /\ pc[w] = "running"
  /\ progress[hand[w]] = "trying"
  /\ RetriesRemaining(hand[w])
  /\ \/ /\ config.retryWait
        /\ progress' = [progress EXCEPT ![hand[w]] = "wait"]
        /\ UNCHANGED <<tryNumber, batchIndex, calls>>
     \/ ~config.retryWait /\ DoNextTry(hand[w])
  /\ UNCHANGED <<vars, config, runIndex, taskResults, report>>

RetryWaitElapses(w) ==
  /\ pc[w] = "running"
  /\ progress[hand[w]] = "wait"
  /\ DoNextTry(hand[w])
  /\ UNCHANGED <<vars, config, runIndex, taskResults, report>>

BeforeRetryResolves(w) ==
  /\ pc[w] = "running"
  /\ progress[hand[w]] = "before"
  /\ CallTaskFn(hand[w], tryNumber[hand[w]] + 1)
  /\ UNCHANGED <<vars, config, runIndex, taskResults, report>>

BeforeRetryErrorSwallowed(w) ==
  /\ TaskSucceeds(w)
  /\ progress[hand[w]] = "before"
  /\ End(hand[w], "broken")
  /\ UNCHANGED taskResults

\* beforeRetry() is awaited outside of the try block: its error ends the task,
\* whatever throwError says.
BeforeRetryRejects(w) ==
  /\ TaskFails(w)
  /\ progress[hand[w]] = "before"
  /\ End(hand[w], "broken")
  /\ UNCHANGED taskResults

\* The last try has rejected and errors are not thrown: the task resolves.
GiveUp(w) ==
  /\ ~config.throwError
  /\ TaskSucceeds(w)
  /\ progress[hand[w]] = "trying" /\ ~RetriesRemaining(hand[w])
  /\ StoreResult(hand[w], FALSE)
  /\ End(hand[w], "gaveUp")

Throw(w) ==
  /\ config.throwError
  /\ TaskFails(w)
  /\ progress[hand[w]] = "trying" /\ ~RetriesRemaining(hand[w])
  /\ End(hand[w], "threw")
  /\ UNCHANGED taskResults

-----------------------------------------------------------------------------
(* performAsyncTasks(), once the executor has settled *)

\* What the loop over the results pushes for each of them.
Stored(success) ==
  FlattenSeq([i \in 1..TaskCount |->
    LET r == taskResults[i - 1]
    IN  IF r # NoResult /\ r.success = success THEN <<r>> ELSE <<>>])

ReportResults ==
  /\ outcome = "resolved" /\ report.state = "pending"
  /\ report' = [state |-> "resolved", succeded |-> Stored(TRUE), failed |-> Stored(FALSE)]
  /\ UNCHANGED <<vars, config, taskVars, taskResults>>

ReportRejection ==
  /\ outcome = "rejected" /\ report.state = "pending"
  /\ report' = [state |-> "rejected", succeded |-> <<>>, failed |-> <<>>]
  /\ UNCHANGED <<vars, config, taskVars, taskResults>>

-----------------------------------------------------------------------------
(* The specification *)

AsyncInit ==
  /\ Init
  /\ ~waitsBetweenRequests
  /\ config \in Configs
  /\ tryNumber = [t \in Task |-> 0]
  /\ progress = [t \in Task |-> "none"]
  /\ runIndex = [t \in Task |-> NoIndex]
  /\ taskResults = [i \in Task |-> NoResult]
  /\ batchIndex = [t \in Task |-> NoIndex]
  /\ calls = 0
  /\ report = [state |-> "pending", succeded |-> <<>>, failed |-> <<>>]

TrySettles(w) == TrySucceeds(w) \/ TryFails(w) \/ GiveUp(w) \/ Throw(w)

BeforeRetrySettles(w) == BeforeRetryResolves(w) \/ BeforeRetryRejects(w)

WorkerStep(w) ==
  \/ InputFactoryAnswers(w) \/ TasksProceed(w) \/ FirstTry(w)
  \/ TrySettles(w) \/ RetryWaitElapses(w) \/ BeforeRetrySettles(w)

\* The call is over; what still runs may go on.
Over == report.state # "pending" /\ UNCHANGED asyncVars

AsyncNext ==
  \/ \E w \in Worker : WorkerStep(w)
  \/ ReportResults \/ ReportRejection
  \/ Over

\* Timers fire, continuations run, and taskFn() and beforeRetry() settle, in one
\* way or another.
AsyncSpec ==
  /\ AsyncInit /\ [][AsyncNext]_asyncVars
  /\ \A w \in Worker : WF_asyncVars(WorkerStep(w))
  /\ WF_asyncVars(ReportResults \/ ReportRejection)

-----------------------------------------------------------------------------
(* Properties *)

\* The values are of the kind the code declares.
AsyncTypeOK ==
  /\ TypeOK
  /\ tryNumber \in [Task -> Nat]
  /\ progress \in [Task -> Progress]
  /\ runIndex \in [Task -> Task \cup {NoIndex}]
  /\ taskResults \in [Task -> Results \cup {NoResult}]
  /\ batchIndex \in [Task -> Nat \cup {NoIndex}]
  /\ calls \in Nat
  /\ config \in Configs
  /\ report \in [state : {"pending", "resolved", "rejected"},
                 succeded : Seq(Results), failed : Seq(Results)]

UnderWay(t) == progress[t] \in {"trying", "wait", "before"}

Ended(t) == progress[t] \in {"succeeded", "gaveUp"}

Begun == {t \in Task : progress[t] # "none"}

\* Nothing happens before the input factory has given out the whole input.
InputComesFirst ==
  baseI = TaskCount \/ \A w \in Worker : pc[w] \in {"factory", "queued"}

\* How far a task has come agrees with the worker that holds it, if one does.
ProgressFollows ==
  /\ \A t \in Task :
       /\ UnderWay(t) <=> \E w \in Worker : pc[w] = "running" /\ hand[w] = t
       /\ progress[t] \in {"broken", "threw"}
            <=> \E w \in Worker : pc[w] = "failed" /\ hand[w] = t
       /\ Ended(t) <=> t \in Completed
       /\ progress[t] = "threw" => config.throwError
  /\ outcome = "rejected" => \E t \in Task : progress[t] \in {"broken", "threw"}
  /\ report.state # "pending" => outcome = report.state

\* The tasks begun have the numbers up to currentRunIndex, each its own, and no call
\* of the task function got a number below that of its task.
NumbersAreApart ==
  /\ currentRunIndex = Cardinality(Begun)
  /\ currentRunIndex <= calls
  /\ \A t \in Task \ Begun : runIndex[t] = NoIndex
  /\ \A t \in Begun : runIndex[t] \in 0..(currentRunIndex - 1) /\ batchIndex[t] \in Nat
  /\ \A t, u \in Begun : runIndex[t] = runIndex[u] => t = u
  /\ \A i \in 0..(currentRunIndex - 1) : \E t \in Begun : runIndex[t] = i
  /\ \A t \in Begun :
       /\ runIndex[t] <= batchIndex[t]
       /\ calls = currentRunIndex => batchIndex[t] = runIndex[t]

\* The result of a task, and nothing else, is stored at the number of the task.
ResultsFollow ==
  /\ \A t \in Task : Ended(t) =>
       taskResults[runIndex[t]] = [task |-> t, success |-> progress[t] = "succeeded"]
  /\ \A i \in Task : taskResults[i] # NoResult => \E t \in Task : Ended(t) /\ runIndex[t] = i

\* What was reported is what is stored.
ReportFollows ==
  report.state = "resolved" =>
    report.succeded = Stored(TRUE) /\ report.failed = Stored(FALSE)

\* The inductive invariant of the tries, the numbers and the results.
AsyncInvariant ==
  /\ AsyncTypeOK
  /\ InputComesFirst
  /\ ProgressFollows
  /\ NumbersAreApart
  /\ ResultsFollow
  /\ ReportFollows

\* Tasks that share a key do not interleave their tries: from the first try of a
\* task to its end, the waits before its retries included, no other one is begun.
RetriesKeepTheirKeys ==
  \A t, u \in Task :
    t # u /\ UnderWay(t) /\ UnderWay(u) => KeysOf(t) \cap KeysOf(u) = {}

\* When performAsyncTasks() resolves, each value of the input is reported once, as
\* succeeded when its last try resolved and as failed otherwise, though tasks end
\* in any order and are retried meanwhile.
EveryInputIsReportedOnce ==
  report.state = "resolved" =>
    /\ Len(report.succeded) + Len(report.failed) = TaskCount
    /\ {report.succeded[i].task : i \in 1..Len(report.succeded)}
         = {t \in Task : progress[t] = "succeeded"}
    /\ {report.failed[i].task : i \in 1..Len(report.failed)}
         = {t \in Task : progress[t] = "gaveUp"}

\* With throwError false the call rejects only when beforeRetry() has rejected,
\* and with throwError true it never resolves over a task that failed.
RejectionHasItsCause ==
  /\ report.state = "rejected" =>
       \E t \in Task : progress[t] = "broken" \/ (config.throwError /\ progress[t] = "threw")
  /\ report.state = "resolved" => \A t \in Task : progress[t] \notin {"broken", "threw"}

\* The i reported with a batch is never above the number its iterateSnapshotBatch()
\* call got, and is that number when no batch was retried and none failed.
ReportedIndexFollowsTheCalls ==
  report.state = "resolved" =>
    \A i \in 1..Len(report.succeded) :
      LET called == batchIndex[report.succeded[i].task] IN
      /\ i - 1 <= called
      /\ calls = TaskCount /\ report.failed = <<>> => i - 1 = called

\* The call settles, and every task that was begun ends, those too that are
\* between two tries when another one rejects the call.
BegunTasksEnd ==
  /\ <>(report.state # "pending")
  /\ \A t \in Task : UnderWay(t) ~> ~UnderWay(t)
=============================================================================
