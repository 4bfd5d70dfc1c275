------------------------ MODULE ExecutorCallersProofs ------------------------
(***************************************************************************)
(* What is proved of the three functions that have the executor of         *)
(* ParallelTasks do their work, each for any number of workers: AsyncTasks, *)
(* CheckpointIteration and FetchPages, one after the other.  Every step of *)
(* theirs is one of the executor or leaves it alone, so that what          *)
(* ParallelTasksProofs shows of the executor holds in each of them.        *)
(***************************************************************************)
EXTENDS AsyncTasks, CheckpointIteration, FetchPages, ParallelTasksProofs

-----------------------------------------------------------------------------
(***************************************************************************)
(* AsyncTasks, for any number of values, keys and retries.  The mapped     *)
(* state of a task in the pool of keyed tasks tells how far its tries may  *)
(* have come.                                                              *)
(***************************************************************************)

\* The tries, the waits and the callbacks are no steps of the executor.
LEMMA StepsOfAsyncTasks == [AsyncNext]_asyncVars => [Next]_vars
<1> SUFFICES ASSUME [AsyncNext]_asyncVars
             PROVE  [Next]_vars
  OBVIOUS
<1>1. ASSUME NEW w \in Worker, WorkerStep(w)
      PROVE  [Next]_vars
  <2>1. CASE InputFactoryAnswers(w)
    BY <2>1 DEF InputFactoryAnswers, FactoryAnswers, Next
  <2>2. CASE TasksProceed(w)
    BY <2>2 DEF TasksProceed, Proceed, Next
  <2>3. CASE FirstTry(w)
    BY <2>3 DEF FirstTry, Proceed, Next
  <2>4. CASE TrySettles(w)
    BY <2>4 DEF TrySettles, TrySucceeds, TryFails, GiveUp, Throw, TaskSettles, Next
  <2>5. CASE RetryWaitElapses(w)
    BY <2>5 DEF RetryWaitElapses
  <2>6. CASE BeforeRetrySettles(w)
    BY <2>6 DEF BeforeRetrySettles, BeforeRetryResolves, BeforeRetryRejects, TaskSettles, Next
  <2> QED BY <1>1, <2>1, <2>2, <2>3, <2>4, <2>5, <2>6 DEF WorkerStep
<1>2. CASE ReportResults \/ ReportRejection
  BY <1>2 DEF ReportResults, ReportRejection
<1>3. CASE UNCHANGED asyncVars
  BY <1>3 DEF asyncVars
<1> QED BY <1>1, <1>2, <1>3 DEF AsyncNext, Over

\* The executor of performAsyncTasks() is the executor of ParallelTasks: whatever holds
\* of that one, its exclusion of keys and its delivery of tasks, holds here.
THEOREM AsyncTasksRunTheExecutor == AsyncSpec => Spec
<1>1. AsyncInit => Init
  BY DEF AsyncInit
<1> QED BY <1>1, StepsOfAsyncTasks, PTL DEF AsyncSpec, Spec

-----------------------------------------------------------------------------
(* The mapped states of the tasks *)

\* The mapped state of a task and the workers say the same of it.
StatesTell ==
  \A t \in Task :
    /\ StateOf(t) = "running" <=> t \in TasksIn("running")
    /\ StateOf(t) = "failed" <=> t \in TasksIn("failed")
    /\ StateOf(t) = "done" <=> t \in Completed

LEMMA StatesAreTold == StatesAgree => StatesTell
<1> SUFFICES ASSUME StatesAgree, NEW t \in Task
             PROVE  /\ StateOf(t) = "running" <=> t \in TasksIn("running")
                    /\ StateOf(t) = "failed" <=> t \in TasksIn("failed")
                    /\ StateOf(t) = "done" <=> t \in Completed
  BY DEF StatesTell
<1> USE DEF StatesAgree
<1>1. CASE t \notin Produced
  BY <1>1
<1>2. CASE t \in Completed
  BY <1>2
<1>3. CASE t \in TasksIn("running")
  BY <1>3
<1>4. CASE t \in TasksIn("failed")
  BY <1>4
<1>5. CASE t \in Produced /\ t \notin Completed \cup TasksIn("running") \cup TasksIn("failed")
  BY <1>5
<1> QED BY <1>1, <1>2, <1>3, <1>4, <1>5

\* The task a worker holds is where the worker is.
HandsTell ==
  \A w \in Worker :
    Holds(w) =>
      /\ hand[w] \in Task
      /\ pc[w] = "chosen" => StateOf(hand[w]) \notin {"running", "failed", "done"}
      /\ pc[w] = "running" => StateOf(hand[w]) = "running"
      /\ pc[w] = "failed" => StateOf(hand[w]) = "failed"

LEMMA HandsAreTold == DeliveryInvariant => HandsTell
<1> SUFFICES ASSUME DeliveryInvariant, NEW w \in Worker, Holds(w)
             PROVE  /\ hand[w] \in Task
                    /\ pc[w] = "chosen" => StateOf(hand[w]) \notin {"running", "failed", "done"}
                    /\ pc[w] = "running" => StateOf(hand[w]) = "running"
                    /\ pc[w] = "failed" => StateOf(hand[w]) = "failed"
  BY DEF HandsTell
<1>1. HandsAgree /\ HeldTasksAreApart /\ hand \in [Worker -> Task \cup {NoTask}]
  BY DEF DeliveryInvariant, ExecutorInvariant, TypeOK
<1>2. StatesTell
  BY StateIs, StatesAreTold
<1>3. hand[w] \in Task
  BY <1>1 DEF Holds
<1>4. PICK u \in Task : u = hand[w]
  BY <1>3
<1>5. ASSUME pc[w] = "chosen"
      PROVE  u \notin TasksIn("running") \cup TasksIn("failed") \cup Completed
  <2>1. ASSUME NEW v \in Worker, pc[v] \in {"running", "failed"}, hand[v] = u
        PROVE  FALSE
    <3>1. v # w /\ Holds(v)
      BY <1>1, <1>4, <1>5, <2>1 DEF HandsAgree, Holds
    <3> QED BY <1>1, <1>4, <2>1, <3>1 DEF HeldTasksAreApart
  <2>2. u \in Held
    BY <1>4 DEF Held
  <2> QED BY <2>1, <2>2 DEF TasksIn, Completed
<1>6. /\ pc[w] = "running" => u \in TasksIn("running")
      /\ pc[w] = "failed" => u \in TasksIn("failed")
  BY <1>4 DEF TasksIn
<1> QED BY <1>2, <1>4, <1>5, <1>6 DEF StatesTell

\* What a step of the executor has to go by.
StepTold == /\ BothAgree /\ StatesTell /\ StatesTell' /\ HandsTell /\ HandsTell'
            /\ PoolStep

LEMMA StepIsTold == DeliveryInvariant /\ [Next]_vars => StepTold
<1>1. DeliveryInvariant /\ [Next]_vars => BothAgree /\ PoolStep
  BY BothStates, EveryStepIsOfThePool
<1>2. StatesAgree' => StatesTell'
  BY StatesAreTold, PTL
<1>3. DeliveryInvariant' => HandsTell'
  BY HandsAreTold, PTL
<1> QED BY <1>1, <1>2, <1>3, StatesAreTold, HandsAreTold DEF StepTold, BothAgree

\* What a step of the pool does to the states, as far as one state or two tell.
LEMMA PoolStepStates ==
  ASSUME PoolStep
  PROVE  \/ \A t \in Task : StateOf(t)' = StateOf(t)
         \/ \A t \in Task : \/ StateOf(t)' = StateOf(t)
                            \/ StateOf(t) = "unknown" /\ StateOf(t)' = "accepted"
         \/ \E u \in Task :
              /\ \A t \in Task : t # u => StateOf(t)' = StateOf(t)
              /\ \/ StateOf(u) = "accepted" /\ StateOf(u)' = "running"
                 \/ StateOf(u) = "running" /\ StateOf(u)' \in {"done", "failed"}
<1> DEFINE state == [t \in Task |-> StateOf(t)]
<1>1. \A t \in Task : state[t] = StateOf(t) /\ state'[t] = StateOf(t)'
  OBVIOUS
<1>2. CASE UNCHANGED Pool!vars
  <2>1. state' = state
    BY <1>2 DEF Pool!vars
  <2> QED BY <1>1, <2>1
<1>3. CASE Pool!Resolve
  <2>1. state' = state
    BY <1>3 DEF Pool!Resolve
  <2> QED BY <1>1, <2>1
<1>4. ASSUME NEW S \in SUBSET Task, Pool!Accept(S)
      PROVE  \A t \in Task : \/ StateOf(t)' = StateOf(t)
                             \/ StateOf(t) = "unknown" /\ StateOf(t)' = "accepted"
  <2>1. /\ S \subseteq {t \in Task : state[t] = "unknown"}
        /\ state' = [t \in Task |-> IF t \in S THEN "accepted" ELSE state[t]]
    BY <1>4 DEF Pool!Accept, Pool!In
  <2> QED BY <1>1, <2>1
<1>5. ASSUME NEW u \in Task, Pool!Start(u) \/ Pool!Complete(u) \/ Pool!Fail(u)
      PROVE  /\ \A t \in Task : t # u => StateOf(t)' = StateOf(t)
             /\ \/ StateOf(u) = "accepted" /\ StateOf(u)' = "running"
                \/ StateOf(u) = "running" /\ StateOf(u)' \in {"done", "failed"}
  <2>1. \/ state[u] = "accepted" /\ state' = [state EXCEPT ![u] = "running"]
        \/ state[u] = "running" /\ state' = [state EXCEPT ![u] = "done"]
        \/ state[u] = "running" /\ state' = [state EXCEPT ![u] = "failed"]
    BY <1>5 DEF Pool!Start, Pool!Complete, Pool!Fail
  <2> HIDE DEF state
  <2>2. state \in [Task -> {StateOf(t) : t \in Task}]
    BY DEF state
  <2>3. \A t \in Task : t # u => state'[t] = state[t]
    BY <2>1, <2>2
  <2>4. \/ state[u] = "accepted" /\ state'[u] = "running"
        \/ state[u] = "running" /\ state'[u] \in {"done", "failed"}
    BY <2>1, <2>2
  <2> QED BY <1>1, <2>3, <2>4
<1> HIDE DEF state
<1> QED BY <1>2, <1>3, <1>4, <1>5 DEF PoolStep, Pool!Next

\* A step that leaves the workers alone that run a task or whose task failed starts and
\* ends none.
LEMMA NoTaskMoves ==
  ASSUME StepTold,
         \A x \in Worker : pc[x] \in {"running", "failed"} \/ pc'[x] \in {"running", "failed"}
                             => pc'[x] = pc[x] /\ hand'[x] = hand[x]
  PROVE  \A t \in Task :
           \/ StateOf(t)' = StateOf(t)
           \/ StateOf(t) = "unknown" /\ StateOf(t)' = "accepted"
<1>1. ASSUME NEW s \in {"running", "failed"}
      PROVE  TasksIn(s)' = TasksIn(s)
  <2>1. \A x \in Worker : pc'[x] = s <=> pc[x] = s
    OBVIOUS
  <2>2. \A x \in Worker : pc[x] = s => hand'[x] = hand[x]
    OBVIOUS
  <2> QED BY <2>1, <2>2 DEF TasksIn
<1>2. \A t \in Task : StateOf(t) = "running" <=> StateOf(t)' = "running"
  BY <1>1 DEF StepTold, StatesTell
<1> QED BY <1>2, PoolStepStates DEF StepTold

\* A step that starts or ends a task moves no other one.
LEMMA OnlyThisTaskMoves ==
  ASSUME StepTold, NEW u \in Task,
         \/ StateOf(u)' = "running" /\ StateOf(u) # "running"
         \/ StateOf(u) = "running" /\ StateOf(u)' # "running"
  PROVE  \A t \in Task : t # u => StateOf(t)' = StateOf(t)
BY PoolStepStates DEF StepTold

-----------------------------------------------------------------------------
(* The parts of the invariant *)

\* ProgressFollows, with the mapped states in the place of the workers.
Tracking ==
  \A t \in Task :
    /\ UnderWay(t) <=> StateOf(t) = "running"
    /\ progress[t] \in {"broken", "threw"} <=> StateOf(t) = "failed"
    /\ Ended(t) <=> StateOf(t) = "done"
    /\ progress[t] = "threw" => config.throwError

\* What the executor's promise and the report have to do with failed tasks.
OutcomeFollows ==
  /\ outcome = "rejected" => \E t \in Task : progress[t] \in {"broken", "threw"}
  /\ report.state # "pending" => outcome = report.state

LEMMA ProgressIsTracked == StatesTell => (ProgressFollows <=> Tracking /\ OutcomeFollows)
<1>1. \A t, s : t \in TasksIn(s) <=> \E w \in Worker : pc[w] = s /\ hand[w] = t
  BY DEF TasksIn
<1> QED BY <1>1 DEF StatesTell, ProgressFollows, Tracking, OutcomeFollows

\* The invariant before a step, and what the step has to go by.
AsyncTold == StepTold /\ AsyncInvariant /\ Tracking /\ OutcomeFollows

LEMMA AsyncIsTold == DeliveryInvariant /\ [Next]_vars /\ AsyncInvariant => AsyncTold
<1> SUFFICES ASSUME DeliveryInvariant, [Next]_vars, AsyncInvariant
             PROVE  AsyncTold
  OBVIOUS
<1>1. StepTold
  BY StepIsTold
<1> QED BY <1>1, ProgressIsTracked DEF AsyncTold, StepTold, AsyncInvariant

\* What is left to show of a step once its states are told.
LEMMA InvariantKept ==
  ASSUME StepTold, AsyncTypeOK', InputComesFirst', Tracking', OutcomeFollows',
         NumbersAreApart', ResultsFollow', ReportFollows'
  PROVE  AsyncInvariant'
<1>1. StatesTell' => (ProgressFollows' <=> Tracking' /\ OutcomeFollows')
  BY ProgressIsTracked, PTL
<1> QED BY <1>1 DEF StepTold, AsyncInvariant

\* The numbers do not change unless a task is begun or called again.
LEMMA NumbersKept ==
  ASSUME NumbersAreApart, Begun' = Begun,
         UNCHANGED <<runIndex, batchIndex, calls, currentRunIndex>>
  PROVE  NumbersAreApart'
BY DEF NumbersAreApart

\* Nor do the results unless a task ends with one.
LEMMA ResultsKept ==
  ASSUME ResultsFollow, UNCHANGED taskResults,
         \A t \in Task : Ended(t)' <=> Ended(t),
         \A t \in Task : Ended(t) => progress'[t] = progress[t] /\ runIndex'[t] = runIndex[t]
  PROVE  ResultsFollow'
<1>1. \A t \in Task : Ended(t)' =>
        taskResults'[runIndex'[t]] = [task |-> t, success |-> progress'[t] = "succeeded"]
  BY DEF ResultsFollow
<1>2. \A i \in Task : taskResults'[i] # NoResult => \E t \in Task : Ended(t)' /\ runIndex'[t] = i
  BY DEF ResultsFollow
<1> QED BY <1>1, <1>2 DEF ResultsFollow

LEMMA StoredKept ==
  ASSUME ReportFollows, UNCHANGED <<taskResults, report>>
  PROVE  ReportFollows'
<1>1. \A b \in BOOLEAN : Stored(b)' = Stored(b)
  BY DEF Stored
<1> QED BY <1>1 DEF ReportFollows

\* While a task runs the promise has not resolved, so that nothing is reported.
LEMMA RunningIsNotReported ==
  ASSUME DeliveryInvariant, OutcomeFollows, NEW w \in Worker, pc[w] = "running"
  PROVE  outcome # "resolved" /\ report.state # "resolved"
BY DEF DeliveryInvariant, WorkersFinishLast, OutcomeFollows

-----------------------------------------------------------------------------
(* The steps *)

\* A step of the executor that starts and ends no task.
LEMMA ExecutorOnly ==
  ASSUME AsyncTold, UNCHANGED <<config, taskVars, taskResults, report, currentRunIndex>>,
         outcome' = outcome \/ (outcome = "pending" /\ outcome' = "resolved"),
         InputComesFirst',
         \A x \in Worker : pc[x] \in {"running", "failed"} \/ pc'[x] \in {"running", "failed"}
                             => pc'[x] = pc[x] /\ hand'[x] = hand[x]
  PROVE  AsyncInvariant'
<1> USE DEF taskVars
<1>1. AsyncTypeOK'
  BY DEF AsyncTold, StepTold, BothAgree, DeliveryInvariant, ExecutorInvariant, AsyncInvariant,
         AsyncTypeOK
<1>2. Tracking'
  <2>1. \A t \in Task : \/ StateOf(t)' = StateOf(t)
                        \/ StateOf(t) = "unknown" /\ StateOf(t)' = "accepted"
    BY NoTaskMoves DEF AsyncTold
  <2> QED BY <2>1 DEF AsyncTold, Tracking, UnderWay, Ended
<1>3. OutcomeFollows'
  BY DEF AsyncTold, OutcomeFollows
<1>4. NumbersAreApart'
  BY NumbersKept DEF AsyncTold, AsyncInvariant, Begun
<1>5. ResultsFollow'
  BY ResultsKept DEF AsyncTold, AsyncInvariant, Ended
<1>6. ReportFollows'
  BY StoredKept DEF AsyncTold, AsyncInvariant
<1> QED BY <1>1, <1>2, <1>3, <1>4, <1>5, <1>6, InvariantKept DEF AsyncTold

LEMMA InputFactoryAnswersStep ==
  ASSUME AsyncTold, NEW w \in Worker, InputFactoryAnswers(w)
  PROVE  AsyncInvariant'
<1>1. ExecutorInvariant
  BY DEF AsyncTold, StepTold, BothAgree, DeliveryInvariant
<1>2. FactoryReturnsTasks(w) \/ FactoryReturnsNull(w)
  BY DEF InputFactoryAnswers
<1>3. \A x \in Worker :
        \/ pc'[x] = pc[x] /\ hand'[x] = hand[x]
        \/ pc[x] \in {"factory", "queued"} /\ pc'[x] \in {"handed", "factory", "queued"}
  BY <1>1, <1>2, AnswerEndsTheCall
<1>4. UNCHANGED <<currentRunIndex, outcome>>
  BY <1>2 DEF FactoryReturnsTasks, FactoryReturnsNull, results
<1>5. InputComesFirst'
  BY DEF InputFactoryAnswers, FactoryReturnsNull, InputComesFirst
<1>6. UNCHANGED <<config, taskVars, taskResults, report>>
  BY DEF InputFactoryAnswers
<1> QED BY <1>3, <1>4, <1>5, <1>6, ExecutorOnly

LEMMA TasksProceedStep ==
  ASSUME AsyncTold, NEW w \in Worker, TasksProceed(w)
  PROVE  AsyncInvariant'
<1>1. /\ pc \in [Worker -> Stage] /\ hand \in [Worker -> Task \cup {NoTask}]
  BY DEF AsyncTold, StepTold, BothAgree, DeliveryInvariant, ExecutorInvariant, TypeOK
<1>2. /\ pc[w] \in {"timer", "handed", "chosen"} /\ baseI' = baseI
      /\ \E s \in {"halted", "chosen", "factory", "queued", "finished"} : pc' = [pc EXCEPT ![w] = s]
      /\ hand' = hand \/ hand' = [hand EXCEPT ![w] = hand'[w]]
      /\ currentRunIndex' = currentRunIndex
      /\ outcome' = outcome \/ (outcome = "pending" /\ outcome' = "resolved")
  <2>1. ASSUME NEW t, NEW awaited, GetNextTask(w, t, awaited)
        PROVE  /\ baseI' = baseI
               /\ \E s \in {"chosen", "factory", "queued"} : pc' = [pc EXCEPT ![w] = s]
               /\ \E u : hand' = [hand EXCEPT ![w] = u]
    BY <2>1 DEF GetNextTask, TakeTask, FindNothing, RequestMoreTasks, ParkAll, CallOrQueue,
                CallFactory, QueueRequest, requests
  <2>2. \A u : hand' = [hand EXCEPT ![w] = u] => u = hand'[w]
    BY <1>1
  <2>3. CASE Dispatch(w)
    BY <2>1, <2>2, <2>3 DEF Dispatch, requests, results
  <2>4. CASE ResumeGetNextTask(w)
    BY <2>1, <2>2, <2>4 DEF ResumeGetNextTask, results
  <2>5. CASE FinishParallel(w)
    BY <2>5 DEF FinishParallel, requests
  <2> QED BY <2>3, <2>4, <2>5 DEF TasksProceed
<1>3. \A x \in Worker : x # w => pc'[x] = pc[x] /\ hand'[x] = hand[x]
  BY <1>1, <1>2
<1>4. pc'[w] \notin {"running", "failed"}
  BY <1>1, <1>2
<1>5. InputComesFirst'
  BY <1>2 DEF AsyncTold, AsyncInvariant, InputComesFirst
<1>6. UNCHANGED <<config, taskVars, taskResults, report>>
  BY DEF TasksProceed
<1> QED BY <1>2, <1>3, <1>4, <1>5, <1>6, ExecutorOnly

\* The task that is begun gets the next number, and its first call one not below it.
LEMMA FirstTryStep ==
  ASSUME AsyncTold, NEW w \in Worker, FirstTry(w)
  PROVE  AsyncInvariant'
<1>1. /\ pc \in [Worker -> Stage] /\ AsyncTypeOK /\ NumbersAreApart
      /\ DeliveryInvariant /\ DeliveryInvariant'
  BY DEF AsyncTold, StepTold, BothAgree, DeliveryInvariant, ExecutorInvariant, TypeOK, AsyncInvariant
<1>2. /\ pc[w] = "chosen" /\ hand[w] # NoTask /\ hand' = hand
      /\ pc' = [pc EXCEPT ![w] = "running"] /\ currentRunIndex' = currentRunIndex + 1
      /\ UNCHANGED <<baseI, outcome, config, taskResults, report>>
  BY DEF FirstTry, StartTask, requests
<1>3. Holds(w) /\ Holds(w)' /\ pc'[w] = "running" /\ hand'[w] = hand[w]
  BY <1>1, <1>2 DEF Holds
<1>4. PICK u \in Task : u = hand[w]
  BY <1>3 DEF AsyncTold, StepTold, HandsTell
<1>5. StateOf(u) \notin {"running", "failed", "done"}
  BY <1>2, <1>3, <1>4 DEF AsyncTold, StepTold, HandsTell
<1>6. StateOf(u)' = "running"
  <2>1. u \in TasksIn("running")'
    BY <1>3, <1>4 DEF TasksIn
  <2> QED BY <2>1 DEF AsyncTold, StepTold, StatesTell
<1>7. \A t \in Task : t # u => StateOf(t)' = StateOf(t)
  BY <1>5, <1>6, OnlyThisTaskMoves DEF AsyncTold
<1>8. progress[u] = "none"
  BY <1>1, <1>5 DEF AsyncTold, Tracking, AsyncTypeOK, Progress, UnderWay, Ended
<1>9. /\ runIndex' = [runIndex EXCEPT ![u] = currentRunIndex]
      /\ tryNumber' = [tryNumber EXCEPT ![u] = 0]
      /\ progress' = [progress EXCEPT ![u] = "trying"]
      /\ batchIndex' = [batchIndex EXCEPT ![u] = calls]
      /\ calls' = calls + 1
  BY <1>4 DEF FirstTry, CallTaskFn, FactoryIndex
<1>10. /\ Begun' = Begun \cup {u} /\ u \notin Begun
       /\ Begun \in SUBSET Task
  BY <1>1, <1>8, <1>9 DEF Begun, AsyncTypeOK
<1>11. IsFiniteSet(Task) /\ Cardinality(Task) = TaskCount
  <2>1. TaskCount \in Nat /\ 0 \in Int /\ TaskCount - 1 \in Int
    BY TaskCountAssumption
  <2>2. /\ IsFiniteSet(0 .. (TaskCount - 1))
        /\ Cardinality(0 .. (TaskCount - 1)) =
             IF 0 > TaskCount - 1 THEN 0 ELSE TaskCount - 1 - 0 + 1
    BY <2>1, FS_Interval
  <2> QED BY <2>1, <2>2 DEF Task
<1>12. /\ IsFiniteSet(Begun) /\ currentRunIndex = Cardinality(Begun)
       /\ Cardinality(Begun') = currentRunIndex + 1
       /\ currentRunIndex \in Task
  <2>1. IsFiniteSet(Begun) /\ IsFiniteSet(Begun')
    BY <1>10, <1>11, FS_Subset
  <2>2. Cardinality(Begun) = currentRunIndex /\ Cardinality(Begun) \in Nat
    BY <1>1, <2>1, FS_CardinalityType DEF NumbersAreApart
  <2>3. Cardinality(Begun') = currentRunIndex + 1
    BY <1>10, <2>1, <2>2, FS_AddElement
  <2>4. Cardinality(Begun') <= TaskCount
    <3>1. Begun' \in SUBSET Task
      BY <1>10
    <3> QED BY <1>11, <3>1, FS_Subset
  <2> QED BY <2>1, <2>2, <2>3, <2>4, TaskCountAssumption DEF Task
<1>13. currentRunIndex \in Nat /\ calls \in Nat /\ TaskCount \in Nat
  BY <1>1, TaskCountAssumption DEF AsyncTypeOK, TypeOK
<1>14. AsyncTypeOK'
  <2>1. TypeOK'
    BY <1>1 DEF DeliveryInvariant, ExecutorInvariant
  <2>2. tryNumber' \in [Task -> Nat] /\ progress' \in [Task -> Progress]
    BY <1>1, <1>9 DEF AsyncTypeOK, Progress
  <2>3. runIndex' \in [Task -> Task \cup {NoIndex}] /\ batchIndex' \in [Task -> Nat \cup {NoIndex}]
    BY <1>1, <1>9, <1>12, <1>13 DEF AsyncTypeOK
  <2>4. calls' \in Nat
    BY <1>9, <1>13
  <2> QED BY <1>1, <1>2, <2>1, <2>2, <2>3, <2>4 DEF AsyncTypeOK
<1>15. InputComesFirst'
  BY <1>1, <1>2 DEF AsyncTold, AsyncInvariant, InputComesFirst
<1>16. Tracking'
  <2>1. SUFFICES ASSUME NEW t \in Task
                 PROVE  /\ UnderWay(t)' <=> StateOf(t)' = "running"
                        /\ progress'[t] \in {"broken", "threw"} <=> StateOf(t)' = "failed"
                        /\ Ended(t)' <=> StateOf(t)' = "done"
                        /\ progress'[t] = "threw" => config'.throwError
    BY DEF Tracking
  <2>2. CASE t = u
    BY <1>1, <1>6, <1>9, <2>2 DEF AsyncTypeOK, UnderWay, Ended
  <2>3. CASE t # u
    <3>1. progress'[t] = progress[t]
      BY <1>1, <1>9, <2>3 DEF AsyncTypeOK
    <3> QED BY <1>2, <1>7, <2>3, <3>1 DEF AsyncTold, Tracking, UnderWay, Ended
  <2> QED BY <2>2, <2>3
<1>17. OutcomeFollows'
  <2>1. \A t \in Task : progress[t] \in {"broken", "threw"} => progress'[t] = progress[t]
    BY <1>1, <1>8, <1>9 DEF AsyncTypeOK
  <2> QED BY <1>2, <2>1 DEF AsyncTold, OutcomeFollows
<1>18. NumbersAreApart'
  <2>1. /\ runIndex'[u] = currentRunIndex /\ batchIndex'[u] = calls
        /\ \A t \in Task : t # u => runIndex'[t] = runIndex[t] /\ batchIndex'[t] = batchIndex[t]
    BY <1>1, <1>9 DEF AsyncTypeOK
  <2>2. /\ \A t \in Task \ Begun : runIndex[t] = NoIndex
        /\ \A t \in Begun : runIndex[t] \in 0..(currentRunIndex - 1) /\ batchIndex[t] \in Nat
        /\ \A t, x \in Begun : runIndex[t] = runIndex[x] => t = x
        /\ \A i \in 0..(currentRunIndex - 1) : \E t \in Begun : runIndex[t] = i
        /\ \A t \in Begun : runIndex[t] <= batchIndex[t]
        /\ \A t \in Begun : calls = currentRunIndex => batchIndex[t] = runIndex[t]
        /\ currentRunIndex <= calls
    BY <1>1 DEF NumbersAreApart
  <2>3. \A t \in Begun : t # u /\ t \in Task
    BY <1>10
  <2>4. \A t \in Task \ Begun' : runIndex'[t] = NoIndex
    BY <1>10, <2>1, <2>2
  <2>5. \A t \in Begun' : runIndex'[t] \in 0..currentRunIndex /\ batchIndex'[t] \in Nat
    BY <1>10, <1>13, <2>1, <2>2, <2>3
  <2>6. \A t, x \in Begun' : runIndex'[t] = runIndex'[x] => t = x
    <3>1. \A t \in Begun : runIndex[t] # currentRunIndex
      BY <1>13, <2>2
    <3> QED BY <1>10, <2>1, <2>2, <2>3, <3>1
  <2>7. \A i \in 0..currentRunIndex : \E t \in Begun' : runIndex'[t] = i
    <3>1. \A i \in 0..currentRunIndex : i = currentRunIndex \/ i \in 0..(currentRunIndex - 1)
      BY <1>13
    <3> QED BY <1>10, <2>1, <2>2, <2>3, <3>1
  <2>8. /\ \A t \in Begun' : runIndex'[t] <= batchIndex'[t]
        /\ calls + 1 = currentRunIndex + 1 => \A t \in Begun' : batchIndex'[t] = runIndex'[t]
        /\ currentRunIndex + 1 <= calls + 1
    BY <1>10, <1>13, <2>1, <2>2, <2>3
  <2>9. currentRunIndex' - 1 = currentRunIndex
    BY <1>2, <1>13
  <2> QED BY <1>2, <1>9, <1>12, <2>4, <2>5, <2>6, <2>7, <2>8, <2>9 DEF NumbersAreApart
<1>19. ResultsFollow'
  <2>1. \A t \in Task : Ended(t)' <=> Ended(t)
    BY <1>1, <1>8, <1>9 DEF AsyncTypeOK, Ended
  <2>2. \A t \in Task : Ended(t) => progress'[t] = progress[t] /\ runIndex'[t] = runIndex[t]
    BY <1>1, <1>8, <1>9 DEF AsyncTypeOK, Ended
  <2> QED BY <1>2, <2>1, <2>2, ResultsKept DEF AsyncTold, AsyncInvariant
<1>20. ReportFollows'
  BY <1>2, StoredKept DEF AsyncTold, AsyncInvariant
<1> QED BY <1>14, <1>15, <1>16, <1>17, <1>18, <1>19, <1>20, InvariantKept DEF AsyncTold

\* A task that is tried again, or waits for it, stays under way.
LEMMA StaysUnderWay ==
  ASSUME AsyncTold, NEW u \in Task, UnderWay(u), NEW p \in {"trying", "wait", "before"},
         UNCHANGED <<vars, config, runIndex, taskResults, report>>,
         progress' = [progress EXCEPT ![u] = p],
         \/ UNCHANGED <<tryNumber, batchIndex, calls>>
         \/ /\ tryNumber' = [tryNumber EXCEPT ![u] = tryNumber[u] + 1]
            /\ batchIndex' = [batchIndex EXCEPT ![u] = calls]
            /\ calls' = calls + 1
  PROVE  AsyncInvariant'
<1>1. AsyncTypeOK /\ NumbersAreApart
  BY DEF AsyncTold, AsyncInvariant
<1>2. UNCHANGED <<pc, hand, baseI, outcome, currentRunIndex>>
  BY DEF vars, results, requests
<1>3. progress'[u] = p /\ \A t \in Task : t # u => progress'[t] = progress[t]
  BY <1>1 DEF AsyncTypeOK
<1>4. AsyncTypeOK'
  <2>1. TypeOK'
    BY DEF AsyncTold, StepTold, BothAgree, DeliveryInvariant, ExecutorInvariant
  <2>2. progress' \in [Task -> Progress]
    BY <1>1 DEF AsyncTypeOK, Progress
  <2>3. /\ tryNumber \in [Task -> Nat] /\ batchIndex \in [Task -> Nat \cup {NoIndex}]
        /\ calls \in Nat /\ tryNumber[u] + 1 \in Nat /\ calls + 1 \in Nat
    BY <1>1 DEF AsyncTypeOK
  <2>4. /\ tryNumber' \in [Task -> Nat] /\ batchIndex' \in [Task -> Nat \cup {NoIndex}]
        /\ calls' \in Nat
    BY <2>3
  <2> QED BY <1>1, <2>1, <2>2, <2>4 DEF AsyncTypeOK
<1>5. InputComesFirst'
  BY <1>2 DEF AsyncTold, AsyncInvariant, InputComesFirst
<1>6. \A t \in Task : StateOf(t)' = StateOf(t)
  <2>1. UNCHANGED <<keysOf, baseI, visitedTaskIndexes, pc, hand>>
    BY DEF vars, inputs, requests, reservations
  <2>2. /\ TasksIn("running")' = TasksIn("running") /\ TasksIn("failed")' = TasksIn("failed")
        /\ Completed' = Completed /\ Produced' = Produced
    BY <2>1 DEF TasksIn, Completed, Held, Holds, Produced
  <2> QED BY <2>2, StatesFollow DEF AsyncTold, StepTold
<1>7. Tracking'
  BY <1>3, <1>6 DEF AsyncTold, Tracking, UnderWay, Ended
<1>8. OutcomeFollows'
  <2>1. \A t \in Task : progress[t] \in {"broken", "threw"} => progress'[t] = progress[t]
    BY <1>3 DEF UnderWay
  <2> QED BY <1>2, <2>1 DEF AsyncTold, OutcomeFollows
<1>9. Begun' = Begun /\ u \in Begun
  BY <1>3 DEF Begun, UnderWay
<1>10. NumbersAreApart'
  <2>1. CASE UNCHANGED <<tryNumber, batchIndex, calls>>
    BY <1>1, <1>2, <1>9, <2>1, NumbersKept
  <2>2. CASE batchIndex' = [batchIndex EXCEPT ![u] = calls] /\ calls' = calls + 1
    <3>1. batchIndex'[u] = calls /\ \A t \in Task : t # u => batchIndex'[t] = batchIndex[t]
      BY <1>1, <2>2 DEF AsyncTypeOK
    <3>2. currentRunIndex \in Nat /\ calls \in Nat /\ currentRunIndex <= calls
      BY <1>1 DEF AsyncTypeOK, TypeOK, NumbersAreApart
    <3>3. calls' = calls + 1
      BY <2>2
    <3>4. \A t \in Begun : /\ runIndex'[t] \in 0..(currentRunIndex' - 1) /\ batchIndex'[t] \in Nat
                           /\ runIndex'[t] <= batchIndex'[t]
      BY <1>1, <1>2, <3>1, <3>2 DEF NumbersAreApart, Begun
    <3>5. currentRunIndex' <= calls' /\ calls' # currentRunIndex'
      BY <1>2, <3>2, <3>3
    <3> QED BY <1>1, <1>2, <1>9, <3>4, <3>5 DEF NumbersAreApart
  <2> QED BY <2>1, <2>2
<1>11. ResultsFollow'
  BY <1>3, ResultsKept DEF AsyncTold, AsyncInvariant, Ended, UnderWay
<1>12. ReportFollows'
  BY StoredKept DEF AsyncTold, AsyncInvariant
<1> QED BY <1>4, <1>5, <1>7, <1>8, <1>10, <1>11, <1>12, InvariantKept DEF AsyncTold

LEMMA RetryStep ==
  ASSUME AsyncTold, NEW w \in Worker,
         TryFails(w) \/ RetryWaitElapses(w) \/ BeforeRetryResolves(w)
  PROVE  AsyncInvariant'
<1>1. pc[w] = "running" /\ DeliveryInvariant
  BY DEF TryFails, RetryWaitElapses, BeforeRetryResolves, AsyncTold, StepTold, BothAgree
<1>2. hand[w] \in Task
  BY <1>1 DEF DeliveryInvariant, ExecutorInvariant, TypeOK, HandsAgree
<1>3. PICK u \in Task : u = hand[w]
  BY <1>2
<1>4. /\ UnderWay(u) /\ UNCHANGED <<vars, config, runIndex, taskResults, report>>
      /\ \E p \in {"trying", "wait", "before"} : progress' = [progress EXCEPT ![u] = p]
      /\ \/ UNCHANGED <<tryNumber, batchIndex, calls>>
         \/ /\ tryNumber' = [tryNumber EXCEPT ![u] = tryNumber[u] + 1]
            /\ batchIndex' = [batchIndex EXCEPT ![u] = calls]
            /\ calls' = calls + 1
  BY <1>3 DEF TryFails, RetryWaitElapses, BeforeRetryResolves, DoNextTry, CallTaskFn, UnderWay
<1> QED BY <1>4, StaysUnderWay

\* The task that settles is the one the worker runs, and no other one moves.
LEMMA SettledState ==
  ASSUME StepTold, NEW w \in Worker, TaskSettles(w)
  PROVE  /\ pc[w] = "running" /\ hand[w] \in Task /\ StateOf(hand[w]) = "running"
         /\ \A u \in Task : u = hand[w] =>
              /\ TaskSucceeds(w) => StateOf(u)' = "done"
              /\ TaskFails(w) => StateOf(u)' = "failed"
              /\ \A t \in Task : t # u => StateOf(t)' = StateOf(t)
<1>1. /\ pc \in [Worker -> Stage] /\ hand \in [Worker -> Task \cup {NoTask}]
      /\ HandsAgree /\ HeldTasksAreApart
  BY DEF StepTold, BothAgree, DeliveryInvariant, ExecutorInvariant, TypeOK
<1>2. pc[w] = "running"
  BY DEF TaskSettles, TaskSucceeds, TaskFails
<1>3. Holds(w) /\ hand[w] \in Task
  BY <1>1, <1>2 DEF HandsAgree, Holds
<1>4. StateOf(hand[w]) = "running"
  BY <1>2, <1>3 DEF StepTold, HandsTell
<1>5. ASSUME NEW u \in Task, u = hand[w], TaskSucceeds(w)
      PROVE  StateOf(u)' = "done"
  <2>1. /\ pc'[w] = "timer" /\ visitedTaskIndexes' = visitedTaskIndexes
        /\ \A x \in Worker : x # w => pc'[x] = pc[x] /\ hand'[x] = hand[x]
    BY <1>1, <1>5 DEF TaskSucceeds
  <2>2. \A x \in Worker : Holds(x)' => x # w /\ Holds(x) /\ hand'[x] = hand[x]
    BY <2>1 DEF Holds
  <2>3. u \notin Held'
    BY <1>1, <1>3, <1>5, <2>2 DEF Held, HeldTasksAreApart
  <2>4. u \in visitedTaskIndexes
    BY <1>1, <1>3, <1>5 DEF Held, HeldTasksAreApart
  <2>5. u \in Completed'
    BY <2>1, <2>3, <2>4 DEF Completed
  <2> QED BY <2>5 DEF StepTold, StatesTell
<1>6. ASSUME NEW u \in Task, u = hand[w], TaskFails(w)
      PROVE  StateOf(u)' = "failed"
  <2>1. pc'[w] = "failed" /\ hand' = hand
    BY <1>1, <1>6 DEF TaskFails
  <2>2. u \in TasksIn("failed")'
    BY <1>6, <2>1 DEF TasksIn
  <2> QED BY <2>2 DEF StepTold, StatesTell
<1>7. ASSUME NEW u \in Task, u = hand[w]
      PROVE  \A t \in Task : t # u => StateOf(t)' = StateOf(t)
  <2>1. StateOf(u) = "running" /\ StateOf(u)' # "running"
    BY <1>4, <1>5, <1>6, <1>7 DEF TaskSettles
  <2> QED BY <2>1, OnlyThisTaskMoves
<1> QED BY <1>2, <1>3, <1>4, <1>5, <1>6, <1>7

\* A task ends, with a result or without.
LEMMA EndStep ==
  ASSUME AsyncTold, NEW w \in Worker, NEW u \in Task, u = hand[w], TaskSettles(w),
         NEW how \in {"succeeded", "gaveUp", "broken", "threw"}, End(u, how),
         \/ /\ TaskSucceeds(w) /\ how \in {"succeeded", "gaveUp"}
            /\ StoreResult(u, how = "succeeded")
         \/ /\ TaskFails(w) /\ how \in {"broken", "threw"}
            /\ UNCHANGED taskResults /\ (how = "threw" => config.throwError)
  PROVE  AsyncInvariant'
<1>1. /\ AsyncTypeOK /\ NumbersAreApart /\ ResultsFollow /\ StepTold /\ DeliveryInvariant
      /\ OutcomeFollows /\ Tracking
  BY DEF AsyncTold, AsyncInvariant, StepTold, BothAgree
<1>2. /\ pc[w] = "running" /\ StateOf(u) = "running"
      /\ TaskSucceeds(w) => StateOf(u)' = "done"
      /\ TaskFails(w) => StateOf(u)' = "failed"
      /\ \A t \in Task : t # u => StateOf(t)' = StateOf(t)
  BY <1>1, SettledState
<1>3. /\ progress' = [progress EXCEPT ![u] = how]
      /\ UNCHANGED <<config, tryNumber, runIndex, batchIndex, calls, report>>
  BY DEF End
<1>4. progress'[u] = how /\ \A t \in Task : t # u => progress'[t] = progress[t]
  BY <1>1, <1>3 DEF AsyncTypeOK
<1>5. /\ UNCHANGED <<baseI, currentRunIndex>>
      /\ \/ TaskSucceeds(w) /\ outcome' = outcome
         \/ TaskFails(w) /\ outcome' = IF outcome = "pending" THEN "rejected" ELSE outcome
  BY DEF TaskSettles, TaskSucceeds, TaskFails, requests, results
<1>6. UnderWay(u) /\ u \in Begun /\ Begun' = Begun
  <2>1. UnderWay(u)
    BY <1>1, <1>2 DEF Tracking
  <2> QED BY <1>4, <2>1 DEF UnderWay, Begun
<1>7. runIndex[u] \in Task
  BY <1>1, <1>6, NoIndexAssumption DEF AsyncTypeOK, NumbersAreApart
<1>8. /\ how \in {"succeeded", "gaveUp"} =>
           taskResults' = [taskResults EXCEPT ![runIndex[u]] =
                             [task |-> u, success |-> how = "succeeded"]]
      /\ how \in {"broken", "threw"} => taskResults' = taskResults
  BY DEF StoreResult
<1>9. AsyncTypeOK'
  <2>1. TypeOK'
    BY <1>1 DEF StepTold, BothAgree, DeliveryInvariant, ExecutorInvariant
  <2>2. progress' \in [Task -> Progress]
    BY <1>1, <1>3 DEF AsyncTypeOK, Progress
  <2>3. [task |-> u, success |-> how = "succeeded"] \in Results
    BY Zenon DEF Results
  <2>4. taskResults' \in [Task -> Results \cup {NoResult}]
    <3>1. PICK r \in Results : r = [task |-> u, success |-> how = "succeeded"]
      BY <2>3
    <3>2. \/ taskResults' = taskResults
          \/ taskResults' = [taskResults EXCEPT ![runIndex[u]] = r]
      BY <1>8, <3>1
    <3>3. taskResults \in [Task -> Results \cup {NoResult}]
      BY <1>1 DEF AsyncTypeOK
    <3>4. CASE taskResults' = taskResults
      BY <3>3, <3>4
    <3>5. CASE taskResults' = [taskResults EXCEPT ![runIndex[u]] = r]
      BY <3>3, <3>5
    <3> QED BY <3>2, <3>4, <3>5
  <2> QED BY <1>1, <1>3, <2>1, <2>2, <2>4 DEF AsyncTypeOK
<1>10. InputComesFirst'
  BY <1>2, <1>5 DEF AsyncTold, AsyncInvariant, InputComesFirst
<1>11. Tracking'
  <2>1. SUFFICES ASSUME NEW t \in Task
                 PROVE  /\ UnderWay(t)' <=> StateOf(t)' = "running"
                        /\ progress'[t] \in {"broken", "threw"} <=> StateOf(t)' = "failed"
                        /\ Ended(t)' <=> StateOf(t)' = "done"
                        /\ progress'[t] = "threw" => config'.throwError
    BY DEF Tracking
  <2>2. CASE t = u
    BY <1>2, <1>3, <1>4, <2>2 DEF UnderWay, Ended
  <2>3. CASE t # u
    BY <1>1, <1>2, <1>3, <1>4, <2>3 DEF Tracking, UnderWay, Ended
  <2> QED BY <2>2, <2>3
<1>12. OutcomeFollows'
  <2>1. \A t \in Task : progress[t] \in {"broken", "threw"} => progress'[t] = progress[t]
    BY <1>4, <1>6 DEF UnderWay
  <2>2. how \in {"broken", "threw"} => \E t \in Task : progress'[t] \in {"broken", "threw"}
    BY <1>4
  <2>3. TaskFails(w) => how \in {"broken", "threw"}
    BY <1>2
  <2> QED BY <1>1, <1>3, <1>5, <2>1, <2>2, <2>3 DEF OutcomeFollows
<1>13. NumbersAreApart'
  BY <1>1, <1>3, <1>5, <1>6, NumbersKept
<1>14. ResultsFollow'
  <2>1. CASE how \in {"broken", "threw"}
    <3>1. \A t \in Task : Ended(t)' <=> Ended(t)
      BY <1>4, <1>6, <2>1 DEF Ended, UnderWay
    <3>2. \A t \in Task : Ended(t) => progress'[t] = progress[t] /\ runIndex'[t] = runIndex[t]
      BY <1>3, <1>4, <1>6 DEF Ended, UnderWay
    <3> QED BY <1>1, <1>8, <2>1, <3>1, <3>2, ResultsKept
  <2>2. CASE how \in {"succeeded", "gaveUp"}
    <3>1. PICK r : r = [task |-> u, success |-> how = "succeeded"]
      OBVIOUS
    <3>2. /\ taskResults'[runIndex[u]] = r
          /\ \A i \in Task : i # runIndex[u] => taskResults'[i] = taskResults[i]
      BY <1>1, <1>7, <1>8, <2>2, <3>1 DEF AsyncTypeOK
    <3>3. \A t \in Task : Ended(t)' <=> Ended(t) \/ t = u
      BY <1>4, <2>2 DEF Ended
    <3>4. \A t \in Task : Ended(t) =>
            /\ t # u /\ t \in Begun /\ runIndex[t] # runIndex[u] /\ runIndex[t] \in Task
            /\ progress'[t] = progress[t]
      <4>1. \A t \in Task : Ended(t) => t # u /\ t \in Begun
        BY <1>6 DEF Ended, UnderWay, Begun
      <4>2. \A t \in Begun : runIndex[t] \in Task
        BY <1>1, NoIndexAssumption DEF AsyncTypeOK, NumbersAreApart, Begun
      <4> QED BY <1>1, <1>4, <1>6, <4>1, <4>2 DEF NumbersAreApart
    <3>5. ASSUME NEW t \in Task, Ended(t)'
          PROVE  taskResults'[runIndex'[t]] = [task |-> t, success |-> progress'[t] = "succeeded"]
      <4>1. CASE t = u
        BY <1>3, <1>4, <3>1, <3>2, <4>1, Zenon
      <4>2. CASE t # u
        <5>1. Ended(t)
          BY <3>3, <3>5, <4>2
        <5>2. taskResults'[runIndex[t]] = taskResults[runIndex[t]]
          BY <3>2, <3>4, <5>1
        <5> QED BY <1>1, <1>3, <3>4, <5>1, <5>2 DEF ResultsFollow
      <4> QED BY <4>1, <4>2
    <3>6. ASSUME NEW i \in Task, taskResults'[i] # NoResult
          PROVE  \E t \in Task : Ended(t)' /\ runIndex'[t] = i
      BY <1>1, <1>3, <3>2, <3>3, <3>6 DEF ResultsFollow
    <3> QED BY <3>5, <3>6 DEF ResultsFollow
  <2> QED BY <2>1, <2>2
<1>15. ReportFollows'
  <2>1. report.state # "resolved"
    BY <1>1, <1>2, RunningIsNotReported
  <2> QED BY <1>3, <2>1 DEF ReportFollows
<1> QED BY <1>9, <1>10, <1>11, <1>12, <1>13, <1>14, <1>15, InvariantKept DEF AsyncTold

LEMMA TaskEndsStep ==
  ASSUME AsyncTold, NEW w \in Worker,
         TrySucceeds(w) \/ GiveUp(w) \/ Throw(w) \/ BeforeRetryRejects(w)
  PROVE  AsyncInvariant'
<1>1. TaskSettles(w)
  BY DEF TrySucceeds, GiveUp, Throw, BeforeRetryRejects, TaskSettles
<1>2. hand[w] \in Task
  BY <1>1, SettledState DEF AsyncTold
<1>3. PICK u \in Task : u = hand[w]
  BY <1>2
<1>4. CASE TrySucceeds(w)
  <2>1. TaskSucceeds(w) /\ StoreResult(u, TRUE) /\ End(u, "succeeded")
    BY <1>3, <1>4 DEF TrySucceeds
  <2> DEFINE how == "succeeded"
  <2>2. (how = "succeeded") = TRUE
    OBVIOUS
  <2>3. StoreResult(u, how = "succeeded")
    BY <2>1, <2>2
  <2> QED BY <1>1, <1>3, <2>1, <2>3, EndStep
<1>5. CASE GiveUp(w)
  <2>1. TaskSucceeds(w) /\ StoreResult(u, FALSE) /\ End(u, "gaveUp")
    BY <1>3, <1>5 DEF GiveUp
  <2> DEFINE how == "gaveUp"
  <2>2. (how = "succeeded") = FALSE
    OBVIOUS
  <2>3. StoreResult(u, how = "succeeded")
    BY <2>1, <2>2
  <2> QED BY <1>1, <1>3, <2>1, <2>3, EndStep
<1>6. CASE Throw(w)
  BY <1>1, <1>3, <1>6, EndStep DEF Throw
<1>7. CASE BeforeRetryRejects(w)
  BY <1>1, <1>3, <1>7, EndStep DEF BeforeRetryRejects
<1> QED BY <1>4, <1>5, <1>6, <1>7

\* What the loop pushes for the number i.
Pushed(success, i) ==
  LET r == taskResults[i - 1]
  IN  IF r # NoResult /\ r.success = success THEN <<r>> ELSE << >>

\* The numbers at which a result of one kind is stored, counted from 1.
StoredAt(b) == {i \in 1..TaskCount : taskResults[i - 1] # NoResult /\ taskResults[i - 1].success = b}

\* The loop pushes each result of its kind once, none later than at its number.
LEMMA StoredKeeps ==
  ASSUME taskResults \in [Task -> Results \cup {NoResult}], NEW b \in BOOLEAN
  PROVE  /\ Stored(b) \in Seq(Results)
         /\ KeepsOrder(Stored(b), [i \in StoredAt(b) |-> taskResults[i - 1]], TaskCount)
<1> DEFINE ss == [i \in 1..TaskCount |-> Pushed(b, i)]
           pushes == {i \in 1..TaskCount : ss[i] # << >>}
<1>1. \A i \in 1..TaskCount : taskResults[i - 1] \in Results \cup {NoResult}
  BY TaskCountAssumption DEF Task
<1>2. ASSUME NEW i \in 1..TaskCount
      PROVE  /\ Pushed(b, i) \in Seq(Results) /\ Len(Pushed(b, i)) <= 1
             /\ Pushed(b, i) # << >> <=> i \in StoredAt(b)
             /\ i \in StoredAt(b) => Pushed(b, i)[1] = taskResults[i - 1]
  <2>1. CASE i \in StoredAt(b)
    <3>1. PICK r \in Results : r = taskResults[i - 1]
      BY <1>1, <2>1 DEF StoredAt
    <3>2. Pushed(b, i) = <<r>>
      BY <2>1, <3>1 DEF Pushed, StoredAt
    <3>3. <<r>> \in Seq(Results) /\ Len(<<r>>) = 1 /\ <<r>> # << >> /\ <<r>>[1] = r
      OBVIOUS
    <3> QED BY <2>1, <3>1, <3>2, <3>3
  <2>2. CASE i \notin StoredAt(b)
    <3>1. Pushed(b, i) = << >>
      BY <2>2 DEF Pushed, StoredAt
    <3>2. << >> \in Seq(Results) /\ Len(<< >>) = 0
      OBVIOUS
    <3> QED BY <2>2, <3>1, <3>2
  <2> QED BY <2>1, <2>2
<1>3. ss \in [1..TaskCount -> Seq(Results)] /\ \A i \in 1..TaskCount : Len(ss[i]) <= 1
  BY <1>2
<1>4. pushes = StoredAt(b)
  BY <1>2 DEF StoredAt
<1>5. \A i \in StoredAt(b) : ss[i][1] = taskResults[i - 1]
  BY <1>2 DEF StoredAt
<1>6. [i \in pushes |-> ss[i][1]] = [i \in StoredAt(b) |-> taskResults[i - 1]]
  BY <1>4, <1>5
<1>7. Stored(b) = FlattenSeq(ss)
  BY DEF Stored, Pushed
<1> HIDE DEF ss
<1>8. /\ FlattenSeq(ss) \in Seq(Results)
      /\ KeepsOrder(FlattenSeq(ss), [i \in pushes |-> ss[i][1]], TaskCount)
  BY <1>3, TaskCountAssumption, FlattenKeeps
<1> HIDE DEF pushes
<1> QED BY <1>6, <1>7, <1>8

LEMMA ReportStep ==
  ASSUME AsyncTold, ReportResults \/ ReportRejection
  PROVE  AsyncInvariant'
<1>1. AsyncTypeOK
  BY DEF AsyncTold, AsyncInvariant
<1>2. /\ UNCHANGED <<vars, config, taskVars, taskResults>> /\ report.state = "pending"
      /\ \/ /\ outcome = "resolved"
            /\ report' = [state |-> "resolved", succeded |-> Stored(TRUE), failed |-> Stored(FALSE)]
         \/ /\ outcome = "rejected" /\ report' = [state |-> "rejected", succeded |-> << >>, failed |-> << >>]
  BY DEF ReportResults, ReportRejection
<1>3. /\ report'.state = outcome /\ report'.state \in {"resolved", "rejected"}
      /\ report'.state = "resolved" => report'.succeded = Stored(TRUE) /\ report'.failed = Stored(FALSE)
      /\ report' \in [state : {"pending", "resolved", "rejected"},
                      succeded : Seq(Results), failed : Seq(Results)]
  <2>1. Stored(TRUE) \in Seq(Results) /\ Stored(FALSE) \in Seq(Results)
    BY <1>1, StoredKeeps DEF AsyncTypeOK
  <2>2. << >> \in Seq(Results)
    OBVIOUS
  <2>3. CASE outcome = "resolved"
    <3>1. PICK yes \in Seq(Results), no \in Seq(Results) : yes = Stored(TRUE) /\ no = Stored(FALSE)
      BY <2>1
    <3>2. report' = [state |-> "resolved", succeded |-> yes, failed |-> no]
      BY <1>2, <2>3, <3>1
    <3>3. /\ report' \in [state : {"pending", "resolved", "rejected"},
                          succeded : Seq(Results), failed : Seq(Results)]
          /\ report'.state = "resolved" /\ report'.succeded = yes /\ report'.failed = no
      BY <3>2
    <3> QED BY <2>3, <3>1, <3>3
  <2>4. CASE outcome = "rejected"
    <3>1. report' = [state |-> "rejected", succeded |-> << >>, failed |-> << >>]
      BY <1>2, <2>4
    <3>2. PICK none \in Seq(Results) : none = << >>
      BY <2>2
    <3>3. report' = [state |-> "rejected", succeded |-> none, failed |-> none]
      BY <3>1, <3>2
    <3>4. /\ report' \in [state : {"pending", "resolved", "rejected"},
                          succeded : Seq(Results), failed : Seq(Results)]
          /\ report'.state = "rejected"
      BY <3>3
    <3> QED BY <2>4, <3>4
  <2> QED BY <1>2, <2>3, <2>4
<1>4. UNCHANGED <<tryNumber, progress, runIndex, batchIndex, calls>>
  BY <1>2 DEF taskVars
<1>5. UNCHANGED <<keysOf, pc, hand, baseI, visitedTaskIndexes, outcome, currentRunIndex>>
  BY <1>2 DEF vars, inputs, requests, reservations, results
<1>6. AsyncTypeOK'
  BY <1>1, <1>2, <1>3, <1>4
     DEF AsyncTypeOK, AsyncTold, StepTold, BothAgree, DeliveryInvariant, ExecutorInvariant
<1>7. InputComesFirst'
  BY <1>5 DEF AsyncTold, AsyncInvariant, InputComesFirst
<1>8. Tracking'
  <2>1. /\ TasksIn("running")' = TasksIn("running") /\ TasksIn("failed")' = TasksIn("failed")
        /\ Completed' = Completed /\ Produced' = Produced
    BY <1>5 DEF TasksIn, Completed, Held, Holds, Produced
  <2>2. \A t \in Task : StateOf(t)' = StateOf(t)
    BY <2>1, StatesFollow DEF AsyncTold, StepTold
  <2> QED BY <1>2, <1>4, <2>2 DEF AsyncTold, Tracking, UnderWay, Ended
<1>9. OutcomeFollows'
  BY <1>3, <1>4, <1>5 DEF AsyncTold, OutcomeFollows
<1>10. NumbersAreApart'
  BY <1>4, <1>5, NumbersKept DEF AsyncTold, AsyncInvariant, Begun
<1>11. ResultsFollow'
  BY <1>2, <1>4, ResultsKept DEF AsyncTold, AsyncInvariant, Ended
<1>12. ReportFollows'
  <2>1. \A b \in BOOLEAN : Stored(b)' = Stored(b)
    BY <1>2 DEF Stored
  <2> QED BY <1>3, <2>1 DEF ReportFollows
<1> QED BY <1>6, <1>7, <1>8, <1>9, <1>10, <1>11, <1>12, InvariantKept DEF AsyncTold

LEMMA AsyncInvariantStep ==
  DeliveryInvariant /\ AsyncInvariant /\ [AsyncNext]_asyncVars => AsyncInvariant'
<1> SUFFICES ASSUME DeliveryInvariant, AsyncInvariant, [AsyncNext]_asyncVars
             PROVE  AsyncInvariant'
  OBVIOUS
<1>1. AsyncTold
  BY StepsOfAsyncTasks, AsyncIsTold
<1>2. ASSUME NEW w \in Worker, WorkerStep(w)
      PROVE  AsyncInvariant'
  BY <1>1, <1>2, InputFactoryAnswersStep, TasksProceedStep, FirstTryStep, RetryStep, TaskEndsStep
     DEF WorkerStep, TrySettles, BeforeRetrySettles
<1>3. CASE ReportResults \/ ReportRejection
  BY <1>1, <1>3, ReportStep
<1>4. CASE UNCHANGED asyncVars
  <2>1. /\ UNCHANGED <<config, taskVars, taskResults, report, baseI, currentRunIndex, outcome, pc, hand>>
    BY <1>4 DEF asyncVars, vars, requests, results
  <2>2. InputComesFirst'
    BY <2>1 DEF AsyncInvariant, InputComesFirst
  <2> QED BY <1>1, <2>1, <2>2, ExecutorOnly
<1> QED BY <1>2, <1>3, <1>4 DEF AsyncNext, Over

LEMMA AsyncInitially == AsyncInit => AsyncInvariant
<1> SUFFICES ASSUME AsyncInit PROVE AsyncInvariant
  OBVIOUS
<1> USE DEF AsyncInit
<1>1. DeliveryInvariant
  BY InitialDelivery
<1>2. AsyncTypeOK
  <2>1. TypeOK
    BY <1>1 DEF DeliveryInvariant, ExecutorInvariant
  <2>2. report \in [state : {"pending", "resolved", "rejected"},
                    succeded : Seq(Results), failed : Seq(Results)]
    OBVIOUS
  <2> QED BY <2>1, <2>2 DEF AsyncTypeOK, Progress
<1>3. InputComesFirst
  BY DEF Init, InputComesFirst
<1>4. ProgressFollows
  BY DEF Init, ProgressFollows, UnderWay, Ended, Completed
<1>5. Begun = {} /\ Cardinality({}) = 0 /\ currentRunIndex = 0
  BY FS_EmptySet DEF Begun, Init
<1>6. NumbersAreApart
  BY <1>5 DEF NumbersAreApart
<1>7. ResultsFollow
  BY DEF ResultsFollow, Ended
<1>8. ReportFollows
  BY DEF ReportFollows
<1> QED BY <1>2, <1>3, <1>4, <1>6, <1>7, <1>8 DEF AsyncInvariant

\* The tries, the numbers and the results agree with the executor in every state.
THEOREM AsyncInvariantHolds == AsyncSpec => []AsyncInvariant
<1>1. AsyncSpec => []DeliveryInvariant
  BY AsyncTasksRunTheExecutor, DeliveryHolds, PTL
<1> QED BY <1>1, AsyncInitially, AsyncInvariantStep, PTL DEF AsyncSpec

-----------------------------------------------------------------------------
(* What the invariant says *)

\* Two tasks that share a key are never both between their first try and their end.
THEOREM KeysKeptOverRetries == AsyncSpec => []RetriesKeepTheirKeys
<1>1. DeliveryInvariant /\ AsyncInvariant => RetriesKeepTheirKeys
  <2>1. SUFFICES ASSUME DeliveryInvariant, AsyncInvariant, NEW t \in Task, NEW u \in Task,
                        t # u, UnderWay(t), UnderWay(u)
                 PROVE  KeysOf(t) \cap KeysOf(u) = {}
    BY DEF RetriesKeepTheirKeys
  <2>2. PICK v \in Worker : pc[v] = "running" /\ hand[v] = t
    BY <2>1 DEF AsyncInvariant, ProgressFollows
  <2>3. PICK w \in Worker : pc[w] = "running" /\ hand[w] = u
    BY <2>1 DEF AsyncInvariant, ProgressFollows
  <2>4. Holds(v) /\ Holds(w) /\ v # w
    BY <2>1, <2>2, <2>3 DEF DeliveryInvariant, ExecutorInvariant, HandsAgree, Holds
  <2> QED BY <2>1, <2>2, <2>3, <2>4 DEF DeliveryInvariant, ExecutorInvariant, HeldTasksAreApart
<1> QED BY <1>1, AsyncTasksRunTheExecutor, DeliveryHolds, AsyncInvariantHolds, PTL

\* A promise that resolved is one whose workers all finished, having run every input.
LEMMA ResolvedMeansAllEnded ==
  ASSUME DeliveryInvariant, AsyncInvariant, outcome = "resolved"
  PROVE  \A t \in Task : Ended(t)
<1>1. 0 \in Worker /\ \A w \in Worker : pc[w] = "finished"
  BY MaxParallelAssumption DEF DeliveryInvariant, WorkersFinishLast, Worker
<1>2. baseI = TaskCount
  BY <1>1 DEF AsyncInvariant, InputComesFirst
<1>3. Completed = Produced
  BY DeliveryResolvesLast DEF ResolvedMeansAllCompleted
<1>4. Produced = Task
  BY <1>2 DEF Produced, Task
<1> QED BY <1>3, <1>4 DEF AsyncInvariant, ProgressFollows

\* The call rejects because of beforeRetry(), or because errors are thrown and a task
\* failed, and it does not resolve over either.
THEOREM RejectionsHaveCauses == AsyncSpec => []RejectionHasItsCause
<1>1. DeliveryInvariant /\ AsyncInvariant => RejectionHasItsCause
  <2>1. SUFFICES ASSUME DeliveryInvariant, AsyncInvariant
                 PROVE  RejectionHasItsCause
    OBVIOUS
  <2>2. ProgressFollows
    BY <2>1 DEF AsyncInvariant
  <2>3. report.state = "rejected" =>
          \E t \in Task : progress[t] = "broken" \/ (config.throwError /\ progress[t] = "threw")
    BY <2>2 DEF ProgressFollows
  <2>4. report.state = "resolved" => \A t \in Task : progress[t] \notin {"broken", "threw"}
    BY <2>1, <2>2, ResolvedMeansAllEnded DEF ProgressFollows, Ended
  <2> QED BY <2>3, <2>4 DEF RejectionHasItsCause
<1> QED BY <1>1, AsyncTasksRunTheExecutor, DeliveryHolds, AsyncInvariantHolds, PTL

-----------------------------------------------------------------------------
(* The report *)

\* What is reported of a task.
ResultOf(t) == [task |-> t, success |-> progress[t] = "succeeded"]

\* Once the call has resolved there is a task for each number and a result for each task.
LEMMA ResultsAreComplete ==
  ASSUME DeliveryInvariant, AsyncInvariant, report.state = "resolved"
  PROVE  /\ currentRunIndex = TaskCount
         /\ \A t \in Task : t \in Begun /\ runIndex[t] \in Task /\ taskResults[runIndex[t]] = ResultOf(t)
         /\ \A i \in 1..TaskCount :
              \E t \in Task : runIndex[t] = i - 1 /\ taskResults[i - 1] = ResultOf(t)
<1>1. /\ AsyncTypeOK /\ NumbersAreApart /\ ResultsFollow /\ outcome = "resolved"
  BY DEF AsyncInvariant, ProgressFollows
<1>2. \A t \in Task : Ended(t)
  BY <1>1, ResolvedMeansAllEnded
<1>3. Begun = Task
  BY <1>2 DEF Begun, Ended
<1>4. currentRunIndex = TaskCount
  <2>1. TaskCount \in Nat /\ 0 \in Int /\ TaskCount - 1 \in Int
    BY TaskCountAssumption
  <2>2. Cardinality(0 .. (TaskCount - 1)) =
          IF 0 > TaskCount - 1 THEN 0 ELSE TaskCount - 1 - 0 + 1
    BY <2>1, FS_Interval
  <2> QED BY <1>1, <1>3, <2>1, <2>2 DEF Task, NumbersAreApart
<1>5. \A t \in Task : runIndex[t] \in Task /\ taskResults[runIndex[t]] = ResultOf(t)
  <2>1. \A t \in Task : runIndex[t] \in Task
    BY <1>1, <1>3, NoIndexAssumption DEF AsyncTypeOK, NumbersAreApart
  <2>2. \A t \in Task : taskResults[runIndex[t]] = ResultOf(t)
    BY <1>1, <1>2 DEF ResultsFollow, ResultOf
  <2> QED BY <2>1, <2>2
<1>6. ASSUME NEW i \in 1..TaskCount
      PROVE  \E t \in Task : runIndex[t] = i - 1 /\ taskResults[i - 1] = ResultOf(t)
  <2>1. i - 1 \in 0..(currentRunIndex - 1)
    BY <1>4, TaskCountAssumption
  <2>2. PICK t \in Task : runIndex[t] = i - 1
    BY <1>1, <1>3, <2>1 DEF NumbersAreApart
  <2> QED BY <1>5, <2>2
<1> QED BY <1>3, <1>4, <1>5, <1>6

\* A result is no NoResult, and is stored as one of its kind.
LEMMA KindOfResult ==
  ASSUME NEW t \in Task
  PROVE  ResultOf(t) # NoResult /\ ResultOf(t).task = t
         /\ (ResultOf(t).success <=> progress[t] = "succeeded")
         /\ ResultOf(t).success \in BOOLEAN
<1>1. ResultOf(t).task = t /\ NoResult.task = NoTask /\ t # NoTask
  BY NoTaskIsNoTask DEF ResultOf, NoResult
<1>2. ResultOf(t).success = (progress[t] = "succeeded")
  BY Zenon DEF ResultOf
<1> QED BY <1>1, <1>2

\* What is reported of one kind: the results of the tasks that ended like that.
LEMMA ReportedOnes ==
  ASSUME DeliveryInvariant, AsyncInvariant, report.state = "resolved", NEW b \in BOOLEAN
  PROVE  /\ Len(Stored(b)) = Cardinality(StoredAt(b))
         /\ {Stored(b)[j].task : j \in 1..Len(Stored(b))}
              = {t \in Task : (progress[t] = "succeeded") <=> b}
         /\ \A j \in 1..Len(Stored(b)) :
              \E t \in Task : /\ t = Stored(b)[j].task /\ t \in Begun
                              /\ runIndex[t] \in Nat /\ j - 1 <= runIndex[t]
                              /\ StoredAt(b) = 1..TaskCount => runIndex[t] = j - 1
<1> DEFINE s == Stored(b)
           f == [i \in StoredAt(b) |-> taskResults[i - 1]]
<1>1. /\ \A t \in Task : t \in Begun /\ runIndex[t] \in Task /\ taskResults[runIndex[t]] = ResultOf(t)
      /\ \A i \in 1..TaskCount :
           \E t \in Task : runIndex[t] = i - 1 /\ taskResults[i - 1] = ResultOf(t)
  BY ResultsAreComplete
<1>2. KeepsOrder(s, f, TaskCount) /\ s \in Seq(Results)
  BY StoredKeeps DEF AsyncInvariant, AsyncTypeOK
<1>3. DOMAIN f = StoredAt(b) /\ \A i \in StoredAt(b) : f[i] = taskResults[i - 1]
  OBVIOUS
<1> HIDE DEF s, f
<1>4. PICK pos \in [1..Len(s) -> StoredAt(b)] :
        /\ \A j \in 1..Len(s) : s[j] = f[pos[j]] /\ j <= pos[j]
        /\ \A i \in StoredAt(b) : \E j \in 1..Len(s) : pos[j] = i
        /\ StoredAt(b) = 1..TaskCount => \A j \in 1..Len(s) : pos[j] = j
  BY <1>2, <1>3 DEF KeepsOrder
<1>5. Len(s) = Cardinality(StoredAt(b)) /\ Len(s) \in Nat
  BY <1>2, <1>3, LenProperties DEF KeepsOrder
<1>6. ASSUME NEW j \in 1..Len(s)
      PROVE  \E t \in Task : /\ t = s[j].task /\ (progress[t] = "succeeded" <=> b)
                             /\ runIndex[t] = pos[j] - 1
  <2>1. pos[j] \in 1..TaskCount /\ s[j] = taskResults[pos[j] - 1] /\ s[j].success = b
    <3>1. pos[j] \in StoredAt(b) /\ s[j] = f[pos[j]]
      BY <1>4
    <3>2. f[pos[j]] = taskResults[pos[j] - 1]
      BY <1>3, <3>1
    <3>3. pos[j] \in 1..TaskCount /\ taskResults[pos[j] - 1].success = b
      BY <3>1, Zenon DEF StoredAt
    <3>4. s[j] = taskResults[pos[j] - 1]
      BY <3>1, <3>2
    <3> QED BY <3>3, <3>4
  <2>2. PICK t \in Task : runIndex[t] = pos[j] - 1 /\ s[j] = ResultOf(t)
    BY <1>1, <2>1
  <2> QED BY <2>1, <2>2, KindOfResult
<1>7. ASSUME NEW t \in Task, progress[t] = "succeeded" <=> b
      PROVE  \E j \in 1..Len(s) : s[j].task = t
  <2>1. PICK i \in 1..TaskCount : i - 1 = runIndex[t]
    <3>1. PICK k \in 0 .. (TaskCount - 1) : k = runIndex[t]
      BY <1>1 DEF Task
    <3>2. k + 1 \in 1..TaskCount /\ (k + 1) - 1 = k
      BY TaskCountAssumption
    <3> QED BY <3>1, <3>2
  <2>2. taskResults[i - 1] = ResultOf(t)
    BY <1>1, <2>1
  <2>3. i \in StoredAt(b)
    BY <1>7, <2>2, KindOfResult DEF StoredAt
  <2>4. PICK j \in 1..Len(s) : pos[j] = i
    BY <1>4, <2>3
  <2>5. s[j] = ResultOf(t)
    BY <1>3, <1>4, <2>2, <2>3, <2>4
  <2> QED BY <2>5, KindOfResult
<1>8. {s[j].task : j \in 1..Len(s)} = {t \in Task : (progress[t] = "succeeded") <=> b}
  <2> DEFINE Ones == {t \in Task : (progress[t] = "succeeded") <=> b}
  <2>1. \A j \in 1..Len(s) : s[j].task \in Ones
    BY <1>6
  <2>2. \A t \in Ones : \E j \in 1..Len(s) : s[j].task = t
    BY <1>7
  <2> HIDE DEF Ones
  <2>3. {s[j].task : j \in 1..Len(s)} = Ones
    BY <2>1, <2>2, Zenon
  <2> QED BY <2>3 DEF Ones
<1>9. ASSUME NEW j \in 1..Len(s)
      PROVE  \E t \in Task : /\ t = s[j].task /\ t \in Begun
                             /\ runIndex[t] \in Nat /\ j - 1 <= runIndex[t]
                             /\ StoredAt(b) = 1..TaskCount => runIndex[t] = j - 1
  <2>1. PICK t \in Task : t = s[j].task /\ runIndex[t] = pos[j] - 1
    BY <1>6
  <2>2. t \in Begun /\ runIndex[t] \in Nat
    BY <1>1, TaskCountAssumption DEF Task
  <2>3. pos[j] \in Nat /\ j \in Nat /\ j <= pos[j] /\ (StoredAt(b) = 1..TaskCount => pos[j] = j)
    BY <1>4, <1>5, TaskCountAssumption DEF StoredAt
  <2> QED BY <2>1, <2>2, <2>3
<1> QED BY <1>5, <1>8, <1>9 DEF s

\* Each number has a result of one kind.
LEMMA KindsMakeAll ==
  ASSUME DeliveryInvariant, AsyncInvariant, report.state = "resolved"
  PROVE  /\ StoredAt(TRUE) \cup StoredAt(FALSE) = 1..TaskCount
         /\ IsFiniteSet(StoredAt(FALSE))
         /\ Cardinality(StoredAt(TRUE)) + Cardinality(StoredAt(FALSE)) = TaskCount
<1>1. /\ StoredAt(TRUE) \cup StoredAt(FALSE) = 1..TaskCount
      /\ StoredAt(TRUE) \cap StoredAt(FALSE) = {}
  <2>1. ASSUME NEW i \in 1..TaskCount
        PROVE  i \in StoredAt(TRUE) <=> i \notin StoredAt(FALSE)
    <3>1. PICK t \in Task : taskResults[i - 1] = ResultOf(t)
      BY ResultsAreComplete
    <3> QED BY <3>1, KindOfResult DEF StoredAt
  <2> QED BY <2>1 DEF StoredAt
<1>2. IsFiniteSet(1..TaskCount) /\ Cardinality(1..TaskCount) = TaskCount
  <2>1. 1 \in Int /\ TaskCount \in Int /\ TaskCount \in Nat
    BY TaskCountAssumption
  <2>2. IsFiniteSet(1..TaskCount) /\ Cardinality(1..TaskCount) = IF 1 > TaskCount THEN 0 ELSE TaskCount - 1 + 1
    BY <2>1, FS_Interval
  <2> QED BY <2>1, <2>2
<1>3. IsFiniteSet(StoredAt(TRUE)) /\ IsFiniteSet(StoredAt(FALSE))
  <2>1. StoredAt(TRUE) \in SUBSET (1..TaskCount) /\ StoredAt(FALSE) \in SUBSET (1..TaskCount)
    BY <1>1
  <2> QED BY <1>2, <2>1, FS_Subset
<1>4. /\ Cardinality(StoredAt(TRUE)) \in Nat /\ Cardinality(StoredAt(FALSE)) \in Nat
      /\ Cardinality({}) = 0
  BY <1>3, FS_CardinalityType, FS_EmptySet
<1>5. Cardinality(StoredAt(TRUE) \cup StoredAt(FALSE))
        = Cardinality(StoredAt(TRUE)) + Cardinality(StoredAt(FALSE))
            - Cardinality(StoredAt(TRUE) \cap StoredAt(FALSE))
  BY <1>3, FS_Union
<1>6. Cardinality(StoredAt(TRUE)) + Cardinality(StoredAt(FALSE)) = TaskCount
  <2>1. PICK y \in Nat, n \in Nat :
          y = Cardinality(StoredAt(TRUE)) /\ n = Cardinality(StoredAt(FALSE))
    BY <1>4
  <2>2. TaskCount = y + n - 0
    BY <1>1, <1>2, <1>4, <1>5, <2>1
  <2>3. y + n = TaskCount
    BY <2>2
  <2> QED BY <2>1, <2>3
<1> QED BY <1>1, <1>3, <1>6

\* Each value of the input is reported once and as what became of it.
THEOREM InputsReportedOnce == AsyncSpec => []EveryInputIsReportedOnce
<1>1. DeliveryInvariant /\ AsyncInvariant => EveryInputIsReportedOnce
  <2>1. SUFFICES ASSUME DeliveryInvariant, AsyncInvariant, report.state = "resolved"
                 PROVE  /\ Len(report.succeded) + Len(report.failed) = TaskCount
                        /\ {report.succeded[i].task : i \in 1..Len(report.succeded)}
                             = {t \in Task : progress[t] = "succeeded"}
                        /\ {report.failed[i].task : i \in 1..Len(report.failed)}
                             = {t \in Task : progress[t] = "gaveUp"}
    BY DEF EveryInputIsReportedOnce
  <2>2. report.succeded = Stored(TRUE) /\ report.failed = Stored(FALSE) /\ outcome = "resolved"
    BY <2>1 DEF AsyncInvariant, ReportFollows, ProgressFollows
  <2>3. \A t \in Task : progress[t] = "gaveUp" <=> ~(progress[t] = "succeeded")
    BY <2>1, <2>2, ResolvedMeansAllEnded DEF Ended
  <2>4. Len(Stored(TRUE)) + Len(Stored(FALSE)) = TaskCount
    <3>1. /\ Len(Stored(TRUE)) = Cardinality(StoredAt(TRUE))
          /\ Len(Stored(FALSE)) = Cardinality(StoredAt(FALSE))
      BY <2>1, ReportedOnes
    <3> QED BY <2>1, <3>1, KindsMakeAll
  <2>5. {Stored(TRUE)[i].task : i \in 1..Len(Stored(TRUE))}
          = {t \in Task : (progress[t] = "succeeded") <=> TRUE}
    BY <2>1, ReportedOnes
  <2>6. {Stored(FALSE)[i].task : i \in 1..Len(Stored(FALSE))}
          = {t \in Task : (progress[t] = "succeeded") <=> FALSE}
    BY <2>1, ReportedOnes
  <2>7. /\ {t \in Task : (progress[t] = "succeeded") <=> TRUE} = {t \in Task : progress[t] = "succeeded"}
        /\ {t \in Task : (progress[t] = "succeeded") <=> FALSE} = {t \in Task : progress[t] = "gaveUp"}
    BY <2>3
  <2>8. Len(report.succeded) + Len(report.failed) = TaskCount
    BY <2>2, <2>4
  <2>9. {report.succeded[i].task : i \in 1..Len(report.succeded)}
          = {t \in Task : progress[t] = "succeeded"}
    BY <2>2, <2>5, <2>7, Zenon
  <2>10. {report.failed[i].task : i \in 1..Len(report.failed)}
           = {t \in Task : progress[t] = "gaveUp"}
    BY <2>2, <2>6, <2>7, Zenon
  <2> QED BY <2>8, <2>9, <2>10
<1> QED BY <1>1, AsyncTasksRunTheExecutor, DeliveryHolds, AsyncInvariantHolds, PTL

\* The place of a result in the report is not above the number its call got, and is that
\* number when nothing was tried twice and nothing failed.
THEOREM IndexesFollowCalls == AsyncSpec => []ReportedIndexFollowsTheCalls
<1>1. DeliveryInvariant /\ AsyncInvariant => ReportedIndexFollowsTheCalls
  <2>1. SUFFICES ASSUME DeliveryInvariant, AsyncInvariant, report.state = "resolved",
                        NEW i \in 1..Len(report.succeded)
                 PROVE  /\ i - 1 <= batchIndex[report.succeded[i].task]
                        /\ calls = TaskCount /\ report.failed = << >>
                             => i - 1 = batchIndex[report.succeded[i].task]
    BY DEF ReportedIndexFollowsTheCalls
  <2>2. /\ report.succeded = Stored(TRUE) /\ report.failed = Stored(FALSE)
        /\ NumbersAreApart /\ currentRunIndex = TaskCount
    BY <2>1, ResultsAreComplete DEF AsyncInvariant, ReportFollows
  <2>3. PICK t \in Task : /\ t = Stored(TRUE)[i].task /\ t \in Begun
                          /\ runIndex[t] \in Nat /\ i - 1 <= runIndex[t]
                          /\ StoredAt(TRUE) = 1..TaskCount => runIndex[t] = i - 1
    <3>1. i \in 1..Len(Stored(TRUE))
      BY <2>1, <2>2
    <3> QED BY <2>1, <3>1, ReportedOnes
  <2>4. /\ batchIndex[t] \in Nat /\ runIndex[t] <= batchIndex[t]
        /\ calls = TaskCount => batchIndex[t] = runIndex[t]
    BY <2>2, <2>3 DEF NumbersAreApart
  <2>5. report.failed = << >> => StoredAt(TRUE) = 1..TaskCount
    <3>1. SUFFICES ASSUME Stored(FALSE) = << >>
                   PROVE  StoredAt(TRUE) = 1..TaskCount
      BY <2>2
    <3>2. Cardinality(StoredAt(FALSE)) = 0
      <4>1. Len(Stored(FALSE)) = Cardinality(StoredAt(FALSE))
        BY <2>1, ReportedOnes
      <4> QED BY <3>1, <4>1
    <3>3. StoredAt(FALSE) = {}
      BY <2>1, <3>2, KindsMakeAll, FS_EmptySet
    <3> QED BY <2>1, <3>3, KindsMakeAll
  <2>6. batchIndex[report.succeded[i].task] = batchIndex[t]
    BY <2>2, <2>3, Zenon
  <2>7. i - 1 <= batchIndex[t]
    <3>1. PICK k \in Nat, n \in Nat : k = runIndex[t] /\ n = batchIndex[t]
      BY <2>3, <2>4
    <3>2. i - 1 <= k
      BY <2>3, <3>1, Zenon
    <3>3. k <= n
      BY <2>4, <3>1, Zenon
    <3>4. i \in Int
      OBVIOUS
    <3>5. i - 1 <= n
      BY <3>1, <3>2, <3>3, <3>4
    <3> QED BY <3>1, <3>5
  <2>8. calls = TaskCount /\ report.failed = << >> => i - 1 = batchIndex[t]
    BY <2>3, <2>4, <2>5
  <2> QED BY <2>6, <2>7, <2>8
<1> QED BY <1>1, AsyncTasksRunTheExecutor, DeliveryHolds, AsyncInvariantHolds, PTL

-----------------------------------------------------------------------------
(***************************************************************************)
(* CheckpointIteration, for any number of documents and changes: it keeps  *)
(* to totalSnapshotsLimit, it iterates unchanged documents in order, and   *)
(* all of them when it has no limits, and a repeat cursor bounds it.       *)
(***************************************************************************)

\* What a state s of the function's variables has to satisfy, when the documents of
\* the checkpoints are cps.
StateFits(s, cps) ==
  /\ s \in IterationState
  /\ limitPerCheckpoint # NoLimit => s.totalSnapshotsVisited <= totalSnapshotsLimit
  /\ ~s.hasReachedEnd =>
       \A i \in 1..Len(cps) : \A d \in cps[i] \ changed : place[d] <= s.cursorDocument.at

\* What a query q under way in state s has to satisfy.
QueryFits(q, s) ==
  /\ q \in [after : 0..LastPlace, limit : Nat]
  /\ limitPerCheckpoint # NoLimit => s.totalSnapshotsVisited + q.limit <= totalSnapshotsLimit
  /\ q.limit > 0 => ~s.hasReachedEnd /\ q.after = s.cursorDocument.at

-----------------------------------------------------------------------------
(* A checkpoint iteration is an execution of the executor *)

\* A query, what it brings and a change of a document make no other steps of the
\* executor than its own.
LEMMA StepsOfIteration == [IterationNext]_iterationVars => [Next]_vars
<1>1. SUFFICES ASSUME [IterationNext]_iterationVars
               PROVE  [Next]_vars
  OBVIOUS
<1>2. CASE UNCHANGED iterationVars
  BY <1>2 DEF iterationVars
<1>3. CASE DocumentChanges
  BY <1>3 DEF DocumentChanges
<1>4. CASE IterationStops
  BY <1>4 DEF IterationStops, iterationVars
<1>5. ASSUME NEW w \in Worker, ExecutorProceeds(w)
      PROVE  Proceed(w)
  BY <1>5 DEF ExecutorProceeds, Proceed
<1>6. ASSUME NEW w \in Worker, QueryEnds(w)
      PROVE  FactoryAnswers(w)
  BY <1>6 DEF QueryEnds, QueryBringsCheckpoint, RepeatCursorEnds, NoMoreCheckpoints,
              QueryFails, FactoryAnswers
<1>7. ASSUME NEW w \in Worker, CheckpointRuns(w)
      PROVE  TaskSettles(w) \/ UNCHANGED vars
  BY <1>7 DEF CheckpointRuns, ReportCheckpoint, CheckpointCompletes, CheckpointFails, TaskSettles
<1> QED BY <1>1, <1>2, <1>3, <1>4, <1>5, <1>6, <1>7 DEF IterationNext, Next

\* Every execution of the checkpoint iteration is one of the executor, so that what is
\* proved of the executor holds of it.
THEOREM IterationRunsTheExecutor == IterationSpec => Spec
<1>1. IterationInit => Init
  BY DEF IterationInit
<1> QED BY <1>1, StepsOfIteration, PTL DEF IterationSpec, Spec

-----------------------------------------------------------------------------
(* Queries *)

LEMMA LimitsType ==
  ASSUME options \in Option
  PROVE  /\ totalSnapshotsLimit \in Nat
         /\ limitPerCheckpoint # NoLimit => limitPerCheckpoint \in Nat
BY LimitAssumption DEF Option, totalSnapshotsLimit, limitPerCheckpoint

\* The limit of the next query is within what is left of the total.
LEMMA NextLimitWithinTotal ==
  ASSUME options \in Option, NEW s \in IterationState,
         limitPerCheckpoint # NoLimit => s.totalSnapshotsVisited <= totalSnapshotsLimit
  PROVE  /\ NextLimit(s) \in Nat
         /\ limitPerCheckpoint # NoLimit
              => s.totalSnapshotsVisited + NextLimit(s) <= totalSnapshotsLimit
<1>1. CASE limitPerCheckpoint = NoLimit
  BY <1>1, LimitAssumption DEF NextLimit
<1>2. CASE limitPerCheckpoint # NoLimit
  <2> DEFINE left == totalSnapshotsLimit - s.totalSnapshotsVisited
             most == Max({0, left})
  <2>1. totalSnapshotsLimit \in Nat /\ limitPerCheckpoint \in Nat /\ left \in Nat
    BY <1>2, LimitsType DEF IterationState
  <2>2. most = left
    <3>1. \A m : (m \in {0, left} /\ \A k \in {0, left} : k <= m) <=> m = left
      BY <2>1
    <3>2. most = CHOOSE m \in {0, left} : \A k \in {0, left} : k <= m
      BY <2>1 DEF Max
    <3> QED BY <3>1, <3>2
  <2>3. {limitPerCheckpoint, left} \in SUBSET Nat
    BY <2>1
  <2>4. Min({limitPerCheckpoint, left}) \in Nat /\ Min({limitPerCheckpoint, left}) <= left
    BY <2>3, MinIsLeast
  <2>5. NextLimit(s) = Min({limitPerCheckpoint, left})
    BY <1>2, <2>2 DEF NextLimit
  <2>6. s.totalSnapshotsVisited \in Nat
    BY DEF IterationState
  <2> HIDE DEF left
  <2>7. s.totalSnapshotsVisited + left = totalSnapshotsLimit
    BY <2>1, <2>6 DEF left
  <2> QED BY <2>1, <2>4, <2>5, <2>6, <2>7
<1> QED BY <1>1, <1>2

\* A call of the factory from a state that fits leaves one, and its query fits it.
LEMMA CallFits ==
  ASSUME options \in Option, NEW s, NEW cps, StateFits(s, cps)
  PROVE  StateFits(Called(s), cps) /\ QueryFits(QueryOf(s), Called(s))
<1>1. /\ s \in IterationState
      /\ limitPerCheckpoint # NoLimit => s.totalSnapshotsVisited <= totalSnapshotsLimit
  BY DEF StateFits
<1>2. /\ NextLimit(s) \in Nat
      /\ limitPerCheckpoint # NoLimit
           => s.totalSnapshotsVisited + NextLimit(s) <= totalSnapshotsLimit
  BY <1>1, NextLimitWithinTotal
<1>3. s.cursorDocument.at \in 0..LastPlace /\ s.totalSnapshotsVisited \in Nat
  BY <1>1 DEF IterationState
<1>4. totalSnapshotsLimit \in Nat
  BY LimitsType
<1>5. CASE s.hasReachedEnd \/ NextLimit(s) # 0
  <2>1. Called(s) = s
    BY <1>5 DEF Called
  <2>2. QueryFits(QueryOf(s), s)
    BY <1>1, <1>2, <1>3, <1>4, <1>5 DEF QueryFits, QueryOf
  <2> QED BY <2>1, <2>2
<1>6. CASE ~s.hasReachedEnd /\ NextLimit(s) = 0
  <2>1. Called(s) = [s EXCEPT !.cursorDocument = NoCursor, !.hasReachedEnd = TRUE,
                              !.totalSnapshotsLimitReached = TRUE]
    BY <1>6 DEF Called
  <2>2. NoCursor \in [doc : Document \cup {NoDocument}, at : 0..LastPlace]
    BY PlaceAssumption DEF NoCursor
  <2>3. /\ Called(s) \in IterationState
        /\ Called(s).hasReachedEnd = TRUE
        /\ Called(s).totalSnapshotsVisited = s.totalSnapshotsVisited
    BY <1>1, <2>1, <2>2 DEF IterationState
  <2>4. StateFits(Called(s), cps)
    BY <1>1, <2>3 DEF StateFits
  <2>5. QueryOf(s) = [after |-> s.cursorDocument.at, limit |-> 0]
    BY <1>6 DEF QueryOf
  <2>6. QueryFits(QueryOf(s), Called(s))
    BY <1>1, <1>3, <2>3, <2>5 DEF QueryFits
  <2> QED BY <2>4, <2>6
<1> QED BY <1>5, <1>6

\* A query brings no more documents than its limit, all of them behind its cursor.
LEMMA DocumentsWithinLimit ==
  ASSUME IterationTypeOK, PlacesDiffer, NEW q \in [after : 0..LastPlace, limit : Nat]
  PROVE  /\ DocumentsOf(q) \in SUBSET Document
         /\ IsFiniteSet(DocumentsOf(q))
         /\ Cardinality(DocumentsOf(q)) \in Nat
         /\ Cardinality(DocumentsOf(q)) <= q.limit
         /\ \A d \in DocumentsOf(q) : place[d] > q.after /\ place[d] \in 1..LastPlace
<1> DEFINE docs == DocumentsOf(q)
           Before(d) == {e \in Document : q.after < place[e] /\ place[e] < place[d]}
           rank == [d \in docs |-> Cardinality(Before(d))]
<1>1. /\ place \in [Document -> 0..LastPlace]
      /\ LastPlace \in Nat /\ q.limit \in Nat /\ q.after \in 0..LastPlace
  BY PlaceAssumption DEF IterationTypeOK
<1>2. docs \in SUBSET Document
  BY DEF DocumentsOf
<1>3. \A d \in docs : place[d] > q.after /\ Cardinality(Before(d)) < q.limit
  BY DEF DocumentsOf
<1>4. \A d \in docs : place[d] \in 1..LastPlace
  <2>1. SUFFICES ASSUME NEW d \in docs
                 PROVE  place[d] \in 1..LastPlace
    OBVIOUS
  <2>2. place[d] \in 0..LastPlace /\ place[d] > q.after
    BY <1>1, <1>2, <1>3
  <2> QED BY <1>1, <2>2
<1>5. IsFiniteSet(docs) /\ Cardinality(docs) \in Nat
  BY <1>2, DocumentAssumption, FS_Subset, FS_CardinalityType
<1>6. ASSUME NEW d \in Document
      PROVE  Before(d) \in SUBSET Document /\ IsFiniteSet(Before(d)) /\ Cardinality(Before(d)) \in Nat
  <2>1. Before(d) \in SUBSET Document
    OBVIOUS
  <2> QED BY <2>1, DocumentAssumption, FS_Subset, FS_CardinalityType
<1>7. ASSUME NEW d \in docs, NEW e \in docs, place[d] < place[e]
      PROVE  rank[d] # rank[e]
  <2>0. /\ d \in Document /\ e \in Document
        /\ q.after \in Int /\ place[d] \in Int /\ place[e] \in Int
        /\ q.after < place[d]
    <3>1. d \in Document /\ e \in Document
      BY <1>2
    <3>2. place[d] \in 1..LastPlace /\ place[e] \in 1..LastPlace /\ place[d] > q.after
      BY <1>3, <1>4
    <3> QED BY <1>1, <3>1, <3>2
  <2>1. Before(d) \in SUBSET Before(e)
    BY <1>1, <1>7, <2>0
  <2>2. d \in Before(e) /\ d \notin Before(d)
    BY <1>7, <2>0
  <2>3. IsFiniteSet(Before(e))
    BY <1>2, <1>6
  <2>4. Cardinality(Before(e)) # Cardinality(Before(d))
    BY <2>1, <2>2, <2>3, FS_Subset
  <2> QED BY <2>4
<1>8. rank \in [docs -> 0 .. q.limit - 1]
  <2>1. ASSUME NEW d \in docs
        PROVE  Cardinality(Before(d)) \in 0 .. q.limit - 1
    BY <1>1, <1>2, <1>3, <1>6
  <2> QED BY <2>1
<1>9. \A d, e \in docs : rank[d] = rank[e] => d = e
  <2>1. SUFFICES ASSUME NEW d \in docs, NEW e \in docs, d # e
                 PROVE  rank[d] # rank[e]
    OBVIOUS
  <2>2. place[d] # place[e]
    BY <1>2, <1>4, <2>1 DEF PlacesDiffer
  <2>3. place[d] < place[e] \/ place[e] < place[d]
    BY <1>4, <2>2
  <2> QED BY <1>7, <2>3
<1> HIDE DEF rank
<1>10. rank \in Injection(docs, 0 .. q.limit - 1)
  BY <1>8, <1>9 DEF Injection, IsInjective
<1>11. /\ IsFiniteSet(0 .. q.limit - 1)
       /\ Cardinality(0 .. q.limit - 1) = q.limit
  <2> DEFINE last == q.limit - 1
  <2>1. last \in Int /\ last + 1 = q.limit /\ last + 1 >= 0
    <3>1. q.limit \in Nat
      BY <1>1
    <3> HIDE DEF last
    <3>2. last = q.limit - 1
      BY Zenon DEF last
    <3> QED BY <3>1, <3>2
  <2> HIDE DEF last
  <2>2. IsFiniteSet(0 .. last) /\ Cardinality(0 .. last) = IF 0 > last THEN 0 ELSE last - 0 + 1
    <3>1. 0 \in Int
      OBVIOUS
    <3> QED BY <2>1, <3>1, FS_Interval, Zenon
  <2>3. CASE 0 > last
    <3>1. Cardinality(0 .. last) = 0
      BY <2>2, <2>3, Zenon
    <3>2. q.limit = 0
      BY <2>1, <2>3
    <3> QED BY <2>2, <3>1, <3>2, Zenon DEF last
  <2>4. CASE ~(0 > last)
    <3>1. Cardinality(0 .. last) = last - 0 + 1
      BY <2>2, <2>4, Zenon
    <3>2. last - 0 + 1 = q.limit
      BY <2>1
    <3> QED BY <2>2, <3>1, <3>2, Zenon DEF last
  <2> QED BY <2>3, <2>4, Zenon
<1>12. Cardinality(docs) <= q.limit
  BY <1>10, <1>11, FS_Injection
<1> QED BY <1>2, <1>3, <1>4, <1>5, <1>12

\* The cursor a query's documents leave is that of the last of them.
LEMMA CursorIsLast ==
  ASSUME IterationTypeOK, NEW docs \in SUBSET Document,
         \A d \in docs : place[d] \in 1..LastPlace
  PROVE  /\ LastDocument(docs) \in Document \cup {NoDocument}
         /\ CursorAt(LastDocument(docs)) \in [doc : Document \cup {NoDocument}, at : 0..LastPlace]
         /\ \A d \in docs : place[d] <= CursorAt(LastDocument(docs)).at
         /\ IF docs = {} THEN LastDocument(docs) = NoDocument
            ELSE /\ LastDocument(docs) \in docs
                 /\ CursorAt(LastDocument(docs)).at = place[LastDocument(docs)]
<1>1. place \in [Document -> 0..LastPlace] /\ LastPlace \in Nat
  BY PlaceAssumption DEF IterationTypeOK
<1>2. NoCursor \in [doc : Document \cup {NoDocument}, at : 0..LastPlace]
  BY <1>1 DEF NoCursor
<1>3. CASE docs = {}
  <2>1. LastDocument(docs) = NoDocument /\ CursorAt(LastDocument(docs)) = NoCursor
    BY <1>3 DEF LastDocument, CursorAt
  <2> QED BY <1>2, <1>3, <2>1
<1>4. CASE docs # {}
  <2> DEFINE places == {place[d] : d \in docs}
             last == LastDocument(docs)
  <2>1. places \in SUBSET (1..LastPlace) /\ places # {}
    BY <1>4
  <2>2. PICK d \in docs : \A e \in docs : place[e] <= place[d]
    BY <1>1, <2>1, MaxIsGreatest
  <2>3. last = CHOOSE x \in docs : \A e \in docs : place[e] <= place[x]
    BY <1>4 DEF LastDocument
  <2>4. last \in docs /\ \A e \in docs : place[e] <= place[last]
    BY <2>2, <2>3
  <2>5. last \in Document /\ last # NoDocument
    BY <2>4, DocumentAssumption
  <2>6. CursorAt(last) = [doc |-> last, at |-> place[last]]
    BY <2>5 DEF CursorAt
  <2> QED BY <1>1, <1>4, <2>4, <2>5, <2>6
<1> QED BY <1>3, <1>4

LEMMA AdvancedState ==
  ASSUME NEW s \in IterationState, NEW docs, Cardinality(docs) \in Nat,
         LastDocument(docs) \in Document \cup {NoDocument},
         CursorAt(LastDocument(docs)) \in [doc : Document \cup {NoDocument}, at : 0..LastPlace]
  PROVE  /\ Advanced(s, docs) \in IterationState
         /\ Advanced(s, docs).totalSnapshotsVisited = s.totalSnapshotsVisited + Cardinality(docs)
         /\ docs = {} => Advanced(s, docs).hasReachedEnd
         /\ Advanced(s, docs).cursorDocument = CursorAt(LastDocument(docs))
         /\ Advanced(s, docs).visitedCursorPaths = CursorPaths(s, LastDocument(docs))
         /\ Advanced(s, docs).currentIndex = s.currentIndex + 1
         /\ \/ Advanced(s, docs).hasReachedEnd = s.hasReachedEnd
            \/ docs = {} \/ s.totalSnapshotsVisited + Cardinality(docs) > totalSnapshotsLimit
<1> DEFINE last == LastDocument(docs)
           cursor == CursorAt(last)
           paths == CursorPaths(s, last)
           total == s.totalSnapshotsVisited + Cardinality(docs)
           index == s.currentIndex + 1
           counted == [s EXCEPT !.cursorDocument = cursor, !.visitedCursorPaths = paths,
                                !.totalSnapshotsVisited = total, !.currentIndex = index]
           ended == [counted EXCEPT !.hasReachedEnd = TRUE, !.totalSnapshotsLimitReached = TRUE]
<1>1. /\ paths \in SUBSET Document /\ total \in Nat /\ index \in Nat
      /\ cursor \in [doc : Document \cup {NoDocument}, at : 0..LastPlace]
  BY DEF CursorPaths, IterationState
<1>2. /\ counted \in IterationState
      /\ counted.totalSnapshotsVisited = total
      /\ counted.cursorDocument = cursor
      /\ counted.visitedCursorPaths = paths
      /\ counted.currentIndex = index
      /\ counted.hasReachedEnd = s.hasReachedEnd
  <2> HIDE DEF cursor, paths, total, index
  <2> QED BY <1>1 DEF IterationState
<1>3. Advanced(s, docs) = IF EndsAfter(counted, docs) THEN ended ELSE counted
  BY DEF Advanced
<1>4. EndsAfter(counted, docs) <=> docs = {} \/ total > totalSnapshotsLimit
  BY <1>2 DEF EndsAfter
<1> HIDE DEF counted
<1>5. /\ ended \in IterationState
      /\ ended.hasReachedEnd = TRUE
      /\ ended.totalSnapshotsVisited = counted.totalSnapshotsVisited
      /\ ended.cursorDocument = counted.cursorDocument
      /\ ended.visitedCursorPaths = counted.visitedCursorPaths
      /\ ended.currentIndex = counted.currentIndex
  BY <1>2 DEF IterationState
<1> QED BY <1>2, <1>3, <1>4, <1>5

-----------------------------------------------------------------------------
(* Steps *)

\* In the inductive invariant, what is said of the state and of the queries.
LEMMA InvariantFits ==
  ASSUME ExecutorInvariant, IterationTypeOK
  PROVE  WithinTotalLimit /\ CursorAgrees
           <=> /\ StateFits(iteration, checkpoints)
               /\ \A w \in Worker : pc[w] = "factory" => QueryFits(call[w], iteration)
<1>1. iteration \in IterationState /\ \A w \in Worker : call[w] \in [after : 0..LastPlace, limit : Nat]
  BY DEF IterationTypeOK
<1> QED BY <1>1 DEF WithinTotalLimit, CursorAgrees, StateFits, QueryFits

\* A step that runs the function's code in state s, and leaves the queries under way
\* alone, preserves what the invariant says of them.
LEMMA CallsStep ==
  ASSUME IterationInvariant, ExecutorInvariant', NEW s, CallsFrom(s),
         StateFits(s, checkpoints'),
         \A v \in Worker : pc[v] = "factory" /\ pc'[v] = "factory" => QueryFits(call[v], s),
         checkpoints' \in Seq(SUBSET Document),
         UNCHANGED <<options, database, reported>>
  PROVE  IterationTypeOK' /\ PlacesDiffer' /\ WithinTotalLimit' /\ CursorAgrees'
<1>1. /\ options \in Option /\ IterationTypeOK
      /\ UNCHANGED <<options, place, changed, changes, reported>>
  BY DEF IterationInvariant, IterationTypeOK, database
<1>2. StateFits(Called(s), checkpoints') /\ QueryFits(QueryOf(s), Called(s))
  BY <1>1, CallFits
<1>3. StateFits(iteration', checkpoints')
  BY <1>2 DEF CallsFrom
<1>4. ASSUME NEW v \in Worker
      PROVE  /\ call'[v] \in [after : 0..LastPlace, limit : Nat]
             /\ pc'[v] = "factory" => QueryFits(call'[v], iteration')
  <2> DEFINE calling == {w \in Worker : pc[w] # "factory" /\ pc'[w] = "factory"}
  <2>1. CASE v \in calling
    <3>1. call'[v] = QueryOf(s) /\ iteration' = Called(s)
      BY <2>1 DEF CallsFrom
    <3> QED BY <1>2, <3>1 DEF QueryFits
  <2>2. CASE v \notin calling
    <3>1. call'[v] = call[v]
      BY <2>2 DEF CallsFrom
    <3>2. call[v] \in [after : 0..LastPlace, limit : Nat]
      BY <1>1 DEF IterationTypeOK
    <3>3. ASSUME pc'[v] = "factory"
          PROVE  QueryFits(call'[v], iteration')
      <4>1. pc[v] = "factory"
        BY <2>2, <3>3
      <4>2. \A u \in calling : u = v
        BY <3>3 DEF ExecutorInvariant, OneFactoryCallAtATime
      <4>3. calling = {}
        BY <2>2, <4>2
      <4>4. iteration' = s
        BY <4>3 DEF CallsFrom
      <4> QED BY <3>1, <3>3, <4>1, <4>4
    <3> QED BY <3>1, <3>2, <3>3
  <2> QED BY <2>1, <2>2
<1>5. call' \in [Worker -> [after : 0..LastPlace, limit : Nat]]
  <2>1. DOMAIN call' = Worker /\ call' = [w \in Worker |-> call'[w]]
    BY DEF CallsFrom
  <2> QED BY <1>4, <2>1
<1>6. IterationTypeOK'
  BY <1>1, <1>3, <1>5 DEF IterationTypeOK, StateFits, Option
<1>7. PlacesDiffer'
  BY <1>1 DEF IterationInvariant, PlacesDiffer
<1>8. limitPerCheckpoint' = limitPerCheckpoint /\ totalSnapshotsLimit' = totalSnapshotsLimit
  BY <1>1 DEF limitPerCheckpoint, totalSnapshotsLimit
<1>9. WithinTotalLimit'
  BY <1>3, <1>4, <1>8 DEF WithinTotalLimit, StateFits, QueryFits
<1>10. CursorAgrees'
  BY <1>1, <1>3, <1>4 DEF CursorAgrees, StateFits, QueryFits
<1> QED BY <1>6, <1>7, <1>9, <1>10

\* What a step preserves of IterationInvariant, beyond the executor's own invariant.
StillFits ==
  IterationTypeOK' /\ PlacesDiffer' /\ WithinTotalLimit' /\ CursorAgrees'
    /\ UnchangedDocumentsInOrder'

\* Steps in which the function's variables change only by a call of the factory.
LEMMA NoCheckpointStep ==
  ASSUME IterationInvariant, ExecutorInvariant', CallsFrom(iteration),
         UNCHANGED <<options, database, checkpoints, reported>>
  PROVE  StillFits
<1>1. /\ StateFits(iteration, checkpoints)
      /\ \A v \in Worker : pc[v] = "factory" => QueryFits(call[v], iteration)
      /\ checkpoints \in Seq(SUBSET Document)
  BY InvariantFits DEF IterationInvariant, IterationTypeOK
<1>2. StateFits(iteration, checkpoints')
  BY <1>1
<1>3. checkpoints' \in Seq(SUBSET Document)
  BY <1>1
<1>4. \A v \in Worker : pc[v] = "factory" /\ pc'[v] = "factory" => QueryFits(call[v], iteration)
  BY <1>1
<1>5. UNCHANGED <<options, database, reported>>
  OBVIOUS
<1>6. IterationTypeOK' /\ PlacesDiffer' /\ WithinTotalLimit' /\ CursorAgrees'
  BY <1>2, <1>3, <1>4, <1>5, CallsStep
<1>7. UnchangedDocumentsInOrder'
  BY DEF IterationInvariant, UnchangedDocumentsInOrder, database
<1> QED BY <1>6, <1>7 DEF StillFits

\* Another checkpoint: its documents follow the cursor, and the next cursor does not
\* come before any of them.
LEMMA QueryBringsCheckpointStep ==
  ASSUME IterationInvariant, ExecutorInvariant', NEW w \in Worker, QueryBringsCheckpoint(w)
  PROVE  StillFits
<1> DEFINE docs == DocumentsOf(call[w])
           s == Advanced(iteration, docs)
<1>1. /\ ExecutorInvariant /\ IterationTypeOK /\ PlacesDiffer
      /\ WithinTotalLimit /\ CursorAgrees /\ UnchangedDocumentsInOrder
  BY DEF IterationInvariant
<1>2. /\ call[w].limit > 0
      /\ FactoryReturnsTasks(w)
      /\ CallsFrom(s)
      /\ checkpoints' = Append(checkpoints, docs)
      /\ UNCHANGED <<options, database, reported>>
  BY DEF QueryBringsCheckpoint
<1>3. pc[w] = "factory" /\ pc'[w] = "handed"
  BY <1>1, <1>2, AnswerEndsTheCall
<1>4. \A v \in Worker : ~(pc[v] = "factory" /\ pc'[v] = "factory")
  <2>1. SUFFICES ASSUME NEW v \in Worker, pc[v] = "factory"
                 PROVE  pc'[v] # "factory"
    OBVIOUS
  <2>2. v = w
    BY <1>1, <1>3, <2>1 DEF ExecutorInvariant, OneFactoryCallAtATime
  <2> QED BY <1>3, <2>2
<1>5. /\ StateFits(iteration, checkpoints)
      /\ QueryFits(call[w], iteration)
  BY <1>1, <1>3, InvariantFits
<1>6. /\ docs \in SUBSET Document
      /\ Cardinality(docs) \in Nat
      /\ Cardinality(docs) <= call[w].limit
      /\ \A d \in docs : place[d] > call[w].after /\ place[d] \in 1..LastPlace
  BY <1>1, <1>5, DocumentsWithinLimit DEF QueryFits
<1>7. /\ LastDocument(docs) \in Document \cup {NoDocument}
      /\ CursorAt(LastDocument(docs)) \in [doc : Document \cup {NoDocument}, at : 0..LastPlace]
      /\ \A d \in docs : place[d] <= CursorAt(LastDocument(docs)).at
  BY <1>1, <1>6, CursorIsLast
<1>8. /\ checkpoints \in Seq(SUBSET Document)
      /\ iteration \in IterationState
      /\ place \in [Document -> 0..LastPlace]
      /\ LastPlace \in Nat
      /\ options \in Option
      /\ changed \in SUBSET Document
  BY <1>1, PlaceAssumption DEF IterationTypeOK
<1>9. /\ checkpoints' \in Seq(SUBSET Document)
      /\ Len(checkpoints) \in Nat
      /\ Len(checkpoints') = Len(checkpoints) + 1
      /\ checkpoints'[Len(checkpoints) + 1] = docs
      /\ \A i \in 1..Len(checkpoints) :
           checkpoints'[i] = checkpoints[i] /\ checkpoints[i] \in SUBSET Document
  BY <1>2, <1>6, <1>8, AppendProperties, LenProperties, ElementOfSeq
<1>10. /\ s \in IterationState
       /\ s.totalSnapshotsVisited = iteration.totalSnapshotsVisited + Cardinality(docs)
       /\ docs = {} => s.hasReachedEnd
       /\ s.cursorDocument = CursorAt(LastDocument(docs))
  BY <1>6, <1>7, <1>8, AdvancedState
<1> HIDE DEF s, docs
<1>11. /\ ~iteration.hasReachedEnd
       /\ call[w].after = iteration.cursorDocument.at
       /\ call[w].after \in 0..LastPlace /\ call[w].limit \in Nat
  BY <1>2, <1>5 DEF QueryFits
<1>12. \A i \in 1..Len(checkpoints) : \A d \in checkpoints[i] \ changed :
         place[d] <= call[w].after /\ place[d] \in Nat
  BY <1>5, <1>8, <1>9, <1>11 DEF StateFits
<1>13. limitPerCheckpoint # NoLimit => s.totalSnapshotsVisited <= totalSnapshotsLimit
  <2>1. totalSnapshotsLimit \in Nat /\ iteration.totalSnapshotsVisited \in Nat
    BY <1>8, LimitsType DEF IterationState
  <2> QED BY <1>5, <1>6, <1>10, <1>11, <2>1 DEF QueryFits
<1>14. StateFits(s, checkpoints')
  <2>1. ASSUME ~s.hasReachedEnd, NEW i \in 1..Len(checkpoints'),
               NEW d \in checkpoints'[i] \ changed
        PROVE  place[d] <= s.cursorDocument.at
    <3>1. CASE i = Len(checkpoints) + 1
      BY <1>7, <1>9, <1>10, <2>1, <3>1
    <3>2. CASE i \in 1..Len(checkpoints)
      <4>1. place[d] <= call[w].after /\ place[d] \in Nat
        BY <1>9, <1>12, <2>1, <3>2
      <4>2. PICK e \in docs : TRUE
        BY <1>10, <2>1
      <4>3. /\ call[w].after < place[e] /\ place[e] <= s.cursorDocument.at
            /\ place[e] \in Nat /\ s.cursorDocument.at \in Nat
        BY <1>6, <1>7, <1>8, <1>10, <4>2
      <4> QED BY <1>11, <4>1, <4>3
    <3> QED BY <1>9, <3>1, <3>2
  <2> QED BY <1>10, <1>13, <2>1 DEF StateFits
<1>15. \A v \in Worker : pc[v] = "factory" /\ pc'[v] = "factory" => QueryFits(call[v], s)
  BY <1>4
<1>16. IterationTypeOK' /\ PlacesDiffer' /\ WithinTotalLimit' /\ CursorAgrees'
  BY <1>2, <1>9, <1>14, <1>15, CallsStep
<1>17. UnchangedDocumentsInOrder'
  <2>1. SUFFICES ASSUME NEW i \in 1..Len(checkpoints'), NEW j \in 1..Len(checkpoints'), i < j,
                        NEW d \in checkpoints'[i] \ changed, NEW e \in checkpoints'[j] \ changed
                 PROVE  place[d] < place[e]
    BY <1>2 DEF UnchangedDocumentsInOrder, database
  <2>2. i \in 1..Len(checkpoints)
    BY <1>9, <2>1
  <2>3. CASE j \in 1..Len(checkpoints)
    BY <1>1, <1>9, <2>1, <2>2, <2>3 DEF UnchangedDocumentsInOrder
  <2>4. CASE j = Len(checkpoints) + 1
    <3>1. place[d] <= call[w].after /\ place[d] \in Nat
      BY <1>9, <1>12, <2>1, <2>2
    <3>2. place[e] > call[w].after /\ place[e] \in Nat
      BY <1>6, <1>8, <1>9, <2>1, <2>4
    <3> QED BY <1>11, <3>1, <3>2
  <2> QED BY <1>9, <2>3, <2>4
<1> QED BY <1>16, <1>17 DEF StillFits

\* handleRepeatCursor ends the iteration.
LEMMA RepeatCursorEndsStep ==
  ASSUME IterationInvariant, ExecutorInvariant', NEW w \in Worker, RepeatCursorEnds(w)
  PROVE  StillFits
<1> DEFINE s == [iteration EXCEPT !.cursorDocument = NoCursor, !.hasReachedEnd = TRUE]
<1>1. /\ ExecutorInvariant /\ IterationTypeOK
      /\ WithinTotalLimit /\ CursorAgrees
  BY DEF IterationInvariant
<1>2. /\ FactoryReturnsNull(w)
      /\ CallsFrom(s)
      /\ UNCHANGED <<options, database, checkpoints, reported>>
  BY DEF RepeatCursorEnds
<1>3. pc[w] = "factory" /\ pc'[w] = "handed"
  BY <1>1, <1>2, AnswerEndsTheCall
<1>4. \A v \in Worker : ~(pc[v] = "factory" /\ pc'[v] = "factory")
  <2>1. SUFFICES ASSUME NEW v \in Worker, pc[v] = "factory"
                 PROVE  pc'[v] # "factory"
    OBVIOUS
  <2>2. v = w
    BY <1>1, <1>3, <2>1 DEF ExecutorInvariant, OneFactoryCallAtATime
  <2> QED BY <1>3, <2>2
<1>5. /\ StateFits(iteration, checkpoints)
      /\ checkpoints \in Seq(SUBSET Document)
  BY <1>1, InvariantFits DEF IterationTypeOK
<1>6. NoCursor \in [doc : Document \cup {NoDocument}, at : 0..LastPlace]
  BY PlaceAssumption DEF NoCursor
<1>7. /\ s \in IterationState
      /\ s.hasReachedEnd = TRUE
      /\ s.totalSnapshotsVisited = iteration.totalSnapshotsVisited
  BY <1>5, <1>6 DEF StateFits, IterationState
<1> HIDE DEF s
<1>8. StateFits(s, checkpoints')
  BY <1>5, <1>7 DEF StateFits
<1>9. checkpoints' \in Seq(SUBSET Document)
  BY <1>2, <1>5
<1>10. \A v \in Worker : pc[v] = "factory" /\ pc'[v] = "factory" => QueryFits(call[v], s)
  BY <1>4
<1>11. IterationTypeOK' /\ PlacesDiffer' /\ WithinTotalLimit' /\ CursorAgrees'
  BY <1>2, <1>8, <1>9, <1>10, CallsStep
<1>12. UnchangedDocumentsInOrder'
  BY <1>2 DEF IterationInvariant, UnchangedDocumentsInOrder, database
<1> QED BY <1>11, <1>12 DEF StillFits

\* Steps that leave the queries and the documents alone.
LEMMA NoCallStep ==
  ASSUME IterationInvariant, reported' \in [Task -> Document \cup {NoDocument, NoTask}],
         UNCHANGED <<options, database, iteration, call, checkpoints>>,
         \A v \in Worker : pc'[v] = "factory" => pc[v] = "factory"
  PROVE  StillFits
<1>1. UNCHANGED <<options, place, changed, changes, iteration, call, checkpoints>>
  BY DEF database
<1>2. /\ IterationTypeOK /\ PlacesDiffer /\ WithinTotalLimit /\ CursorAgrees
      /\ UnchangedDocumentsInOrder
  BY DEF IterationInvariant
<1>3. IterationTypeOK'
  BY <1>1, <1>2 DEF IterationTypeOK
<1>4. PlacesDiffer' /\ UnchangedDocumentsInOrder'
  BY <1>1, <1>2 DEF PlacesDiffer, UnchangedDocumentsInOrder
<1>5. limitPerCheckpoint' = limitPerCheckpoint /\ totalSnapshotsLimit' = totalSnapshotsLimit
  BY <1>1 DEF limitPerCheckpoint, totalSnapshotsLimit
<1>6. WithinTotalLimit'
  BY <1>1, <1>2, <1>5 DEF WithinTotalLimit
<1>7. CursorAgrees'
  BY <1>1, <1>2 DEF CursorAgrees
<1> QED BY <1>3, <1>4, <1>6, <1>7 DEF StillFits

\* A change of a document: it is not unchanged any more, and takes no other's place.
LEMMA DocumentChangesStep ==
  ASSUME IterationInvariant, DocumentChanges
  PROVE  StillFits
<1>1. /\ IterationTypeOK /\ PlacesDiffer /\ WithinTotalLimit /\ CursorAgrees
      /\ UnchangedDocumentsInOrder
  BY DEF IterationInvariant
<1>2. PICK d \in Document, p \in 0..LastPlace :
        /\ \A e \in Document : p = 0 \/ place[e] # p
        /\ place' = [place EXCEPT ![d] = p]
        /\ changed' = changed \cup {d}
  BY DEF DocumentChanges
<1>3. /\ changes' = changes + 1
      /\ UNCHANGED <<options, iteration, call, checkpoints, reported>>
      /\ pc' = pc
  BY DEF DocumentChanges, vars
<1>4. place \in [Document -> 0..LastPlace]
  BY <1>1 DEF IterationTypeOK
<1>5. /\ place' \in [Document -> 0..LastPlace]
      /\ place'[d] = p
      /\ \A e \in Document : e # d => place'[e] = place[e]
  BY <1>2, <1>4
<1>6. IterationTypeOK'
  BY <1>1, <1>2, <1>3, <1>5 DEF IterationTypeOK
<1>7. PlacesDiffer'
  BY <1>1, <1>2, <1>5 DEF PlacesDiffer
<1>8. limitPerCheckpoint' = limitPerCheckpoint /\ totalSnapshotsLimit' = totalSnapshotsLimit
  BY <1>3 DEF limitPerCheckpoint, totalSnapshotsLimit
<1>9. WithinTotalLimit'
  BY <1>1, <1>3, <1>8 DEF WithinTotalLimit
<1>10. \A i \in 1..Len(checkpoints) : \A e \in checkpoints[i] \ changed' :
         e \in checkpoints[i] \ changed /\ place'[e] = place[e]
  <2>1. ASSUME NEW i \in 1..Len(checkpoints) PROVE checkpoints[i] \in SUBSET Document
    BY <1>1, ElementOfSeq DEF IterationTypeOK
  <2> QED BY <1>2, <1>5, <2>1
<1>11. CursorAgrees'
  BY <1>1, <1>3, <1>10 DEF CursorAgrees
<1>12. UnchangedDocumentsInOrder'
  BY <1>1, <1>3, <1>10 DEF UnchangedDocumentsInOrder
<1> QED BY <1>6, <1>7, <1>9, <1>11, <1>12 DEF StillFits

\* The task of a checkpoint goes on, or its query fails.
LEMMA CheckpointRunsStep ==
  ASSUME IterationInvariant, NEW w \in Worker, CheckpointRuns(w) \/ QueryFails(w)
  PROVE  StillFits
<1>1. /\ pc \in [Worker -> Stage]
      /\ iteration \in IterationState
      /\ reported \in [Task -> Document \cup {NoDocument, NoTask}]
  BY DEF IterationInvariant, IterationTypeOK, ExecutorInvariant, TypeOK
<1>2. CASE ReportCheckpoint(w)
  <2>1. iteration.cursorDocument.doc \in Document \cup {NoDocument}
    BY <1>1 DEF IterationState
  <2>2. reported' = [reported EXCEPT ![hand[w]] = iteration.cursorDocument.doc]
    BY <1>2 DEF ReportCheckpoint
  <2>3. reported' \in [Task -> Document \cup {NoDocument, NoTask}]
    BY <1>1, <2>1, <2>2
  <2>4. pc' = pc /\ UNCHANGED <<options, database, iteration, call, checkpoints>>
    BY <1>2 DEF ReportCheckpoint, vars
  <2>5. \A v \in Worker : pc'[v] = "factory" => pc[v] = "factory"
    BY <2>4
  <2>6. UNCHANGED <<options, database, iteration, call, checkpoints>>
    BY <2>4
  <2> QED BY <2>3, <2>5, <2>6, NoCallStep
<1>3. CASE CheckpointCompletes(w) \/ CheckpointFails(w) \/ QueryFails(w)
  <2>1. /\ pc' = [pc EXCEPT ![w] = "timer"] \/ pc' = [pc EXCEPT ![w] = "failed"]
             \/ pc' = [pc EXCEPT ![w] = "orphaned"]
        /\ UNCHANGED <<options, database, iteration, call, checkpoints, reported>>
    BY <1>3 DEF CheckpointCompletes, CheckpointFails, QueryFails, TaskSucceeds, TaskFails,
                FactoryRejects
  <2>2. \A v \in Worker : pc'[v] = "factory" => pc[v] = "factory"
    BY <1>1, <2>1
  <2>3. reported' \in [Task -> Document \cup {NoDocument, NoTask}]
    BY <1>1, <2>1
  <2>4. UNCHANGED <<options, database, iteration, call, checkpoints>>
    BY <2>1
  <2> QED BY <2>2, <2>3, <2>4, NoCallStep
<1> QED BY <1>2, <1>3 DEF CheckpointRuns

-----------------------------------------------------------------------------
(* The inductive invariant *)

LEMMA IterationStarts == IterationInit => IterationInvariant
<1>1. SUFFICES ASSUME IterationInit
               PROVE  IterationInvariant
  OBVIOUS
<1>2. ExecutorInvariant
  BY <1>1, InitialInvariant DEF IterationInit
<1>3. /\ options \in Option
      /\ place \in [Document -> 0..LastPlace]
      /\ \A d, e \in Document : d # e /\ place[d] = place[e] => place[d] = 0
      /\ changed = {} /\ changes = 0
      /\ iteration = Called(StartState)
      /\ call = [w \in Worker |-> QueryOf(StartState)]
      /\ checkpoints = << >>
      /\ reported = [t \in Task |-> NoTask]
  BY <1>1 DEF IterationInit, Option
<1>4. StateFits(StartState, checkpoints)
  <2>1. NoCursor \in [doc : Document \cup {NoDocument}, at : 0..LastPlace]
    BY PlaceAssumption DEF NoCursor
  <2>2. StartState \in IterationState /\ StartState.totalSnapshotsVisited = 0
    BY <2>1 DEF StartState, IterationState
  <2>3. totalSnapshotsLimit \in Nat
    BY <1>3, LimitsType
  <2>4. Len(checkpoints) = 0
    BY <1>3
  <2> QED BY <2>2, <2>3, <2>4 DEF StateFits
<1>5. StateFits(iteration, checkpoints) /\ QueryFits(QueryOf(StartState), iteration)
  BY <1>3, <1>4, CallFits
<1>6. \A w \in Worker : QueryFits(call[w], iteration)
  BY <1>3, <1>5
<1>7. IterationTypeOK
  <2>1. call \in [Worker -> [after : 0..LastPlace, limit : Nat]]
    BY <1>3, <1>5 DEF QueryFits
  <2>2. checkpoints \in Seq(SUBSET Document)
    BY <1>3
  <2>3. reported \in [Task -> Document \cup {NoDocument, NoTask}]
    BY <1>3
  <2>4. iteration \in IterationState
    BY <1>5 DEF StateFits
  <2> QED BY <1>3, <2>1, <2>2, <2>3, <2>4 DEF IterationTypeOK
<1>8. WithinTotalLimit /\ CursorAgrees
  BY <1>2, <1>5, <1>6, <1>7, InvariantFits
<1>9. PlacesDiffer
  BY <1>3 DEF PlacesDiffer
<1>10. UnchangedDocumentsInOrder
  BY <1>3 DEF UnchangedDocumentsInOrder
<1> QED BY <1>2, <1>7, <1>8, <1>9, <1>10 DEF IterationInvariant

LEMMA IterationStep ==
  IterationInvariant /\ [IterationNext]_iterationVars => IterationInvariant'
<1>1. SUFFICES ASSUME IterationInvariant, [IterationNext]_iterationVars
               PROVE  IterationInvariant'
  OBVIOUS
<1>2. ExecutorInvariant'
  BY <1>1, StepsOfIteration, InvariantStep DEF IterationInvariant
<1>3. SUFFICES StillFits
  BY <1>2 DEF StillFits, IterationInvariant
<1>4. CASE UNCHANGED iterationVars
  <2>1. /\ UNCHANGED <<options, database, iteration, call, checkpoints>>
        /\ reported' = reported /\ pc' = pc
    BY <1>4 DEF iterationVars, vars, database
  <2>2. \A v \in Worker : pc'[v] = "factory" => pc[v] = "factory"
    BY <2>1
  <2>3. reported' \in [Task -> Document \cup {NoDocument, NoTask}]
    BY <1>1, <2>1 DEF IterationInvariant, IterationTypeOK
  <2>4. UNCHANGED <<options, database, iteration, call, checkpoints>>
    BY <2>1
  <2> QED BY <1>1, <2>2, <2>3, <2>4, NoCallStep
<1>5. CASE DocumentChanges
  BY <1>1, <1>5, DocumentChangesStep
<1>6. CASE IterationStops
  <2>1. UNCHANGED iterationVars
    BY <1>6 DEF IterationStops
  <2> QED BY <1>4, <2>1
<1>7. ASSUME NEW w \in Worker, ExecutorProceeds(w)
      PROVE  StillFits
  <2>1. CallsFrom(iteration) /\ UNCHANGED <<options, database, checkpoints, reported>>
    BY <1>7 DEF ExecutorProceeds
  <2>2. UNCHANGED <<options, database, checkpoints, reported>>
    BY <2>1
  <2> QED BY <1>1, <1>2, <2>1, <2>2, NoCheckpointStep
<1>8. ASSUME NEW w \in Worker, QueryEnds(w)
      PROVE  StillFits
  <2>1. CASE QueryBringsCheckpoint(w)
    BY <1>1, <1>2, <2>1, QueryBringsCheckpointStep
  <2>2. CASE RepeatCursorEnds(w)
    BY <1>1, <1>2, <2>2, RepeatCursorEndsStep
  <2>3. CASE NoMoreCheckpoints(w)
    <3>1. CallsFrom(iteration)
      BY <2>3 DEF NoMoreCheckpoints
    <3>2. UNCHANGED <<options, database, checkpoints, reported>>
      BY <2>3 DEF NoMoreCheckpoints
    <3> QED BY <1>1, <1>2, <3>1, <3>2, NoCheckpointStep
  <2>4. CASE QueryFails(w)
    BY <1>1, <2>4, CheckpointRunsStep
  <2> QED BY <1>8, <2>1, <2>2, <2>3, <2>4 DEF QueryEnds
<1>9. ASSUME NEW w \in Worker, CheckpointRuns(w)
      PROVE  StillFits
  BY <1>1, <1>9, CheckpointRunsStep
<1> QED BY <1>1, <1>4, <1>5, <1>6, <1>7, <1>8, <1>9 DEF IterationNext

\* IterationInvariant is inductive: it holds in every state of every iteration.
THEOREM IterationInvariantHolds == IterationSpec => []IterationInvariant
BY IterationStarts, IterationStep, PTL DEF IterationSpec

\* The queries never bring more documents than totalSnapshotsLimit allows, counting
\* the one under way at its full limit.
THEOREM TotalLimitKept == IterationSpec => []WithinTotalLimit
<1>1. IterationInvariant => WithinTotalLimit
  BY DEF IterationInvariant
<1> QED BY IterationInvariantHolds, <1>1, PTL

\* Documents nobody changes are iterated in the query's order, none of them twice.
THEOREM UnchangedDocumentsOnce == IterationSpec => []UnchangedDocumentsInOrder
<1>1. IterationInvariant => UnchangedDocumentsInOrder
  BY DEF IterationInvariant
<1> QED BY IterationInvariantHolds, <1>1, PTL

\* Two queries are never under way at once: the executor's theorem, carried over.
THEOREM QueriesDoNotOverlap == IterationSpec => []OneFactoryCallAtATime
BY IterationRunsTheExecutor, FactoryCallsDoNotOverlap, PTL

-----------------------------------------------------------------------------
(* Which documents are iterated, and how many checkpoints there are *)

\* CheckpointsLeaveCursors of a state s of the function's variables.
LeavesCursors(s) ==
  options.repeatAnswers = {FALSE} =>
    /\ s.currentIndex <= Cardinality(s.visitedCursorPaths) + 1
    /\ ~s.hasReachedEnd => s.currentIndex <= Cardinality(s.visitedCursorPaths)

IsIn(d, cps) == \E i \in 1..Len(cps) : d \in cps[i]

\* PlacesAreCovered of a state s, when the documents of the checkpoints are cps.
Covers(s, cps) ==
  HasNoLimits =>
    /\ \A d \in Document \ changed :
         place[d] > 0 /\ (s.hasReachedEnd \/ place[d] <= s.cursorDocument.at) => IsIn(d, cps)
    /\ ~s.hasReachedEnd => s.totalSnapshotsVisited <= s.cursorDocument.at

\* What a step preserves of CoverageInvariant, beyond the invariants it contains.
StillCovers == CheckpointsLeaveCursors' /\ NullMeansReachedEnd' /\ PlacesAreCovered'

LEMMA StepsAreSingle ==
  ASSUME [IterationNext]_iterationVars
  PROVE  SingleStep
<1>1. CASE UNCHANGED iterationVars
  BY <1>1 DEF iterationVars, SingleStep
<1>2. CASE DocumentChanges
  BY <1>2 DEF DocumentChanges, SingleStep
<1>3. CASE IterationStops
  BY <1>3 DEF IterationStops, iterationVars, SingleStep
<1>4. ASSUME NEW w \in Worker, ExecutorProceeds(w)
      PROVE  SingleStep
  BY <1>4 DEF ExecutorProceeds, Proceed, SingleStep
<1>5. ASSUME NEW w \in Worker, QueryEnds(w)
      PROVE  SingleStep
  BY <1>5 DEF QueryEnds, QueryBringsCheckpoint, RepeatCursorEnds, NoMoreCheckpoints,
              QueryFails, SingleStep
<1>6. ASSUME NEW w \in Worker, CheckpointRuns(w)
      PROVE  SingleStep
  BY <1>6 DEF CheckpointRuns, ReportCheckpoint, CheckpointCompletes, CheckpointFails,
              TaskSettles, SingleStep
<1> QED BY <1>1, <1>2, <1>3, <1>4, <1>5, <1>6 DEF IterationNext

\* Without limits there is another query, unless the end is reached.
LEMMA AnotherQuery ==
  ASSUME options \in Option, HasNoLimits, NEW s \in IterationState,
         s.totalSnapshotsVisited <= LastPlace
  PROVE  NextLimit(s) # 0
<1>1. /\ LastPlace \in Nat /\ MaxSafeInteger \in Nat /\ LastPlace < MaxSafeInteger
      /\ s.totalSnapshotsVisited \in Nat
  BY PlaceAssumption, LimitAssumption DEF HasNoLimits, IterationState
<1>2. CASE limitPerCheckpoint = NoLimit
  BY <1>1, <1>2 DEF NextLimit
<1>3. CASE limitPerCheckpoint # NoLimit
  <2> DEFINE left == totalSnapshotsLimit - s.totalSnapshotsVisited
             most == Max({0, left})
  <2>1. totalSnapshotsLimit = MaxSafeInteger /\ left \in Nat /\ left > 0
    BY <1>1 DEF totalSnapshotsLimit, HasNoLimits
  <2>2. limitPerCheckpoint \in Nat /\ limitPerCheckpoint > 0
    <3>1. limitPerCheckpoint = options.limitPerCheckpoint
      BY <1>3 DEF limitPerCheckpoint, HasNoLimits
    <3>2. limitPerCheckpoint \in Nat
      BY <1>3, LimitsType
    <3> QED BY <3>1, <3>2 DEF HasNoLimits
  <2>3. most = left
    <3>1. \A m : (m \in {0, left} /\ \A k \in {0, left} : k <= m) <=> m = left
      BY <2>1
    <3>2. most = CHOOSE m \in {0, left} : \A k \in {0, left} : k <= m
      BY <2>1 DEF Max
    <3> QED BY <3>1, <3>2
  <2>4. {limitPerCheckpoint, left} \in SUBSET Nat
    BY <2>1, <2>2
  <2>5. Min({limitPerCheckpoint, left}) \in {limitPerCheckpoint, left}
    BY <2>4, MinIsLeast
  <2>6. NextLimit(s) = Min({limitPerCheckpoint, left})
    BY <1>3, <2>3 DEF NextLimit
  <2> HIDE DEF left
  <2> QED BY <2>1, <2>2, <2>5, <2>6
<1> QED BY <1>2, <1>3

\* A call of the factory keeps both.
LEMMA CalledCovers ==
  ASSUME options \in Option, NEW s \in IterationState, NEW cps,
         LeavesCursors(s), Covers(s, cps)
  PROVE  /\ LeavesCursors(Called(s)) /\ Covers(Called(s), cps)
         /\ s.hasReachedEnd \/ NextLimit(s) = 0 => Called(s).hasReachedEnd
<1>1. CASE s.hasReachedEnd \/ NextLimit(s) # 0
  <2>1. Called(s) = s
    BY <1>1 DEF Called
  <2> QED BY <1>1, <2>1
<1>2. CASE ~s.hasReachedEnd /\ NextLimit(s) = 0
  <2>1. Called(s) = [s EXCEPT !.cursorDocument = NoCursor, !.hasReachedEnd = TRUE,
                              !.totalSnapshotsLimitReached = TRUE]
    BY <1>2 DEF Called
  <2>2. /\ Called(s).hasReachedEnd = TRUE
        /\ Called(s).currentIndex = s.currentIndex
        /\ Called(s).visitedCursorPaths = s.visitedCursorPaths
    BY <2>1 DEF IterationState
  <2>3. ~HasNoLimits
    <3>1. SUFFICES ASSUME HasNoLimits
                   PROVE  FALSE
      OBVIOUS
    <3>2. s.totalSnapshotsVisited <= LastPlace
      <4>1. /\ s.totalSnapshotsVisited \in Nat /\ s.cursorDocument.at \in 0..LastPlace
            /\ s.totalSnapshotsVisited <= s.cursorDocument.at /\ LastPlace \in Nat
        BY <1>2, <3>1, PlaceAssumption DEF IterationState, Covers
      <4> QED BY <4>1
    <3> QED BY <1>2, <3>1, <3>2, AnotherQuery
  <2> QED BY <2>2, <2>3 DEF LeavesCursors, Covers
<1> QED BY <1>1, <1>2

\* A step that runs the function's code in state s preserves what CoverageInvariant says.
LEMMA CallsCover ==
  ASSUME options \in Option, NEW s \in IterationState, CallsFrom(s),
         LeavesCursors(s), Covers(s, checkpoints'),
         isOutOfTasks' => s.hasReachedEnd,
         \A v \in Worker : pc[v] = "factory" /\ pc'[v] = "factory" /\ call[v].limit = 0
                             => s.hasReachedEnd,
         UNCHANGED <<options, database>>
  PROVE  StillCovers
<1>1. UNCHANGED <<options, place, changed>>
  BY DEF database
<1>2. /\ LeavesCursors(Called(s)) /\ Covers(Called(s), checkpoints')
      /\ s.hasReachedEnd \/ NextLimit(s) = 0 => Called(s).hasReachedEnd
  BY CalledCovers
<1>3. iteration' = s \/ iteration' = Called(s)
  BY DEF CallsFrom
<1>4. LeavesCursors(iteration') /\ Covers(iteration', checkpoints')
  BY <1>2, <1>3
<1>5. s.hasReachedEnd => iteration'.hasReachedEnd
  BY <1>2, <1>3
<1>6. CheckpointsLeaveCursors'
  BY <1>1, <1>4 DEF LeavesCursors, CheckpointsLeaveCursors
<1>7. PlacesAreCovered'
  <2>1. HasNoLimits' = HasNoLimits
    BY <1>1 DEF HasNoLimits
  <2>2. \A d : Iterated(d)' <=> IsIn(d, checkpoints')
    BY DEF Iterated, IsIn
  <2> QED BY <1>1, <1>4, <2>1, <2>2 DEF Covers, PlacesAreCovered
<1>8. ASSUME NEW w \in Worker, pc'[w] = "factory", call'[w].limit = 0
      PROVE  iteration'.hasReachedEnd
  <2>1. CASE pc[w] = "factory"
    <3>1. call'[w] = call[w]
      BY <2>1 DEF CallsFrom
    <3> QED BY <1>5, <1>8, <2>1, <3>1
  <2>2. CASE pc[w] # "factory"
    <3>1. call'[w] = QueryOf(s) /\ iteration' = Called(s)
      BY <1>8, <2>2 DEF CallsFrom
    <3> QED BY <1>2, <1>8, <3>1 DEF QueryOf
  <2> QED BY <2>1, <2>2
<1>9. NullMeansReachedEnd'
  BY <1>5, <1>8 DEF NullMeansReachedEnd
<1> QED BY <1>6, <1>7, <1>9 DEF StillCovers

\* A query passes over no document, and brings none only when none is left.
LEMMA QueryPassesNone ==
  ASSUME IterationTypeOK, NEW q \in [after : 0..LastPlace, limit : Nat], q.limit > 0
  PROVE  /\ \A d \in Document, e \in DocumentsOf(q) :
              q.after < place[d] /\ place[d] <= place[e] => d \in DocumentsOf(q)
         /\ DocumentsOf(q) = {} => \A d \in Document : place[d] <= q.after
<1> DEFINE Before(d) == {e \in Document : q.after < place[e] /\ place[e] < place[d]}
<1>1. /\ \A d \in Document : place[d] \in Nat
      /\ q.after \in Nat /\ q.limit \in Nat /\ LastPlace \in Nat
  BY PlaceAssumption DEF IterationTypeOK
<1>2. \A d : d \in DocumentsOf(q)
               <=> d \in Document /\ place[d] > q.after /\ Cardinality(Before(d)) < q.limit
  BY DEF DocumentsOf
<1>3. ASSUME NEW d \in Document
      PROVE  IsFiniteSet(Before(d)) /\ Cardinality(Before(d)) \in Nat
  <2>1. Before(d) \in SUBSET Document
    OBVIOUS
  <2> QED BY <2>1, DocumentAssumption, FS_Subset, FS_CardinalityType
<1>4. ASSUME NEW d \in Document, NEW e \in DocumentsOf(q), q.after < place[d], place[d] <= place[e]
      PROVE  d \in DocumentsOf(q)
  <2>1. e \in Document /\ Cardinality(Before(e)) < q.limit
    BY <1>2
  <2>2. Before(d) \in SUBSET Before(e)
    BY <1>1, <1>4, <2>1
  <2>3. Cardinality(Before(d)) <= Cardinality(Before(e))
    BY <1>3, <2>1, <2>2, FS_Subset
  <2>4. PICK m \in Nat, n \in Nat : m = Cardinality(Before(d)) /\ n = Cardinality(Before(e))
    BY <1>3, <2>1
  <2>5. m < q.limit
    BY <1>1, <2>1, <2>3, <2>4
  <2> HIDE DEF Before
  <2> QED BY <1>1, <1>2, <1>4, <2>4, <2>5
<1>5. ASSUME DocumentsOf(q) = {}, NEW d \in Document, ~(place[d] <= q.after)
      PROVE  FALSE
  <2> DEFINE later == {place[e] : e \in {x \in Document : place[x] > q.after}}
  <2>1. later \in SUBSET Nat /\ place[d] \in later
    BY <1>1, <1>5
  <2>2. PICK m \in later : \A k \in later : m <= k
    BY <2>1, LeastElement
  <2>3. PICK e \in Document : m = place[e] /\ place[e] > q.after
    BY <2>2
  <2>4. Before(e) = {}
    BY <1>1, <2>2, <2>3
  <2>5. Cardinality({}) = 0
    BY FS_EmptySet
  <2>6. Cardinality(Before(e)) < q.limit
    BY <1>1, <2>4, <2>5
  <2> HIDE DEF Before
  <2> QED BY <1>2, <1>5, <2>3, <2>6
<1> QED BY <1>4, <1>5

\* Documents need a place each.
LEMMA FewerThanPlaces ==
  ASSUME IterationTypeOK, PlacesDiffer, NEW docs \in SUBSET Document, docs # {},
         NEW a \in Nat, NEW b \in Nat, \A d \in docs : a < place[d] /\ place[d] <= b
  PROVE  a + Cardinality(docs) <= b
<1> DEFINE at == [d \in docs |-> place[d]]
<1>1. \A d \in Document : place[d] \in Nat
  BY PlaceAssumption DEF IterationTypeOK
<1>2. a < b
  BY <1>1
<1>3. at \in [docs -> (a + 1)..b]
  BY <1>1
<1>4. \A d, e \in docs : at[d] = at[e] => d = e
  BY <1>1 DEF PlacesDiffer
<1> HIDE DEF at
<1>5. at \in Injection(docs, (a + 1)..b)
  BY <1>3, <1>4 DEF Injection, IsInjective
<1>6. IsFiniteSet((a + 1)..b) /\ Cardinality((a + 1)..b) = b - a
  <2>1. a + 1 \in Int /\ b \in Int /\ a + 1 <= b
    BY <1>2
  <2>2. /\ IsFiniteSet((a + 1)..b)
        /\ Cardinality((a + 1)..b) = IF a + 1 > b THEN 0 ELSE b - (a + 1) + 1
    BY <2>1, FS_Interval
  <2> QED BY <2>1, <2>2
<1>7. Cardinality(docs) <= b - a
  BY <1>5, <1>6, FS_Injection
<1>8. Cardinality(docs) \in Nat
  BY DocumentAssumption, FS_Subset, FS_CardinalityType
<1> QED BY <1>7, <1>8

\* Another checkpoint leaves a cursor of its own or is the last, and it has every
\* document between the cursors.
LEMMA QueryBringsCovers ==
  ASSUME IterationInvariant, CheckpointsLeaveCursors, PlacesAreCovered,
         NEW w \in Worker, QueryBringsCheckpoint(w)
  PROVE  StillCovers
<1> DEFINE docs == DocumentsOf(call[w])
           last == LastDocument(docs)
           s == Advanced(iteration, docs)
<1>1. /\ ExecutorInvariant /\ IterationTypeOK /\ PlacesDiffer
      /\ WithinTotalLimit /\ CursorAgrees
  BY DEF IterationInvariant
<1>2. /\ call[w].limit > 0
      /\ IsRepeat(last) => TRUE \in options.repeatAnswers
      /\ FactoryReturnsTasks(w)
      /\ CallsFrom(s)
      /\ checkpoints' = Append(checkpoints, docs)
      /\ UNCHANGED <<options, database, reported>>
  BY DEF QueryBringsCheckpoint
<1>3. pc[w] = "factory" /\ pc'[w] = "handed" /\ ~isOutOfTasks'
  <2>1. ~isOutOfTasks'
    BY <1>2 DEF FactoryReturnsTasks
  <2> QED BY <1>1, <1>2, <2>1, AnswerEndsTheCall
<1>4. \A v \in Worker : ~(pc[v] = "factory" /\ pc'[v] = "factory")
  <2>1. SUFFICES ASSUME NEW v \in Worker, pc[v] = "factory"
                 PROVE  pc'[v] # "factory"
    OBVIOUS
  <2>2. v = w
    BY <1>1, <1>3, <2>1 DEF ExecutorInvariant, OneFactoryCallAtATime
  <2> QED BY <1>3, <2>2
<1>5. /\ ~iteration.hasReachedEnd /\ call[w].after = iteration.cursorDocument.at
      /\ call[w] \in [after : 0..LastPlace, limit : Nat]
      /\ iteration \in IterationState
      /\ checkpoints \in Seq(SUBSET Document)
      /\ options \in Option /\ LastPlace \in Nat
      /\ \A d \in Document : place[d] \in 0..LastPlace
  BY <1>1, <1>2, <1>3, PlaceAssumption DEF CursorAgrees, IterationTypeOK
<1>6. /\ docs \in SUBSET Document
      /\ Cardinality(docs) \in Nat
      /\ \A d \in docs : place[d] > call[w].after /\ place[d] \in 1..LastPlace
  BY <1>1, <1>5, DocumentsWithinLimit
<1>7. /\ last \in Document \cup {NoDocument}
      /\ CursorAt(last) \in [doc : Document \cup {NoDocument}, at : 0..LastPlace]
      /\ \A d \in docs : place[d] <= CursorAt(last).at
      /\ IF docs = {} THEN last = NoDocument
         ELSE last \in docs /\ CursorAt(last).at = place[last]
  BY <1>1, <1>6, CursorIsLast
<1>8. /\ s \in IterationState
      /\ s.totalSnapshotsVisited = iteration.totalSnapshotsVisited + Cardinality(docs)
      /\ docs = {} => s.hasReachedEnd
      /\ s.cursorDocument = CursorAt(last)
      /\ s.visitedCursorPaths = CursorPaths(iteration, last)
      /\ s.currentIndex = iteration.currentIndex + 1
      /\ \/ s.hasReachedEnd = iteration.hasReachedEnd
         \/ docs = {}
         \/ iteration.totalSnapshotsVisited + Cardinality(docs) > totalSnapshotsLimit
  BY <1>5, <1>6, <1>7, AdvancedState
<1>9. /\ \A d \in Document, e \in docs :
           call[w].after < place[d] /\ place[d] <= place[e] => d \in docs
      /\ docs = {} => \A d \in Document : place[d] <= call[w].after
  BY <1>1, <1>2, <1>5, QueryPassesNone
<1> HIDE DEF docs, s, last
<1>10. LeavesCursors(s)
  <2>1. SUFFICES ASSUME options.repeatAnswers = {FALSE}
                 PROVE  /\ s.currentIndex <= Cardinality(s.visitedCursorPaths) + 1
                        /\ ~s.hasReachedEnd => s.currentIndex <= Cardinality(s.visitedCursorPaths)
    BY DEF LeavesCursors
  <2> DEFINE soFar == iteration.visitedCursorPaths
  <2>2. /\ soFar \in SUBSET Document /\ iteration.currentIndex \in Nat
        /\ iteration.currentIndex <= Cardinality(soFar)
    BY <1>5, <2>1 DEF CheckpointsLeaveCursors, IterationState
  <2>3. IsFiniteSet(soFar) /\ Cardinality(soFar) \in Nat
    BY <2>2, DocumentAssumption, FS_Subset, FS_CardinalityType
  <2>4. last \notin soFar
    BY <1>2, <2>1, <2>2 DEF IsRepeat
  <2>5. CASE docs = {}
    <3>1. s.visitedCursorPaths = soFar
      <4>1. {last} \ {NoDocument} = {}
        BY <1>7, <2>5
      <4> QED BY <1>8, <4>1 DEF CursorPaths
    <3> QED BY <1>8, <2>2, <2>3, <2>5, <3>1
  <2>6. CASE docs # {}
    <3>1. s.visitedCursorPaths = soFar \cup {last}
      <4>1. last \in Document
        BY <1>6, <1>7, <2>6
      <4>2. {last} \ {NoDocument} = {last}
        BY <4>1, DocumentAssumption
      <4> QED BY <1>8, <4>2 DEF CursorPaths
    <3>2. Cardinality(soFar \cup {last}) = Cardinality(soFar) + 1
      BY <2>3, <2>4, FS_AddElement
    <3> QED BY <1>8, <2>2, <2>3, <3>1, <3>2
  <2> QED BY <2>5, <2>6
<1>11. /\ Len(checkpoints) \in Nat
       /\ Len(checkpoints') = Len(checkpoints) + 1
       /\ checkpoints'[Len(checkpoints) + 1] = docs
       /\ \A i \in 1..Len(checkpoints) : checkpoints'[i] = checkpoints[i]
  BY <1>2, <1>5, <1>6, AppendProperties, LenProperties
<1>12. \A d : IsIn(d, checkpoints') <=> IsIn(d, checkpoints) \/ d \in docs
  <2>1. ASSUME NEW d, IsIn(d, checkpoints) PROVE IsIn(d, checkpoints')
    BY <1>11, <2>1 DEF IsIn
  <2>2. ASSUME NEW d \in docs PROVE IsIn(d, checkpoints')
    <3>1. Len(checkpoints) + 1 \in 1..Len(checkpoints')
      BY <1>11
    <3> QED BY <1>11, <2>2, <3>1 DEF IsIn
  <2>3. ASSUME NEW d, IsIn(d, checkpoints') PROVE IsIn(d, checkpoints) \/ d \in docs
    <3>1. PICK i \in 1..Len(checkpoints') : d \in checkpoints'[i]
      BY <2>3 DEF IsIn
    <3>2. i \in 1..Len(checkpoints) \/ i = Len(checkpoints) + 1
      BY <1>11
    <3> QED BY <1>11, <3>1, <3>2 DEF IsIn
  <2> QED BY <2>1, <2>2, <2>3
<1>13. Covers(s, checkpoints')
  <2>1. SUFFICES ASSUME HasNoLimits
                 PROVE  /\ \A d \in Document \ changed :
                             place[d] > 0 /\ (s.hasReachedEnd \/ place[d] <= s.cursorDocument.at)
                               => IsIn(d, checkpoints')
                        /\ ~s.hasReachedEnd => s.totalSnapshotsVisited <= s.cursorDocument.at
    BY DEF Covers
  <2>2. \A d \in Document \ changed :
          place[d] > 0 /\ place[d] <= call[w].after => IsIn(d, checkpoints)
    BY <1>5, <2>1 DEF PlacesAreCovered, Iterated, IsIn
  <2>3. CASE docs = {}
    BY <1>8, <1>9, <1>12, <2>2, <2>3
  <2>4. CASE docs # {}
    <3> DEFINE n == iteration.totalSnapshotsVisited + Cardinality(docs)
    <3>1. /\ last \in docs /\ s.cursorDocument.at = place[last]
          /\ place[last] \in 0..LastPlace /\ call[w].after \in Nat
      BY <1>5, <1>6, <1>7, <1>8, <2>4
    <3>2. call[w].after + Cardinality(docs) <= place[last]
      <4>1. \A d \in docs : call[w].after < place[d] /\ place[d] <= place[last]
        BY <1>5, <1>6, <1>7, <1>8, <3>1
      <4> QED BY <1>1, <1>6, <2>4, <3>1, <4>1, FewerThanPlaces
    <3>3. n <= place[last] /\ n \in Nat
      <4>1. /\ iteration.totalSnapshotsVisited \in Nat
            /\ iteration.totalSnapshotsVisited <= call[w].after
        BY <1>5, <2>1 DEF PlacesAreCovered, IterationState
      <4> QED BY <1>6, <3>1, <3>2, <4>1
    <3>4. totalSnapshotsLimit \in Nat /\ LastPlace < totalSnapshotsLimit
      BY <2>1, LimitAssumption DEF HasNoLimits, totalSnapshotsLimit
    <3>5. ~(n > totalSnapshotsLimit)
      BY <1>5, <3>1, <3>3, <3>4
    <3>6. ~s.hasReachedEnd
      BY <1>5, <1>8, <2>4, <3>5
    <3>7. s.totalSnapshotsVisited <= s.cursorDocument.at
      BY <1>8, <3>1, <3>3
    <3>8. ASSUME NEW d \in Document \ changed, place[d] > 0, place[d] <= place[last]
          PROVE  IsIn(d, checkpoints')
      <4>1. CASE place[d] <= call[w].after
        BY <1>12, <2>2, <3>8, <4>1
      <4>2. CASE call[w].after < place[d]
        BY <1>9, <1>12, <3>1, <3>8, <4>2
      <4> QED BY <1>5, <3>1, <4>1, <4>2
    <3> QED BY <3>1, <3>6, <3>7, <3>8
  <2> QED BY <2>3, <2>4
<1>14. UNCHANGED <<options, database>>
  BY <1>2
<1> QED BY <1>2, <1>3, <1>4, <1>5, <1>8, <1>10, <1>13, <1>14, CallsCover

\* handleRepeatCursor ends the iteration, as it does only when it may answer false.
LEMMA RepeatCursorEndsCovers ==
  ASSUME IterationInvariant, CheckpointsLeaveCursors, NEW w \in Worker, RepeatCursorEnds(w)
  PROVE  StillCovers
<1> DEFINE s == [iteration EXCEPT !.cursorDocument = NoCursor, !.hasReachedEnd = TRUE]
<1>1. /\ CallsFrom(s) /\ FALSE \in options.repeatAnswers
      /\ UNCHANGED <<options, database, checkpoints, reported>>
  BY DEF RepeatCursorEnds
<1>2. iteration \in IterationState /\ options \in Option
  BY DEF IterationInvariant, IterationTypeOK
<1>3. NoCursor \in [doc : Document \cup {NoDocument}, at : 0..LastPlace]
  BY PlaceAssumption DEF NoCursor
<1>4. /\ s \in IterationState /\ s.hasReachedEnd = TRUE
      /\ s.currentIndex = iteration.currentIndex
      /\ s.visitedCursorPaths = iteration.visitedCursorPaths
  BY <1>2, <1>3 DEF IterationState
<1> HIDE DEF s
<1>5. LeavesCursors(s)
  BY <1>4 DEF CheckpointsLeaveCursors, LeavesCursors
<1>6. Covers(s, checkpoints')
  <2>1. ~HasNoLimits
    BY <1>1 DEF HasNoLimits
  <2> QED BY <2>1 DEF Covers
<1>7. UNCHANGED <<options, database>>
  BY <1>1
<1> QED BY <1>1, <1>2, <1>4, <1>5, <1>6, <1>7, CallsCover

\* Steps in which the function's variables change only by a call of the factory.
LEMMA NoCheckpointCovers ==
  ASSUME CoverageInvariant, CallsFrom(iteration), isOutOfTasks' => iteration.hasReachedEnd,
         UNCHANGED <<options, database, checkpoints, reported>>
  PROVE  StillCovers
<1>1. /\ iteration \in IterationState /\ options \in Option
      /\ CheckpointsLeaveCursors /\ NullMeansReachedEnd /\ PlacesAreCovered
  BY DEF CoverageInvariant, IterationInvariant, IterationTypeOK
<1>2. LeavesCursors(iteration)
  BY <1>1 DEF CheckpointsLeaveCursors, LeavesCursors
<1>3. Covers(iteration, checkpoints')
  BY <1>1 DEF PlacesAreCovered, Covers, Iterated, IsIn
<1>4. UNCHANGED <<options, database>>
  OBVIOUS
<1> QED BY <1>1, <1>2, <1>3, <1>4, CallsCover DEF NullMeansReachedEnd

\* Steps that leave the function's variables alone.  Documents may change; those that did
\* not keep their place.
LEMMA NoCallCovers ==
  ASSUME CoverageInvariant, UNCHANGED <<options, iteration, call, checkpoints, isOutOfTasks>>,
         \A v \in Worker : pc'[v] = "factory" => pc[v] = "factory",
         \A d \in Document \ changed' : d \notin changed /\ place'[d] = place[d]
  PROVE  StillCovers
<1>1. CheckpointsLeaveCursors /\ NullMeansReachedEnd /\ PlacesAreCovered
  BY DEF CoverageInvariant
<1>2. CheckpointsLeaveCursors' /\ NullMeansReachedEnd'
  BY <1>1 DEF CheckpointsLeaveCursors, NullMeansReachedEnd
<1>3. HasNoLimits' = HasNoLimits /\ \A d : Iterated(d)' <=> Iterated(d)
  BY DEF HasNoLimits, Iterated
<1>4. PlacesAreCovered'
  BY <1>1, <1>3 DEF PlacesAreCovered
<1> QED BY <1>2, <1>4 DEF StillCovers

LEMMA StepCovers ==
  CoverageInvariant /\ [IterationNext]_iterationVars => CoverageInvariant'
<1>1. SUFFICES ASSUME CoverageInvariant, [IterationNext]_iterationVars
               PROVE  CoverageInvariant'
  OBVIOUS
<1>2. /\ DeliveryInvariant /\ TasksComeSingly /\ IterationInvariant
      /\ CheckpointsLeaveCursors /\ NullMeansReachedEnd /\ PlacesAreCovered
      /\ pc \in [Worker -> Stage] /\ place \in [Document -> 0..LastPlace]
  BY <1>1 DEF CoverageInvariant, IterationInvariant, ExecutorInvariant, TypeOK, IterationTypeOK
<1>3. DeliveryInvariant'
  BY <1>1, <1>2, StepsOfIteration, DeliveryStep
<1>4. TasksComeSingly'
  BY <1>1, <1>2, StepsAreSingle, SinglyStep
<1>5. IterationInvariant'
  BY <1>1, <1>2, IterationStep
<1>6. SUFFICES StillCovers
  BY <1>3, <1>4, <1>5 DEF CoverageInvariant, StillCovers
<1>7. CASE UNCHANGED iterationVars
  <2>1. /\ UNCHANGED <<options, iteration, call, checkpoints, isOutOfTasks>>
        /\ UNCHANGED <<pc, place, changed>>
    BY <1>7 DEF iterationVars, vars, requests
  <2> QED BY <1>1, <2>1, NoCallCovers
<1>8. CASE DocumentChanges
  <2>1. PICK d \in Document, p \in 0..LastPlace :
          place' = [place EXCEPT ![d] = p] /\ changed' = changed \cup {d}
    BY <1>8 DEF DocumentChanges
  <2>2. UNCHANGED <<options, iteration, call, checkpoints, isOutOfTasks>> /\ pc' = pc
    BY <1>8 DEF DocumentChanges, vars, requests
  <2>3. \A e \in Document \ changed' : e \notin changed /\ place'[e] = place[e]
    BY <1>2, <2>1
  <2> QED BY <1>1, <2>2, <2>3, NoCallCovers
<1>9. CASE IterationStops
  <2>1. UNCHANGED iterationVars
    BY <1>9 DEF IterationStops
  <2> QED BY <1>7, <2>1
<1>10. ASSUME NEW w \in Worker, ExecutorProceeds(w)
       PROVE  StillCovers
  <2>1. CallsFrom(iteration) /\ UNCHANGED <<options, database, checkpoints, reported>>
    BY <1>10 DEF ExecutorProceeds
  <2>2. UNCHANGED <<baseI, isOutOfTasks>>
    BY <1>10, ProceedAsksOnly DEF ExecutorProceeds, Proceed
  <2>3. isOutOfTasks' => iteration.hasReachedEnd
    BY <1>2, <2>2 DEF NullMeansReachedEnd
  <2>4. UNCHANGED <<options, database, checkpoints, reported>>
    BY <2>1
  <2> QED BY <1>1, <2>1, <2>3, <2>4, NoCheckpointCovers
<1>11. ASSUME NEW w \in Worker, NoMoreCheckpoints(w)
       PROVE  StillCovers
  <2>1. /\ CallsFrom(iteration) /\ call[w].limit = 0 /\ pc[w] = "factory"
    BY <1>11 DEF NoMoreCheckpoints, FactoryReturnsNull
  <2>2. iteration.hasReachedEnd
    BY <1>2, <2>1 DEF NullMeansReachedEnd
  <2>3. UNCHANGED <<options, database, checkpoints, reported>>
    BY <1>11 DEF NoMoreCheckpoints
  <2> QED BY <1>1, <2>1, <2>2, <2>3, NoCheckpointCovers
<1>12. ASSUME NEW w \in Worker, CheckpointRuns(w) \/ QueryFails(w)
       PROVE  StillCovers
  <2>1. /\ UNCHANGED <<options, database, iteration, call, checkpoints, isOutOfTasks>>
        /\ \/ pc' = pc
           \/ \E s \in {"timer", "failed", "orphaned"} : pc' = [pc EXCEPT ![w] = s]
    BY <1>12 DEF CheckpointRuns, ReportCheckpoint, CheckpointCompletes, CheckpointFails,
                 QueryFails, TaskSucceeds, TaskFails, FactoryRejects, vars, requests
  <2>2. \A v \in Worker : pc'[v] = "factory" => pc[v] = "factory"
    BY <1>2, <2>1
  <2>3. \A d \in Document \ changed' : d \notin changed /\ place'[d] = place[d]
    BY <2>1 DEF database
  <2>4. UNCHANGED <<options, iteration, call, checkpoints, isOutOfTasks>>
    BY <2>1
  <2> QED BY <1>1, <2>2, <2>3, <2>4, NoCallCovers
<1>13. ASSUME NEW w \in Worker, QueryEnds(w)
       PROVE  StillCovers
  BY <1>2, <1>11, <1>12, <1>13, QueryBringsCovers, RepeatCursorEndsCovers DEF QueryEnds
<1> QED BY <1>1, <1>7, <1>8, <1>9, <1>10, <1>12, <1>13 DEF IterationNext

LEMMA CoverageStarts == IterationInit => CoverageInvariant
<1>1. SUFFICES ASSUME IterationInit
               PROVE  CoverageInvariant
  OBVIOUS
<1>2. DeliveryInvariant /\ TasksComeSingly /\ IterationInvariant
  BY <1>1, InitialDelivery, InitialSingly, IterationStarts DEF IterationInit
<1>3. /\ options \in Option /\ \A d \in Document : place[d] \in Nat
      /\ iteration = Called(StartState)
      /\ call = [w \in Worker |-> QueryOf(StartState)]
      /\ checkpoints = << >> /\ ~isOutOfTasks
  BY <1>1, PlaceAssumption DEF IterationInit, Option, Init
<1>4. /\ StartState \in IterationState
      /\ StartState.currentIndex = 0 /\ StartState.totalSnapshotsVisited = 0
      /\ StartState.visitedCursorPaths = {} /\ StartState.hasReachedEnd = FALSE
      /\ StartState.cursorDocument.at = 0
  <2>1. NoCursor \in [doc : Document \cup {NoDocument}, at : 0..LastPlace] /\ NoCursor.at = 0
    BY PlaceAssumption DEF NoCursor
  <2> QED BY <2>1 DEF StartState, IterationState
<1>5. LeavesCursors(StartState)
  BY <1>4, FS_EmptySet DEF LeavesCursors
<1>6. Covers(StartState, checkpoints)
  BY <1>3, <1>4 DEF Covers
<1>7. /\ LeavesCursors(iteration) /\ Covers(iteration, checkpoints)
      /\ NextLimit(StartState) = 0 => iteration.hasReachedEnd
  BY <1>3, <1>4, <1>5, <1>6, CalledCovers
<1>8. CheckpointsLeaveCursors
  BY <1>7 DEF CheckpointsLeaveCursors, LeavesCursors
<1>9. PlacesAreCovered
  BY <1>7 DEF PlacesAreCovered, Covers, Iterated, IsIn
<1>10. NullMeansReachedEnd
  BY <1>3, <1>4, <1>7 DEF NullMeansReachedEnd, QueryOf
<1> QED BY <1>2, <1>8, <1>9, <1>10 DEF CoverageInvariant

\* CoverageInvariant is inductive, too.
THEOREM CoverageInvariantHolds == IterationSpec => []CoverageInvariant
BY CoverageStarts, StepCovers, PTL DEF IterationSpec

\* An iteration without limits passes over no document that nobody changes, as long as
\* there cannot be more documents than MAX_SAFE_INTEGER, which is a limit, too.
THEOREM UnchangedDocumentsCovered ==
  ASSUME LastPlace < MaxSafeInteger
  PROVE  IterationSpec => []UnchangedDocumentsAllIterated
<1>1. CoverageInvariant => UnchangedDocumentsAllIterated
  <2>1. SUFFICES ASSUME CoverageInvariant, outcome = "resolved",
                        options.totalSnapshotsLimit = NoLimit,
                        options.limitPerCheckpoint # 0, options.repeatAnswers = {TRUE},
                        NEW d \in Document \ changed, place[d] > 0
                 PROVE  Iterated(d)
    BY DEF UnchangedDocumentsAllIterated, Iterated
  <2>2. HasNoLimits
    BY <2>1 DEF HasNoLimits
  <2>3. iteration.hasReachedEnd
    BY <2>1, ResolvedOutOfTasks DEF CoverageInvariant, NullMeansReachedEnd
  <2> QED BY <2>1, <2>2, <2>3 DEF CoverageInvariant, PlacesAreCovered
<1> QED BY <1>1, CoverageInvariantHolds, PTL

\* With handleRepeatCursor set to false an iteration ends, however documents change: it
\* has at most one checkpoint for each document, and an empty one.
THEOREM CheckpointsAreBounded == IterationSpec => []RepeatCursorsBoundTheIteration
<1>1. CoverageInvariant => RepeatCursorsBoundTheIteration
  <2>1. SUFFICES ASSUME CoverageInvariant, options.repeatAnswers = {FALSE}
                 PROVE  iteration.currentIndex <= Cardinality(Document) + 1
    BY DEF RepeatCursorsBoundTheIteration
  <2> DEFINE soFar == iteration.visitedCursorPaths
  <2>2. /\ soFar \in SUBSET Document /\ iteration.currentIndex \in Nat
        /\ iteration.currentIndex <= Cardinality(soFar) + 1
    BY <2>1 DEF CoverageInvariant, IterationInvariant, IterationTypeOK, IterationState,
                CheckpointsLeaveCursors
  <2>3. /\ Cardinality(soFar) \in Nat /\ Cardinality(Document) \in Nat
        /\ Cardinality(soFar) <= Cardinality(Document)
    BY <2>2, DocumentAssumption, FS_Subset, FS_CardinalityType
  <2> QED BY <2>2, <2>3
<1> QED BY <1>1, CoverageInvariantHolds, PTL

-----------------------------------------------------------------------------
(***************************************************************************)
(* FetchPages, for any number of pages: they are fetched one after the     *)
(* other, none twice; iterating by items ends only at the last page or at  *)
(* a limit; and a limit is overshot by one page of every worker at most.   *)
(* The last two rest on PagesInvariant, which a lemma for each action      *)
(* shows to be kept.                                                       *)
(***************************************************************************)

\* A page that is fetched, filtered, iterated or used makes no other steps of the
\* executor than its own.
LEMMA StepsOfFetching == [FetchNext]_fetchVars => [Next]_vars
<1>1. SUFFICES ASSUME [FetchNext]_fetchVars
               PROVE  [Next]_vars
  OBVIOUS
<1>2. CASE UNCHANGED fetchVars
  BY <1>2 DEF fetchVars
<1>3. CASE FetchStops
  BY <1>3 DEF FetchStops, fetchVars
<1>4. ASSUME NEW w \in Worker, FetchProceeds(w)
      PROVE  Proceed(w)
  BY <1>4 DEF FetchProceeds, Proceed
<1>5. ASSUME NEW w \in Worker, FetchEnds(w)
      PROVE  FactoryAnswers(w)
  BY <1>5 DEF FetchEnds, PageFetched, NoMorePages, FetchFails, FactoryAnswers
<1>6. ASSUME NEW w \in Worker, PageRuns(w)
      PROVE  TaskSettles(w) \/ UNCHANGED vars
  BY <1>6 DEF PageRuns, ItemsFiltered, ItemsIterated, PageUsed, PageFails, TaskSettles
<1> QED BY <1>1, <1>2, <1>3, <1>4, <1>5, <1>6 DEF FetchNext, Next

\* Every iteration over pages is an execution of the executor, so that what is proved
\* of the executor holds of it.
THEOREM FetchRunsTheExecutor == FetchSpec => Spec
<1>1. FetchInit => Init
  BY DEF FetchInit
<1> QED BY <1>1, StepsOfFetching, PTL DEF FetchSpec, Spec

-----------------------------------------------------------------------------
(* Calls of the input factory *)

\* State s is a record of the functions' variables, its page the last of n.
AtPage(s, n) ==
  /\ DOMAIN s = {"page", "hasNext", "hasReachedEnd", "totalItemsLoaded", "totalItemsVisited"}
  /\ s.page = n - 1

\* The inductive invariant PagesInSequence rests on.
SequenceInvariant ==
  /\ ExecutorInvariant
  /\ pages \in Seq([page : Nat, items : 0..MaxItems])
  /\ AtPage(fetchState, Len(pages))
  /\ PagesInSequence

\* What a step preserves of it, beyond the executor's own invariant.
StillInSequence ==
  /\ pages' \in Seq([page : Nat, items : 0..MaxItems])
  /\ AtPage(fetchState', Len(pages'))
  /\ PagesInSequence'

LEMMA FetchesStep ==
  ASSUME NEW s, NEW n \in Nat, AtPage(s, n), FetchesFrom(s),
         \A v \in Worker : pc[v] = "factory" /\ pc'[v] = "factory" => fetching[v] \in {NoPage, n}
  PROVE  /\ AtPage(fetchState', n)
         /\ \A v \in Worker : pc'[v] = "factory" => fetching'[v] \in {NoPage, n}
<1>1. AtPage(FetchCalled(s), n)
  BY DEF FetchCalled, AtPage
<1>2. PageOf(s) \in {NoPage, n}
  BY DEF PageOf, AtPage
<1>3. AtPage(fetchState', n)
  BY <1>1 DEF FetchesFrom
<1> QED BY <1>2, <1>3 DEF FetchesFrom

-----------------------------------------------------------------------------
(* Steps *)

\* A page is fetched: as no other call is under way, it is the next one.
LEMMA PageFetchedStep ==
  ASSUME SequenceInvariant, NEW w \in Worker, PageFetched(w)
  PROVE  StillInSequence
<1> DEFINE n == Len(pages)
<1>1. /\ ExecutorInvariant
      /\ pages \in Seq([page : Nat, items : 0..MaxItems])
      /\ AtPage(fetchState, n) /\ PagesInSequence
  BY DEF SequenceInvariant
<1>2. PICK items \in 0..MaxItems, hasNext \in BOOLEAN :
        /\ FetchesFrom([fetchState EXCEPT !.page = fetching[w], !.hasNext = hasNext])
        /\ pages' = Append(pages, [page |-> fetching[w], items |-> items])
  BY DEF PageFetched
<1> DEFINE s == [fetchState EXCEPT !.page = fetching[w], !.hasNext = hasNext]
           new == [page |-> fetching[w], items |-> items]
<1>3. FactoryReturnsTasks(w) /\ fetching[w] # NoPage
  BY DEF PageFetched
<1>4. pc[w] = "factory" /\ pc'[w] = "handed"
  BY <1>1, <1>3, AnswerEndsTheCall
<1>5. \A v \in Worker : ~(pc[v] = "factory" /\ pc'[v] = "factory")
  <2>1. SUFFICES ASSUME NEW v \in Worker, pc[v] = "factory"
                 PROVE  pc'[v] # "factory"
    OBVIOUS
  <2>2. v = w
    BY <1>1, <1>4, <2>1 DEF ExecutorInvariant, OneFactoryCallAtATime
  <2> QED BY <1>4, <2>2
<1>6. fetching[w] = n /\ n \in Nat
  BY <1>1, <1>3, <1>4, LenProperties DEF PagesInSequence
<1>7. AtPage(s, n + 1)
  BY <1>1, <1>6 DEF AtPage
<1>8. new \in [page : Nat, items : 0..MaxItems]
  BY <1>6
<1> HIDE DEF s, new
<1>9. /\ pages' \in Seq([page : Nat, items : 0..MaxItems])
      /\ Len(pages') = n + 1
      /\ pages'[n + 1] = new
      /\ \A i \in 1..n : pages'[i] = pages[i]
  BY <1>1, <1>2, <1>8, AppendProperties DEF new
<1>10. FetchesFrom(s)
  BY <1>2 DEF s
<1>11. /\ AtPage(fetchState', n + 1)
       /\ \A v \in Worker : pc'[v] = "factory" => fetching'[v] \in {NoPage, n + 1}
  <2>1. n + 1 \in Nat
    BY <1>6
  <2>2. \A v \in Worker : pc[v] = "factory" /\ pc'[v] = "factory" => fetching[v] \in {NoPage, n + 1}
    BY <1>5
  <2> QED BY <1>7, <1>10, <2>1, <2>2, FetchesStep
<1>12. \A i \in 1..Len(pages') : pages'[i].page = i - 1
  <2>1. SUFFICES ASSUME NEW i \in 1..(n + 1)
                 PROVE  pages'[i].page = i - 1
    BY <1>9
  <2>2. CASE i \in 1..n
    <3>1. pages[i].page = i - 1
      BY <1>1, <2>2 DEF PagesInSequence
    <3>2. pages'[i] = pages[i]
      BY <1>9, <2>2
    <3> QED BY <3>1, <3>2
  <2>3. CASE i = n + 1
    <3>1. new.page = n
      BY <1>6 DEF new
    <3>2. pages'[i] = new
      BY <1>9, <2>3
    <3> QED BY <1>6, <2>3, <3>1, <3>2
  <2> QED BY <1>6, <2>2, <2>3
<1>13. fetchState'.page = Len(pages') - 1
  BY <1>9, <1>11 DEF AtPage
<1> QED BY <1>9, <1>11, <1>12, <1>13 DEF StillInSequence, PagesInSequence

\* Steps that fetch no page, but may call the factory.
LEMMA NoPageStep ==
  ASSUME SequenceInvariant, FetchesFrom(fetchState), pages' = pages
  PROVE  StillInSequence
<1> DEFINE n == Len(pages)
<1>1. /\ pages \in Seq([page : Nat, items : 0..MaxItems])
      /\ AtPage(fetchState, n) /\ PagesInSequence
  BY DEF SequenceInvariant
<1>2. n \in Nat
  BY <1>1, LenProperties
<1>3. \A v \in Worker : pc[v] = "factory" /\ pc'[v] = "factory" => fetching[v] \in {NoPage, n}
  BY <1>1 DEF PagesInSequence
<1>4. /\ AtPage(fetchState', n)
      /\ \A v \in Worker : pc'[v] = "factory" => fetching'[v] \in {NoPage, n}
  BY <1>1, <1>2, <1>3, FetchesStep
<1> QED BY <1>1, <1>4 DEF StillInSequence, PagesInSequence, AtPage

\* Steps that neither fetch nor call.
LEMMA NoFetchStep ==
  ASSUME SequenceInvariant, AtPage(fetchState', Len(pages)), UNCHANGED <<fetching, pages>>,
         \A v \in Worker : pc'[v] = "factory" => pc[v] = "factory"
  PROVE  StillInSequence
BY DEF SequenceInvariant, StillInSequence, PagesInSequence, AtPage

LEMMA PageRunsStep ==
  ASSUME SequenceInvariant, NEW w \in Worker, PageRuns(w) \/ FetchFails(w)
  PROVE  StillInSequence
<1>1. /\ pc \in [Worker -> Stage]
      /\ AtPage(fetchState, Len(pages))
  BY DEF SequenceInvariant, ExecutorInvariant, TypeOK
<1>2. CASE ItemsFiltered(w)
  <2>1. pc' = pc /\ UNCHANGED <<fetching, pages>> /\ fetchState' = fetchState
    BY <1>2 DEF ItemsFiltered, vars
  <2> QED BY <1>1, <2>1, NoFetchStep
<1>3. CASE ItemsIterated(w)
  <2>1. /\ pc' = pc /\ UNCHANGED <<fetching, pages>>
        /\ fetchState' = Counted(fetchState, hand[w])
    BY <1>3 DEF ItemsIterated, vars
  <2>2. AtPage(fetchState', Len(pages))
    BY <1>1, <2>1 DEF Counted, AtPage
  <2> QED BY <2>1, <2>2, NoFetchStep
<1>4. CASE PageUsed(w)
  <2>1. pc' = [pc EXCEPT ![w] = "timer"] /\ UNCHANGED <<fetching, pages>>
    BY <1>4 DEF PageUsed, TaskSucceeds, pageVars
  <2>2. PICK early : fetchState' = [fetchState EXCEPT !.hasReachedEnd = @ \/ early]
    BY <1>4 DEF PageUsed
  <2>3. AtPage(fetchState', Len(pages))
    BY <1>1, <2>2 DEF AtPage
  <2>4. \A v \in Worker : pc'[v] = "factory" => pc[v] = "factory"
    BY <1>1, <2>1
  <2> QED BY <2>1, <2>3, <2>4, NoFetchStep
<1>5. CASE PageFails(w) \/ FetchFails(w)
  <2>1. /\ pc' = [pc EXCEPT ![w] = "failed"] \/ pc' = [pc EXCEPT ![w] = "orphaned"]
        /\ UNCHANGED <<fetching, pages>>
        /\ fetchState' = fetchState
    BY <1>5 DEF PageFails, FetchFails, TaskFails, FactoryRejects, pageVars
  <2>2. \A v \in Worker : pc'[v] = "factory" => pc[v] = "factory"
    BY <1>1, <2>1
  <2> QED BY <1>1, <2>1, <2>2, NoFetchStep
<1> QED BY <1>2, <1>3, <1>4, <1>5 DEF PageRuns

-----------------------------------------------------------------------------
(* The inductive invariant *)

LEMMA FetchStarts == FetchInit => SequenceInvariant
<1>1. SUFFICES ASSUME FetchInit
               PROVE  SequenceInvariant
  OBVIOUS
<1>2. ExecutorInvariant
  BY <1>1, InitialInvariant DEF FetchInit
<1>3. /\ fetchState = FetchCalled(FetchStart)
      /\ fetching = [w \in Worker |-> PageOf(FetchStart)]
      /\ pages = << >>
  BY <1>1 DEF FetchInit
<1>4. AtPage(fetchState, 0)
  BY <1>3 DEF FetchCalled, FetchStart, IsLastPage, NoPage, AtPage
<1>5. \A w \in Worker : fetching[w] = 0
  BY <1>3 DEF PageOf, FetchStart, IsLastPage, NoPage
<1>6. pages \in Seq([page : Nat, items : 0..MaxItems]) /\ Len(pages) = 0
  BY <1>3
<1>7. PagesInSequence
  BY <1>4, <1>5, <1>6 DEF PagesInSequence, AtPage
<1> QED BY <1>2, <1>4, <1>6, <1>7 DEF SequenceInvariant

LEMMA FetchStep ==
  SequenceInvariant /\ [FetchNext]_fetchVars => SequenceInvariant'
<1>1. SUFFICES ASSUME SequenceInvariant, [FetchNext]_fetchVars
               PROVE  SequenceInvariant'
  OBVIOUS
<1>2. ExecutorInvariant'
  BY <1>1, StepsOfFetching, InvariantStep DEF SequenceInvariant
<1>3. SUFFICES StillInSequence
  BY <1>2 DEF StillInSequence, SequenceInvariant
<1>4. CASE UNCHANGED fetchVars
  <2>1. UNCHANGED <<fetching, pages>> /\ pc' = pc /\ fetchState' = fetchState
    BY <1>4 DEF fetchVars, vars, pageVars
  <2>2. AtPage(fetchState', Len(pages))
    BY <1>1, <2>1 DEF SequenceInvariant
  <2> QED BY <1>1, <2>1, <2>2, NoFetchStep
<1>5. CASE FetchStops
  <2>1. UNCHANGED fetchVars
    BY <1>5 DEF FetchStops
  <2> QED BY <1>4, <2>1
<1>6. ASSUME NEW w \in Worker, FetchProceeds(w) \/ NoMorePages(w)
      PROVE  StillInSequence
  <2>1. FetchesFrom(fetchState) /\ pages' = pages
    BY <1>6 DEF FetchProceeds, NoMorePages, pageVars
  <2> QED BY <1>1, <2>1, NoPageStep
<1>7. ASSUME NEW w \in Worker, FetchEnds(w) \/ PageRuns(w)
      PROVE  StillInSequence
  BY <1>1, <1>6, <1>7, PageFetchedStep, PageRunsStep DEF FetchEnds
<1> QED BY <1>1, <1>4, <1>5, <1>6, <1>7 DEF FetchNext

\* However many workers iterate pages, each page is fetched once and in its turn.
THEOREM PagesFollowEachOther == FetchSpec => []PagesInSequence
<1>1. SequenceInvariant => PagesInSequence
  BY DEF SequenceInvariant
<1> QED BY <1>1, FetchStarts, FetchStep, PTL DEF FetchSpec

-----------------------------------------------------------------------------
(* Where the iteration ends *)

StateOfFetch ==
  [page : Nat \cup {NoPage}, hasNext : BOOLEAN, hasReachedEnd : BOOLEAN,
   totalItemsLoaded : Nat, totalItemsVisited : Nat]

\* EndIsReached of a state s of the functions' variables.
EndOf(s) ==
  \/ s.page >= fetchOptions.maxPage
  \/ ~s.hasNext
  \/ s.totalItemsLoaded >= fetchOptions.loadItemLimit
  \/ s.totalItemsVisited >= fetchOptions.iterateItemsLimit

\* What a state s of the functions' variables has to satisfy.
EndFits(s) ==
  /\ s \in StateOfFetch
  /\ s.page = NoPage => s.hasNext
  /\ fetchOptions.byItems /\ s.hasReachedEnd => EndOf(s)

\* What a call c of the input factory has to satisfy in state s.
FetchFits(c, s) ==
  IF c = NoPage THEN s.hasReachedEnd ELSE s.hasNext /\ s.page < fetchOptions.maxPage

Options == [maxPage : MaxPages, iterateItemsLimit : IterateLimits,
            loadItemLimit : LoadLimits, byItems : BOOLEAN]

LEMMA OptionsType ==
  ASSUME fetchOptions \in Options
  PROVE  /\ fetchOptions.maxPage \in Nat /\ fetchOptions.iterateItemsLimit \in Nat
         /\ fetchOptions.loadItemLimit \in Nat /\ fetchOptions.byItems \in BOOLEAN
BY PagesAssumption DEF Options

LEMMA FetchStepsAreSingle ==
  ASSUME [FetchNext]_fetchVars
  PROVE  SingleStep
<1>1. CASE UNCHANGED fetchVars
  BY <1>1 DEF fetchVars, SingleStep
<1>2. CASE FetchStops
  BY <1>2 DEF FetchStops, fetchVars, SingleStep
<1>3. ASSUME NEW w \in Worker, FetchProceeds(w)
      PROVE  SingleStep
  BY <1>3 DEF FetchProceeds, Proceed, SingleStep
<1>4. ASSUME NEW w \in Worker, FetchEnds(w)
      PROVE  SingleStep
  BY <1>4 DEF FetchEnds, PageFetched, NoMorePages, FetchFails, SingleStep
<1>5. ASSUME NEW w \in Worker, PageRuns(w)
      PROVE  SingleStep
  BY <1>5 DEF PageRuns, ItemsFiltered, ItemsIterated, PageUsed, PageFails, TaskSettles, SingleStep
<1> QED BY <1>1, <1>2, <1>3, <1>4, <1>5 DEF FetchNext

\* A call of the factory only finds out that the last page has been fetched.
LEMMA CalledFits ==
  ASSUME fetchOptions \in Options, NEW s, EndFits(s)
  PROVE  /\ EndFits(FetchCalled(s))
         /\ FetchCalled(s).page = s.page /\ FetchCalled(s).hasNext = s.hasNext
         /\ FetchCalled(s).totalItemsLoaded = s.totalItemsLoaded
         /\ FetchCalled(s).totalItemsVisited = s.totalItemsVisited
         /\ s.hasReachedEnd => FetchCalled(s).hasReachedEnd
         /\ FetchFits(PageOf(s), FetchCalled(s))
         /\ PageOf(s) \in Nat \cup {NoPage}
         /\ PageOf(s) # NoPage => ~s.hasReachedEnd
<1>1. /\ s \in StateOfFetch /\ s.page \in Nat \cup {-1}
      /\ s.hasReachedEnd \in BOOLEAN /\ s.hasNext \in BOOLEAN
      /\ fetchOptions.maxPage \in Nat
  BY OptionsType DEF EndFits, StateOfFetch, NoPage
<1>2. CASE IsLastPage(s)
  <2>1. FetchCalled(s) = [s EXCEPT !.hasReachedEnd = TRUE]
    BY <1>2 DEF FetchCalled
  <2>2. /\ FetchCalled(s) \in StateOfFetch /\ FetchCalled(s).hasReachedEnd = TRUE
        /\ FetchCalled(s).page = s.page /\ FetchCalled(s).hasNext = s.hasNext
        /\ FetchCalled(s).totalItemsLoaded = s.totalItemsLoaded
        /\ FetchCalled(s).totalItemsVisited = s.totalItemsVisited
    BY <1>1, <2>1 DEF StateOfFetch
  <2>3. EndOf(FetchCalled(s))
    BY <1>2, <2>2 DEF IsLastPage, isAtMaxPage, EndOf
  <2>4. PageOf(s) = NoPage
    BY <1>2 DEF PageOf
  <2> QED BY <2>2, <2>3, <2>4 DEF EndFits, FetchFits
<1>3. CASE ~IsLastPage(s)
  <2>1. FetchCalled(s) = s
    BY <1>3 DEF FetchCalled
  <2>2. CASE s.hasReachedEnd
    <3>1. PageOf(s) = NoPage
      BY <2>2 DEF PageOf
    <3> QED BY <2>1, <2>2, <3>1 DEF FetchFits
  <2>3. CASE ~s.hasReachedEnd
    <3>1. PageOf(s) = s.page + 1 /\ s.page + 1 \in Nat /\ s.page + 1 # NoPage
      BY <1>1, <1>3, <2>3 DEF PageOf, NoPage
    <3>2. s.hasNext /\ s.page < fetchOptions.maxPage
      BY <1>1, <1>3 DEF IsLastPage, isAtMaxPage, EndFits, NoPage
    <3> QED BY <2>1, <2>3, <3>1, <3>2 DEF FetchFits
  <2> QED BY <2>2, <2>3
<1> QED BY <1>2, <1>3

\* What PagesInvariant says of where the iteration ends, and of its types.
LEMMA EndInvariant ==
  ASSUME FetchTypeOK
  PROVE  NoPageMeansReachedEnd
           <=> /\ EndFits(fetchState)
               /\ isOutOfTasks => fetchState.hasReachedEnd
               /\ \A w \in Worker : pc[w] = "factory" => FetchFits(fetching[w], fetchState)
BY DEF FetchTypeOK, NoPageMeansReachedEnd, EndFits, FetchFits, EndOf, EndIsReached, StateOfFetch

\* A step that runs the functions' code in state s.
LEMMA CallsFit ==
  ASSUME FetchTypeOK, NEW s, FetchesFrom(s), EndFits(s), UNCHANGED fetchOptions,
         isOutOfTasks' => s.hasReachedEnd,
         \A v \in Worker : pc[v] = "factory" /\ pc'[v] = "factory" => FetchFits(fetching[v], s)
  PROVE  /\ fetchState' \in StateOfFetch
         /\ fetching' \in [Worker -> Nat \cup {NoPage}]
         /\ NoPageMeansReachedEnd'
         /\ fetchState'.totalItemsLoaded = s.totalItemsLoaded
         /\ fetchState'.totalItemsVisited = s.totalItemsVisited
         /\ s.hasReachedEnd => fetchState'.hasReachedEnd
         /\ \A v \in Worker :
              /\ pc[v] = "factory" => fetching'[v] = fetching[v]
              /\ pc[v] # "factory" /\ pc'[v] = "factory" /\ fetching'[v] # NoPage => ~s.hasReachedEnd
<1>1. fetchOptions \in Options /\ fetching \in [Worker -> Nat \cup {NoPage}]
  BY DEF FetchTypeOK, Options
<1>2. /\ EndFits(FetchCalled(s))
      /\ FetchCalled(s).page = s.page /\ FetchCalled(s).hasNext = s.hasNext
      /\ FetchCalled(s).totalItemsLoaded = s.totalItemsLoaded
      /\ FetchCalled(s).totalItemsVisited = s.totalItemsVisited
      /\ s.hasReachedEnd => FetchCalled(s).hasReachedEnd
      /\ FetchFits(PageOf(s), FetchCalled(s))
      /\ PageOf(s) \in Nat \cup {NoPage}
      /\ PageOf(s) # NoPage => ~s.hasReachedEnd
  BY <1>1, CalledFits
<1>3. fetchState' = s \/ fetchState' = FetchCalled(s)
  BY DEF FetchesFrom
<1>4. /\ EndFits(fetchState') /\ fetchState' \in StateOfFetch
      /\ fetchState'.page = s.page /\ fetchState'.hasNext = s.hasNext
      /\ fetchState'.totalItemsLoaded = s.totalItemsLoaded
      /\ fetchState'.totalItemsVisited = s.totalItemsVisited
      /\ s.hasReachedEnd => fetchState'.hasReachedEnd
  BY <1>2, <1>3 DEF EndFits
<1>5. ASSUME NEW v \in Worker
      PROVE  /\ fetching'[v] \in Nat \cup {NoPage}
             /\ pc[v] = "factory" => fetching'[v] = fetching[v]
             /\ pc[v] # "factory" /\ pc'[v] = "factory" => fetching'[v] = PageOf(s) /\ fetchState' = FetchCalled(s)
  BY <1>1, <1>2 DEF FetchesFrom
<1>6. fetching' \in [Worker -> Nat \cup {NoPage}]
  <2>1. fetching' = [w \in Worker |-> fetching'[w]]
    BY DEF FetchesFrom
  <2> QED BY <1>5, <2>1
<1>7. ASSUME NEW v \in Worker, pc'[v] = "factory"
      PROVE  FetchFits(fetching'[v], fetchState')
  <2>1. CASE pc[v] = "factory"
    BY <1>4, <1>5, <1>7, <2>1 DEF FetchFits
  <2>2. CASE pc[v] # "factory"
    BY <1>2, <1>5, <1>7, <2>2
  <2> QED BY <2>1, <2>2
<1>8. NoPageMeansReachedEnd'
  <2>1. /\ fetchState'.page = NoPage => fetchState'.hasNext
        /\ fetchOptions'.byItems /\ fetchState'.hasReachedEnd => EndIsReached'
    BY <1>4 DEF EndFits, EndOf, EndIsReached
  <2>2. isOutOfTasks' => fetchState'.hasReachedEnd
    BY <1>4
  <2>3. \A v \in Worker : pc'[v] = "factory" =>
          IF fetching'[v] = NoPage THEN fetchState'.hasReachedEnd
          ELSE fetchState'.hasNext /\ fetchState'.page < fetchOptions'.maxPage
    BY <1>7 DEF FetchFits
  <2> QED BY <2>1, <2>2, <2>3 DEF NoPageMeansReachedEnd
<1> QED BY <1>2, <1>4, <1>5, <1>6, <1>8

-----------------------------------------------------------------------------
(* The items counted once a limit is reached *)

\* The items of one page for each worker outside set.
Most(set) == (MaxParallel - Cardinality(set)) * MaxItems

LEMMA RoomForPages ==
  ASSUME NEW S \in SUBSET Worker, NEW T \in SUBSET S
  PROVE  /\ Most(S) \in Nat /\ Most(T) \in Nat /\ Most(S) <= Most(T)
         /\ S # T => Most(S) + MaxItems <= Most(T)
<1>1. /\ IsFiniteSet(Worker) /\ Cardinality(Worker) = MaxParallel
      /\ MaxParallel \in Nat /\ MaxItems \in Nat
  <2>1. MaxParallel - 1 \in Int /\ 0 <= MaxParallel - 1 /\ MaxParallel - 1 - 0 + 1 = MaxParallel
    BY MaxParallelAssumption
  <2>2. IsFiniteSet(0 .. (MaxParallel - 1)) /\ Cardinality(0 .. (MaxParallel - 1)) = MaxParallel
    BY <2>1, FS_Interval
  <2> QED BY <2>2, MaxParallelAssumption, PagesAssumption DEF Worker
<1>2. IsFiniteSet(S) /\ Cardinality(S) <= MaxParallel
  BY <1>1, FS_Subset
<1>3. IsFiniteSet(T) /\ Cardinality(T) <= Cardinality(S) /\ (S # T => Cardinality(T) # Cardinality(S))
  BY <1>2, FS_Subset
<1>4. PICK s \in Nat, t \in Nat : s = Cardinality(S) /\ t = Cardinality(T)
  BY <1>2, <1>3, FS_CardinalityType
<1>5. PICK n \in Nat, m \in Nat : n = MaxParallel /\ m = MaxItems
  BY <1>1
<1>6. s <= n /\ t <= s /\ (S # T => t < s)
  BY <1>2, <1>3, <1>4, <1>5
<1>7. PICK a \in Nat, d \in Nat : n - s = a /\ s - t = d /\ n - t = a + d /\ (S # T => d >= 1)
  <2>1. n - s \in Nat /\ s - t \in Nat /\ n - t = (n - s) + (s - t)
    BY <1>6
  <2>2. S # T => s - t >= 1
    BY <1>6
  <2> QED BY <2>1, <2>2
<1>8. (a + d) * m = a * m + d * m /\ a * m \in Nat /\ d * m \in Nat
  OBVIOUS
<1>9. d >= 1 => d * m >= m
  <2>1. SUFFICES ASSUME d >= 1
                 PROVE  d * m >= m
    OBVIOUS
  <2>2. PICK e \in Nat : d = e + 1
    <3>1. d - 1 \in Nat /\ d = (d - 1) + 1
      BY <2>1
    <3> QED BY <3>1
  <2>3. (e + 1) * m = e * m + m /\ e * m \in Nat
    OBVIOUS
  <2> QED BY <2>2, <2>3
<1>10. Most(S) = a * m /\ Most(T) = a * m + d * m
  BY <1>4, <1>5, <1>7, <1>8 DEF Most
<1> QED BY <1>5, <1>7, <1>8, <1>9, <1>10

\* LimitsOvershotByCounted of totals l and v and the workers of a set that may count.
WithinLimits(l, v, set) ==
  fetchOptions.byItems =>
    /\ fetchOptions.loadItemLimit > 0 => l < fetchOptions.loadItemLimit + Most(set)
    /\ fetchOptions.iterateItemsLimit > 0 => v < fetchOptions.iterateItemsLimit + Most(set)

LEMMA LimitsWithin ==
  LimitsOvershotByCounted <=>
    WithinLimits(fetchState.totalItemsLoaded, fetchState.totalItemsVisited, MayStillCount)
BY DEF LimitsOvershotByCounted, WithinLimits, Most

\* A worker that counts the items of its page is one less that may count.
LEMMA WithinLimitsKept ==
  ASSUME fetchOptions \in Options,
         NEW S \in SUBSET Worker, NEW T \in SUBSET S,
         NEW l \in Nat, NEW v \in Nat, NEW k \in Nat, NEW u \in Nat,
         (k = l /\ u = v) \/ (S # T /\ k <= l + MaxItems /\ u <= v + MaxItems),
         WithinLimits(l, v, S)
  PROVE  WithinLimits(k, u, T)
<1>1. /\ fetchOptions.iterateItemsLimit \in Nat /\ fetchOptions.loadItemLimit \in Nat
      /\ fetchOptions.byItems \in BOOLEAN /\ MaxItems \in Nat
  BY OptionsType, PagesAssumption
<1>2. PICK s \in Nat, t \in Nat :
        s = Most(S) /\ t = Most(T) /\ s <= t /\ (S # T => s + MaxItems <= t)
  BY RoomForPages
<1>3. (k <= l /\ u <= v) \/ (s + MaxItems <= t /\ k <= l + MaxItems /\ u <= v + MaxItems)
  BY <1>2
<1>4. PICK p \in Nat, q \in Nat, m \in Nat :
        p = fetchOptions.loadItemLimit /\ q = fetchOptions.iterateItemsLimit /\ m = MaxItems
  BY <1>1
<1>5. (l < p + s => k < p + t) /\ (v < q + s => u < q + t)
  BY <1>2, <1>3, <1>4
<1> QED BY <1>2, <1>4, <1>5 DEF WithinLimits

\* Before a limit is reached there is nothing to show.
LEMMA WithinLimitsBefore ==
  ASSUME fetchOptions \in Options, NEW S \in SUBSET Worker, NEW l \in Nat, NEW v \in Nat,
         fetchOptions.byItems => /\ fetchOptions.loadItemLimit > 0 => l < fetchOptions.loadItemLimit
                                 /\ fetchOptions.iterateItemsLimit > 0 => v < fetchOptions.iterateItemsLimit
  PROVE  WithinLimits(l, v, S)
<1>1. fetchOptions.iterateItemsLimit \in Nat /\ fetchOptions.loadItemLimit \in Nat
  BY OptionsType
<1>2. PICK s \in Nat : s = Most(S)
  BY RoomForPages
<1> QED BY <1>1, <1>2 DEF WithinLimits

\* No worker becomes one that may count.
LEMMA FewerMayCount ==
  ASSUME TypeOK, HandsAgree, MovesSingly,
         fetchState.hasReachedEnd => fetchState'.hasReachedEnd,
         \A t \in Task : pageStage'[t] # "iterated" => pageStage[t] # "iterated",
         \A x \in Worker :
           /\ pc[x] = "factory" => fetching'[x] = fetching[x]
           /\ pc[x] # "factory" /\ pc'[x] = "factory" /\ fetching'[x] # NoPage
                => ~fetchState.hasReachedEnd
           /\ pc[x] = "factory" /\ pc'[x] = "handed" /\ hand'[x] # NoTask => fetching[x] # NoPage
           /\ pc[x] = "running" /\ pc'[x] = "timer" => fetchState'.hasReachedEnd
  PROVE  MayStillCount' \subseteq MayStillCount
<1>1. SUFFICES ASSUME NEW x \in Worker, x \in MayStillCount'
               PROVE  x \in MayStillCount
  BY DEF MayStillCount
<1>2. \/ pc'[x] = "running" /\ pageStage'[hand'[x]] # "iterated"
      \/ pc'[x] \in {"handed", "chosen"} /\ hand'[x] # NoTask
      \/ pc'[x] = "factory" /\ fetching'[x] # NoPage
      \/ pc'[x] \in {"timer", "queued"} /\ ~fetchState'.hasReachedEnd
  BY <1>1 DEF MayStillCount
<1>3. SUFFICES \/ pc[x] = "running" /\ pageStage[hand[x]] # "iterated"
               \/ pc[x] \in {"handed", "chosen"} /\ hand[x] # NoTask
               \/ pc[x] = "factory" /\ fetching[x] # NoPage
               \/ pc[x] \in {"timer", "queued"} /\ ~fetchState.hasReachedEnd
  BY DEF MayStillCount
<1>4. WorkerMoves(x) /\ pc[x] \in Stage /\ (pc[x] = "running" => hand[x] \in Task)
  BY DEF MovesSingly, TypeOK, HandsAgree
<1>5. CASE pc'[x] = pc[x] /\ hand'[x] = hand[x]
  BY <1>2, <1>4, <1>5
<1>6. CASE pc[x] = "factory" /\ pc'[x] = "handed"
  BY <1>2, <1>6
<1>7. CASE pc[x] \in {"queued", "timer"} /\ pc'[x] \in {"factory", "queued"}
  BY <1>2, <1>7
<1>8. CASE /\ ~(pc'[x] = pc[x] /\ hand'[x] = hand[x])
           /\ ~(pc[x] = "factory" /\ pc'[x] = "handed")
           /\ ~(pc[x] \in {"queued", "timer"} /\ pc'[x] \in {"factory", "queued"})
  BY <1>2, <1>4, <1>8 DEF WorkerMoves
<1> QED BY <1>5, <1>6, <1>7, <1>8

-----------------------------------------------------------------------------
(* Steps, and where the iteration ends *)

\* What a step preserves of PagesInvariant, beyond the executor's own and PagesInSequence.
StillPages ==
  FetchTypeOK' /\ NoPageMeansReachedEnd' /\ TasksArePages' /\ LimitsOvershotByCounted'

\* What a step is known to do before it is looked at.
Moving ==
  /\ PagesInvariant
  /\ MovesSingly
  /\ TypeOK'
  /\ OneFactoryCallAtATime'

LEMMA PagesFacts ==
  ASSUME PagesInvariant
  PROVE  /\ FetchTypeOK /\ fetchOptions \in Options /\ fetchState \in StateOfFetch
         /\ EndFits(fetchState)
         /\ isOutOfTasks => fetchState.hasReachedEnd
         /\ \A w \in Worker : pc[w] = "factory" => FetchFits(fetching[w], fetchState)
         /\ \A w \in Worker : pc[w] = "running" => hand[w] \in Task
         /\ MayStillCount \subseteq Worker
         /\ WithinLimits(fetchState.totalItemsLoaded, fetchState.totalItemsVisited, MayStillCount)
<1>1. FetchTypeOK /\ NoPageMeansReachedEnd /\ LimitsOvershotByCounted /\ TypeOK /\ HandsAgree
  BY DEF PagesInvariant, DeliveryInvariant, ExecutorInvariant
<1>2. fetchOptions \in Options /\ fetchState \in StateOfFetch
  BY <1>1 DEF FetchTypeOK, Options, StateOfFetch
<1>3. \A w \in Worker : pc[w] = "running" => hand[w] \in Task
  BY <1>1 DEF TypeOK, HandsAgree
<1> QED BY <1>1, <1>2, <1>3, EndInvariant, LimitsWithin DEF MayStillCount

\* A step that may call the factory in state s, and counts no items.
LEMMA CallingStep ==
  ASSUME Moving, NEW s, FetchesFrom(s), EndFits(s), UNCHANGED fetchOptions,
         s.hasReachedEnd = fetchState.hasReachedEnd,
         s.totalItemsLoaded = fetchState.totalItemsLoaded,
         s.totalItemsVisited = fetchState.totalItemsVisited,
         isOutOfTasks' => s.hasReachedEnd,
         \A v \in Worker : pc[v] = "factory" /\ pc'[v] = "factory" => FetchFits(fetching[v], s),
         \A v \in Worker :
           pc[v] = "factory" /\ pc'[v] = "handed" /\ hand'[v] # NoTask => fetching[v] # NoPage,
         \A v \in Worker : ~(pc[v] = "running" /\ pc'[v] = "timer"),
         pages' \in Seq([page : Nat, items : 0..MaxItems]),
         TasksArePages',
         UNCHANGED <<pageStage, visited, startIndex>>
  PROVE  StillPages
<1>1. /\ FetchTypeOK /\ fetchOptions \in Options /\ fetchState \in StateOfFetch
      /\ WithinLimits(fetchState.totalItemsLoaded, fetchState.totalItemsVisited, MayStillCount)
      /\ TypeOK /\ HandsAgree /\ MovesSingly /\ MayStillCount \subseteq Worker
  BY PagesFacts DEF Moving, PagesInvariant, DeliveryInvariant, ExecutorInvariant
<1>2. /\ fetchState' \in StateOfFetch
      /\ fetching' \in [Worker -> Nat \cup {NoPage}]
      /\ NoPageMeansReachedEnd'
      /\ fetchState'.totalItemsLoaded = fetchState.totalItemsLoaded
      /\ fetchState'.totalItemsVisited = fetchState.totalItemsVisited
      /\ fetchState.hasReachedEnd => fetchState'.hasReachedEnd
      /\ \A v \in Worker :
           /\ pc[v] = "factory" => fetching'[v] = fetching[v]
           /\ pc[v] # "factory" /\ pc'[v] = "factory" /\ fetching'[v] # NoPage
                => ~fetchState.hasReachedEnd
  BY <1>1, CallsFit
<1>3. FetchTypeOK'
  BY <1>1, <1>2 DEF FetchTypeOK, StateOfFetch
<1>4. MayStillCount' \subseteq MayStillCount
  BY <1>1, <1>2, FewerMayCount
<1>5. LimitsOvershotByCounted'
  <2>1. fetchState.totalItemsLoaded \in Nat /\ fetchState.totalItemsVisited \in Nat
    BY <1>1 DEF StateOfFetch
  <2>2. WithinLimits(fetchState.totalItemsLoaded, fetchState.totalItemsVisited, MayStillCount')
    BY <1>1, <1>4, <2>1, WithinLimitsKept
  <2> QED BY <1>2, <2>2 DEF LimitsOvershotByCounted, WithinLimits, Most
<1> QED BY <1>2, <1>3, <1>5 DEF StillPages

LEMMA PageFetchedEnds ==
  ASSUME Moving, NEW w \in Worker, PageFetched(w)
  PROVE  StillPages
<1>1. /\ FetchTypeOK /\ fetchOptions \in Options /\ fetchState \in StateOfFetch
      /\ EndFits(fetchState) /\ ExecutorInvariant /\ TasksComeSingly /\ TasksArePages
      /\ \A v \in Worker : pc[v] = "factory" => FetchFits(fetching[v], fetchState)
      /\ PagesInSequence
  BY PagesFacts DEF Moving, PagesInvariant, DeliveryInvariant
<1>2. PICK items \in 0..MaxItems, hasNext \in BOOLEAN :
        /\ FetchesFrom([fetchState EXCEPT !.page = fetching[w], !.hasNext = hasNext])
        /\ pages' = Append(pages, [page |-> fetching[w], items |-> items])
  BY DEF PageFetched
<1> DEFINE s == [fetchState EXCEPT !.page = fetching[w], !.hasNext = hasNext]
           new == [page |-> fetching[w], items |-> items]
<1>3. /\ FactoryReturnsTasks(w) /\ fetching[w] # NoPage /\ baseI' = baseI + 1
      /\ UNCHANGED <<fetchOptions, pageStage, visited, startIndex>>
  BY DEF PageFetched
<1>4. /\ pc[w] = "factory" /\ pc'[w] = "handed"
      /\ \A v \in Worker : ~(pc[v] = "running" /\ pc'[v] = "timer")
  BY <1>1, <1>3, AnswerEndsTheCall
<1>5. \A v \in Worker : pc[v] = "factory" => v = w
  BY <1>1, <1>4 DEF ExecutorInvariant, OneFactoryCallAtATime
<1>6. fetchState.hasNext /\ fetchState.page < fetchOptions.maxPage /\ fetching[w] \in Nat
  BY <1>1, <1>3, <1>4 DEF FetchFits, FetchTypeOK
<1>7. /\ s \in StateOfFetch /\ s.page = fetching[w]
      /\ s.hasReachedEnd = fetchState.hasReachedEnd
      /\ s.totalItemsLoaded = fetchState.totalItemsLoaded
      /\ s.totalItemsVisited = fetchState.totalItemsVisited
  BY <1>1, <1>6 DEF StateOfFetch
<1> HIDE DEF s
<1>8. EndFits(s)
  <2>1. SUFFICES ASSUME fetchOptions.byItems, s.hasReachedEnd
                 PROVE  EndOf(s)
    BY <1>3, <1>7 DEF EndFits
  <2>2. EndOf(fetchState)
    BY <1>1, <1>7, <2>1 DEF EndFits
  <2>3. ~(fetchState.page >= fetchOptions.maxPage)
    <3>1. fetchState.page \in Int /\ fetchOptions.maxPage \in Int
      BY <1>1, OptionsType DEF StateOfFetch, NoPage
    <3> QED BY <1>6, <3>1
  <2> QED BY <1>6, <1>7, <2>2, <2>3 DEF EndOf
<1>9. ~isOutOfTasks'
  BY <1>3 DEF FactoryReturnsTasks
<1>10. /\ pages' \in Seq([page : Nat, items : 0..MaxItems])
       /\ TasksArePages'
  <2>1. new \in [page : Nat, items : 0..MaxItems] /\ pages \in Seq([page : Nat, items : 0..MaxItems])
    BY <1>1, <1>6 DEF FetchTypeOK
  <2> HIDE DEF new
  <2>2. pages' \in Seq([page : Nat, items : 0..MaxItems]) /\ Len(pages') = Len(pages) + 1
    BY <1>2, <2>1, AppendProperties DEF new
  <2> QED BY <1>1, <1>3, <2>2 DEF TasksArePages
<1>11. FetchesFrom(s)
  BY <1>2 DEF s
<1> QED BY <1>3, <1>4, <1>5, <1>7, <1>8, <1>9, <1>10, <1>11, CallingStep

LEMMA NoMorePagesEnds ==
  ASSUME Moving, NEW w \in Worker, NoMorePages(w)
  PROVE  StillPages
<1>1. /\ FetchTypeOK /\ EndFits(fetchState) /\ ExecutorInvariant /\ TasksComeSingly
      /\ TasksArePages
      /\ \A v \in Worker : pc[v] = "factory" => FetchFits(fetching[v], fetchState)
  BY PagesFacts DEF Moving, PagesInvariant, DeliveryInvariant
<1>2. /\ FactoryReturnsNull(w) /\ fetching[w] = NoPage /\ FetchesFrom(fetchState)
      /\ UNCHANGED <<fetchOptions, pages, pageStage, visited, startIndex>>
      /\ pc[w] = "factory" /\ isOutOfTasks' = TRUE /\ baseI' = baseI
  BY DEF NoMorePages, pageVars, FactoryReturnsNull
<1>3. fetchState.hasReachedEnd
  BY <1>1, <1>2 DEF FetchFits
<1>4. ASSUME NEW v \in Worker, pc[v] = "factory", pc'[v] = "handed"
      PROVE  hand'[v] = NoTask
  BY <1>2, <1>4 DEF Moving, MovesSingly, WorkerMoves
<1>5. \A v \in Worker : ~(pc[v] = "running" /\ pc'[v] = "timer")
  BY <1>1, <1>2, AnswerEndsTheCall
<1>6. \A v \in Worker : pc[v] = "factory" /\ pc'[v] = "factory" => FetchFits(fetching[v], fetchState)
  BY <1>1
<1>7. pages' \in Seq([page : Nat, items : 0..MaxItems]) /\ TasksArePages'
  BY <1>1, <1>2 DEF FetchTypeOK, TasksArePages
<1> QED BY <1>1, <1>2, <1>3, <1>4, <1>5, <1>6, <1>7, CallingStep

LEMMA ExecutorProceedsEnds ==
  ASSUME Moving, NEW w \in Worker, FetchProceeds(w)
  PROVE  StillPages
<1>1. /\ FetchTypeOK /\ EndFits(fetchState) /\ ExecutorInvariant /\ TasksComeSingly
      /\ TasksArePages /\ (isOutOfTasks => fetchState.hasReachedEnd)
      /\ \A v \in Worker : pc[v] = "factory" => FetchFits(fetching[v], fetchState)
  BY PagesFacts DEF Moving, PagesInvariant, DeliveryInvariant
<1>2. /\ Proceed(w) /\ FetchesFrom(fetchState)
      /\ UNCHANGED <<fetchOptions, pages, pageStage, visited, startIndex>>
  BY DEF FetchProceeds, Proceed, pageVars
<1>3. UNCHANGED <<baseI, isOutOfTasks>>
  BY <1>2, ProceedAsksOnly
<1>4. \A v \in Worker : \/ pc'[v] = pc[v]
                        \/ v = w /\ pc[v] \in {"timer", "handed", "chosen"}
  BY <1>1 DEF FetchProceeds, Dispatch, ResumeGetNextTask, StartTask, FinishParallel,
              GetNextTask, TakeTask, FindNothing, RequestMoreTasks, CallOrQueue, CallFactory,
              QueueRequest, ExecutorInvariant, TypeOK
<1>5. pages' \in Seq([page : Nat, items : 0..MaxItems]) /\ TasksArePages'
  BY <1>1, <1>2, <1>3 DEF FetchTypeOK, TasksArePages
<1> QED BY <1>1, <1>2, <1>3, <1>4, <1>5, CallingStep

\* A step that changes nothing of the iteration, and ends no task.
LEMMA QuietPageStep ==
  ASSUME Moving, UNCHANGED <<fetchOptions, fetchState, fetching, pages, baseI, isOutOfTasks>>,
         startIndex' \in [Task -> Nat],
         pageStage' \in [Task -> {"fetched", "filtered", "iterated"}],
         visited' \in [Task -> 0..MaxItems],
         \A t \in Task : pageStage'[t] # "iterated" => pageStage[t] # "iterated",
         \A v \in Worker :
           /\ pc'[v] = "factory" => pc[v] = "factory"
           /\ ~(pc[v] = "factory" /\ pc'[v] = "handed")
           /\ ~(pc[v] = "running" /\ pc'[v] = "timer")
  PROVE  StillPages
<1>1. /\ FetchTypeOK /\ fetchOptions \in Options /\ fetchState \in StateOfFetch
      /\ WithinLimits(fetchState.totalItemsLoaded, fetchState.totalItemsVisited, MayStillCount)
      /\ TypeOK /\ HandsAgree /\ MovesSingly /\ MayStillCount \subseteq Worker
      /\ NoPageMeansReachedEnd /\ TasksArePages
  BY PagesFacts DEF Moving, PagesInvariant, DeliveryInvariant, ExecutorInvariant
<1>2. FetchTypeOK'
  BY <1>1 DEF FetchTypeOK
<1>3. NoPageMeansReachedEnd'
  BY <1>1 DEF NoPageMeansReachedEnd, EndIsReached
<1>4. MayStillCount' \subseteq MayStillCount
  BY <1>1, FewerMayCount
<1>5. LimitsOvershotByCounted'
  <2>1. fetchState.totalItemsLoaded \in Nat /\ fetchState.totalItemsVisited \in Nat
    BY <1>1 DEF StateOfFetch
  <2>2. WithinLimits(fetchState.totalItemsLoaded, fetchState.totalItemsVisited, MayStillCount')
    BY <1>1, <1>4, <2>1, WithinLimitsKept
  <2> QED BY <2>2 DEF LimitsOvershotByCounted, WithinLimits, Most
<1> QED BY <1>1, <1>2, <1>3, <1>5 DEF StillPages, TasksArePages

LEMMA FailingEnds ==
  ASSUME Moving, NEW w \in Worker, FetchFails(w) \/ PageFails(w)
  PROVE  StillPages
<1>1. /\ pc \in [Worker -> Stage] /\ FetchTypeOK
  BY DEF Moving, PagesInvariant, DeliveryInvariant, ExecutorInvariant, TypeOK
<1>2. /\ pc' = [pc EXCEPT ![w] = "failed"] \/ pc' = [pc EXCEPT ![w] = "orphaned"]
      /\ UNCHANGED <<fetchOptions, fetchState, fetching, pages, pageStage, visited, startIndex,
                     baseI, isOutOfTasks>>
  BY DEF FetchFails, PageFails, FactoryRejects, TaskFails, pageVars, requests
<1>3. \A v \in Worker :
        /\ pc'[v] = "factory" => pc[v] = "factory"
        /\ ~(pc[v] = "factory" /\ pc'[v] = "handed")
        /\ ~(pc[v] = "running" /\ pc'[v] = "timer")
  BY <1>1, <1>2
<1>4. /\ pageStage' \in [Task -> {"fetched", "filtered", "iterated"}]
      /\ visited' \in [Task -> 0..MaxItems]
      /\ startIndex' \in [Task -> Nat]
  BY <1>1, <1>2 DEF FetchTypeOK
<1> QED BY <1>2, <1>3, <1>4, QuietPageStep

\* A page that is being run is one of those fetched.
LEMMA RunningPage ==
  ASSUME PagesInvariant, NEW w \in Worker, pc[w] = "running"
  PROVE  /\ hand[w] \in Task /\ hand[w] + 1 \in 1..Len(pages)
         /\ pages[hand[w] + 1].items \in 0..MaxItems
<1>1. /\ hand[w] \in Task /\ FetchTypeOK /\ TasksArePages
      /\ Held \subseteq visitedTaskIndexes /\ visitedTaskIndexes \subseteq Produced
      /\ baseI \in 0..TaskCount /\ TaskCount \in Nat
  BY PagesFacts, TaskCountAssumption
     DEF PagesInvariant, DeliveryInvariant, ExecutorInvariant, HeldTasksAreApart,
         TasksAreParked, TypeOK
<1>2. hand[w] \in Held
  BY <1>1, NoTaskIsNoTask DEF Held, Holds
<1>3. hand[w] \in 0 .. (Len(pages) - 1) /\ Len(pages) \in Nat
  <2>1. hand[w] \in Produced
    BY <1>1, <1>2, Zenon
  <2>2. baseI = Len(pages)
    BY <1>1 DEF TasksArePages
  <2>3. baseI \in Nat
    BY <1>1
  <2> QED BY <2>1, <2>2, <2>3, Zenon DEF Produced
<1>4. hand[w] + 1 \in 1..Len(pages)
  BY <1>3
<1>5. pages[hand[w] + 1] \in [page : Nat, items : 0..MaxItems]
  BY <1>1, <1>4, ElementOfSeq DEF FetchTypeOK
<1> QED BY <1>1, <1>4, <1>5

LEMMA ItemsFilteredEnds ==
  ASSUME Moving, NEW w \in Worker, ItemsFiltered(w)
  PROVE  StillPages
<1>1. /\ FetchTypeOK /\ PagesInvariant /\ fetchState \in StateOfFetch
  BY PagesFacts DEF Moving
<1>2. /\ pc[w] = "running" /\ pageStage[hand[w]] = "fetched"
      /\ pageStage' = [pageStage EXCEPT ![hand[w]] = "filtered"]
      /\ startIndex' = [startIndex EXCEPT ![hand[w]] = fetchState.totalItemsVisited]
      /\ UNCHANGED <<fetchOptions, fetchState, fetching, pages, pc, hand, baseI, isOutOfTasks>>
  BY DEF ItemsFiltered, vars, requests
<1>3. hand[w] \in Task /\ pages[hand[w] + 1].items \in 0..MaxItems
  BY <1>1, <1>2, RunningPage
<1>4. PICK n \in 0..pages[hand[w] + 1].items : visited' = [visited EXCEPT ![hand[w]] = n]
  BY DEF ItemsFiltered
<1>5. MaxItems \in Nat /\ n \in 0..MaxItems
  BY <1>3, <1>4, PagesAssumption
<1>6. /\ pageStage' \in [Task -> {"fetched", "filtered", "iterated"}]
      /\ visited' \in [Task -> 0..MaxItems]
      /\ startIndex' \in [Task -> Nat]
      /\ \A t \in Task : pageStage'[t] # "iterated" => pageStage[t] # "iterated"
  BY <1>1, <1>2, <1>3, <1>4, <1>5 DEF FetchTypeOK, StateOfFetch
<1>7. \A v \in Worker : pc'[v] = pc[v]
  BY <1>2
<1> QED BY <1>2, <1>6, <1>7, QuietPageStep

\* The items of a page are counted: of the workers that may count, its own is one less.
LEMMA ItemsIteratedEnds ==
  ASSUME Moving, NEW w \in Worker, ItemsIterated(w)
  PROVE  StillPages
<1> DEFINE l == fetchState.totalItemsLoaded
           v == fetchState.totalItemsVisited
<1>1. /\ FetchTypeOK /\ PagesInvariant /\ fetchOptions \in Options /\ fetchState \in StateOfFetch
      /\ EndFits(fetchState) /\ NoPageMeansReachedEnd /\ TasksArePages
      /\ WithinLimits(l, v, MayStillCount) /\ MayStillCount \subseteq Worker
      /\ TypeOK /\ HandsAgree /\ MovesSingly
      /\ l \in Nat /\ v \in Nat
  BY PagesFacts DEF Moving, PagesInvariant, DeliveryInvariant, ExecutorInvariant, StateOfFetch
<1>2. /\ pc[w] = "running" /\ pageStage[hand[w]] = "filtered"
      /\ fetchState' = Counted(fetchState, hand[w])
      /\ pageStage' = [pageStage EXCEPT ![hand[w]] = "iterated"]
      /\ UNCHANGED <<fetchOptions, fetching, pages, visited, startIndex, pc, hand, baseI, isOutOfTasks>>
  BY DEF ItemsIterated, vars, requests
<1>3. PICK i \in Nat, j \in Nat :
        /\ i = pages[hand[w] + 1].items /\ j = visited[hand[w]]
        /\ i <= MaxItems /\ j <= MaxItems /\ hand[w] \in Task
  <2>1. MaxItems \in Nat /\ hand[w] \in Task
    BY <1>1, <1>2, RunningPage, PagesAssumption
  <2>2. pages[hand[w] + 1].items \in 0..MaxItems /\ visited[hand[w]] \in 0..MaxItems
    BY <1>1, <1>2, <2>1, RunningPage DEF FetchTypeOK
  <2> QED BY <2>1, <2>2
<1>4. /\ fetchState' = [fetchState EXCEPT !.totalItemsLoaded = @ + i, !.totalItemsVisited = @ + j]
      /\ l + i \in Nat /\ v + j \in Nat
  BY <1>1, <1>2, <1>3 DEF Counted
<1>5. /\ fetchState' \in StateOfFetch
      /\ fetchState'.page = fetchState.page /\ fetchState'.hasNext = fetchState.hasNext
      /\ fetchState'.hasReachedEnd = fetchState.hasReachedEnd
      /\ fetchState'.totalItemsLoaded = l + i /\ fetchState'.totalItemsVisited = v + j
  BY <1>1, <1>4 DEF StateOfFetch
<1> HIDE DEF l, v
<1>6. EndIsReached => EndIsReached'
  <2>1. fetchOptions.iterateItemsLimit \in Nat /\ fetchOptions.loadItemLimit \in Nat
    BY <1>1, OptionsType
  <2>2. PICK p \in Nat, q \in Nat : p = fetchOptions.loadItemLimit /\ q = fetchOptions.iterateItemsLimit
    BY <2>1
  <2>3. (l >= p => l + i >= p) /\ (v >= q => v + j >= q)
    BY <1>1
  <2> QED BY <1>2, <1>5, <2>2, <2>3 DEF EndIsReached, l, v
<1>7. NoPageMeansReachedEnd'
  BY <1>1, <1>2, <1>5, <1>6 DEF NoPageMeansReachedEnd
<1>8. FetchTypeOK'
  BY <1>1, <1>2, <1>3, <1>5 DEF FetchTypeOK, StateOfFetch
<1>9. MayStillCount' \subseteq MayStillCount /\ w \in MayStillCount /\ w \notin MayStillCount'
  <2>1. \A t \in Task : pageStage'[t] # "iterated" => pageStage[t] # "iterated"
    BY <1>1, <1>2, <1>3 DEF FetchTypeOK
  <2>2. MayStillCount' \subseteq MayStillCount
    BY <1>1, <1>2, <1>5, <2>1, FewerMayCount
  <2>3. w \in MayStillCount
    BY <1>2 DEF MayStillCount
  <2>4. pc'[w] = "running" /\ pageStage'[hand'[w]] = "iterated"
    BY <1>1, <1>2, <1>3 DEF FetchTypeOK
  <2>5. w \notin MayStillCount'
    BY <2>4 DEF MayStillCount
  <2> QED BY <2>2, <2>3, <2>5
<1>10. LimitsOvershotByCounted'
  <2>1. l + i <= l + MaxItems /\ v + j <= v + MaxItems
    BY <1>1, <1>3, PagesAssumption
  <2>2. WithinLimits(l + i, v + j, MayStillCount')
    BY <1>1, <1>4, <1>9, <2>1, WithinLimitsKept
  <2> QED BY <1>2, <1>5, <2>2 DEF LimitsOvershotByCounted, WithinLimits, Most
<1> QED BY <1>1, <1>2, <1>7, <1>8, <1>10 DEF StillPages, TasksArePages

\* A page is done with.  As long as no limit is reached there is nothing to count; once
\* one is, the worker asks for no other page.
LEMMA PageUsedEnds ==
  ASSUME Moving, NEW w \in Worker, PageUsed(w)
  PROVE  StillPages
<1> DEFINE l == fetchState.totalItemsLoaded
           v == fetchState.totalItemsVisited
<1>1. /\ FetchTypeOK /\ fetchOptions \in Options /\ fetchState \in StateOfFetch
      /\ EndFits(fetchState) /\ NoPageMeansReachedEnd /\ TasksArePages
      /\ WithinLimits(l, v, MayStillCount) /\ MayStillCount \subseteq Worker
      /\ TypeOK /\ HandsAgree /\ MovesSingly
      /\ l \in Nat /\ v \in Nat
  BY PagesFacts DEF Moving, PagesInvariant, DeliveryInvariant, ExecutorInvariant, StateOfFetch
<1>2. /\ pc[w] = "running" /\ pc' = [pc EXCEPT ![w] = "timer"]
      /\ UNCHANGED <<fetchOptions, fetching, pages, pageStage, visited, startIndex, baseI, isOutOfTasks>>
  BY DEF PageUsed, TaskSucceeds, pageVars, requests
<1>3. PICK early \in BOOLEAN :
        /\ fetchState' = [fetchState EXCEPT !.hasReachedEnd = @ \/ early]
        /\ fetchOptions.byItems => early = ReachedFinalItem(fetchState)
  <2>1. ReachedFinalItem(fetchState) \in BOOLEAN
    BY DEF ReachedFinalItem
  <2>2. PICK early \in IF fetchOptions.byItems THEN {ReachedFinalItem(fetchState)} ELSE BOOLEAN :
          fetchState' = [fetchState EXCEPT !.hasReachedEnd = @ \/ early]
    BY DEF PageUsed
  <2>3. early \in BOOLEAN /\ (fetchOptions.byItems => early = ReachedFinalItem(fetchState))
    BY <2>1, <2>2
  <2> QED BY <2>2, <2>3
<1>4. /\ fetchState' \in StateOfFetch
      /\ fetchState'.page = fetchState.page /\ fetchState'.hasNext = fetchState.hasNext
      /\ fetchState'.hasReachedEnd = (fetchState.hasReachedEnd \/ early)
      /\ fetchState'.totalItemsLoaded = l /\ fetchState'.totalItemsVisited = v
  BY <1>1, <1>3 DEF StateOfFetch
<1> HIDE DEF l, v
<1>5. EndIsReached' <=> EndIsReached
  BY <1>2, <1>4 DEF EndIsReached, l, v
<1>6. fetchOptions.byItems /\ early => EndIsReached
  BY <1>3 DEF ReachedFinalItem, EndIsReached
<1>7. NoPageMeansReachedEnd'
  <2>1. \A x \in Worker : pc'[x] = "factory" => pc[x] = "factory"
    BY <1>1, <1>2 DEF TypeOK
  <2> QED BY <1>1, <1>2, <1>4, <1>5, <1>6, <2>1 DEF NoPageMeansReachedEnd
<1>8. FetchTypeOK'
  BY <1>1, <1>2, <1>4 DEF FetchTypeOK, StateOfFetch
<1>9. WithinLimits(l, v, MayStillCount')
  <2>1. MayStillCount' \subseteq Worker
    BY DEF MayStillCount
  <2>2. CASE fetchState'.hasReachedEnd
    <3>1. \A x \in Worker : pc'[x] \in {"factory", "handed"} => pc'[x] = pc[x]
      BY <1>1, <1>2 DEF TypeOK
    <3>2. MayStillCount' \subseteq MayStillCount
      BY <1>1, <1>2, <2>2, <3>1, FewerMayCount
    <3> QED BY <1>1, <3>2, WithinLimitsKept
  <2>3. CASE ~fetchState'.hasReachedEnd
    <3>1. fetchOptions.byItems => ~(l >= fetchOptions.loadItemLimit) /\ ~(v >= fetchOptions.iterateItemsLimit)
      BY <1>3, <1>4, <2>3 DEF ReachedFinalItem, l, v
    <3>2. fetchOptions.iterateItemsLimit \in Nat /\ fetchOptions.loadItemLimit \in Nat
      BY <1>1, OptionsType
    <3>3. fetchOptions.byItems => /\ fetchOptions.loadItemLimit > 0 => l < fetchOptions.loadItemLimit
                                  /\ fetchOptions.iterateItemsLimit > 0 => v < fetchOptions.iterateItemsLimit
      BY <1>1, <3>1, <3>2
    <3> QED BY <1>1, <2>1, <3>3, WithinLimitsBefore
  <2> QED BY <2>2, <2>3
<1>10. LimitsOvershotByCounted'
  BY <1>2, <1>4, <1>9 DEF LimitsOvershotByCounted, WithinLimits, Most
<1> QED BY <1>1, <1>2, <1>7, <1>8, <1>10 DEF StillPages, TasksArePages

-----------------------------------------------------------------------------
(* The inductive invariant of the pages *)

LEMMA PagesInitially == FetchInit => PagesInvariant
<1>1. SUFFICES ASSUME FetchInit
               PROVE  PagesInvariant
  OBVIOUS
<1>2. /\ Init /\ ~waitsBetweenRequests /\ fetchOptions \in Options
      /\ \A t, u \in Task : t # u => KeysOf(t) \cap KeysOf(u) = {}
      /\ fetchState = FetchCalled(FetchStart)
      /\ fetching = [w \in Worker |-> PageOf(FetchStart)]
      /\ pages = << >>
      /\ pageStage = [t \in Task |-> "fetched"]
      /\ visited = [t \in Task |-> 0]
      /\ startIndex = [t \in Task |-> 0]
  BY <1>1 DEF FetchInit, Options
<1>3. DeliveryInvariant
  BY <1>2, InitialDelivery
<1>4. TasksComeSingly
  BY <1>2, InitialSingly
<1>5. fetchState = FetchStart /\ \A w \in Worker : fetching[w] = 0
  BY <1>2 DEF FetchCalled, PageOf, FetchStart, IsLastPage, NoPage
<1>6. FetchStart \in StateOfFetch
  BY DEF FetchStart, StateOfFetch, NoPage
<1>7. FetchTypeOK
  <2>1. MaxItems \in Nat /\ 0 \in 0..MaxItems
    BY PagesAssumption
  <2>2. fetching \in [Worker -> Nat \cup {NoPage}]
    BY <1>2, <1>5
  <2>3. pages \in Seq([page : Nat, items : 0..MaxItems])
    BY <1>2
  <2> QED BY <1>2, <1>5, <1>6, <2>1, <2>2, <2>3 DEF FetchTypeOK, Options, StateOfFetch
<1>8. PagesInSequence
  BY <1>1, FetchStarts DEF SequenceInvariant
<1>9. fetchOptions.maxPage \in Nat /\ ~isOutOfTasks
  BY <1>2, OptionsType DEF Init
<1>10. NoPageMeansReachedEnd
  BY <1>5, <1>9 DEF NoPageMeansReachedEnd, FetchStart, NoPage
<1>11. TasksArePages
  BY <1>2 DEF Init, TasksArePages
<1>12. LimitsOvershotByCounted
  <2>1. MayStillCount \in SUBSET Worker
    BY DEF MayStillCount
  <2>2. fetchState.totalItemsLoaded = 0 /\ fetchState.totalItemsVisited = 0
    BY <1>5 DEF FetchStart
  <2>3. fetchOptions.loadItemLimit > 0 => 0 < fetchOptions.loadItemLimit
    BY <1>2, OptionsType
  <2>4. fetchOptions.iterateItemsLimit > 0 => 0 < fetchOptions.iterateItemsLimit
    BY <1>2, OptionsType
  <2>5. WithinLimits(0, 0, MayStillCount)
    BY <1>2, <2>1, <2>3, <2>4, WithinLimitsBefore
  <2> QED BY <2>2, <2>5, LimitsWithin
<1> QED BY <1>3, <1>4, <1>7, <1>8, <1>10, <1>11, <1>12 DEF PagesInvariant

LEMMA PagesStep ==
  PagesInvariant /\ [FetchNext]_fetchVars => PagesInvariant'
<1>1. SUFFICES ASSUME PagesInvariant, [FetchNext]_fetchVars
               PROVE  PagesInvariant'
  OBVIOUS
<1>2. DeliveryInvariant /\ TasksComeSingly /\ ExecutorInvariant
  BY <1>1 DEF PagesInvariant, DeliveryInvariant
<1>3. DeliveryInvariant' /\ TypeOK' /\ OneFactoryCallAtATime'
  <2>1. DeliveryInvariant'
    BY <1>1, <1>2, StepsOfFetching, DeliveryStep
  <2> QED BY <2>1 DEF DeliveryInvariant, ExecutorInvariant
<1>4. TasksComeSingly' /\ MovesSingly
  BY <1>1, <1>2, FetchStepsAreSingle, SinglyStep, StepMovesSingly
<1>5. PagesInSequence'
  <2>1. SequenceInvariant
    <3>1. FetchTypeOK /\ PagesInSequence
      BY <1>1 DEF PagesInvariant
    <3>2. AtPage(fetchState, Len(pages))
      BY <3>1 DEF FetchTypeOK, PagesInSequence, AtPage
    <3> QED BY <1>2, <3>1, <3>2 DEF SequenceInvariant, FetchTypeOK
  <2> QED BY <1>1, <2>1, FetchStep DEF SequenceInvariant
<1>6. Moving
  BY <1>1, <1>3, <1>4 DEF Moving
<1>7. SUFFICES StillPages
  BY <1>3, <1>4, <1>5 DEF StillPages, PagesInvariant
<1>8. CASE UNCHANGED fetchVars
  <2>1. FetchTypeOK' <=> FetchTypeOK
    BY <1>8 DEF fetchVars, pageVars, FetchTypeOK
  <2>2. NoPageMeansReachedEnd' <=> NoPageMeansReachedEnd
    BY <1>8 DEF fetchVars, vars, requests, NoPageMeansReachedEnd, EndIsReached
  <2>3. TasksArePages' <=> TasksArePages
    BY <1>8 DEF fetchVars, vars, requests, pageVars, TasksArePages
  <2>4. LimitsOvershotByCounted' <=> LimitsOvershotByCounted
    <3>1. MayStillCount' = MayStillCount
      BY <1>8 DEF fetchVars, vars, pageVars, MayStillCount
    <3> QED BY <1>8, <3>1 DEF fetchVars, LimitsOvershotByCounted
  <2> QED BY <1>1, <2>1, <2>2, <2>3, <2>4 DEF StillPages, PagesInvariant
<1>9. CASE FetchStops
  BY <1>8, <1>9 DEF FetchStops
<1>10. ASSUME NEW w \in Worker, FetchProceeds(w) \/ FetchEnds(w) \/ PageRuns(w)
       PROVE  StillPages
  BY <1>6, <1>10, ExecutorProceedsEnds, PageFetchedEnds, NoMorePagesEnds, FailingEnds,
     ItemsFilteredEnds, ItemsIteratedEnds, PageUsedEnds DEF FetchEnds, PageRuns
<1> QED BY <1>1, <1>8, <1>9, <1>10 DEF FetchNext

\* For any number of workers, pages and items and any limits, the inductive invariant of
\* the iteration over pages holds.
THEOREM PagesInvariantHolds == FetchSpec => []PagesInvariant
BY PagesInitially, PagesStep, PTL DEF FetchSpec

\* Iterating by items never stops early: when the promise resolves, the last page has been
\* fetched or a limit reached.
THEOREM EndsAtTheEnd == FetchSpec => []ResolvesAtTheEnd
<1>1. PagesInvariant => ResolvesAtTheEnd
  <2>1. SUFFICES ASSUME PagesInvariant, outcome = "resolved", fetchOptions.byItems
                 PROVE  EndIsReached
    BY DEF ResolvesAtTheEnd
  <2>2. isOutOfTasks
    BY <2>1, ResolvedOutOfTasks DEF PagesInvariant
  <2> QED BY <2>1, <2>2 DEF PagesInvariant, NoPageMeansReachedEnd
<1> QED BY <1>1, PagesInvariantHolds, PTL

\* A limit on items is overshot by no more than one page of every worker, in whatever
\* order pages are fetched, iterated and used.
THEOREM OvershootIsBounded == FetchSpec => []LimitsOvershotByPagesInFlight
<1>1. PagesInvariant => LimitsOvershotByPagesInFlight
  <2>1. SUFFICES ASSUME PagesInvariant
                 PROVE  LimitsOvershotByPagesInFlight
    OBVIOUS
  <2>2. /\ WithinLimits(fetchState.totalItemsLoaded, fetchState.totalItemsVisited, MayStillCount)
        /\ MayStillCount \in SUBSET Worker
        /\ fetchOptions \in Options /\ fetchState \in StateOfFetch
    BY <2>1, PagesFacts
  <2>3. fetchState.totalItemsLoaded \in Nat /\ fetchState.totalItemsVisited \in Nat
    BY <2>2 DEF StateOfFetch
  <2>4. WithinLimits(fetchState.totalItemsLoaded, fetchState.totalItemsVisited, {})
    BY <2>2, <2>3, WithinLimitsKept
  <2>5. Most({}) = MaxParallel * MaxItems
    <3>1. Cardinality({}) = 0 /\ MaxParallel - 0 = MaxParallel
      BY FS_EmptySet, MaxParallelAssumption
    <3> QED BY <3>1 DEF Most
  <2> QED BY <2>4, <2>5 DEF WithinLimits, LimitsOvershotByPagesInFlight
<1> QED BY <1>1, PagesInvariantHolds, PTL
=============================================================================
