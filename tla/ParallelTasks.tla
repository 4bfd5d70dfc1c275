--------------------------- MODULE ParallelTasks ---------------------------
(***************************************************************************)
(* performTasksFromFactoryInParallelFunction() of @dereekb/util: workers   *)
(* ("parallel indexes") take tasks from a shared stack that an input       *)
(* factory refills asynchronously, run them, and never run two tasks at    *)
(* once that share a key.                                                  *)
(*                                                                         *)
(* The program is single threaded.  One action is one stretch of code      *)
(* without an await, so that exactly what may interleave there interleaves *)
(* here: continuations, timers, answers of the factory and ends of tasks.  *)
(* A task is its index, the third member of the tuple the code builds;     *)
(* keysOf is the list of keys the key factory computes for it.             *)
(***************************************************************************)
EXTENDS Integers, FiniteSets, SequencesExt

CONSTANTS
  MaxParallel,   \* maxPromisesToRunAtOneTime
  TaskCount,     \* how many tasks the input factory can give out in all
  Key,           \* the keys tasks may carry
  KeyLists,      \* the key lists the key factory may return, repeats included
  NoTask         \* undefined

ASSUME MaxParallelAssumption == MaxParallel \in Nat \ {0}
ASSUME TaskCountAssumption == TaskCount \in Nat
ASSUME KeyListsAssumption == KeyLists \subseteq Seq(Key)
ASSUME NoTaskAssumption == NoTask \notin Nat

Worker == 0 .. (MaxParallel - 1)
Task == 0 .. (TaskCount - 1)

VARIABLES
  keysOf,                  \* input: the keys of each task
  waitsBetweenRequests,    \* input: waitBetweenTaskInputRequests is set
  incompleteTasks,         \* stack of tasks to run, its top is the last element
  baseI,                   \* index of the next task the factory gives out
  isOutOfTasks,            \* the factory has returned null
  isFulfillingTask,        \* a call of the factory is awaited
  requestTasksQueue,       \* workers whose request waits for that call
  requestWaits,            \* waits after a request that have not elapsed
  currentRunIndex,         \* calls of the task factory
  finishedParallels,       \* workers that found no task any more
  hasEncounteredFailure,
  currentParellelTaskKeys, \* keys reserved
  visitedTaskIndexes,      \* tasks taken
  waitingConcurrentTasks,  \* for each key, the tasks parked until its release
  outcome,                 \* what the returned promise has come to
  pc,                      \* where each worker is
  hand                     \* the task each worker holds, or NoTask

inputs == <<keysOf, waitsBetweenRequests>>
requests == <<baseI, isOutOfTasks, isFulfillingTask, requestTasksQueue, requestWaits>>
reservations == <<currentParellelTaskKeys, visitedTaskIndexes, waitingConcurrentTasks>>
results == <<currentRunIndex, finishedParallels, hasEncounteredFailure, outcome>>
vars == <<inputs, requests, incompleteTasks, reservations, results, pc, hand>>

Stage == {
  "timer",      \* setTimeout(dispatchNextPromise) has not fired yet
  "factory",    \* awaits the input factory it has called
  "queued",     \* its request is in requestTasksQueue
  "handed",     \* its request is resolved, getNextTask() has not resumed
  "chosen",     \* getNextTask() has returned, dispatchNextPromise() has not resumed
  "running",    \* its task runs
  "finished",   \* it found no task
  "halted",     \* it saw hasEncounteredFailure
  "failed",     \* its task rejected
  "orphaned"}   \* a factory threw or rejected: dispatchNextPromise() ended in a
                \* rejection that nothing handles

KeysOf(t) == {keysOf[t][i] : i \in 1..Len(keysOf[t])}

-----------------------------------------------------------------------------
(* getNextTask() *)

\* The tasks its loop looks at: the one handed over, then the stack from its top.
Candidates(t) == (IF t = NoTask THEN <<>> ELSE <<t>>) \o Reverse(incompleteTasks)

RunnableUnlessTaken(t) == t \notin visitedTaskIndexes

RunnableUnlessKeyInUse(t) == KeysOf(t) \cap currentParellelTaskKeys = {}

Runnable(t) ==
  /\ t \notin visitedTaskIndexes
  /\ KeysOf(t) \cap currentParellelTaskKeys = {}

\* What is added for key k when the tasks of s are skipped: each that has not
\* been taken already, once for every time it lists k.
Parked(s, k) ==
  FlattenSeq([p \in 1..Len(s) |->
    LET uses == {i \in 1..Len(keysOf[s[p]]) : keysOf[s[p]][i] = k}
    IN  IF s[p] \in visitedTaskIndexes THEN <<>> ELSE [n \in 1..Cardinality(uses) |-> s[p]]])

Park(s) ==
  waitingConcurrentTasks' = [k \in Key |-> waitingConcurrentTasks[k] \o Parked(s, k)]

\* Take the first candidate that may run, park those before it.
TakeTask(w, cands) ==
  /\ \E p \in 1..Len(cands) :
       /\ Runnable(cands[p])
       /\ \A q \in 1..(p - 1) : ~Runnable(cands[q])
       /\ incompleteTasks' = SubSeq(incompleteTasks, 1, Len(cands) - p)
       /\ Park(SubSeq(cands, 1, p - 1))
       /\ currentParellelTaskKeys' = currentParellelTaskKeys \cup KeysOf(cands[p])
       /\ visitedTaskIndexes' = visitedTaskIndexes \cup {cands[p]}
       /\ hand' = [hand EXCEPT ![w] = cands[p]]
  /\ pc' = [pc EXCEPT ![w] = "chosen"]
  /\ UNCHANGED requests

ParkAll(w, cands) ==
  /\ \A p \in 1..Len(cands) : ~Runnable(cands[p])
  /\ incompleteTasks' = <<>>
  /\ Park(cands)
  /\ hand' = [hand EXCEPT ![w] = NoTask]
  /\ UNCHANGED <<currentParellelTaskKeys, visitedTaskIndexes>>

\* The loop ends without a task once the factory is exhausted, and also when an
\* awaited request brought nothing and the stack is empty.
FindNothing(w, cands, awaited) ==
  /\ ParkAll(w, cands)
  /\ isOutOfTasks \/ (awaited /\ cands = <<>>)
  /\ pc' = [pc EXCEPT ![w] = "chosen"]
  /\ UNCHANGED requests

CallFactory(w) ==
  /\ isFulfillingTask' = TRUE
  /\ pc' = [pc EXCEPT ![w] = "factory"]
  /\ UNCHANGED requestTasksQueue

QueueRequest(w) ==
  /\ requestTasksQueue' = Append(requestTasksQueue, w)
  /\ pc' = [pc EXCEPT ![w] = "queued"]
  /\ UNCHANGED isFulfillingTask

\* requestMoreTasks(): call the input factory, or queue behind the awaited call.
CallOrQueue(w) ==
  \/ ~isFulfillingTask /\ CallFactory(w)
  \/ isFulfillingTask /\ QueueRequest(w)

RequestMoreTasks(w, cands, awaited) ==
  /\ ParkAll(w, cands)
  /\ ~isOutOfTasks /\ ~(awaited /\ cands = <<>>)
  /\ CallOrQueue(w)
  /\ UNCHANGED <<baseI, isOutOfTasks, requestWaits>>

GetNextTask(w, t, awaited) ==
  LET cands == Candidates(t) IN
  \/ TakeTask(w, cands)
  \/ FindNothing(w, cands, awaited)
  \/ RequestMoreTasks(w, cands, awaited)

-----------------------------------------------------------------------------
(* fulfillRequestMoreTasks() *)

\* The workers of line are served in turn from the top of stack.  The first is
\* served even when there is nothing; the first one the stack does not reach
\* calls the input factory again.
HandOut(line, stack) ==
  LET served == IF stack = <<>> THEN 1 ELSE Min({Len(line), Len(stack)})
      gift(i) == IF stack = <<>> THEN NoTask ELSE stack[Len(stack) - i + 1]
      turn(x) == {i \in 1..Len(line) : line[i] = x}
  IN /\ incompleteTasks' = SubSeq(stack, 1, Len(stack) - served)
     /\ hand' = [x \in Worker |->
          IF turn(x) \cap 1..served = {} THEN hand[x] ELSE gift(Min(turn(x)))]
     /\ pc' = [x \in Worker |->
          IF turn(x) \cap 1..served # {} THEN "handed"
          ELSE IF served + 1 \in turn(x) THEN "factory" ELSE pc[x]]
     /\ isFulfillingTask' = (Len(line) > served)

\* Serve worker w and, unless a wait comes in between, the queued requests, the
\* last one first.
ServeRequests(w, stack) ==
  \/ /\ waitsBetweenRequests
     /\ HandOut(<<w>>, stack)
     /\ requestWaits' = requestWaits + 1
     /\ UNCHANGED requestTasksQueue
  \/ /\ ~waitsBetweenRequests
     /\ HandOut(<<w>> \o Reverse(requestTasksQueue), stack)
     /\ LET popped == IF stack = <<>> THEN 1 ELSE Len(stack)
        IN  requestTasksQueue' = SubSeq(requestTasksQueue, 1, Len(requestTasksQueue) - popped)
     /\ UNCHANGED requestWaits

\* The next n tasks, reversed for a stack.
NewTasks(n) == [i \in 1..n |-> baseI + n - i]

\* The factory answers with n tasks; they go to the bottom of the stack.
FactoryReturnsTasks(w) ==
  /\ pc[w] = "factory"
  /\ ~isOutOfTasks
  /\ \E n \in 0 .. (TaskCount - baseI) :
       /\ baseI' = baseI + n
       /\ ServeRequests(w, NewTasks(n) \o incompleteTasks)
  /\ UNCHANGED <<inputs, isOutOfTasks, reservations, results>>

\* The factory answers null.  A request still queued makes the code call it
\* again; it then keeps to its answer.
FactoryReturnsNull(w) ==
  /\ pc[w] = "factory"
  /\ isOutOfTasks' = TRUE
  /\ ServeRequests(w, incompleteTasks)
  /\ UNCHANGED <<inputs, baseI, reservations, results>>

\* The factory rejects: isFulfillingTask stays set, the request unresolved.
FactoryRejects(w) ==
  /\ pc[w] = "factory"
  /\ pc' = [pc EXCEPT ![w] = "orphaned"]
  /\ UNCHANGED <<inputs, requests, incompleteTasks, reservations, results, hand>>

\* A wait is over: serve the request queued last, unless the factory is awaited.
RequestWaitElapses ==
  /\ requestWaits > 0
  /\ \/ /\ isFulfillingTask \/ requestTasksQueue = <<>>
        /\ requestWaits' = requestWaits - 1
        /\ UNCHANGED <<requestTasksQueue, isFulfillingTask, incompleteTasks, pc, hand>>
     \/ /\ ~isFulfillingTask /\ requestTasksQueue # <<>>
        /\ requestTasksQueue' = Front(requestTasksQueue)
        /\ \/ /\ incompleteTasks # <<>>
              /\ HandOut(<<Last(requestTasksQueue)>>, incompleteTasks)
              /\ UNCHANGED requestWaits
           \/ /\ incompleteTasks = <<>>
              /\ isFulfillingTask' = TRUE
              /\ pc' = [pc EXCEPT ![Last(requestTasksQueue)] = "factory"]
              /\ requestWaits' = requestWaits - 1
              /\ UNCHANGED <<incompleteTasks, hand>>
  /\ UNCHANGED <<inputs, baseI, isOutOfTasks, reservations, results>>

-----------------------------------------------------------------------------
(* dispatchNextPromise() *)

\* Its timer fires.  The failure flag is looked at here and nowhere later.
Dispatch(w) ==
  /\ pc[w] = "timer"
  /\ \/ /\ hasEncounteredFailure
        /\ pc' = [pc EXCEPT ![w] = "halted"]
        /\ UNCHANGED <<requests, incompleteTasks, reservations, hand>>
     \/ /\ ~hasEncounteredFailure
        /\ GetNextTask(w, NoTask, FALSE)
  /\ UNCHANGED <<inputs, results>>

ResumeGetNextTask(w) ==
  /\ pc[w] = "handed"
  /\ GetNextTask(w, hand[w], TRUE)
  /\ UNCHANGED <<inputs, results>>

StartTask(w) ==
  /\ pc[w] = "chosen" /\ hand[w] # NoTask
  /\ pc' = [pc EXCEPT ![w] = "running"]
  /\ currentRunIndex' = currentRunIndex + 1
  /\ UNCHANGED <<inputs, requests, incompleteTasks, reservations, hand,
                 finishedParallels, hasEncounteredFailure, outcome>>

\* The task factory throws instead of returning a promise.
TaskFactoryThrows(w) ==
  /\ pc[w] = "chosen" /\ hand[w] # NoTask
  /\ pc' = [pc EXCEPT ![w] = "orphaned"]
  /\ UNCHANGED <<inputs, requests, incompleteTasks, reservations, hand, results>>

AllButOneFinished(n) == n = MaxParallel - 1

NeverFinished(n) == n > MaxParallel

AllFinished(n) == n = MaxParallel

\* No task: the worker is finished, and the last one resolves the promise.
FinishParallel(w) ==
  /\ pc[w] = "chosen" /\ hand[w] = NoTask
  /\ pc' = [pc EXCEPT ![w] = "finished"]
  /\ finishedParallels' = finishedParallels + 1
  /\ outcome' = IF AllFinished(finishedParallels') /\ outcome = "pending"
                THEN "resolved" ELSE outcome
  /\ UNCHANGED <<inputs, requests, incompleteTasks, reservations, hand,
                 currentRunIndex, hasEncounteredFailure>>

-----------------------------------------------------------------------------
(* onTaskCompleted(), and the two ends of a task *)

FirstWaitingIfEligible(k, moved) ==
  LET s == waitingConcurrentTasks[k]
  IN IF s # <<>> /\ Head(s) \notin visitedTaskIndexes \cup moved THEN Head(s) ELSE NoTask

FirstWaiting(k, moved) ==
  LET s == waitingConcurrentTasks[k]
      eligible == {p \in 1..Len(s) : s[p] \notin visitedTaskIndexes \cup moved}
  IN IF eligible = {} THEN NoTask ELSE s[Min(eligible)]

NothingLeftWaiting(k, u) == <<>>

\* What is left for key k once u was moved: what stood behind it.
LeftWaiting(k, u) ==
  LET s == waitingConcurrentTasks[k]
  IN IF u = NoTask THEN <<>>
     ELSE SubSeq(s, Min({p \in 1..Len(s) : s[p] = u}) + 1, Len(s))

KeysReleased(keys) == currentParellelTaskKeys \ {keys[i] : i \in 1..Len(keys)}

\* For each key in turn, release it and move the first task parked for it, that
\* has neither been taken nor moved for an earlier key, to the top of the stack.
ReleaseKeys(keys) ==
  \E moved \in [1..Len(keys) -> Task \cup {NoTask}] :
    /\ \A i \in 1..Len(keys) :
         moved[i] = FirstWaiting(keys[i], {moved[j] : j \in 1..(i - 1)})
    /\ incompleteTasks' = incompleteTasks \o
         FlattenSeq([i \in 1..Len(keys) |-> IF moved[i] = NoTask THEN <<>> ELSE <<moved[i]>>])
    /\ waitingConcurrentTasks' = [k \in Key |->
         LET turns == {i \in 1..Len(keys) : keys[i] = k} IN
         IF turns = {} THEN waitingConcurrentTasks[k] ELSE LeftWaiting(k, moved[Max(turns)])]
    /\ currentParellelTaskKeys' = KeysReleased(keys)

TaskSucceeds(w) ==
  /\ pc[w] = "running"
  /\ ReleaseKeys(keysOf[hand[w]])
  /\ pc' = [pc EXCEPT ![w] = "timer"]
  /\ hand' = [hand EXCEPT ![w] = NoTask]
  /\ UNCHANGED <<inputs, requests, visitedTaskIndexes, results>>

\* The first rejection settles the promise.
TaskFails(w) ==
  /\ pc[w] = "running"
  /\ pc' = [pc EXCEPT ![w] = "failed"]
  /\ hasEncounteredFailure' = TRUE
  /\ outcome' = IF outcome = "pending" THEN "rejected" ELSE outcome
  /\ UNCHANGED <<inputs, requests, incompleteTasks, reservations, hand,
                 currentRunIndex, finishedParallels>>

-----------------------------------------------------------------------------
(* The specification *)

\* The executor is called: worker 0 calls the input factory and the others
\* queue behind it, in one stretch of code.
Init ==
  /\ keysOf \in [Task -> KeyLists]
  /\ waitsBetweenRequests \in BOOLEAN
  /\ incompleteTasks = <<>>
  /\ baseI = 0
  /\ isOutOfTasks = FALSE
  /\ isFulfillingTask = TRUE
  /\ requestTasksQueue = [i \in 1..(MaxParallel - 1) |-> i]
  /\ requestWaits = 0
  /\ currentRunIndex = 0
  /\ finishedParallels = 0
  /\ hasEncounteredFailure = FALSE
  /\ currentParellelTaskKeys = {}
  /\ visitedTaskIndexes = {}
  /\ waitingConcurrentTasks = [k \in Key |-> <<>>]
  /\ outcome = "pending"
  /\ pc = [w \in Worker |-> IF w = 0 THEN "factory" ELSE "queued"]
  /\ hand = [w \in Worker |-> NoTask]

Proceed(w) ==
  \/ Dispatch(w)
  \/ ResumeGetNextTask(w)
  \/ StartTask(w)
  \/ TaskFactoryThrows(w)
  \/ FinishParallel(w)

FactoryAnswers(w) ==
  \/ FactoryReturnsTasks(w)
  \/ FactoryReturnsNull(w)
  \/ FactoryRejects(w)

TaskSettles(w) == TaskSucceeds(w) \/ TaskFails(w)

Orphaned == \E w \in Worker : pc[w] = "orphaned"

\* The promise is settled, or an unhandled rejection has cut a worker off.  The
\* executor may stop only then: any other state without a step is a deadlock.
Stop ==
  /\ outcome # "pending" \/ Orphaned
  /\ UNCHANGED vars

Next ==
  \/ \E w \in Worker : Proceed(w) \/ FactoryAnswers(w) \/ TaskSettles(w)
  \/ RequestWaitElapses
  \/ Stop

Spec == Init /\ [][Next]_vars

\* Timers fire and continuations run; the input factory answers every call and
\* every task ends, in one way or another.
Fairness ==
  /\ \A w \in Worker : WF_vars(Proceed(w)) /\ WF_vars(FactoryAnswers(w)) /\ WF_vars(TaskSettles(w))
  /\ WF_vars(RequestWaitElapses)

FairSpec == Spec /\ Fairness

-----------------------------------------------------------------------------
(* Properties *)

\* The variables hold values of the kind the code declares them with.
TypeOK ==
  /\ keysOf \in [Task -> KeyLists]
  /\ waitsBetweenRequests \in BOOLEAN
  /\ incompleteTasks \in Seq(Task)
  /\ baseI \in 0..TaskCount
  /\ isOutOfTasks \in BOOLEAN
  /\ isFulfillingTask \in BOOLEAN
  /\ requestTasksQueue \in Seq(Worker)
  /\ requestWaits \in Nat
  /\ currentRunIndex \in Nat
  /\ finishedParallels \in Nat
  /\ hasEncounteredFailure \in BOOLEAN
  /\ currentParellelTaskKeys \in SUBSET Key
  /\ visitedTaskIndexes \in SUBSET Task
  /\ waitingConcurrentTasks \in [Key -> Seq(Task)]
  /\ outcome \in {"pending", "resolved", "rejected"}
  /\ pc \in [Worker -> Stage]
  /\ hand \in [Worker -> Task \cup {NoTask}]

\* Worker w has taken a task that has not resolved.
Holds(w) ==
  /\ pc[w] \in {"chosen", "running", "failed", "orphaned"}
  /\ hand[w] # NoTask

Held == {hand[w] : w \in {v \in Worker : Holds(v)}}

Completed == visitedTaskIndexes \ Held

Produced == 0 .. (baseI - 1)

Untaken == Produced \ visitedTaskIndexes

\* The tasks in the stack, and those handed to a worker that has not resumed.
Coming ==
  (ToSet(incompleteTasks) \cup {hand[w] : w \in {v \in Worker : pc[v] = "handed"}}) \ {NoTask}

\* Two tasks that share a key never run at the same time, in whatever order tasks
\* end, timers fire and the input factory answers.
KeyExclusion ==
  \A v, w \in Worker :
    v # w /\ pc[v] = "running" /\ pc[w] = "running"
      => KeysOf(hand[v]) \cap KeysOf(hand[w]) = {}

\* The reserved keys are those of the tasks taken and not resolved: none is
\* released while a task still uses it, none stays reserved for nobody.
ReservedKeysAreHeld ==
  currentParellelTaskKeys = UNION {KeysOf(t) : t \in Held}

\* A task that has run is never taken again, though the stack and the parked
\* tasks may still contain it, several times.
CompletedTasksStayCompleted ==
  [][\A t \in Task : t \in Completed => t \in Completed']_vars

\* The input factory is not called while an earlier call is awaited.  (A cursor
\* it keeps would be read twice before it advances.)
OneFactoryCallAtATime ==
  \A v, w \in Worker : pc[v] = "factory" /\ pc[w] = "factory" => v = w

\* No task is lost and no wake-up is: a task that was given out and not taken is
\* in the stack, handed over or parked; and as long as there is one, a key is still
\* to be released or a task not taken is on its way to a worker.
NoTaskIsLost ==
  /\ Untaken \subseteq Coming \cup UNION {ToSet(waitingConcurrentTasks[k]) : k \in Key}
  /\ Untaken = {} \/ Held # {} \/ Untaken \cap Coming # {}

\* A worker that runs no task has none, and one that runs a task has one.
HandsAgree ==
  \A w \in Worker :
    /\ pc[w] \in {"timer", "factory", "queued"} => hand[w] = NoTask
    /\ pc[w] \in {"running", "failed"} => hand[w] # NoTask

\* Every queued request is that of another worker, which waits for it.
QueueAgrees ==
  /\ \A i \in 1..Len(requestTasksQueue) : pc[requestTasksQueue[i]] = "queued"
  /\ \A i, j \in 1..Len(requestTasksQueue) :
       requestTasksQueue[i] = requestTasksQueue[j] => i = j

\* isFulfillingTask is set while the factory is awaited.
FactoryCallIsFlagged == \A w \in Worker : pc[w] = "factory" => isFulfillingTask

\* A held task counts as taken, and no two workers hold one task or share a key.
HeldTasksAreApart ==
  /\ Held \subseteq visitedTaskIndexes
  /\ \A v, w \in Worker :
       v # w /\ Holds(v) /\ Holds(w)
         => hand[v] # hand[w] /\ KeysOf(hand[v]) \cap KeysOf(hand[w]) = {}

\* The inductive invariant of the executor's state: what KeyExclusion,
\* ReservedKeysAreHeld, OneFactoryCallAtATime and CompletedTasksStayCompleted rest on.
ExecutorInvariant ==
  /\ TypeOK
  /\ HandsAgree
  /\ QueueAgrees
  /\ FactoryCallIsFlagged
  /\ OneFactoryCallAtATime
  /\ HeldTasksAreApart
  /\ ReservedKeysAreHeld

\* Only tasks given out go round, a task is parked for keys of its own, and one that is
\* neither taken nor coming is parked for every key it has.
TasksAreParked ==
  /\ visitedTaskIndexes \subseteq Produced
  /\ Coming \subseteq Produced
  /\ \A k \in Key : \A t \in ToSet(waitingConcurrentTasks[k]) : t \in Produced /\ k \in KeysOf(t)
  /\ \A t \in Untaken \ Coming :
       KeysOf(t) # {} /\ \A k \in KeysOf(t) : t \in ToSet(waitingConcurrentTasks[k])

\* No tasks wait for one another only: of those that are tied together by keys one is
\* coming, or has a key that is still to be released.  (A task may be parked for a key
\* that is free, when another one was moved for it and has been parked again since.)
NoTasksAreStuck ==
  \A group \in SUBSET Untaken :
    /\ group # {}
    /\ \A t \in group, u \in Untaken : KeysOf(t) \cap KeysOf(u) # {} => u \in group
    => \E t \in group : t \in Coming \/ KeysOf(t) \cap currentParellelTaskKeys # {}

\* Finished workers are counted, a promise that resolved has none but these, and a task
\* is in the stack only as long as some worker may still look at it.
WorkersFinishLast ==
  /\ finishedParallels = Cardinality({w \in Worker : pc[w] = "finished"})
  /\ outcome = "resolved" => \A w \in Worker : pc[w] = "finished"
  /\ (\A w \in Worker : pc[w] = "finished" \/ (pc[w] = "chosen" /\ hand[w] = NoTask))
       => incompleteTasks = <<>>

\* The inductive invariant NoTaskIsLost and ResolvedMeansAllCompleted rest on.
DeliveryInvariant ==
  /\ ExecutorInvariant
  /\ TasksAreParked
  /\ NoTasksAreStuck
  /\ WorkersFinishLast

\* Of tasks that share no keys, given out one for each call: each goes straight to the
\* worker that asked, so that none waits and no two workers are handed one, and a
\* worker gets nothing only when the input factory has answered null.
TasksComeSingly ==
  /\ ~waitsBetweenRequests
  /\ \A t, u \in Task : t # u => KeysOf(t) \cap KeysOf(u) = {}
  /\ incompleteTasks = <<>>
  /\ \A k \in Key : waitingConcurrentTasks[k] = <<>>
  /\ \A w \in Worker : pc[w] = "handed" => hand[w] \notin visitedTaskIndexes
  /\ \A v, w \in Worker :
       v # w /\ pc[v] = "handed" /\ pc[w] = "handed" => hand[v] # hand[w] \/ hand[v] = NoTask
  /\ \A w \in Worker :
       (pc[w] \in {"handed", "chosen"} /\ hand[w] = NoTask) \/ pc[w] = "finished" => isOutOfTasks

\* When the promise resolves, every task the input factory gave out has run and
\* resolved.
ResolvedMeansAllCompleted == outcome = "resolved" => Completed = Produced

\* Every task the input factory gives out is run to its end, unless a task fails
\* or a rejection is left unhandled.
ProducedTasksComplete ==
  \A t \in Task :
    t \in Produced ~> (t \in Completed \/ hasEncounteredFailure \/ Orphaned)

\* The promise settles, unless a rejection is left unhandled.
Settles == <>(outcome # "pending" \/ Orphaned)

\* "Will throw an error if any error is encountered", as the same comments say:
\* an error of the input factory or of the task factory rejects the promise.
ErrorsReject == Orphaned ~> outcome = "rejected"
=============================================================================
