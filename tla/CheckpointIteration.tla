-------------------------- MODULE CheckpointIteration --------------------------
(***************************************************************************)
(* iterateFirestoreDocumentSnapshotCheckpoints() of @dereekb/firebase: it  *)
(* reads the results of a Firestore query in checkpoints, each a query     *)
(* that starts after the last document of the one before, and lets the     *)
(* executor of ParallelTasks run iterateCheckpoint() on several of them at *)
(* once, while other clients change the documents.                         *)
(*                                                                         *)
(* The executor is the one of ParallelTasks, with this function's input    *)
(* factory in place of an arbitrary one: a task is a checkpoint, and every *)
(* step of the executor is a step here.  The factory runs up to its query  *)
(* in the stretch of code that calls it, and from there to its return in   *)
(* the stretch that takes its answer.                                      *)
(***************************************************************************)
EXTENDS ParallelTasks

CONSTANTS
  Document,            \* the documents the query can match
  NoDocument,          \* undefined, or null
  LastPlace,           \* bound: the places documents can have in the query's order
  ChangeCount,         \* bound: how often documents change meanwhile
  NoLimit,             \* undefined
  LimitsPerCheckpoint, \* values of limitPerCheckpoint
  TotalLimits,         \* values of totalSnapshotsLimit
  RepeatAnswers,       \* for handleRepeatCursor: the sets of answers it may give
  MaxSafeInteger       \* Number.MAX_SAFE_INTEGER

ASSUME DocumentAssumption == IsFiniteSet(Document) /\ NoDocument \notin Document
ASSUME PlaceAssumption == LastPlace \in Nat /\ ChangeCount \in Nat
ASSUME LimitAssumption ==
  /\ NoLimit \notin Nat
  /\ LimitsPerCheckpoint \subseteq Nat \cup {NoLimit}
  /\ TotalLimits \subseteq Nat \cup {NoLimit}
  /\ RepeatAnswers \subseteq SUBSET BOOLEAN
  /\ MaxSafeInteger \in Nat

VARIABLES
  options,     \* input: the two limits, and what handleRepeatCursor may decide
  place,       \* the place of each document in the query's order, 0 if not matched
  changed,     \* documents changed since the iteration began
  changes,     \* how many changes there were
  iteration,   \* the variables the function closes over
  call,        \* for each worker awaiting the input factory, the query it made
  checkpoints, \* the documents of each checkpoint, in the order of the queries
  reported     \* for each checkpoint, the cursorDocument of its result

database == <<place, changed, changes>>
iterationVars ==
  <<vars, options, place, changed, changes, iteration, call, checkpoints, reported>>

NoCursor == [doc |-> NoDocument, at |-> 0]

-----------------------------------------------------------------------------
(* taskInputFactory() *)

limitPerCheckpoint ==
  IF options.limitPerCheckpoint = NoLimit THEN options.totalSnapshotsLimit
  ELSE options.limitPerCheckpoint

totalSnapshotsLimit ==
  IF options.totalSnapshotsLimit = NoLimit THEN MaxSafeInteger
  ELSE options.totalSnapshotsLimit

LimitPerCheckpointLeft(s) ==
  IF limitPerCheckpoint = NoLimit THEN MaxSafeInteger
  ELSE Max({0, limitPerCheckpoint - s.totalSnapshotsVisited})

\* The limit of the next query, 0 for no query.
NextLimit(s) ==
  IF limitPerCheckpoint = NoLimit THEN MaxSafeInteger
  ELSE Min({limitPerCheckpoint, Max({0, totalSnapshotsLimit - s.totalSnapshotsVisited})})

\* The query a call of the factory makes in state s.  Without one it returns null.
QueryOf(s) ==
  [after |-> s.cursorDocument.at, limit |-> IF s.hasReachedEnd THEN 0 ELSE NextLimit(s)]

\* What the call changes before its query.
Called(s) ==
  IF s.hasReachedEnd \/ NextLimit(s) # 0 THEN s
  ELSE [s EXCEPT !.cursorDocument = NoCursor,
                 !.hasReachedEnd = TRUE,
                 !.totalSnapshotsLimitReached = TRUE]

\* The workers that call the factory in this step start with it from s.
CallsFrom(s) ==
  LET calling == {w \in Worker : pc[w] # "factory" /\ pc'[w] = "factory"} IN
  /\ iteration' = IF calling = {} THEN s ELSE Called(s)
  /\ call' = [w \in Worker |-> IF w \in calling THEN QueryOf(s) ELSE call[w]]

\* The first documents, as many as the limit allows, that follow the cursor.
DocumentsOf(q) ==
  {d \in Document :
    /\ place[d] > q.after
    /\ Cardinality({e \in Document : q.after < place[e] /\ place[e] < place[d]}) < q.limit}

LastDocument(docs) ==
  IF docs = {} THEN NoDocument
  ELSE CHOOSE d \in docs : \A e \in docs : place[e] <= place[d]

CursorAt(d) == IF d = NoDocument THEN NoCursor ELSE [doc |-> d, at |-> place[d]]

CursorPaths(s, last) == s.visitedCursorPaths \cup ({last} \ {NoDocument})

EndsAtLimitOnly(s, docs) == s.totalSnapshotsVisited > totalSnapshotsLimit

EndsAfter(s, docs) == docs = {} \/ s.totalSnapshotsVisited > totalSnapshotsLimit

\* State s after a query has brought docs.
Advanced(s, docs) ==
  LET last == LastDocument(docs)
      counted == [s EXCEPT
        !.cursorDocument = CursorAt(last),
        !.visitedCursorPaths = CursorPaths(s, last),
        !.totalSnapshotsVisited = @ + Cardinality(docs),
        !.currentIndex = @ + 1]
  IN IF EndsAfter(counted, docs)
     THEN [counted EXCEPT !.hasReachedEnd = TRUE, !.totalSnapshotsLimitReached = TRUE]
     ELSE counted

NeverRepeats(d) == FALSE

IsRepeat(d) == d \in iteration.visitedCursorPaths

\* The query brings the documents of another checkpoint.  handleRepeatCursor is
\* asked first when its last document has been a cursor before.
QueryBringsCheckpoint(w) ==
  LET docs == DocumentsOf(call[w]) IN
  /\ call[w].limit > 0
  /\ IsRepeat(LastDocument(docs)) => TRUE \in options.repeatAnswers
  /\ FactoryReturnsTasks(w)
  /\ baseI' = baseI + 1
  /\ CallsFrom(Advanced(iteration, docs))
  /\ checkpoints' = Append(checkpoints, docs)
  /\ UNCHANGED <<options, database, reported>>

\* handleRepeatCursor decides against the repeat cursor: what the query brought is
\* dropped.
RepeatCursorEnds(w) ==
  /\ call[w].limit > 0
  /\ IsRepeat(LastDocument(DocumentsOf(call[w])))
  /\ FALSE \in options.repeatAnswers
  /\ FactoryReturnsNull(w)
  /\ CallsFrom([iteration EXCEPT !.cursorDocument = NoCursor, !.hasReachedEnd = TRUE])
  /\ UNCHANGED <<options, database, checkpoints, reported>>

\* The factory made no query.
NoMoreCheckpoints(w) ==
  /\ call[w].limit = 0
  /\ FactoryReturnsNull(w)
  /\ CallsFrom(iteration)
  /\ UNCHANGED <<options, database, checkpoints, reported>>

\* getDocs() or handleRepeatCursor rejects.
QueryFails(w) ==
  /\ call[w].limit > 0
  /\ FactoryRejects(w)
  /\ UNCHANGED <<options, database, iteration, call, checkpoints, reported>>

-----------------------------------------------------------------------------
(* The task of a checkpoint, and the executor around it *)

\* iterateCheckpoint() has resolved: the result is put together and passed to
\* useCheckpointResult().
ReportCheckpoint(w) ==
  /\ pc[w] = "running"
  /\ reported[hand[w]] = NoTask
  /\ reported' = [reported EXCEPT ![hand[w]] = iteration.cursorDocument.doc]
  /\ UNCHANGED <<vars, options, database, iteration, call, checkpoints>>

\* useCheckpointResult() has resolved.
CheckpointCompletes(w) ==
  /\ TaskSucceeds(w)
  /\ reported[hand[w]] # NoTask
  /\ UNCHANGED <<options, database, iteration, call, checkpoints, reported>>

\* The filter, iterateCheckpoint() or useCheckpointResult() rejects.
CheckpointFails(w) ==
  /\ TaskFails(w)
  /\ UNCHANGED <<options, database, iteration, call, checkpoints, reported>>

\* The executor goes on, which may call the input factory.
ExecutorProceeds(w) ==
  /\ Dispatch(w) \/ ResumeGetNextTask(w) \/ StartTask(w) \/ FinishParallel(w)
  /\ CallsFrom(iteration)
  /\ UNCHANGED <<options, database, checkpoints, reported>>

-----------------------------------------------------------------------------
(* The database *)

\* A client writes, adds or deletes a document, which moves it in the query's
\* order, into it or out of it.
DocumentChanges ==
  /\ changes < ChangeCount
  /\ changes' = changes + 1
  /\ \E d \in Document, p \in 0..LastPlace :
       /\ p # place[d]
       /\ \A e \in Document : p = 0 \/ place[e] # p
       /\ place' = [place EXCEPT ![d] = p]
       /\ changed' = changed \cup {d}
  /\ UNCHANGED <<vars, options, iteration, call, checkpoints, reported>>

-----------------------------------------------------------------------------
(* The specification *)

StartState ==
  [cursorDocument |-> NoCursor, hasReachedEnd |-> FALSE,
   totalSnapshotsLimitReached |-> FALSE, totalSnapshotsVisited |-> 0,
   currentIndex |-> 0, visitedCursorPaths |-> {}]

\* Each checkpoint is a task with a key of its own, and requests do not wait.
IterationInit ==
  /\ Init
  /\ ~waitsBetweenRequests
  /\ \A t, u \in Task : t # u => KeysOf(t) \cap KeysOf(u) = {}
  /\ options \in [limitPerCheckpoint : LimitsPerCheckpoint,
                  totalSnapshotsLimit : TotalLimits,
                  repeatAnswers : RepeatAnswers]
  /\ place \in [Document -> 0..LastPlace]
  /\ \A d, e \in Document : d # e /\ place[d] = place[e] => place[d] = 0
  /\ changed = {}
  /\ changes = 0
  /\ iteration = Called(StartState)
  /\ call = [w \in Worker |-> QueryOf(StartState)]
  /\ checkpoints = <<>>
  /\ reported = [t \in Task |-> NoTask]

QueryEnds(w) ==
  \/ QueryBringsCheckpoint(w)
  \/ RepeatCursorEnds(w)
  \/ NoMoreCheckpoints(w)
  \/ QueryFails(w)

CheckpointRuns(w) ==
  \/ ReportCheckpoint(w)
  \/ CheckpointCompletes(w)
  \/ CheckpointFails(w)

IterationStops == Stop /\ UNCHANGED iterationVars

IterationNext ==
  \/ \E w \in Worker : ExecutorProceeds(w) \/ QueryEnds(w) \/ CheckpointRuns(w)
  \/ DocumentChanges
  \/ IterationStops

IterationSpec == IterationInit /\ [][IterationNext]_iterationVars

-----------------------------------------------------------------------------
(* Properties *)

Option ==
  [limitPerCheckpoint : LimitsPerCheckpoint, totalSnapshotsLimit : TotalLimits,
   repeatAnswers : RepeatAnswers]

IterationState ==
  [cursorDocument : [doc : Document \cup {NoDocument}, at : 0..LastPlace],
   hasReachedEnd : BOOLEAN, totalSnapshotsLimitReached : BOOLEAN,
   totalSnapshotsVisited : Nat, currentIndex : Nat, visitedCursorPaths : SUBSET Document]

\* The variables hold values of the kind the code declares them with.
IterationTypeOK ==
  /\ options \in Option
  /\ place \in [Document -> 0..LastPlace]
  /\ changed \in SUBSET Document
  /\ changes \in Nat
  /\ iteration \in IterationState
  /\ call \in [Worker -> [after : 0..LastPlace, limit : Nat]]
  /\ checkpoints \in Seq(SUBSET Document)
  /\ reported \in [Task -> Document \cup {NoDocument, NoTask}]

\* What the queries have brought and those under way may bring stays within
\* totalSnapshotsLimit: the limit of a query is computed before it is sent, and no
\* other query ends in between.
WithinTotalLimit ==
  limitPerCheckpoint # NoLimit =>
    /\ iteration.totalSnapshotsVisited <= totalSnapshotsLimit
    /\ \A w \in Worker : pc[w] = "factory" =>
         iteration.totalSnapshotsVisited + call[w].limit <= totalSnapshotsLimit

\* Documents that nobody changes are iterated in the query's order and none of them
\* twice, whatever happens to the documents around them.
UnchangedDocumentsInOrder ==
  \A i, j \in 1..Len(checkpoints) : i < j =>
    \A d \in checkpoints[i] \ changed, e \in checkpoints[j] \ changed : place[d] < place[e]

\* No two documents have one place in the query's order.
PlacesDiffer ==
  \A d, e \in Document : d # e /\ place[d] = place[e] => place[d] = 0

\* Until the end is reached, every query under way starts at the current cursor, and
\* the documents of earlier checkpoints that nobody changed do not follow it.
CursorAgrees ==
  /\ \A w \in Worker :
       pc[w] = "factory" /\ call[w].limit > 0 =>
         ~iteration.hasReachedEnd /\ call[w].after = iteration.cursorDocument.at
  /\ ~iteration.hasReachedEnd =>
       \A i \in 1..Len(checkpoints) : \A d \in checkpoints[i] \ changed :
         place[d] <= iteration.cursorDocument.at

\* The inductive invariant WithinTotalLimit and UnchangedDocumentsInOrder rest on.
IterationInvariant ==
  /\ ExecutorInvariant
  /\ IterationTypeOK
  /\ PlacesDiffer
  /\ WithinTotalLimit
  /\ CursorAgrees
  /\ UnchangedDocumentsInOrder

\* An iteration that resolves with no limit set, and that no repeat cursor has
\* ended, has iterated every document nobody changed.
UnchangedDocumentsAllIterated ==
  outcome = "resolved" /\ options.totalSnapshotsLimit = NoLimit
      /\ options.limitPerCheckpoint # 0 /\ options.repeatAnswers = {TRUE}
    => \A d \in Document \ changed :
         place[d] > 0 => \E i \in 1..Len(checkpoints) : d \in checkpoints[i]

\* With handleRepeatCursor set to false the number of checkpoints is bounded by the
\* number of documents, however often these change.
RepeatCursorsBoundTheIteration ==
  options.repeatAnswers = {FALSE} => iteration.currentIndex <= Cardinality(Document) + 1

\* A cursor that is used again ends the iteration, and so does an empty checkpoint:
\* every other one leaves a cursor of its own.
CheckpointsLeaveCursors ==
  options.repeatAnswers = {FALSE} =>
    /\ iteration.currentIndex <= Cardinality(iteration.visitedCursorPaths) + 1
    /\ ~iteration.hasReachedEnd =>
         iteration.currentIndex <= Cardinality(iteration.visitedCursorPaths)

\* The input factory answers null only when the end is reached.
NullMeansReachedEnd ==
  /\ isOutOfTasks => iteration.hasReachedEnd
  /\ \A w \in Worker : pc[w] = "factory" /\ call[w].limit = 0 => iteration.hasReachedEnd

\* (More documents than MAX_SAFE_INTEGER would be a limit, too.)
HasNoLimits ==
  /\ LastPlace < MaxSafeInteger
  /\ options.totalSnapshotsLimit = NoLimit
  /\ options.limitPerCheckpoint # 0
  /\ options.repeatAnswers = {TRUE}

Iterated(d) == \E i \in 1..Len(checkpoints) : d \in checkpoints[i]

\* With no limits, every unchanged document up to the cursor has been iterated, and
\* every one when the end is reached; there is a place for each document counted.
PlacesAreCovered ==
  HasNoLimits =>
    /\ \A d \in Document \ changed :
         place[d] > 0 /\ (iteration.hasReachedEnd \/ place[d] <= iteration.cursorDocument.at)
           => Iterated(d)
    /\ ~iteration.hasReachedEnd =>
         iteration.totalSnapshotsVisited <= iteration.cursorDocument.at

\* The inductive invariant UnchangedDocumentsAllIterated and
\* RepeatCursorsBoundTheIteration rest on.
CoverageInvariant ==
  /\ DeliveryInvariant
  /\ TasksComeSingly
  /\ IterationInvariant
  /\ CheckpointsLeaveCursors
  /\ NullMeansReachedEnd
  /\ PlacesAreCovered
=============================================================================
