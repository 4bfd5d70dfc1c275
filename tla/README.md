# Verification of @dereekb components

TLA+ models, TLC runs and TLAPS proofs for the concurrent core of this
repository, a set of TypeScript packages (`src/packages/*`) for applications built
on Firebase, NestJS and Angular. Almost everything in it runs on a single-threaded
event loop; what makes it hard is what happens between two `await`s, two timers or
two emissions of an observable.

## 1. The system

### 1.1 Components

Paths are below `src/packages/`.

| Component | Source | State it keeps | Operations | Modelled |
|---|---|---|---|---|
| Parallel task executor | `util/src/lib/promise/promise.ts` 292-492 | stack of tasks, queue of requests, reserved keys, parked tasks, flags | input request, dispatch, end of a task | `ParallelTasks` |
| Async tasks with retries | `promise.ts` 92-184 | results by index, try number of each task | try, back off, retry, give up | `AsyncTasks` |
| Firestore checkpoint iteration | `firebase/.../query/query.iterate.ts` 343-462 | cursor, visited cursors, totals, end flags | query, repeat cursor, iterate, report | `CheckpointIteration` |
| Firestore batches | `query.iterate.ts` 184-208 | batch counter | iterate a batch | its numbering: `AsyncTasks` |
| Fetch page iteration | `util/fetch/src/lib/fetch.page.iterate.ts` | current page, totals, end flag | fetch, iterate, end early | `FetchPages` |
| Rate limiters | `util/.../promise.limit.ts`, `zoho/src/lib/zoho.limit.ts` | remaining count, reset time, exponential count | wait, reset, set config, update from headers | those of a Zoho client: `RateLimitedFetch` |
| Lock sets | `rxjs/src/lib/lock.ts` | map of keys to observables, parent | lock, unlock, wait for unlock, destroy | those of an action: `ActionContext` |
| Work instances | `rxjs/src/lib/work/work.instance.ts` | loading state, done flag | start, succeed, reject, destroy | `ActionContext` |
| Action context | `dbx-core/src/lib/action/` | action state, value, error, disabled keys, lock set | trigger, ready value, work, resolve, reject, reset, disable, destroy | `ActionContext` |
| Auto trigger of actions | `dbx-core/.../action.autotrigger.directive.ts` | debounce and throttle timers, error count | trigger | planned |
| Item page iterator | `rxjs/src/lib/iterator/iterator.page.ts` | request, current and latest page states, limit | next, next page, limit, destroy | `ItemPageIterator` |
| Zoho access tokens | `zoho/.../accounts.factory.ts`, `zoho/nestjs/.../accounts.service.ts` | token in memory, token file | load, refresh, update | `ZohoTokens` |
| New user service | `firebase-server/src/lib/auth/auth.service.ts` 94-400, 487-620 | the user's record and claims (remote), the record a context keeps | initialize, send, mark complete, update claims, reset password | `NewUserSetup` |
| Date cells and schedules | `date/src/lib/date/date.cell.schedule.ts` | none | codes of days, filter, expansion of a schedule | `ScheduleDays` |
| Calendar selection store | `dbx-form/calendar/src/lib/calendar.schedule.selection.store.ts` | range, toggled days, week, filter, exclusions, value, functions that decide on days | toggle, set, select all, mode, week, filter, value | `CalendarSelection` |
| Storage, collection loaders, time zones, indexed values, loading states, permissions, field conversion, NestJS integrations, analytics, web and form directives | see `PROJECT.json` | little or none | pure functions, or wiring | no, see 6 |

### 1.2 How they interact

- The two iterations hand the executor an *input factory* (the next query, the
  next page) and a *task factory* (what to do with its result). Both factories
  close over the same variables, so input requests and tasks of several workers
  share state across awaits. `performAsyncTasks()` hands it a list and a task
  factory that retries.
- The batch wrapper of the Firestore iteration runs `performAsyncTasks()` inside a
  task of the executor.
- The Zoho clients call the rate limiter before each request and update it from
  the response; they take their token from the token factory.
- An action context owns a lock set. Its handler starts a work instance for each
  value, which reports to the context as its delegate, and adds a lock that
  follows the completion of the work. Everything that is destroyed with the
  context waits for the lock set first.

### 1.3 What is hard

Each item has its lines in the `hazards` list of `PROJECT.json`.

- **Between two awaits.** The executor's flags, keys and stack are read before an
  await and used after it (`promise.ts` 339, 384, 457); the cursor, the limit and
  the totals of the iterations likewise (`query.iterate.ts` 371, 378, 443;
  `fetch.page.iterate.ts` 129, 246); so are tokens, files and claims.
- **Wake-ups.** A task whose key is in use is parked in one list per key and is
  moved back by whichever key is released first. What is left of it in other lists
  and in the stack must neither run it twice nor swallow the wake-up of another.
- **Failure.** A factory that throws, a query that fails, a retry after the
  promise was rejected, a server that stops between two remote writes.
- **Limits.** Numbers of tasks, documents and pages that may be exceeded by what is
  in flight.
- **A world that changes.** Documents move in the order of a query while it is read.
- **End.** A promise that must settle, an iteration that must stop, a lock that
  must be released.

### 1.4 What makes each component correct

- *Executor*: tasks that share a key exclude each other; every task given out runs
  exactly once; at most `maxParallelTasks` run; the input factory is not called
  while a call is awaited; the promise resolves when and only when everything ran,
  and rejects at the first failure.
- *Checkpoint iteration*: never more documents than the limit; documents that
  do not change are iterated exactly once and in order; repeated cursors cannot
  keep it going for ever.
- *Fetch pages*: pages in order, none after the end but those in flight; limits
  kept up to what is in flight.
- *Async tasks*: at most `retriesAllowed + 1` tries; a task keeps its keys across
  tries; every input is reported once.
- *Rate limiter*: nobody takes what is not remaining or waits beyond the period;
  who was refused comes back in a later period; every request ends.
- *Item pages*: pages one after the other whatever falls together; a call for a page
  returns that page; every call settles once a page has finished, or once the iterator is
  destroyed after its limit was subscribed to (before that it may hang: 3.1).
- *Action context, work, locks*: one work instance per trigger; no idle store with
  work under way; the store is not destroyed before the work it was waited for has
  ended, and is destroyed in the end; a modification is not taken for saved by an action
  that started before it.
- *Calendar*: an update selects what it names and nothing else, in whatever form the
  selection is kept; the schedule put out stands for the days that are selected.
- *Tokens*: no token of a service is lost unless the file is used by two at once; whatever
  token a caller gets was usable while it waited, also when others have replaced the one it
  had; it gets none only while another caller retrieves the next or has failed to (3.1).
- *New users*: what a context keeps of the user is what the user is; an update of
  claims leaves the others; setup content is not sent twice within the throttle time.

## 2. Modules

```
KeyedTaskPool             what the executor promises
   ^ implemented by
ParallelTasksRefinement   the refinement mapping
   | EXTENDS
ParallelTasks  <--EXTENDS--  CheckpointIteration, FetchPages, AsyncTasks

ParallelTasksProofs          EXTENDS ParallelTasksRefinement
ExecutorCallersProofs        EXTENDS CheckpointIteration, FetchPages, AsyncTasks
                             and ParallelTasksProofs

ScheduleDays  <--EXTENDS--  CalendarSelection
ActionContext, ZohoTokens, NewUserSetup, RateLimitedFetch, ItemPageIterator

ActionContextProofs, ZohoTokensProofs, NewUserSetupProofs, CalendarSelectionProofs,
RateLimitedFetchProofs, ItemPageIteratorProofs
                             each EXTENDS its module

MC<module>   values for TLC, one for each module above that is run
```

What is proved of the three functions that use the executor is in one module, a part for
each, since they rest on the same theorems of the executor; so no two of them give
different things one name.

### 2.1 ParallelTasks

The executor. One action is one stretch of code without an `await`, since the
program is single threaded: what may interleave in the program is exactly what may
interleave in the model. Variables keep the names of the code (with its spelling);
added are

- `pc[w]`, the await at which the `dispatchNextPromise()` of worker `w` stands:
  `timer` (466-468), `factory` and `queued` (the two ways of `requestMoreTasks`,
  355-364), `handed` (its request is resolved, `getNextTask` has not resumed),
  `chosen` (`getNextTask` has returned), `running`, `finished`, `halted`, `failed`,
  and `orphaned` for a worker that ended in an unhandled rejection;
- `hand[w]`, the task in the worker's local variables;
- `requestWaits`, how many waits of line 336 are under way;
- `outcome`, what the promise has come to.

A task is its index, the third member of the code's tuple. `keysOf` is the key
factory's answer for each task, *lists* with repetitions since the code handles a
key as often as it is listed; the built-in factory that gives every task a key of
its own is the empty list. The stack grows at its right end, as the array does.

| Action | Code |
|---|---|
| `Dispatch` | `dispatchNextPromise` up to its await, the failure flag included |
| `ResumeGetNextTask` | `getNextTask` after its request is resolved |
| `GetNextTask` | one round of `getNextTask`'s loop up to its next await: take a task, find nothing, or request more |
| `StartTask`, `TaskFactoryThrows`, `FinishParallel` | `dispatchNextPromise` after its await |
| `FactoryReturnsTasks`, `FactoryReturnsNull`, `FactoryRejects` | `fulfillRequestMoreTasks` after line 315, with the queued requests it serves in the same stretch |
| `RequestWaitElapses` | `fulfillRequestMoreTasks` after line 336 |
| `TaskSucceeds`, `TaskFails` | the two callbacks of lines 465-474, with `onTaskCompleted` |

A factory may answer any number of tasks at once, none included, and may reject;
tasks may reject; a wait between requests is set or not.

### 2.2 KeyedTaskPool and ParallelTasksRefinement

`KeyedTaskPool` is what a caller may rely on: tasks are accepted, each is started
at most once, at most `MaxParallel` run, no two running ones share a key, the
promise resolves only when every accepted task is done, nothing is accepted after
that. `ParallelTasksRefinement` reads the state of a task off the executor's
indexes, sets and workers, and states that the executor implements the pool.

### 2.3 CheckpointIteration

`iterateFirestoreDocumentSnapshotCheckpoints()`. It EXTENDS `ParallelTasks` and is
the executor with this function's input factory in place of an arbitrary one:
every step conjoins a step of the executor with what the function does in the same
stretch of code. `iteration` is the record of the variables the function closes
over (354-360); `call[w]` is what the factory called by worker `w` has computed
before its await (366-393): where the query starts and its limit. A step in which a
worker starts to await the factory is a step that runs the first part of the
factory (`CallsFrom`).

The database is external: `place` gives each document's place in the order of the
query, 0 for a document the query does not match, and `DocumentChanges` moves one
document, in the order, into it or out of it. A query answers with the first
`limit` documents behind the place its cursor had when it was read, as
`startAfter(snapshot)` does. `changed` and `checkpoints` are history variables, for
the properties only; `reported` is the `cursorDocument` passed to
`useCheckpointResult()`.

`handleRepeatCursor` is the set of answers it may give: `{TRUE}` for undefined,
`{FALSE}` for `false`, both for a function that decides.

### 2.4 FetchPages

`iterateFetchPages()` and, with `fetchOptions.byItems`, `iterateFetchPagesByItems()`.
Composed with the executor in the same way: `PageFetched`, `NoMorePages` and
`FetchFails` are the answers of its input factory (236-253), `FetchProceeds` what
runs between them. `fetchState` holds `hasReachedEnd`, the totals, and of
`currentNextPage` the number and `hasNext`; `fetching[w]` is the page a call of the
factory fetches. A page is a number of items.

A page's task has two awaits before its end, and what happens to the shared totals
between them matters: `ItemsFiltered` (126-129, where `totalItemsVisited` is read and
passed on), `ItemsIterated` (131-133, where the totals grow), `PageUsed` (after
`usePageResult()`, where `endEarly()` decides). In `iterateFetchPages()` alone
`endEarly()` is the caller's and decides either way. `FetchFails` stands for a failed
request and for the errors `fetchNext()` throws itself (`fetch.page.ts` 175-189).

The collection is external: how many items a page has and whether another follows
is chosen when it is fetched, with `LastPage` as the bound.

### 2.5 ActionContext

An action with all that takes part in it: the `ActionContextStore`
(`action.store.ts`), the directive that gets the value once the action is triggered
(`action.value.trigger.instance.ts`), the handler (`action.handler.instance.ts`) with
its `WorkInstance`s (`work.instance.ts`, `work.factory.ts`), and the two lock sets
(`lock.ts`). An update of the store and what its observables set off at once are one
step: a value that is readied is handed to the handler, whose function may complete
the work in the same stretch of code.

| Variable | Code |
|---|---|
| `actionState`, `disabled` | the state of the store (`action.store.ts` 70-94) |
| `lastReady` | what the `shareReplay(1)` behind `valueReady$` holds: the trigger the value was for |
| `getterOpen` | whether the inner observable of `triggered$` is subscribed to and may still answer |
| `works` | the work instances so far: their trigger, their loading state |
| `handlerLock` | the work whose `isComplete$` is the lock under `DBX_ACTION_HANDLER_LOCK_KEY` |
| `handlerErrored` | the subscription of the handler has ended with an error |
| `stage` | for the getter, the handler, the context and the store: alive, waiting for the unlock, past it (in the delay), destroyed |

| Action | Code |
|---|---|
| `Trigger`, `SetIsModified`, `Disable`, `Enable`, `Reset` | the updaters (`action.store.ts` 233-293) |
| `GetterGivesValue`, `GetterGivesNothing` | lines 55-70 of the getter's instance: `readyValue()`, or `reject()` |
| `Handle`, part of the two steps that hand a value over | `workFactory()` and the handler's `tap` |
| `HandlerChanges` | `switchMap` to another handler function (66) |
| `WorkStarts`, `WorkSucceeds`, `WorkFails` | the work instance and its delegate |
| `DestroyComponent` | `ngOnDestroy()` of the component's directives |
| `DirectiveUnlocks`, `DirectiveTimesOut`, `StoreDestroyed` | `onLockSetNextUnlock()` calling back, after the delay or the timeout |

Values, results and errors are left out, and `isModified` but for its effect on a
resolved action. `interrupted` and `timedOut` are history variables that say what the
properties except: somebody reset the action while it was under way, replaced the
handler, or the getter rejected while its value was being worked on; the store gave up
waiting after 50 seconds. It is assumed that nobody subscribed to the lock set of the
context before its destruction (no parent lock set), and that the action belongs to
one store throughout.

### 2.6 AsyncTasks

`performAsyncTasks()`, with the executor in the place of a list of running tasks: the
input factory gives the whole input at its first call and null at its second, and the
end of a task is the end of `_performAsyncTask()`. `progress[t]` is what a task awaits:
the task function, the wait before a retry, or `beforeRetry()`. `taskResults` is the
sparse array of results, by the index the executor passed to the task factory;
`report` what the caller is given.

| Action | Code (`promise.ts`) |
|---|---|
| `InputFactoryAnswers`, `TasksProceed` | the executor with this function's factory (231-237, 455-484) |
| `FirstTry` | the task factory up to the first `await taskFn()` (98-99, 142) |
| `TrySucceeds`, `TryFails`, `GiveUp`, `Throw` | what follows that await (142-181) |
| `RetryWaitElapses`, `BeforeRetryResolves`, `BeforeRetryRejects` | the two awaits before the next try (158-172) |
| `ReportResults`, `ReportRejection` | lines 96-129 |

`batchIndex` and `calls` are the counter of the batch wrapper of the Firestore
iteration (`query.iterate.ts` 184-208), which numbers *calls* of its function, retried
ones included: its report is compared with it by `ReportedIndexFollowsTheCalls`. The
built-in key factory of the call (no two tasks share a key) is that of an empty list.

### 2.7 RateLimitedFetch

The requests of a Zoho client: `rateLimitedFetchHandler()`, the
`resetPeriodPromiseRateLimiter()` it waits for with the exponential limiter inside it,
and `updateWithResponse()`. Time is counted in units of the cooldown, and points in
time are kept as what is left until them, so time is not bounded.

| Action | Code |
|---|---|
| `Fetch`, `WaitForRateLimit`, `Send` | `fetch.limit.ts` 36-51, `promise.limit.ts` 112-155, 309-345 |
| `ResponseArrives`, `UpdateWithResponse` | `fetch.limit.ts` 50-57, `zoho.limit.ts` 67-100 |
| `AfterRefusal` | the retry, or the error of too many requests (`fetch.limit.ts` 59-68) |
| `RequestFails` | a request without a response, on which reading the headers throws |
| `ServerAnswers`, `OtherClientServed`, `Tick` | external: the server's period, other clients of the account, time |

The server is external: it counts the requests of its period, refuses those above
`serverLimit`, and answers at once, though answers may arrive in any order and late.
That it counts in a fixed period is what the code assumes of it. The rate of the
exponential limiter, 1.08, is 2 in the model, so that its waits are whole numbers. `overtaken` and
`periodEnded` are history variables.

### 2.8 ZohoTokens

Callers of several services, each with an access token factory, and the caches behind
it: the file of `accounts.service.ts`, with or without a copy in memory
(`useMemoryCache`), alone or merged behind a cache in memory (`isMerged`). An action is
the stretch of code between two events from outside: the file has been read or written,
a refresh is answered. `FileIsRead` is the moment of the reading and `LoadResolves` or
`UpdateGoesOn` what the code does with it later, so that what was read may be old when
it is used.

| Action | Code |
|---|---|
| `Call`, `LoadResolves`, `CheckExpiration` | `accounts.factory.ts` 127-164, `accounts.service.ts` 53-66, 111-120, 154-229 |
| `RefreshSucceeds`, `RefreshFails` | `accounts.factory.ts` 146-162 |
| `UpdateGoesOn`, `WriteEnds` | `accounts.service.ts` 198-243 |
| `Crash`, `Tick` | the process ends and another is started with the file; time |

The file system and Zoho's server are external. A file that is being written may be
read as it was, or empty or cut off, which the code parses to nothing; two writes at
once may leave either content or a garbled one. Tokens are numbers in the order they were
made. Three history variables tell the properties what has happened. `latest` is the
tokens the file should hold; when a process ends while something of it is missing there
(`IsInterrupted`), the next one can only start from what is left, and so does `latest`.
`overlapped` says that two callers of this process were at the file at once, or that a
write failed. `usable[c]` are the tokens that have outlasted the buffer at some time since
`c` has called.

A caller returns the *shared* `currentToken` (164), which need not be the token that it
has found or refreshed: another caller may have refreshed one after it, loaded an old one
from the file late, or found the token expired and dropped it. `ReturnedTokensWereUsable`
says that none of that makes a caller return a stale token; `NullOnlyWhileAnotherRetrieves`
that only the last gives null. The types of the code promise that nothing does (3.1).

### 2.9 NewUserSetup

One user in Firebase auth and the requests that work on it, one operation after the
other: those of a user context (load, roles, claims, password reset) and those of the
new user service (initialize, send setup content, mark as complete). A request uses the
context it has or a new one; a context keeps the *promise* of its record
(`cachedGetter`), so a rejected one too. An action is the code between two awaited
calls, together with the effect on Firebase of the call that ends it.

| Action | Code (`auth.service.ts`) |
|---|---|
| `Begin` | the start of an operation, with what it will change |
| `FindUser`, `CreateUser` | `initializeNewUser()` (487-540, 633) |
| `LoadRecord`, `LoadClaims`, `SetClaims` | `loadRecord()`, `updateClaims()`, `setClaims()` (116-137, 245-272, 606-615) |
| `UpdateUser` | the password of a reset, or the new one (147-190) |
| `CheckSetup`, `SendSetupContent` | `sendSetupContent()` (545-597) |
| `Fail`, `FailWithoutUser` | any awaited call rejects; one that sets claims may have done so |

Firebase auth and the sending of mails are external. Claims are the ones this code
writes: of the setup, of a password reset, and one role. `setRoles()` retains nothing, or
the claims of the setup (`Retained`). `outdated`, `mailedAt` and
`unmarked` are history variables: what the properties except is that somebody else has
set the claims since the load, a call to set them failed, two requests were sending at
once, or the time of sending was taken out of the claims.

### 2.10 ItemPageIterator

An `ItemPageIterationInstance` with its callers and subscribers. An observable hands a
value to all its subscribers within one stretch of code, in the order in which they
have subscribed; so an action is an event with all that follows from it, and the one
order that makes a difference, whether `latestPageResultState$` or the `_nextTrigger$`
that `nextPage()` subscribes to came first, is the variable `first`.

| Action | Code (`iterator.page.ts`) |
|---|---|
| `next`, `nextPage`, `setMaxPageLoadLimit`, `destroy` | the methods of the instance (363-391, 440-456) |
| `Observe` | somebody subscribes to one of its observables |
| `Drop`, `BeginPage`, `RequestIsDenied`, `RequestHangs` | the pipeline of `state$` after `delay(0)` (173-219, 479-489) |
| `PageEnds` | the delegate's answer: a value, the end, or an error (184-206) |

The limit is a subject that `destroy()` completes, and `canLoadMore$` (420) subscribes to it
when the first request arrives, or earlier if somebody observes it. `listening` says whether
it has been heard of: `notYet`, `heard`, or `inVain`, when `destroy()` came first. A complete
subject tells a late subscriber nothing, so the request in whose course that happens is
never through (`RequestHangs`), those behind it are dropped, and `state$` does not end.

A page is its number. `successes` and `expected` are history variables. The delegate is
external and emits before it completes; `iteratorNextPageUntilPage()` and the
accumulator are not modelled.

### 2.11 ScheduleDays and CalendarSelection

`ScheduleDays` has the functions of a schedule that the calendar uses: codes of days,
expanded and simplified; `FilterAllows`, the function `dateCellScheduleDateFilter()`
returns (`date.cell.schedule.ts` 751-801); `ExpandedDays`, the days that
`expandDateCellScheduleRange()` yields (1011-1020). A day is a number, an index the
distance from some start. Included days (`d`), which the store never writes, times of
day and time zones are left out, and with them `updateStateWithTimezoneValue()` and
filters without a time zone.

`CalendarSelection` is the store. `state` is its state, a record with the names of the
code, and every updater is a function from state to state, as in the code; the actions
choose the updater and its input. What is selected is a range of days, less the
`toggledIndexes` in it, and those outside of it, of the weekdays of
`effectiveScheduleDays`, as far as `isEnabledFilterDay` permits. The two functions in the
state, `isEnabledDay` and `isEnabledFilterDay`, are kept as the sets of indexes for which
they answer true, and are renewed only where the code makes them anew: so they may be
older than what they were made of.

| Operator | Code (`calendar.schedule.selection.store.ts`) |
|---|---|
| `WithSelection`, `RetainSet`, `Toggled`, `WithAllOrNone` | `updateStateWithChangedDates()`, its end and its branches (901-1055) |
| `SelectedIndexes`, `Excluded`, `computeScheduleSelectionValue` | what is put out (1116-1285) |
| `EnabledFilter`, `CopiedFilter`, `updateStateWithFilter` | the filter for the days, the one that is stored, which may be the same object, and the update (618-746) |
| the others | the function of the same name |

`ToggleChangesOneDay`, `SetIndexesAreSelected` and `SetValueIsSelected` say of every
state that is reached what an update of it would do; `ValueIsTheSelection` is about the
steps that change the selection or the value. What they except is what the code does
not do: days before the filter's start, a filter and a min/max range without a common day
(`LeavesDays`), exclusions that count from elsewhere (for these three see 3.1), exclusions
behind a value's end, which are toggled on, and a value without days of the week, which is
taken for one with all of them.

## 3. Runs

| Run | Question | Bounds | Result |
|---|---|---|---|
| `ParallelTasks` | safety of the executor | 2 workers, 4 tasks, key lists `<<a>>`, `<<b>>`, `<<a, b, a>>`, with and without a wait | all hold |
| `ParallelTasksLive` | does it implement the pool, do all tasks run, does it settle? | 2 workers, 3 tasks, fairness | yes |
| `ParallelTasksErrors` | does every error reject the promise? | 2 workers, 2 tasks, fairness | violated |
| `AsyncTasks` | retries under keys, who is reported, what rejects the call, do begun tasks end? | 2 workers, 3 tasks, one retry, with wait and callback and errors kept, or without them and errors thrown, fairness | all hold |
| `CheckpointIteration` | limit, order, completeness, repeat cursors | 2 workers, 3 documents, 4 places, 1 change, limits per checkpoint none, 0, 1, 2, total limits none, 2 | all hold |
| `FetchPages` | page order, limits, where it ends | 2 workers, 4 pages of at most 1 item, `maxPage` 1 or none, limits 1, 2 or none | all hold |
| `ActionContext` | one work per trigger, what idle means, what destruction waits for, does it end? | 2 triggers, 1 replaced handler, 1 disabling key, fairness | all hold |
| `RateLimitedFetch` | in which period a retry lands, do requests end? | 2 requests with one retry each, a limit of 2, server limits 1 and 2, a period of 3 cooldowns, waits of at most 2, fairness | all hold |
| `ZohoTokens` | what callers are returned, when it is null, what the file holds | 2 services, 3 callers, two of them of one service, 3 calls, 3 tokens of a life of 2 and a buffer of 1, 1 crash, each way of caching, symmetry | all hold |
| `NewUserSetup` | what contexts keep, what updates lose, when content is sent again | 2 requests, 3 operations, 1 failing call, times 0 to 3, a throttle of 1, symmetry | all hold |
| `ItemPageIterator` | page order, what a call returns, does it return once a page has finished or the limit was heard of? | 2 calls for a page, 3 requests, 3 pages, the limit set once, fairness | all hold |
| `CalendarSelection` | does an update select what it should, does the value stand for the selection? | days 0 to 4, of which 2 and 3 are a weekend, today is 1; 4 updates; 4 filters, 2 ranges, one exclusion, 2 weeks, 3 sets of days, 8 values | all hold |

**Why these bounds are enough to be interesting.** Four tasks and two keys give a
task that holds both keys, one parked for each of them, and a fourth that is parked
behind one that was taken already, which is the case the loop of lines 431-450 is
there for; `<<a, b, a>>` parks a task twice for one key. Two workers are enough for
every pairwise property. Only with three are there two requests in the queue at once:
the invariants of the executor and the refinement are proved for any number of them.
For the iteration, three documents and limits of one and two give checkpoints that
are full, partly filled and empty; one change moves a document over the cursor in
either direction, and lets a cursor be met again. `TaskCount = 5` is the number of
checkpoints this takes, four with a document (one of them read twice) and one empty,
so the bound cuts nothing off. `LastPlace = 4` leaves a free place to move to. `MaxSafeInteger = 100`
stands for a number greater than any count.
For the pages, four of them are what two workers need to have one page in flight
when the limit of one or two items is reached, and another behind it; `maxPage = 1`
ends the iteration before the collection does. 9 stands for a limit that is not set.
For the action, the second trigger is the one that may come while work for the first is
under way, or after the component was destroyed; one replaced handler gives work that is
done again next to either. A second disabled key would add nothing, as keys do not
interact.
For the retries, three tasks over two keys give one that waits for its retry, one that
waits for its key and one that goes on beside them; a second retry would repeat the
first.
For the limiter, two requests of one limit are what a refusal and an answer that
overtakes it need; a period longer than the longest exponential wait tells the two
kinds of wait apart.
For the tokens, two callers of one service race for a refresh while one of the other
service writes the same file; three tokens are one left by an earlier process and one
refresh of each of two callers, of which one may save its token until it is within the
buffer, so that the other one drops it; a crash may come at any point of it, and the two
calls left over by then find what it has left of the file.
For the user, three operations are enough to initialize, be interrupted and begin
again, or for two requests of which one comes back with a context it has kept; with a
throttle of 1 the times to 3 hold two sendings and a third too early.
For the iterator, three requests are what one dropped, one denied and one served take,
and three pages leave an error or a changed limit with pages on both sides of it.
For the calendar, four updates are a filter or range, a mode or week, a selection and one
update more of it, and each property looks at one update beyond; five days have a day
before today and before a filter's start, a weekend within, and a day after it. One
filter has a start and an exclusion, one both ends and a week, one no start, and one has
no day in common with either range.
Documents are symmetric, and so are the requests that set up a user and the two callers of
one service: none is named in the specification, and the runs with the symmetry check
safety only.

**Deadlock** is checked in the runs of the executor and of what is composed with it.
`Stop` lets the executor rest once the promise has settled or an unhandled rejection
has cut a worker off, and only then; so the runs also show that it never stands still
before. Tokens, users and pages are done when the calls that the bounds allow are made,
so their runs do not check it; nor does that of the calendar, whose updates are counted.

**Fairness** (`FairSpec`). Timers fire and promise continuations run, which is what
the event loop does; the input factory answers each call and each task ends, in one
way or another, which is the caller's part of the bargain. Fairness is weak and per
worker, and per kind of step: it does not decide how a factory answers or how a
task ends. That the input factory does not go on giving tasks for ever is the bound
`TaskCount`; a factory that only ever answers with an empty array would finish the
workers one by one. Of an action it is assumed that a getter that is asked answers and
that work that is given ends, which is what the directive's users provide, and that the
timers of the lock sets fire. Nothing is assumed of those who trigger, reset, disable
or destroy. Of retried tasks it is assumed that each try and each callback settles; of
requests, that time passes and each is answered or fails (a server that never answered
would leave `fetch()` itself waiting, which has its own timeout); of the iterator, that
its timer fires and the delegate answers. No fairness is assumed of tokens and users,
about which only safety is stated.

### 3.1 Where code and comments differ

1. `ParallelTasksErrors`. *"Will throw an error if any error is encountered as soon
   as it is encountered"* (`promise.ts` 283). If the input factory rejects (315) or the
   task factory throws before it returns a promise (462), the rejection belongs to an
   async function that nobody awaits; `reject` is not called and the caller waits
   for ever. The query of a checkpoint iteration is such an input factory.

Seen while modelling, without a run of their own:

- `rxjs/.../iterator/iteration.ts` 81, *"returns the page number of the loaded page."*:
  `nextPage()` waits for the state to finish loading and then reads the latest finished
  page from another observable (`iterator.page.ts` 370-374). If the call itself was the
  first to subscribe, it is told of the end of the page before that observable is, and
  returns the page before. When `latestPageResultState$` was subscribed to first, it does
  return the loaded page, which is the condition of `NextPageIsReturned`.
- `calendar.schedule.selection.store.ts` 738, *"re-calculate the selection given the
  filter"*: it calls `updateStateWithChangedRange()` with the range as it is, which
  returns early, so that the value, `isEnabledDay` and the toggled indexes stay those of
  before; when the filter moves `start`, toggled indexes and exclusions mean other days
  from then on. 113: `start` *"Is updated as the inputStart is modified"*, but only a
  filter changes it.
- the same, 808: the exclusions of a value, counted from its own start, become toggled
  indexes, which are counted from the start of the state (776: *"Outputs remain
  accurate."*). The form field sets the value before the filter
  (`calendar.schedule.field.component.ts` 180-192).
- the same, 1004: the indexes to leave out are `range(minIndex, maxIndex + 1)`, less those
  set, which counts down when the filter and the min/max range have no day in common: the
  ends are swapped, and setting no index at all may leave a day selected.
  `SetIndexesAreSelected` and the single mode of `ToggleChangesOneDay` except that case.
- the same, 668: without exclusions the filter that is extended by the start, the
  min/max range and `setStartAsMinDate` is the one that is stored, so that clearing the
  range later does not permit the days again. A filter without a start permits days before
  the one it is given, when there is a range, and the value cannot express them. 109:
  *"The greater/lesser of the start/end dates are used"*, but an end of the filter goes
  before that of the range (`date.cell.schedule.ts` 776). 526: `setDefaultWeek` sets the
  min/max range.
- `promise.ts` 197, 283, *"No further tasks will be dispatched"*: the failure flag is
  looked at before `await getNextTask()` only, so that a worker that waits for a task
  while another one fails starts its task afterwards (457-462).
- `query.iterate.ts` 303, *"The cursor document used in this query."*: the variable is
  shared by all checkpoints and read after two awaits (443); with
  `maxParallelCheckpoints` above 1 it may be the cursor of a later query.
- `fetch.page.iterate.ts` 8, *"The index is the overall index this item is from the
  returned items."*: the total is read before an await and grows after it (129-132);
  with `maxParallelPages` above 1 the items of two pages are given the same indexes.
- `action.ts` 20, *"It should begin working immediately."*: when the getter of a handler
  value throws, `performTaskWithReturnValue()` rejects the work and throws on
  (`work.instance.ts` 156-157); the factory rejects it again (`work.factory.ts` 45),
  which throws inside the handler's subscription and ends it. The next time the action
  is triggered it stays at its value for ever.
- `action.store.ts` 141: `valueReady$` replays its last value to whoever subscribes, and
  a new handler function subscribes anew (`action.handler.instance.ts` 66): it works on
  the last value at once, in whatever state the action is.
- `zoho.error.api.ts` 259, 266: the limit of the header is read with `headers.has()`, so
  it is 1 whatever the header says; the exponential limiter of a client is therefore
  reconfigured for a limit of 1 at the first answer, where the comment says *"Total
  limit in a given period."* The model has it as the code does (`HeaderLimit`).
- `promise.limit.ts` 294: the outer limiter's `setConfig()` does not hand `startLimitAt`
  to the inner one, which stays at its default of 1 (`zoho.limit.ts` 53 sets it); 330: a
  caller that waits for the reset is not counted, so that after it all waiters go at
  once, and more than the limit in one period.
- `zoho/.../accounts.ts` 67-69: a `ZohoAccessTokenFactory` is `() => Promise<ZohoAccessToken>`
  and *"Throws an ZohoAccountsAuthRetrievalError error if the token could not be
  retrieved."* A caller that has refreshed the token and waits for it to be saved
  (`accounts.factory.ts` 157) returns the shared variable afterwards (164), which another
  caller that found the token within the buffer has set to null (142) while it retrieves
  the next: the first one resolves with null. `NullOnlyWhileAnotherRetrieves` says when.
- `iteration.ts` 81, *"The promise will return when the next action has completed"*: after
  `nextPage()` and then `destroy()` before the timer of `state$` fires (`iterator.page.ts`
  174), `canLoadMore$` subscribes to a limit that is complete (420, 455) and emits nothing,
  `combineLatest()` (176) waits for it, and the promise stays pending. A first request that
  is denied leaves it pending too, until another one loads a page or the iterator is
  destroyed. Both are outside the condition of `NextPageSettles`.
- `accounts.service.ts` 231-235: two callers of different services whose updates of the
  file overlap lose one of the tokens, which `LatestTokensAreKept` excepts.
- `auth.service.ts` 511: a user whose setup claims could not be added after it was
  created is found by the next call and never given them; 116: a context keeps a load
  that has failed; 552: the throttled call returns false where the comment says *"or was
  already recently sent"*; 593: the time of sending is merged into the claims of the
  check, so that a setup completed meanwhile gets its setup password back.
- `iterator.page.ts` 476: an empty page is never taken for the end, as the function that
  asks for it is given the whole result (461-465 say it is); 402, 421: an error on the last
  page that the limit permits cannot be retried. A delegate whose observable completes
  without emitting ends `state$` with an error; that is not modelled.

Seen while reading, without a model: an empty array from the input factory finishes
a worker, though the comment says "until the factory returns null" (279, 384-411);
without a maximum the executor runs one task at a time though the comment says all
run in parallel (259, 296); `retryWait` defaults to 200 ms, not 100 (76, 138); `maxPage` is "the max number of
pages to load" (`fetch.page.ts` 82) but pages are counted from 0 and `maxPage` itself
is loaded, as the tests expect; the `endEarly` of a caller of
`iterateFetchPagesByItems()` is overridden (125, 137); the `errorCount` of an action
is the "number of consecutive errors" (`action.store.ts` 91) but `trigger()` drops it,
so that it never passes 1 (260, 279); a lock with a duration is not released after it
(`lock.ts` 98); `totalSnapshotsLimitReached` is also set when a query has returned
nothing, with or without a limit (`query.iterate.ts` 421-424).

## 4. Proofs

TLAPS proves, for every number of workers and tasks, every set of keys and key lists,
every set of documents, pages and limits, any number of tries, of triggers, replaced
handlers and disabled keys, of requests, operations, services, callers and crashes, and
for calendars of any length, any filters, ranges, weeks and values:

| Theorem | States |
|---|---|
| *`ParallelTasksProofs`* | |
| `InvariantHolds` | `Spec => []ExecutorInvariant` |
| `TypeCorrect`, `KeysExclude`, `ReservationsExact`, `FactoryCallsDoNotOverlap` | the type invariant and three safety invariants of the executor |
| `TasksRunOnce` | no completed task is taken again, a property of steps |
| `DeliveryHolds` | `Spec => []DeliveryInvariant` |
| `NoTaskLost`, `ResolvedMeansDone` | every task given out is on its way to run; when the promise resolves, all have |
| `ExecutorImplementsPool` | `Spec => ImplementsPool`: the executor refines `KeyedTaskPool` |
| *`ExecutorCallersProofs`*, the iteration | |
| `IterationRunsTheExecutor` | `IterationSpec => Spec` |
| `IterationInvariantHolds`, `CoverageInvariantHolds` | the two inductive invariants of the iteration |
| `TotalLimitKept`, `UnchangedDocumentsOnce`, `QueriesDoNotOverlap` | the limit, the order, one query at a time |
| `UnchangedDocumentsCovered`, `CheckpointsAreBounded` | no document is passed over; repeated cursors cannot keep it going |
| *`ExecutorCallersProofs`*, the pages | |
| `FetchRunsTheExecutor` | `FetchSpec => Spec` |
| `PagesInvariantHolds` | `FetchSpec => []PagesInvariant` |
| `PagesFollowEachOther`, `EndsAtTheEnd`, `OvershootIsBounded` | the order of pages, where it ends, by how much a limit is passed |
| *`ExecutorCallersProofs`*, the retries | |
| `AsyncTasksRunTheExecutor` | `AsyncSpec => Spec` |
| `AsyncInvariantHolds` | `AsyncSpec => []AsyncInvariant` |
| `KeysKeptOverRetries`, `RejectionsHaveCauses`, `InputsReportedOnce`, `IndexesFollowCalls` | the four invariants of the run |
| *`ActionContextProofs`* | |
| `ActionInvariantHolds` | `Spec => []ActionInvariant` |
| `ActionTypeCorrect`, `TriggersWorkOnce`, `IdleStoreHasNoWork`, `StoreOutlivesWork` | the type invariant and the three safety invariants of the run |
| *`NewUserSetupProofs`* | |
| `SetupInvariantHolds` | `Spec => []SetupInvariant` |
| `ContextsKeepUpToDate`, `UpdatesLeaveOtherClaims`, `SetupContentThrottled` | an invariant and the two properties of steps of the run |
| *`ZohoTokensProofs`* | |
| `TokensInvariantHolds` | `Spec => []TokensInvariant` |
| `TokensAreAtHandHolds` | `Spec => []TokensAreAtHand` |
| `NoTokenGetsLost`, `NoStaleTokenIsReturned`, `NullComesFromAnotherCaller` | the two invariants and the property of steps of the run |
| *`CalendarSelectionProofs`* | |
| `SimplifiedCodesKeepTheirDays` | the simplified codes of a week stand for the days of the given ones |
| `CalendarInvariantHolds` | `Spec => []CalendarInvariant` |
| `TogglingChangesOneDay`, `SetIndexesBecomeSelected`, `SetValuesBecomeSelected` | the three invariants of the run: what an update selects |
| `ValueStandsForTheSelection` | the value put out stands for the selection, a property of steps |
| *`RateLimitedFetchProofs`* | |
| `LimiterInvariantHolds` | `Spec => []LimiterInvariant` |
| `RetriesComeLater` | the invariant of the run: in which period a retry lands |
| *`ItemPageIteratorProofs`* | |
| `IteratorInvariantHolds` | `Spec => []IteratorInvariant` |
| `PagesComeInSequence`, `NextPageReturnsItsPage` | the two invariants of the run: the order of pages, what a call returns |

**Assumptions.** Only those the modules name: there is at least one worker, key lists
are lists of keys, `NoTask` is no task and `None` neither a number, a request, a
record of tokens, a set of day codes, a filter, a value, the state of a page nor the
name of an observable, the filters, ranges and values
that are set are of days (`InputsAssumption`), there are finitely many documents, requests and services, limits are
numbers or absent (those of a rate limiter and a server are positive), at least one token was made and a token's life is longer than the
buffer. One theorem has a hypothesis of its own: `UnchangedDocumentsCovered` needs
`LastPlace < MaxSafeInteger`, since the code takes `MAX_SAFE_INTEGER` for "no limit" and
stops there. The bounds of the model (`TaskCount`, `MaxCalls`, `MaxTime` and the like)
are any numbers in the proofs. Each inductive invariant was checked with TLC on the
instance of its run before it was proved.

**The executor.** `KeyExclusion` is not inductive: that a key is free says
nothing unless the reserved keys are known to be those of the tasks held
(`ReservedKeysAreHeld`), and releasing the keys of one task is safe only if no
other held task shares one, taken but not yet started or failed ones included
(`HeldTasksAreApart`). `OneFactoryCallAtATime` needs that `isFulfillingTask` is set
while the factory is awaited (`FactoryCallIsFlagged`) and that a queued request is
that of one worker which waits for it (`QueueAgrees`), since serving the queue makes
the next worker call the factory. `HandsAgree` ties hands to stages. The conjunction
with the types is `ExecutorInvariant`; TLC checks it as an invariant of the run, and
the proof shows it kept by each of the actions.

**Delivery.** That no task is lost rests on where a task may be (`TasksAreParked`: one
that is neither taken, in the stack nor handed over is parked for *every* key it has) and
on what wakes it. It is not true that a parked task has a key that is reserved: another
one may have been moved for that key and been parked again for a second one. What is true
of each step is about groups (`NoTasksAreStuck`): take any tasks that are tied together by
keys, with all that are tied to them; then one of them is coming, or one has a key
that is reserved. The group of all untaken tasks gives the second part of
`NoTaskIsLost`. `ResolvedMeansAllCompleted` adds that workers finish last: as long as the
stack holds anything some worker will look at it again (`WorkersFinishLast`), so that when
all have finished nothing is coming, no key is reserved, and the group is empty.

**The pool.** `ImplementsPool` is proved step by step. The mapped state of a task is
read off the indexes, the sets and the workers; for each action there is a lemma that says
which task moves and that no other one does. Requests and parked tasks are stutters of
the pool, a task handed over and chosen is still waiting, and the step that resolves the
promise needs `ResolvedMeansAllCompleted`.

**Tasks that come singly.** Documents and pages share no keys and are given out one per
call. So a task goes straight to the worker that asked (`TasksComeSingly`), nothing is
ever parked, and a worker gets nothing only when the factory has answered null. The two
iterations rest on it.

**The iteration.** `IterationRunsTheExecutor` is a refinement with the identity
mapping: each step of the iteration is one of the executor or leaves it alone. So
`ExecutorInvariant` holds of it, and with it `OneFactoryCallAtATime`. That is what
the rest hangs on: as no other query ends between the computation of a limit or
cursor and the answer, `WithinTotalLimit` and `CursorAgrees` (the query in flight
starts at the current cursor; unchanged documents of earlier checkpoints are not
behind it) are kept, and `UnchangedDocumentsInOrder` follows from `CursorAgrees`
when a checkpoint is appended.

`CoverageInvariant` is for what the iteration does not pass over. Until the end every
checkpoint but an empty one leaves a cursor that was not met before when `handleRepeatCursor`
is false, of which there are no more than documents (`CheckpointsLeaveCursors`). Without
limits, every unchanged document up to the current cursor has been iterated
(`PlacesAreCovered`): what a query brings is everything between its cursor and that of its
last document, or everything behind it when it brings less than it asked for, which is
when the end is reached. And null, which is all that lets the promise resolve, is
answered only then (`NullMeansReachedEnd`).

**The pages.** One call of the factory at a time, so the page a call computed before its
await is still the one after the last page fetched when the answer arrives, and no other
step touches either (`PagesInSequence`). `ResolvesAtTheEnd` is what `NoPageMeansReachedEnd`
says once all workers have finished. For the limits the workers are counted that may
still add a page to the totals (`MayStillCount`): while there is room below the limit all
may, and after it was reached each gives up its place with the page it counts, so that the
total stays below the limit by a page for each of them, less those pages
(`LimitsOvershotByCounted`).

**The retries.** `AsyncTasksRunTheExecutor` is a refinement with the identity mapping,
too. `RetriesKeepTheirKeys` is then the executor's `HeldTasksAreApart`, given that a task
under way is one that a worker runs (`ProgressFollows`). For the report, tasks get their
numbers in the order in which they begin (`NumbersAreApart`), a result is stored at the
number of its task (`ResultsFollow`) and, once all have ended, at every number there is
one. That what is reported then contains each exactly once is a fact on filtered
sequences: `FlattenKeeps` says where the elements of the filter come from, with the least
number at which it would fail in place of an induction.

**The action.** `OneWorkPerTrigger` needs that a value not yet ready was not worked on
(`ValueIsNew`): `readyValue()` is taken only while the action is triggered, and the
last ready value is then an older one. `IdleMeansNothingUnderWay` needs that a triggered
action has no work under way (`NothingUnderWayBefore`), as it was idle when it was
triggered. `WorkEndsBeforeItsStore` is not inductive because the unlock is seen up to two
seconds before the store goes: `StoreWaitsForWork` says that from the moment it is seen
no work of an earlier trigger is under way and none can begin. It is kept because the
store's lock is one on its state: when it opens, the state is idle, and
`IdleMeansNothingUnderWay` applies.

**The users.** For `ContextsAreUpToDate`, a call that sets claims makes outdated what every
other context has kept, and the code has the context that made it forget what it kept. `UpdatesKeepOtherClaims` needs that what is about to be
set is the claims of now with the change (`PendingIsTheUpdate`), again unless somebody else
has set them. For `SetupContentIsThrottled`, the time of the last content is in the claims
or with the one request that is about to note it (`LastTimeIsNoted`); a request that sends
has seen claims that are not throttled (`SendersHaveChecked`), which are those of now or
outdated, and only requests that have sent note a time (`OnlySendersMark`).

**The tokens.** As long as no two callers are at the file at once, what a caller has read
of it is what it holds, and a token that neither the file nor a write under way has is with
a caller that is about to write it (`NothingOverlapped`, `ToBeHeld`). Each step either
leaves the file and the tokens alone, starts a write, ends one, or gives a caller a new
token. A write of a cache that reads the file first starts from what it has read; one that
keeps what it reads starts from memory, which is right only because such a cache has read
the file before any token is refreshed (`CacheIsRead`): `CheckExpiration` comes after
`LoadResolves`.

What a caller returns is another matter, as others change the shared variable while it
saves its token. `TokensAreAtHand` follows it: all that outlasts the buffer while a caller
waits is usable for it; and the current token of a service one of whose callers is saving
is usable for that caller, or was dropped by another one that retrieves the next. Four
steps of others can disturb that, and none does: a refresh makes a token that is new for
whoever waits; a token that is found at hand or in the file becomes the current one only if
it outlasts the buffer just then; one that does not is dropped by a caller that goes on to
refresh it (`CheckExpiration`), and one that fails to has thrown, and retrieves no less in
the sense of `Retrieves`. When that caller calls again, it either takes a token on or still
retrieves. `NoStaleTokenIsReturned` and `NullComesFromAnotherCaller` are the two halves of
this at the moment the write ends, whatever caches, failed writes, torn files and crashes
have done. That the token still outlasts the buffer when it is returned is not promised:
time passes while it is saved.

**The calendar.** The properties speak of what an update selects, which takes no history
but two facts: `CalendarInvariant` says that the state has its types, and that
`effectiveScheduleDays` are the days that were set or else the default ones (`DaysFollow`),
without which setting a value could leave other days of the week than its own. The rest is
about the functions, and for calendars of any length. `Chosen` are the indexes that a range
and toggled indexes stand for. The scan from the least to the greatest end finds them all,
once `isEnabledDay` was renewed (`ScanFindsAll`); so the other form to which
`WithSelection` brings the range and the toggled indexes selects the same days
(`ChosenIsSelected`), and `SetIsRetained` does that for a set. Each updater has a lemma by
which its result is a state that has been finalized (`IsFresh`), or neither the selection
nor the value has changed (`IsUpdateOf`). `FreshValueStands` then compares the value of
such a state with its days: offsets from its start, the days between the filter's start and
the first day, the days left out because of their weekday, and the simplified codes, by
`SimplifiedCodesKeepTheirDays`. The first attempt to prove `SetIndexesAreSelected` failed on
a filter and a range without a common day, which is now a case of 3.1 and of the run.

**The limiter.** That a request sent again finds the server in a later period is a fact
about four pieces of state that never see each other: the answer on its way, what the
limiter has made of it, the wait the limiter then gives, and the server's clock.
`RefusalStands` follows a refusal through them: the answer leaves nothing before the end
of the period; applied, it leaves the limiter enabled, with nothing remaining and a reset
at that end; in that state whoever waits for the limiter waits for the reset and changes
nothing, so other requests leave it as it is; and the wait is the rest of the period, which
`Tick` shortens together with the period. The invariant is given up only when the period ends
or another answer is applied (`overtaken`), which are the two ways out the property has.

**The iterator.** `PagesInSequence` follows from `NextPageFollows`: the next page is as many
as were loaded, which only a page that ends without an error changes, and that is the
page that was loading (`StatesAgree`). For `NextPageIsReturned`, a call that is certain to
load a page has its request at the head of the queue, or the page is loading already, until
it settles (`ExpectedIsComing`): nothing was under way when it was made, and requests that
arrive while the page is loading are dropped. When the page ends, all that wait are told in
the same stretch of code, and read the latest page, which is this one if
`latestPageResultState$` was subscribed to first (`LatestSeen`). A change of the limit ends
what is certain of a call, so nothing is claimed of it from there on.

The first section of `ParallelTasksProofs` states what the operators on sequences
preserve, among them that a set of numbers that is not empty has a least element, which is
what "the first candidate that may run" and "the first parked task" mean in the proofs.

**Only model-checked**: liveness (`ProducedTasksComplete`, `Settles`, `BegunTasksEnd`,
`ActionSettles`, `DestroyCompletes`, `RequestsEnd`, `NextPageSettles`), which is out of the
prover's reach, as is what a recursive function computes for every input. All other
properties of the passing runs are proved. One type is not: how long the exponential limiter
lets a request wait, since no prover knows powers; `LimiterInvariant` has the other
parts of `RateLimitedFetch`'s `TypeOK`. Some of the theorems are of invariants that no run
checks by themselves: the type invariants, `ReservedKeysAreHeld`, `OneFactoryCallAtATime`,
and the inductive invariants but `DeliveryInvariant`.

## 5. Plan

What is done is marked.

1. Executor, its pool, its proofs (done).
2. Checkpoint iteration composed with the executor, its proofs (done).
3. `AsyncTasks`: tries and backoff inside a running task (done).
4. `FetchPages` composed with the executor, the order proved (done).
5. `ActionContext`: store, getter, handler, work instance and lock sets, its proofs
   (done); the auto trigger and `isModified` on top of it: what is taken for saved.
6. `RateLimitedFetch`: the limiter of a Zoho client, with the update from headers (done).
7. `ZohoTokens` and `NewUserSetup`: concurrent callers and interruption between
   remote writes (done).
8. `ItemPageIterator` (done); `iteratorNextPageUntilPage()` and the accumulator;
   `ScheduleDays` and `CalendarSelection` (done), with the component that feeds back
   what is put out as the value.
9. Proofs: delivery, the pool refinement, `AsyncTasks`, the coverage of the iteration, the
   limits of pages, `NewUserSetup`, `ZohoTokens`, `CalendarSelection`, the iterator and
   the limiter (done): every safety property of the passing runs.

## 6. Not modelled

Time zones, date cell factories, indexed values, loading states and field conversions
are pure sequential functions over data; tests over data serve them better than a model
checker. Storage accessors, collection loaders, permissions, NestJS integrations,
analytics and the web and form directives pass calls on and keep little or no state
of their own. The demo applications and setup templates are examples. The
`Promise.all` path of `performTasksInParallelFunction` (no maximum, no key factory)
has no control of its own.
