--------------------------- MODULE ItemPageIterator ---------------------------
(***************************************************************************)
(* An instance of @dereekb/rxjs's ItemPageIterator: next() and nextPage()  *)
(* ask for the next page of a delegate, one page is loaded at a time, and  *)
(* observers follow the state.                                             *)
(*                                                                         *)
(* Observables hand a value to all their subscribers at once, so that an   *)
(* action is what happens from one event to the next: a call from outside, *)
(* the timer by which a request is delayed, the answer of the delegate.    *)
(* Subscribers of the state are served in the order in which they have     *)
(* subscribed, and that order is part of the model.  RxJS and the delegate,*)
(* whose observable emits before it completes, are external.               *)
(***************************************************************************)
EXTENDS Integers, Sequences

CONSTANTS
  Call,        \* the calls of nextPage()
  MaxPage,     \* bound: the last page, which is the end
  Requested,   \* bound: the pages that requests may name
  MaxNext,     \* bound: the requests
  MaxLimits,   \* bound: how often the limit is set
  None         \* null or undefined

ASSUME BoundsAssumption == MaxPage \in Nat /\ MaxNext \in Nat /\ MaxLimits \in Nat
ASSUME RequestedAssumption == Requested \subseteq 0..MaxPage
ASSUME NoneAssumption == None \notin Nat

Page == 0..MaxPage

Limit == 0..(MaxPage + 1)

Request == [retry : BOOLEAN, page : Requested \cup {None}]

\* A page's state: it is loading, or what has come of that.
Outcome == {"value", "end", "error"}

PageState == [page : Page, is : Outcome \cup {"loading"}]

\* None is told from what it stands in for.
ASSUME NothingAssumption == None \notin PageState \cup {"latest", "trigger"}

VARIABLES
  connected,  \* state$ has been subscribed to
  first,      \* what subscribed to it first, latestPageResultState$ or _nextTrigger$
  last,       \* the value of _next
  queue,      \* the requests that delay(0) holds
  current,    \* the current state,
  emitted,    \* whether state$ has emitted one,
  latest,     \* and that of the page that finished last
  limit,      \* _maxPageLoadLimit
  listening,  \* whether canLoadMore$ has heard of the limit: not yet, or it has, or it is
              \* too late and a request waits for it
  promise,    \* what each call of nextPage() waits for, or how it ended
  destroyed,
  nexts, limits,
  successes,  \* the pages that have been loaded without an error, in order
  expected    \* the page a call is to load, if that was certain when it was made

subscribers == <<connected, first>>
states == <<current, emitted, latest>>
vars == <<subscribers, last, queue, states, limit, listening, promise, destroyed, nexts, limits,
          successes, expected>>

NoRequest == [retry |-> FALSE, page |-> None]

Finished(s) == s # None /\ s.is # "loading"

IsError(s) == s # None /\ s.is = "error"

Loading == current # None /\ current.is = "loading"

-----------------------------------------------------------------------------
(* Whether and which page is loaded *)

\* A result without items is not told from others: the end is what says so.
isItemPageIteratorResultEndResult(s) == s # None /\ s.is = "end"

numberOfPagesLoaded == IF latest = None THEN 0 ELSE latest.page + 1

canLoadMore == limit # None => numberOfPagesLoaded < limit

hasNextAndCanLoadMore == canLoadMore /\ ~isItemPageIteratorResultEndResult(latest)

getNextPageNumber(s) == IF s = None THEN 0 ELSE s.page + 1

\* A page that ended in an error is the next one again.
nextIteratorPageNumber(s) == IF IsError(s) THEN s.page ELSE getNextPageNumber(s)

itemPageIteratorShouldLoadNextPage(request) ==
  /\ hasNextAndCanLoadMore
  /\ ~IsError(latest) \/ request.retry
  /\ request.page = None \/ request.page = nextIteratorPageNumber(latest)

-----------------------------------------------------------------------------
(* What nextPage() waits for, and what is emitted *)

Waiting == {"skipping", "waiting"}

Settled(s) ==
  IF IsError(s) THEN [is |-> "rejected", page |-> None] ELSE [is |-> "resolved", page |-> s.page]

\* The first state is skipped, which is the one that is replayed if there is one.
SubscribedWithReplay ==
  IF Finished(current) THEN Settled(latest) ELSE [is |-> "waiting", page |-> None]

Subscribed == [is |-> IF emitted THEN "waiting" ELSE "skipping", page |-> None]

\* The latest state that a call sees while state s is handed round.  When
\* _nextTrigger$ is served first, latestPageResultState$ still has the one before, if any.
LatestSeen(s) == IF first = "trigger" /\ latest # None THEN latest ELSE s

Told(p, s) ==
  CASE p.is = "skipping" -> [p EXCEPT !.is = "waiting"]
    [] p.is = "waiting" /\ Finished(s) -> Settled(LatestSeen(s))
    [] OTHER -> p

\* Once nothing can come any more, whoever waits gets -1, unless a request is not through.
Completes ==
  connected' /\ destroyed' /\ queue' = << >> /\ ~Loading' /\ listening' # "inVain"

Promises(ps) ==
  promise' = [c \in Call |->
    IF Completes /\ ps[c].is \in Waiting THEN [is |-> "resolved", page |-> -1] ELSE ps[c]]

Emit(s) ==
  /\ current' = s
  /\ emitted' = TRUE
  /\ latest' = IF Finished(s) THEN s ELSE latest
  /\ Promises([c \in Call |-> Told(promise[c], s)])

-----------------------------------------------------------------------------
(* Calls from outside *)

\* What the first subscriber gets from _next, unless it is complete.
Connected == IF connected THEN queue ELSE IF destroyed THEN << >> ELSE <<last>>

\* _pushNext(), when q has been delivered already.
PushNext(q, request) ==
  /\ nexts < MaxNext /\ nexts' = nexts + 1
  /\ last' = IF destroyed THEN last ELSE request
  /\ queue' = IF connected' /\ ~destroyed THEN Append(q, request) ELSE q

next(request) ==
  /\ UNCHANGED subscribers
  /\ PushNext(queue, request)
  /\ UNCHANGED <<states, limit, listening, promise, destroyed, limits, successes, expected>>

\* A subject that is complete tells its late subscribers nothing.
MayListen == listening = "notYet" /\ ~destroyed

\* Something subscribes to the state, maybe to the latest one, and with that maybe to
\* canLoadMore$.
Observe ==
  /\ ~connected \/ first = None \/ MayListen
  /\ connected' = TRUE
  /\ queue' = Connected
  /\ first' \in IF first = None THEN {None, "latest"} ELSE {first}
  /\ listening' \in IF MayListen /\ first' # None THEN {listening, "heard"} ELSE {listening}
  /\ UNCHANGED <<last, states, limit, promise, destroyed, nexts, limits, successes, expected>>

nextPage(c, request) ==
  /\ promise[c].is = "unmade"
  /\ connected' = TRUE
  /\ first' = IF first = None THEN "trigger" ELSE first
  /\ PushNext(Connected, request)
  /\ UNCHANGED <<states, limit, listening, destroyed, limits, successes>>
  /\ Promises([promise EXCEPT ![c] = Subscribed])
  /\ expected' = [expected EXCEPT ![c] =
       IF emitted /\ queue = << >> /\ ~Loading /\ ~destroyed
          /\ itemPageIteratorShouldLoadNextPage(request)
       THEN nextIteratorPageNumber(latest) ELSE None]

setMaxPageLoadLimit ==
  /\ limits < MaxLimits /\ limits' = limits + 1
  /\ limit' \in IF destroyed THEN {limit} ELSE Limit \cup {None}
  /\ expected' = [c \in Call |-> None]
  /\ UNCHANGED <<subscribers, last, queue, states, listening, promise, destroyed, nexts, successes>>

destroy ==
  /\ ~destroyed /\ destroyed' = TRUE
  /\ UNCHANGED <<subscribers, last, queue, states, limit, listening, nexts, limits, successes,
                 expected>>
  /\ Promises(promise)

-----------------------------------------------------------------------------
(* The pipeline of state$ *)

unchangedByStates == <<connected, last, limit, destroyed, nexts, limits, expected>>

\* exhaustMap() drops a request that arrives while another one is not through.
Drop ==
  /\ queue # << >> /\ (Loading \/ listening = "inVain")
  /\ queue' = Tail(queue)
  /\ UNCHANGED <<unchangedByStates, listening, first, states, promise, successes>>

\* The latest state is subscribed to when the first request arrives, at the latest, and
\* so is canLoadMore$.
Arrives ==
  /\ queue # << >> /\ ~Loading /\ listening # "inVain"
  /\ queue' = Tail(queue)
  /\ first' = IF first = None THEN "latest" ELSE first
  /\ listening' = IF listening = "notYet" /\ destroyed THEN "inVain" ELSE "heard"

\* After destroy() a first subscriber of canLoadMore$ is told nothing, and combineLatest()
\* neither emits nor ends.
RequestHangs ==
  /\ Arrives
  /\ listening' = "inVain"
  /\ UNCHANGED <<unchangedByStates, states, promise, successes>>

BeginPage ==
  /\ Arrives /\ listening' = "heard"
  /\ itemPageIteratorShouldLoadNextPage(Head(queue))
  /\ UNCHANGED <<unchangedByStates, successes>>
  /\ Emit([page |-> nextIteratorPageNumber(latest), is |-> "loading"])

EmitNothing == UNCHANGED states /\ Promises(promise)

ReplayLatest == Emit(latest)

RequestIsDenied ==
  /\ Arrives /\ listening' = "heard"
  /\ ~itemPageIteratorShouldLoadNextPage(Head(queue))
  /\ UNCHANGED <<unchangedByStates, successes>>
  /\ ReplayLatest

PageEnds ==
  /\ Loading
  /\ UNCHANGED <<unchangedByStates, listening, first, queue>>
  /\ \E o \in IF current.page = MaxPage THEN {"end", "error"} ELSE Outcome :
       /\ Emit([page |-> current.page, is |-> o])
       /\ successes' = IF o = "error" THEN successes ELSE Append(successes, current.page)

-----------------------------------------------------------------------------
(* The specification *)

Init ==
  /\ connected = FALSE /\ first = None
  /\ last = NoRequest /\ queue = << >>
  /\ current = None /\ emitted = FALSE /\ latest = None
  /\ limit \in Limit \cup {None} /\ listening = "notYet"
  /\ promise = [c \in Call |-> [is |-> "unmade", page |-> None]]
  /\ destroyed = FALSE
  /\ nexts = 0 /\ limits = 0
  /\ successes = << >>
  /\ expected = [c \in Call |-> None]

Pipeline == Drop \/ BeginPage \/ RequestIsDenied \/ RequestHangs

Next ==
  \/ \E r \in Request : next(r) \/ \E c \in Call : nextPage(c, r)
  \/ Observe \/ setMaxPageLoadLimit \/ destroy
  \/ Pipeline \/ PageEnds

Spec == Init /\ [][Next]_vars

\* Timers fire, and the delegate answers.
FairSpec == Spec /\ WF_vars(Pipeline) /\ WF_vars(PageEnds)

-----------------------------------------------------------------------------
(* Properties *)

\* The variables hold values of the kind the code declares them with; a call returns a
\* page, or -1 when nothing can come any more.
TypeOK ==
  /\ connected \in BOOLEAN /\ emitted \in BOOLEAN /\ destroyed \in BOOLEAN
  /\ first \in {None, "latest", "trigger"}
  /\ last \in Request /\ queue \in Seq(Request)
  /\ current \in PageState \cup {None} /\ latest \in PageState \cup {None}
  /\ limit \in Limit \cup {None} /\ listening \in {"notYet", "heard", "inVain"}
  /\ promise \in [Call -> [is : {"unmade", "resolved", "rejected"} \cup Waiting,
                            page : Page \cup {None, -1}]]
  /\ nexts \in 0..MaxNext /\ limits \in 0..MaxLimits
  /\ successes \in Seq(Page)
  /\ expected \in [Call -> Page \cup {None}]

\* The pages that are loaded without an error follow one another from the first: none
\* is left out, after an error either, and none comes twice, however requests, retries
\* and changes of the limit fall together.
PagesInSequence == \A i \in DOMAIN successes : successes[i] = i - 1

IsReturned(c) == promise[c].is = "resolved" /\ expected[c] # None

\* A call of nextPage() that finds nothing under way and may load a page returns that
\* page, if latestPageResultState$ has been subscribed to before it.
NextPageIsReturned ==
  \A c \in Call : first = "latest" /\ IsReturned(c) => promise[c].page = expected[c]

\* The state is the latest finished one, or loads the page that follows it; the last
\* page is an end, behind which nothing is loaded.
StatesAgree ==
  /\ emitted \/ Loading \/ queue # << >> => connected
  /\ emitted \/ Loading => listening = "heard"
  /\ latest # None => latest.is # "loading" /\ (latest.is = "value" => latest.page < MaxPage)
  /\ ~Loading => current = latest
  /\ Loading => /\ current.page = nextIteratorPageNumber(latest)
                /\ ~isItemPageIteratorResultEndResult(latest)

\* The next page is the one after those that were loaded.
NextPageFollows == nextIteratorPageNumber(latest) = Len(successes)

\* A call that is to load a page waits: its request is the next one, or the page is
\* loading.
ExpectedIsComing(c) ==
  /\ promise[c].is = "waiting"
  /\ \/ /\ ~Loading /\ queue # << >>
        /\ itemPageIteratorShouldLoadNextPage(Head(queue))
        /\ expected[c] = nextIteratorPageNumber(latest)
     \/ Loading /\ expected[c] = current.page

\* Only calls that were made expect a page, and as long as they are not settled it is
\* coming.
CallsAgree ==
  \A c \in Call :
    /\ promise[c].is # "unmade" => first # None
    /\ expected[c] # None => promise[c].is # "unmade" /\ listening = "heard"
    /\ expected[c] # None /\ promise[c].is \in Waiting => ExpectedIsComing(c)

\* The inductive invariant PagesInSequence and NextPageIsReturned rest on.
IteratorInvariant ==
  TypeOK /\ StatesAgree /\ NextPageFollows /\ CallsAgree /\ PagesInSequence /\ NextPageIsReturned

\* Once any page has finished, or destroy() was called after the limit has been heard of,
\* every call of nextPage() settles, also one whose request is denied or dropped.
NextPageSettles ==
  \A c \in Call :
    promise[c].is \in Waiting /\ (latest # None \/ (destroyed /\ listening = "heard"))
      ~> promise[c].is \notin Waiting
=============================================================================
