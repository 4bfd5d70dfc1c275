------------------------ MODULE ItemPageIteratorProofs ------------------------
(***************************************************************************)
(* What is proved of the item page iterator, for any number of pages,      *)
(* calls and requests: pages are loaded one after the other, and a call    *)
(* that is to load a page returns that page.                               *)
(***************************************************************************)
EXTENDS ItemPageIterator, SequenceTheorems, TLAPS

\* What a call of nextPage() has been told.
PromiseState ==
  [is : {"unmade", "resolved", "rejected"} \cup Waiting, page : Page \cup {None, -1}]

-----------------------------------------------------------------------------
(* What the operators return *)

\* A page that finishes is told from none.
LEMMA StatesAreSome ==
  ASSUME NEW s \in PageState
  PROVE  /\ s # None /\ s.page \in Page /\ s.is \in Outcome \cup {"loading"}
         /\ Finished(s) <=> s.is # "loading"
         /\ IsError(s) <=> s.is = "error"
<1>1. s # None
  BY NothingAssumption
<1> QED BY <1>1 DEF PageState, Finished, IsError

\* A page is a number, and what None stands for is none.
LEMMA PagesAreNumbers ==
  /\ Page \subseteq Nat /\ MaxPage \in Nat
  /\ None \notin Page /\ None # "latest" /\ None # "trigger"
BY BoundsAssumption, NoneAssumption, NothingAssumption DEF Page

\* What a call settles with is the page that has finished.
LEMMA SettledType ==
  ASSUME NEW s \in PageState
  PROVE  /\ Settled(s) \in PromiseState
         /\ Settled(s).is \in {"resolved", "rejected"}
         /\ Settled(s).is = "resolved" => Settled(s).page = s.page
BY StatesAreSome DEF Settled, PromiseState

\* The state that a call waits for moves it on, and a finished one settles it.
LEMMA ToldType ==
  ASSUME NEW p \in PromiseState, NEW s \in PageState \cup {None},
         latest \in PageState \cup {None}
  PROVE  /\ Told(p, s) \in PromiseState
         /\ p.is \notin Waiting => Told(p, s) = p
         /\ p.is = "waiting" /\ ~Finished(s) => Told(p, s) = p
         /\ p.is = "waiting" /\ Finished(s) => Told(p, s) = Settled(LatestSeen(s))
         /\ p.is = "skipping" => Told(p, s).is = "waiting"
<1>1. Finished(s) => s \in PageState
  BY DEF Finished
<1>2. Finished(s) => LatestSeen(s) \in PageState
  BY <1>1 DEF LatestSeen
<1>3. Finished(s) => Settled(LatestSeen(s)) \in PromiseState
  BY <1>2, SettledType
<1>4. p.is = "skipping" => [p EXCEPT !.is = "waiting"] \in PromiseState /\ [p EXCEPT !.is = "waiting"].is = "waiting"
  BY DEF PromiseState, Waiting
<1> QED BY <1>3, <1>4 DEF Told, Waiting, PromiseState

\* A call goes on as it would, or gets -1 when nothing can come any more.
LEMMA PromisesAre ==
  ASSUME NEW ps \in [Call -> PromiseState], Promises(ps)
  PROVE  /\ promise' \in [Call -> PromiseState]
         /\ \A c \in Call :
              promise'[c] = IF Completes /\ ps[c].is \in Waiting
                            THEN [is |-> "resolved", page |-> -1] ELSE ps[c]
<1>1. [is |-> "resolved", page |-> -1] \in PromiseState
  BY DEF PromiseState
<1> QED BY <1>1 DEF Promises

\* What a state that is emitted does to the states and to the calls.
LEMMA EmittedIs ==
  ASSUME NEW s \in PageState \cup {None}, Emit(s),
         latest \in PageState \cup {None}, promise \in [Call -> PromiseState]
  PROVE  /\ current' = s /\ emitted' = TRUE
         /\ latest' = IF Finished(s) THEN s ELSE latest
         /\ latest' \in PageState \cup {None}
         /\ promise' \in [Call -> PromiseState]
         /\ \A c \in Call :
              promise'[c] = IF Completes /\ Told(promise[c], s).is \in Waiting
                            THEN [is |-> "resolved", page |-> -1] ELSE Told(promise[c], s)
<1> DEFINE ps == [c \in Call |-> Told(promise[c], s)]
<1>1. ps \in [Call -> PromiseState]
  BY ToldType
<1>2. Promises(ps)
  BY DEF Emit
<1>3. \A c \in Call : ps[c] = Told(promise[c], s)
  OBVIOUS
<1> HIDE DEF ps
<1>4. /\ promise' \in [Call -> PromiseState]
      /\ \A c \in Call :
           promise'[c] = IF Completes /\ ps[c].is \in Waiting
                         THEN [is |-> "resolved", page |-> -1] ELSE ps[c]
  BY <1>1, <1>2, PromisesAre
<1>5. current' = s /\ emitted' = TRUE /\ latest' = IF Finished(s) THEN s ELSE latest
  BY DEF Emit
<1> QED BY <1>3, <1>4, <1>5

\* The next page is a number, and one there is as long as the end has not been reached.
LEMMA NextPageType ==
  ASSUME latest \in PageState \cup {None}, StatesAgree
  PROVE  /\ nextIteratorPageNumber(latest) \in Nat
         /\ hasNextAndCanLoadMore => nextIteratorPageNumber(latest) \in Page
<1>1. CASE latest = None
  BY <1>1, PagesAreNumbers DEF nextIteratorPageNumber, getNextPageNumber, IsError, Page
<1>2. CASE latest # None
  <2>1. latest \in PageState /\ latest.page \in Page /\ latest.is \in Outcome
    BY <1>2, StatesAreSome DEF StatesAgree
  <2>2. hasNextAndCanLoadMore => latest.is # "end"
    BY <1>2 DEF hasNextAndCanLoadMore, isItemPageIteratorResultEndResult
  <2>3. latest.is = "value" => latest.page < MaxPage
    BY <1>2 DEF StatesAgree
  <2> QED BY <1>2, <2>1, <2>2, <2>3, PagesAreNumbers
            DEF nextIteratorPageNumber, getNextPageNumber, IsError, Page, Outcome
<1> QED BY <1>1, <1>2

-----------------------------------------------------------------------------
(* Requests *)

\* A request that arrives is put behind those that are held.
LEMMA RequestIsPushed ==
  ASSUME NEW q \in Seq(Request), NEW request \in Request, PushNext(q, request),
         TypeOK, connected' \in BOOLEAN
  PROVE  /\ last' \in Request /\ queue' \in Seq(Request) /\ nexts' \in 0..MaxNext
         /\ q # << >> => queue' # << >> /\ Head(queue') = Head(q)
         /\ q # << >> \/ queue' = << >> \/ connected'
         /\ q = << >> /\ connected' /\ ~destroyed => queue' # << >> /\ Head(queue') = request
<1>1. nexts' \in 0..MaxNext
  BY BoundsAssumption DEF PushNext, TypeOK
<1>2. last' \in Request
  BY DEF PushNext, TypeOK
<1>3. /\ Append(q, request) \in Seq(Request) /\ Append(q, request) # << >>
      /\ q # << >> => Head(Append(q, request)) = Head(q)
      /\ q = << >> => Head(Append(q, request)) = request
  OBVIOUS
<1> QED BY <1>1, <1>2, <1>3 DEF PushNext

\* What holds of the states and the pages goes on holding while they are left alone.
LEMMA StatesAreKept ==
  ASSUME IteratorInvariant, UNCHANGED <<states, successes>>,
         connected => connected', queue' # << >> => connected',
         listening = "heard" => listening' = "heard"
  PROVE  /\ StatesAgree' /\ NextPageFollows' /\ PagesInSequence'
         /\ nextIteratorPageNumber(latest)' = nextIteratorPageNumber(latest)
         /\ Loading' <=> Loading
<1>1. nextIteratorPageNumber(latest)' = nextIteratorPageNumber(latest)
  BY DEF states, nextIteratorPageNumber, getNextPageNumber, IsError
<1>2. Loading' <=> Loading
  BY DEF states, Loading
<1> QED BY <1>1, <1>2
          DEF IteratorInvariant, states, StatesAgree, NextPageFollows, PagesInSequence,
              isItemPageIteratorResultEndResult

\* A call that is to load a page goes on waiting for it while the states, the limit and
\* the first request that is held stay.
LEMMA ExpectedIsKept ==
  ASSUME IteratorInvariant, UNCHANGED <<states, successes, limit>>,
         connected => connected', queue' # << >> => connected',
         listening = "heard" => listening' = "heard",
         queue # << >> => queue' # << >> /\ Head(queue') = Head(queue),
         NEW c \in Call, ExpectedIsComing(c),
         promise'[c] = promise[c], expected'[c] = expected[c]
  PROVE  ExpectedIsComing(c)' /\ ~(queue' = << >> /\ ~Loading')
<1>1. /\ nextIteratorPageNumber(latest)' = nextIteratorPageNumber(latest)
      /\ Loading' <=> Loading
  BY StatesAreKept
<1>2. ASSUME queue # << >>
      PROVE  itemPageIteratorShouldLoadNextPage(Head(queue))'
               <=> itemPageIteratorShouldLoadNextPage(Head(queue))
  BY <1>1, <1>2
     DEF states, itemPageIteratorShouldLoadNextPage, hasNextAndCanLoadMore, canLoadMore, numberOfPagesLoaded,
         isItemPageIteratorResultEndResult, IsError
<1> QED BY <1>1, <1>2 DEF ExpectedIsComing, states

\* next() keeps the invariant.
LEMMA NextIsKept ==
  ASSUME IteratorInvariant, NEW request \in Request, next(request)
  PROVE  IteratorInvariant'
<1> USE DEF IteratorInvariant
<1>1. /\ UNCHANGED <<connected, first, current, emitted, latest, limit, listening, promise,
                       destroyed, limits, successes, expected>>
      /\ PushNext(queue, request)
  BY DEF next, subscribers, states
<1>2. /\ last' \in Request /\ queue' \in Seq(Request) /\ nexts' \in 0..MaxNext
      /\ queue # << >> => queue' # << >> /\ Head(queue') = Head(queue)
      /\ connected => connected'
      /\ queue' # << >> => connected'
  BY <1>1, RequestIsPushed DEF TypeOK, StatesAgree
<1>3. TypeOK'
  BY <1>1, <1>2 DEF TypeOK
<1>4. StatesAgree' /\ NextPageFollows' /\ PagesInSequence'
  BY <1>1, <1>2, StatesAreKept DEF states, StatesAgree
<1>5. CallsAgree'
  <2>1. ASSUME NEW c \in Call, ExpectedIsComing(c) PROVE ExpectedIsComing(c)'
    BY <1>1, <1>2, <2>1, ExpectedIsKept DEF states
  <2> QED BY <1>1, <2>1 DEF CallsAgree
<1>6. NextPageIsReturned'
  BY <1>1 DEF NextPageIsReturned, IsReturned
<1> QED BY <1>3, <1>4, <1>5, <1>6

\* An observer that subscribes keeps it.
LEMMA ObserveIsKept ==
  ASSUME IteratorInvariant, Observe
  PROVE  IteratorInvariant'
<1> USE DEF IteratorInvariant
<1>1. /\ UNCHANGED <<last, current, emitted, latest, limit, promise, destroyed, nexts,
                       limits, successes, expected>>
      /\ connected' = TRUE /\ queue' = Connected
      /\ first' \in IF first = None THEN {None, "latest"} ELSE {first}
      /\ listening' \in {listening, "heard"}
  BY DEF Observe, states
<1>2. queue' \in Seq(Request) /\ (connected => queue' = queue)
  BY <1>1 DEF Connected, TypeOK
<1>3. TypeOK'
  BY <1>1, <1>2 DEF TypeOK
<1>4. StatesAgree' /\ NextPageFollows' /\ PagesInSequence'
  BY <1>1, <1>2, StatesAreKept DEF states, StatesAgree
<1>5. CallsAgree'
  <2>1. ASSUME NEW c \in Call, ExpectedIsComing(c) PROVE ExpectedIsComing(c)'
    <3>1. queue # << >> => queue' # << >> /\ Head(queue') = Head(queue)
      BY <1>2 DEF StatesAgree
    <3> QED BY <1>1, <2>1, <3>1, ExpectedIsKept DEF states
  <2> QED BY <1>1, <2>1, PagesAreNumbers DEF CallsAgree
<1>6. NextPageIsReturned'
  <2>1. first' = first \/ \A c \in Call : promise[c].is = "unmade"
    BY <1>1 DEF CallsAgree
  <2> QED BY <1>1, <2>1 DEF NextPageIsReturned, IsReturned
<1> QED BY <1>3, <1>4, <1>5, <1>6

\* Setting the limit keeps it: which page a call is to load is not certain any more.
LEMMA LimitIsKept ==
  ASSUME IteratorInvariant, setMaxPageLoadLimit
  PROVE  IteratorInvariant'
<1> USE DEF IteratorInvariant
<1>1. /\ UNCHANGED <<connected, first, last, queue, current, emitted, latest, listening,
                       promise, destroyed, nexts, successes>>
      /\ limits < MaxLimits /\ limits' = limits + 1
      /\ limit' \in Limit \cup {None} \cup {limit}
      /\ expected' = [c \in Call |-> None]
  BY DEF setMaxPageLoadLimit, subscribers, states
<1>2. TypeOK'
  BY <1>1, BoundsAssumption DEF TypeOK
<1>3. StatesAgree' /\ NextPageFollows' /\ PagesInSequence'
  BY <1>1, <1>2, StatesAreKept DEF states, StatesAgree
<1>4. CallsAgree' /\ NextPageIsReturned'
  BY <1>1 DEF CallsAgree, NextPageIsReturned, IsReturned
<1> QED BY <1>2, <1>3, <1>4

\* destroy() keeps it: a page that a call is to load is loaded all the same.
LEMMA DestroyIsKept ==
  ASSUME IteratorInvariant, destroy
  PROVE  IteratorInvariant'
<1> USE DEF IteratorInvariant
<1>1. /\ UNCHANGED <<connected, first, last, queue, current, emitted, latest, limit,
                       listening, nexts, limits, successes, expected>>
      /\ destroyed' = TRUE /\ Promises(promise)
  BY DEF destroy, subscribers, states
<1>2. /\ promise' \in [Call -> PromiseState]
      /\ \A c \in Call :
           promise'[c] = IF Completes /\ promise[c].is \in Waiting
                         THEN [is |-> "resolved", page |-> -1] ELSE promise[c]
  BY <1>1, PromisesAre DEF TypeOK, PromiseState
<1>3. TypeOK'
  BY <1>1, <1>2 DEF TypeOK, PromiseState
<1>4. StatesAgree' /\ NextPageFollows' /\ PagesInSequence' /\ (Loading' <=> Loading)
  BY <1>1, <1>2, StatesAreKept DEF states, StatesAgree
<1>5. ASSUME NEW c \in Call, expected[c] # None
      PROVE  promise'[c] = promise[c] /\ (promise[c].is \in Waiting => ExpectedIsComing(c)')
  <2>1. CASE promise[c].is \in Waiting
    <3>1. ExpectedIsComing(c)
      BY <1>5, <2>1 DEF CallsAgree
    <3>2. ~Completes
      BY <1>1, <1>4, <3>1 DEF Completes, ExpectedIsComing
    <3>3. promise'[c] = promise[c]
      BY <1>2, <3>2
    <3> QED BY <1>1, <3>1, <3>3, ExpectedIsKept DEF states, StatesAgree
  <2> QED BY <1>2, <2>1
<1>6. CallsAgree'
  <2>1. \A c \in Call : promise'[c].is # "unmade" => promise[c].is # "unmade"
    BY <1>2 DEF Waiting
  <2> QED BY <1>1, <1>5, <2>1 DEF CallsAgree
<1>7. NextPageIsReturned'
  BY <1>1, <1>5 DEF NextPageIsReturned, IsReturned
<1> QED BY <1>3, <1>4, <1>6, <1>7

\* nextPage() keeps it: a call that finds nothing under way is the next one to be served.
LEMMA NextPageIsKept ==
  ASSUME IteratorInvariant, NEW c \in Call, NEW request \in Request, nextPage(c, request)
  PROVE  IteratorInvariant'
<1> USE DEF IteratorInvariant
<1> DEFINE certain == emitted /\ queue = << >> /\ ~Loading /\ ~destroyed
                      /\ itemPageIteratorShouldLoadNextPage(request)
           ps == [promise EXCEPT ![c] = Subscribed]
<1>1. /\ UNCHANGED <<current, emitted, latest, limit, listening, destroyed, limits, successes>>
      /\ promise[c].is = "unmade" /\ connected' = TRUE
      /\ first' = IF first = None THEN "trigger" ELSE first
      /\ PushNext(Connected, request) /\ Promises(ps)
      /\ expected' = [expected EXCEPT ![c] = IF certain THEN nextIteratorPageNumber(latest) ELSE None]
  BY DEF nextPage, states
<1>2. Connected \in Seq(Request) /\ (emitted \/ queue # << >> => Connected = queue)
  BY DEF Connected, TypeOK, StatesAgree
<1>3. /\ last' \in Request /\ queue' \in Seq(Request) /\ nexts' \in 0..MaxNext
      /\ queue # << >> => queue' # << >> /\ Head(queue') = Head(queue)
      /\ certain => queue' # << >> /\ Head(queue') = request
  BY <1>1, <1>2, RequestIsPushed
<1>4. Subscribed \in PromiseState /\ Subscribed.is \in Waiting /\ (emitted => Subscribed.is = "waiting")
  BY DEF Subscribed, PromiseState, Waiting
<1>5. ps \in [Call -> PromiseState] /\ \A d \in Call : ps[d] = IF d = c THEN Subscribed ELSE promise[d]
  BY <1>4 DEF TypeOK, PromiseState
<1>6. /\ expected' \in [Call -> Page \cup {None}]
      /\ \A d \in Call : d # c => expected'[d] = expected[d]
      /\ expected'[c] = IF certain THEN nextIteratorPageNumber(latest) ELSE None
  <2>1. certain => nextIteratorPageNumber(latest) \in Page
    BY NextPageType DEF TypeOK, itemPageIteratorShouldLoadNextPage
  <2> QED BY <1>1, <2>1 DEF TypeOK
<1> HIDE DEF certain, ps
<1>7. /\ promise' \in [Call -> PromiseState]
      /\ \A d \in Call : promise'[d] = IF Completes /\ ps[d].is \in Waiting
                                      THEN [is |-> "resolved", page |-> -1] ELSE ps[d]
  BY <1>1, <1>5, PromisesAre
<1>8. TypeOK'
  BY <1>1, <1>3, <1>6, <1>7 DEF TypeOK, PromiseState
<1>9. /\ StatesAgree' /\ NextPageFollows' /\ PagesInSequence' /\ (Loading' <=> Loading)
      /\ nextIteratorPageNumber(latest)' = nextIteratorPageNumber(latest)
  BY <1>1, StatesAreKept DEF states
<1>10. ASSUME NEW d \in Call, d # c, expected[d] # None
       PROVE  promise'[d] = promise[d] /\ (promise[d].is \in Waiting => ExpectedIsComing(d)')
  <2>1. CASE promise[d].is \in Waiting
    <3>1. ExpectedIsComing(d)
      BY <1>10, <2>1 DEF CallsAgree
    <3>2. ~Completes
      BY <1>3, <1>9, <3>1 DEF Completes, ExpectedIsComing
    <3>3. promise'[d] = promise[d]
      BY <1>5, <1>7, <1>10, <3>2
    <3> QED BY <1>1, <1>3, <1>6, <1>10, <3>1, <3>3, ExpectedIsKept DEF states
  <2> QED BY <1>5, <1>7, <1>10, <2>1
<1>11. promise'[c].is # "unmade"
  BY <1>4, <1>5, <1>7 DEF Waiting
<1>12. ASSUME certain
       PROVE  ExpectedIsComing(c)'
  <2>1. queue' # << >> /\ Head(queue') = request /\ ~Loading'
    BY <1>3, <1>9, <1>12 DEF certain
  <2>2. promise'[c].is = "waiting"
    BY <1>4, <1>5, <1>7, <1>12, <2>1 DEF certain, Completes
  <2>3. itemPageIteratorShouldLoadNextPage(request)'
    BY <1>1, <1>9, <1>12
       DEF certain, itemPageIteratorShouldLoadNextPage, hasNextAndCanLoadMore, canLoadMore, numberOfPagesLoaded,
           isItemPageIteratorResultEndResult, IsError
  <2>4. expected'[c] = nextIteratorPageNumber(latest)'
    BY <1>6, <1>9, <1>12
  <2> QED BY <2>1, <2>2, <2>3, <2>4 DEF ExpectedIsComing
<1>13. first' # None
  BY <1>1, PagesAreNumbers
<1>14. CallsAgree'
  <2>1. ASSUME NEW d \in Call
        PROVE  /\ expected'[d] # None => promise'[d].is # "unmade" /\ listening' = "heard"
               /\ expected'[d] # None /\ promise'[d].is \in Waiting => ExpectedIsComing(d)'
    <3>1. CASE d = c
      BY <1>1, <1>6, <1>11, <1>12, <3>1 DEF StatesAgree, certain
    <3>2. CASE d # c /\ expected[d] # None
      BY <1>1, <1>6, <1>10, <3>2 DEF CallsAgree
    <3>3. CASE d # c /\ expected[d] = None
      BY <1>6, <3>3
    <3> QED BY <3>1, <3>2, <3>3
  <2> QED BY <1>13, <2>1 DEF CallsAgree
<1>15. NextPageIsReturned'
  <2>1. ASSUME NEW d \in Call, first' = "latest", promise'[d].is = "resolved", expected'[d] # None
        PROVE  promise'[d].page = expected'[d]
    <3>1. first = "latest"
      BY <1>1, <2>1
    <3>2. d # c
      BY <1>6, <1>12, <2>1 DEF ExpectedIsComing
    <3>3. promise'[d] = promise[d] /\ expected'[d] = expected[d]
      BY <1>6, <1>10, <2>1, <3>2
    <3> QED BY <2>1, <3>1, <3>3 DEF NextPageIsReturned, IsReturned
  <2> QED BY <2>1 DEF NextPageIsReturned, IsReturned
<1> QED BY <1>8, <1>9, <1>14, <1>15

-----------------------------------------------------------------------------
(* The pipeline *)

\* Dropping a request keeps it: none that a call waits for is dropped.
LEMMA DropIsKept ==
  ASSUME IteratorInvariant, Drop
  PROVE  IteratorInvariant'
<1> USE DEF IteratorInvariant
<1>1. /\ UNCHANGED <<connected, first, last, current, emitted, latest, limit, listening, promise,
                       destroyed, nexts, limits, successes, expected>>
      /\ queue # << >> /\ (Loading \/ listening = "inVain") /\ queue' = Tail(queue)
  BY DEF Drop, unchangedByStates, states
<1>2. queue' \in Seq(Request) /\ connected'
  BY <1>1 DEF TypeOK, StatesAgree
<1>3. TypeOK'
  BY <1>1, <1>2 DEF TypeOK
<1>4. StatesAgree' /\ NextPageFollows' /\ PagesInSequence' /\ (Loading' <=> Loading)
  BY <1>1, <1>2, StatesAreKept DEF states
<1>5. CallsAgree'
  <2>1. ASSUME NEW c \in Call, expected[c] # None, ExpectedIsComing(c)
        PROVE  ExpectedIsComing(c)'
    <3>1. Loading
      BY <1>1, <2>1 DEF CallsAgree
    <3> QED BY <1>1, <1>4, <2>1, <3>1 DEF ExpectedIsComing
  <2> QED BY <1>1, <2>1 DEF CallsAgree
<1>6. NextPageIsReturned'
  BY <1>1 DEF NextPageIsReturned, IsReturned
<1> QED BY <1>3, <1>4, <1>5, <1>6

\* What a request that arrives does: the calls that are to load a page stay as they are.
LEMMA ArrivalIs ==
  ASSUME IteratorInvariant, Arrives
  PROVE  /\ queue' \in Seq(Request) /\ Head(queue) \in Request /\ connected
         /\ first' \in {"latest", "trigger"}
         /\ first' = first \/ \A c \in Call : promise[c].is = "unmade" /\ expected[c] = None
BY PagesAreNumbers DEF IteratorInvariant, Arrives, TypeOK, StatesAgree, CallsAgree

\* A request that waits for the limit in vain keeps it: no call is to load a page then.
LEMMA HangingIsKept ==
  ASSUME IteratorInvariant, RequestHangs
  PROVE  IteratorInvariant'
<1> USE DEF IteratorInvariant
<1>1. /\ UNCHANGED <<connected, last, current, emitted, latest, limit, promise, destroyed,
                       nexts, limits, successes, expected>>
      /\ Arrives /\ listening # "heard" /\ listening' = "inVain"
  BY DEF RequestHangs, Arrives, unchangedByStates, states
<1>2. /\ queue' \in Seq(Request) /\ connected
      /\ first' \in {"latest", "trigger"}
      /\ first' = first \/ \A c \in Call : promise[c].is = "unmade" /\ expected[c] = None
  BY <1>1, ArrivalIs
<1>3. TypeOK'
  BY <1>1, <1>2 DEF TypeOK
<1>4. StatesAgree' /\ NextPageFollows' /\ PagesInSequence'
  BY <1>1, <1>2, StatesAreKept DEF states
<1>5. \A c \in Call : expected'[c] = None
  BY <1>1 DEF CallsAgree
<1>6. CallsAgree' /\ NextPageIsReturned'
  BY <1>1, <1>2, <1>5, PagesAreNumbers DEF CallsAgree, NextPageIsReturned, IsReturned
<1> QED BY <1>3, <1>4, <1>6

\* Loading the next page keeps it.
LEMMA BeginPageIsKept ==
  ASSUME IteratorInvariant, BeginPage
  PROVE  IteratorInvariant'
<1> USE DEF IteratorInvariant
<1> DEFINE s == [page |-> nextIteratorPageNumber(latest), is |-> "loading"]
<1>1. /\ UNCHANGED <<connected, last, limit, destroyed, nexts, limits, successes, expected>>
      /\ Arrives /\ itemPageIteratorShouldLoadNextPage(Head(queue)) /\ Emit(s)
      /\ listening' = "heard"
  BY DEF BeginPage, unchangedByStates
<1>2. /\ queue' \in Seq(Request) /\ connected
      /\ first' \in {"latest", "trigger"}
      /\ first' = first \/ \A c \in Call : promise[c].is = "unmade" /\ expected[c] = None
  BY <1>1, ArrivalIs
<1>3. nextIteratorPageNumber(latest) \in Page /\ ~isItemPageIteratorResultEndResult(latest)
  BY <1>1, NextPageType DEF TypeOK, itemPageIteratorShouldLoadNextPage, hasNextAndCanLoadMore
<1>4. s \in PageState /\ s.page = nextIteratorPageNumber(latest) /\ s.is = "loading"
  BY <1>3 DEF PageState
<1> HIDE DEF s
<1>5. ~Finished(s) /\ s # None
  BY <1>4, StatesAreSome
<1>6. /\ current' = s /\ emitted' = TRUE /\ latest' = latest
      /\ promise' \in [Call -> PromiseState]
      /\ \A c \in Call :
           promise'[c] = IF Completes /\ Told(promise[c], s).is \in Waiting
                         THEN [is |-> "resolved", page |-> -1] ELSE Told(promise[c], s)
  BY <1>1, <1>4, <1>5, EmittedIs DEF TypeOK, PromiseState
<1>7. Loading' /\ ~Loading
  BY <1>1, <1>4, <1>5, <1>6 DEF Loading, Arrives
<1>8. nextIteratorPageNumber(latest)' = nextIteratorPageNumber(latest)
  BY <1>6 DEF nextIteratorPageNumber, getNextPageNumber, IsError
<1>9. TypeOK'
  BY <1>1, <1>2, <1>4, <1>6 DEF TypeOK, PromiseState
<1>10. StatesAgree'
  BY <1>1, <1>2, <1>3, <1>4, <1>6, <1>7, <1>8 DEF StatesAgree, isItemPageIteratorResultEndResult
<1>11. NextPageFollows' /\ PagesInSequence'
  BY <1>1, <1>8 DEF NextPageFollows, PagesInSequence
<1>12. ASSUME NEW c \in Call
       PROVE  promise'[c] = promise[c] \/ (promise[c].is = "skipping" /\ promise'[c].is = "waiting")
  <2>1. promise[c] \in PromiseState
    BY DEF TypeOK, PromiseState
  <2>2. promise'[c] = Told(promise[c], s)
    BY <1>6, <1>7 DEF Completes
  <2> QED BY <1>4, <1>5, <2>1, <2>2, ToldType DEF TypeOK, Waiting, Told
<1>13. ASSUME NEW c \in Call, ExpectedIsComing(c)
       PROVE  ExpectedIsComing(c)'
  BY <1>1, <1>4, <1>6, <1>7, <1>12, <1>13 DEF ExpectedIsComing
<1>14. CallsAgree'
  BY <1>1, <1>2, <1>12, <1>13, PagesAreNumbers DEF CallsAgree, Waiting
<1>15. NextPageIsReturned'
  BY <1>1, <1>2, <1>12 DEF NextPageIsReturned, IsReturned
<1> QED BY <1>9, <1>10, <1>11, <1>14, <1>15

\* Denying a request keeps it: no call that is to load a page waits for that one.
LEMMA DenialIsKept ==
  ASSUME IteratorInvariant, RequestIsDenied
  PROVE  IteratorInvariant'
<1> USE DEF IteratorInvariant
<1>1. /\ UNCHANGED <<connected, last, limit, destroyed, nexts, limits, successes, expected>>
      /\ Arrives /\ ~itemPageIteratorShouldLoadNextPage(Head(queue)) /\ Emit(latest)
      /\ listening' = "heard"
  BY DEF RequestIsDenied, ReplayLatest, unchangedByStates
<1>2. /\ queue' \in Seq(Request) /\ connected
      /\ first' \in {"latest", "trigger"}
      /\ first' = first \/ \A c \in Call : promise[c].is = "unmade" /\ expected[c] = None
  BY <1>1, ArrivalIs
<1>3. /\ current' = latest /\ emitted' = TRUE /\ latest' = latest
      /\ promise' \in [Call -> PromiseState]
      /\ \A c \in Call :
           promise'[c] = IF Completes /\ Told(promise[c], latest).is \in Waiting
                         THEN [is |-> "resolved", page |-> -1] ELSE Told(promise[c], latest)
  BY <1>1, EmittedIs DEF TypeOK, PromiseState
<1>4. ~Loading' /\ ~Loading
  BY <1>1, <1>3 DEF Loading, Arrives, StatesAgree
<1>5. nextIteratorPageNumber(latest)' = nextIteratorPageNumber(latest)
  BY <1>3 DEF nextIteratorPageNumber, getNextPageNumber, IsError
<1>6. TypeOK'
  BY <1>1, <1>2, <1>3 DEF TypeOK, PromiseState
<1>7. StatesAgree'
  BY <1>1, <1>2, <1>3, <1>4 DEF StatesAgree
<1>8. NextPageFollows' /\ PagesInSequence'
  BY <1>1, <1>5 DEF NextPageFollows, PagesInSequence
<1>9. ASSUME NEW c \in Call, expected[c] # None
      PROVE  promise[c].is \notin Waiting /\ promise'[c] = promise[c]
  <2>1. promise[c] \in PromiseState
    BY DEF TypeOK, PromiseState
  <2>2. promise[c].is \notin Waiting
    BY <1>1, <1>4, <1>9 DEF CallsAgree, ExpectedIsComing
  <2>3. Told(promise[c], latest) = promise[c]
    BY <2>1, <2>2, ToldType DEF TypeOK
  <2> QED BY <1>3, <2>2, <2>3
<1>10. CallsAgree'
  <2>1. ASSUME NEW c \in Call, expected'[c] # None
        PROVE  promise'[c].is # "unmade" /\ promise'[c].is \notin Waiting
    BY <1>1, <1>9, <2>1 DEF CallsAgree
  <2> QED BY <1>1, <1>2, <2>1, PagesAreNumbers DEF CallsAgree
<1>11. NextPageIsReturned'
  <2>1. ASSUME NEW c \in Call, first' = "latest", expected'[c] # None, promise'[c].is = "resolved"
        PROVE  promise'[c].page = expected'[c]
    BY <1>1, <1>2, <1>9, <2>1 DEF NextPageIsReturned, IsReturned
  <2> QED BY <2>1 DEF NextPageIsReturned, IsReturned
<1> QED BY <1>6, <1>7, <1>8, <1>10, <1>11

\* The end of a page keeps it: the page is the next one, and is what the calls that wait for
\* it return.
LEMMA PageEndIsKept ==
  ASSUME IteratorInvariant, PageEnds
  PROVE  IteratorInvariant'
<1> USE DEF IteratorInvariant
<1>1. /\ UNCHANGED <<connected, first, last, queue, limit, listening, destroyed, nexts, limits,
                       expected>>
      /\ Loading /\ listening' = "heard"
  BY DEF PageEnds, unchangedByStates, StatesAgree
<1>2. PICK o \in Outcome :
        /\ current.page = MaxPage => o # "value"
        /\ Emit([page |-> current.page, is |-> o])
        /\ successes' = IF o = "error" THEN successes ELSE Append(successes, current.page)
  BY DEF PageEnds, Outcome
<1> DEFINE s == [page |-> current.page, is |-> o]
<1>3. /\ current \in PageState /\ current.page \in Page
      /\ current.page = Len(successes)
  BY <1>1, StatesAreSome DEF Loading, TypeOK, StatesAgree, NextPageFollows
<1>4. s \in PageState /\ s.page = current.page /\ s.is = o
  BY <1>3 DEF PageState
<1>5. Emit(s)
  BY <1>2
<1> HIDE DEF s
<1>6. s # None /\ Finished(s) /\ (IsError(s) <=> o = "error") /\ s.is # "loading"
  BY <1>4, StatesAreSome DEF Outcome
<1>7. /\ current' = s /\ emitted' = TRUE /\ latest' = s
      /\ promise' \in [Call -> PromiseState]
      /\ \A c \in Call :
           promise'[c] = IF Completes /\ Told(promise[c], s).is \in Waiting
                         THEN [is |-> "resolved", page |-> -1] ELSE Told(promise[c], s)
  BY <1>4, <1>5, <1>6, EmittedIs DEF TypeOK, PromiseState
<1>8. ~Loading'
  BY <1>6, <1>7 DEF Loading
<1>9. successes' \in Seq(Page) /\ Len(successes') = IF o = "error" THEN current.page ELSE current.page + 1
  BY <1>2, <1>3 DEF TypeOK
<1>10. TypeOK'
  BY <1>1, <1>4, <1>7, <1>9 DEF TypeOK, PromiseState
<1>11. StatesAgree'
  <2>1. o = "value" => current.page < MaxPage
    BY <1>2, <1>3, PagesAreNumbers DEF Page
  <2>2. connected'
    BY <1>1 DEF Loading, StatesAgree, TypeOK, CallsAgree
  <2> QED BY <1>1, <1>4, <1>6, <1>7, <1>8, <2>1, <2>2 DEF StatesAgree
<1>12. NextPageFollows'
  BY <1>4, <1>6, <1>7, <1>9
     DEF NextPageFollows, nextIteratorPageNumber, getNextPageNumber, IsError
<1>13. PagesInSequence'
  BY <1>2, <1>3, PagesAreNumbers DEF PagesInSequence, TypeOK
<1>14. ASSUME NEW c \in Call
       PROVE  /\ promise[c].is \notin Waiting => promise'[c] = promise[c]
              /\ promise[c].is = "waiting" => promise'[c] = Settled(LatestSeen(s))
  <2>1. promise[c] \in PromiseState
    BY DEF TypeOK, PromiseState
  <2>2. LatestSeen(s) \in PageState
    BY <1>4 DEF LatestSeen, TypeOK
  <2>3. Settled(LatestSeen(s)).is \notin Waiting
    BY <2>2, SettledType DEF Waiting
  <2> QED BY <1>6, <1>7, <2>1, <2>3, <1>4, ToldType DEF TypeOK
<1>15. ASSUME NEW c \in Call, expected[c] # None
       PROVE  /\ promise'[c].is \in {"resolved", "rejected"}
              /\ first = "latest" /\ promise'[c].is = "resolved" => promise'[c].page = expected[c]
  <2>1. CASE promise[c].is \in Waiting
    <3>1. promise[c].is = "waiting" /\ expected[c] = current.page
      BY <1>1, <1>15, <2>1 DEF CallsAgree, ExpectedIsComing
    <3>2. LatestSeen(s) \in PageState /\ (first = "latest" => LatestSeen(s) = s)
      BY <1>4 DEF LatestSeen, TypeOK
    <3> QED BY <1>4, <1>14, <3>1, <3>2, SettledType
  <2>2. CASE promise[c].is \notin Waiting
    <3>1. promise'[c] = promise[c] /\ promise[c].is # "unmade"
      BY <1>14, <1>15, <2>2 DEF CallsAgree
    <3> QED BY <1>15, <2>2, <3>1 DEF NextPageIsReturned, IsReturned, TypeOK
  <2> QED BY <2>1, <2>2
<1>16. CallsAgree'
  <2>1. ASSUME NEW c \in Call
        PROVE  promise'[c].is # "unmade" => promise[c].is # "unmade"
    BY <1>14 DEF Waiting
  <2> QED BY <1>1, <1>15, <2>1 DEF CallsAgree, Waiting
<1>17. NextPageIsReturned'
  BY <1>1, <1>15 DEF NextPageIsReturned, IsReturned
<1> QED BY <1>10, <1>11, <1>12, <1>13, <1>16, <1>17

-----------------------------------------------------------------------------
(* The properties *)

\* At the start nothing has been asked for.
LEMMA IteratorStarts == Init => IteratorInvariant
<1> SUFFICES ASSUME Init PROVE IteratorInvariant
  OBVIOUS
<1>1. NoRequest \in Request
  BY DEF NoRequest, Request
<1>2. TypeOK
  <2>1. << >> \in Seq(Request) /\ << >> \in Seq(Page)
    OBVIOUS
  <2>2. promise \in [Call -> [is : {"unmade", "resolved", "rejected"} \cup Waiting, page : Page \cup {None, -1}]]
    BY DEF Init
  <2>3. 0 \in 0..MaxNext /\ 0 \in 0..MaxLimits
    BY BoundsAssumption
  <2> QED BY <1>1, <2>1, <2>2, <2>3 DEF Init, TypeOK
<1>3. StatesAgree
  BY DEF Init, StatesAgree, Loading
<1>4. NextPageFollows /\ PagesInSequence
  BY DEF Init, NextPageFollows, PagesInSequence, nextIteratorPageNumber, getNextPageNumber, IsError
<1>5. CallsAgree /\ NextPageIsReturned
  BY DEF Init, CallsAgree, NextPageIsReturned, IsReturned
<1> QED BY <1>2, <1>3, <1>4, <1>5 DEF IteratorInvariant

\* Every step keeps the invariant.
LEMMA IteratorSteps == IteratorInvariant /\ [Next]_vars => IteratorInvariant'
<1> SUFFICES ASSUME IteratorInvariant, [Next]_vars PROVE IteratorInvariant'
  OBVIOUS
<1>1. ASSUME NEW request \in Request, next(request) PROVE IteratorInvariant'
  BY <1>1, NextIsKept
<1>2. ASSUME NEW request \in Request, NEW c \in Call, nextPage(c, request) PROVE IteratorInvariant'
  BY <1>2, NextPageIsKept
<1>3. CASE Observe
  BY <1>3, ObserveIsKept
<1>4. CASE setMaxPageLoadLimit
  BY <1>4, LimitIsKept
<1>5. CASE destroy
  BY <1>5, DestroyIsKept
<1>6. CASE Drop
  BY <1>6, DropIsKept
<1>7. CASE BeginPage
  BY <1>7, BeginPageIsKept
<1>8. CASE RequestIsDenied
  BY <1>8, DenialIsKept
<1>9. CASE PageEnds
  BY <1>9, PageEndIsKept
<1>10. CASE RequestHangs
  BY <1>10, HangingIsKept
<1>11. CASE UNCHANGED vars
  <2>1. UNCHANGED <<connected, first, last, queue, current, emitted, latest, limit, listening, promise,
                    destroyed, nexts, limits, successes, expected>>
    BY <1>11 DEF vars, subscribers, states
  <2>2. StatesAgree' /\ NextPageFollows' /\ PagesInSequence'
    BY <2>1, StatesAreKept DEF IteratorInvariant, states, StatesAgree
  <2>3. ASSUME NEW c \in Call, ExpectedIsComing(c) PROVE ExpectedIsComing(c)'
    BY <2>1, <2>3, ExpectedIsKept DEF IteratorInvariant, states, StatesAgree
  <2> QED BY <2>1, <2>2, <2>3
          DEF IteratorInvariant, TypeOK, CallsAgree, NextPageIsReturned, IsReturned
<1> QED BY <1>1, <1>2, <1>3, <1>4, <1>5, <1>6, <1>7, <1>8, <1>9, <1>10, <1>11 DEF Next, Pipeline

\* The inductive invariant of the iterator: the state is the latest finished page or loads the
\* next one, and a call that is to load a page is the next to be served, or is being served.
THEOREM IteratorInvariantHolds == Spec => []IteratorInvariant
BY IteratorStarts, IteratorSteps, PTL DEF Spec

\* Pages follow one another from the first: none is left out, none comes twice
\* (nextIteratorPageNumber() and exhaustMap() in state$).
THEOREM PagesComeInSequence == Spec => []PagesInSequence
<1>1. IteratorInvariant => PagesInSequence
  BY DEF IteratorInvariant
<1> QED BY <1>1, IteratorInvariantHolds, PTL

\* nextPage() returns the page it has loaded, if latestPageResultState$ was subscribed to first.
THEOREM NextPageReturnsItsPage == Spec => []NextPageIsReturned
<1>1. IteratorInvariant => NextPageIsReturned
  BY DEF IteratorInvariant
<1> QED BY <1>1, IteratorInvariantHolds, PTL
=============================================================================
