------------------------------ MODULE FetchPages ------------------------------
(***************************************************************************)
(* iterateFetchPages() and iterateFetchPagesByItems() of @dereekb/util/    *)
(* fetch: pages of a remote collection are fetched one after the other,    *)
(* each found through the one before, and the executor of ParallelTasks    *)
(* runs iteratePage() on several of them at once, until a page is the last *)
(* one, maxPage or a limit on items is reached, or endEarly() decides so.  *)
(*                                                                         *)
(* As in CheckpointIteration every step of the executor is a step here; a  *)
(* task is a page.                                                         *)
(***************************************************************************)
EXTENDS ParallelTasks

\* A limit that is not set is a great number, as in the code.
CONSTANTS
  LastPage,       \* bound: the last page of the remote collection
  MaxItems,       \* bound: the items of a page
  MaxPages,       \* values of maxPage
  IterateLimits,  \* values of iterateItemsLimit
  LoadLimits      \* values of loadItemLimit

ASSUME PagesAssumption ==
  /\ LastPage \in Nat /\ MaxItems \in Nat
  /\ MaxPages \subseteq Nat
  /\ IterateLimits \subseteq Nat
  /\ LoadLimits \subseteq Nat

VARIABLES
  fetchOptions, \* input: the limits, and which of the two functions it is
  fetchState,   \* the variables the functions close over
  fetching,     \* for each worker awaiting the input factory, the page it fetches
  pages,        \* the pages fetched: their numbers and how many items they have
  pageStage,    \* how far iteratePage() has come with each page
  visited,      \* for each page, how many items the filter has left
  startIndex    \* for each page, the totalItemsVisited passed to iteratePageItems()

pageVars == <<pages, pageStage, visited, startIndex>>
fetchVars == <<vars, fetchOptions, fetchState, fetching, pageVars>>

NoPage == -1

-----------------------------------------------------------------------------
(* taskInputFactory() *)

isAtMaxPage(page) == page >= fetchOptions.maxPage

IsLastPage(s) == s.page # NoPage /\ (isAtMaxPage(s.page) \/ ~s.hasNext)

\* The page a call of the factory fetches in state s, or none: it returns null.
PageOf(s) == IF s.hasReachedEnd \/ IsLastPage(s) THEN NoPage ELSE s.page + 1

FetchCalled(s) == IF IsLastPage(s) THEN [s EXCEPT !.hasReachedEnd = TRUE] ELSE s

\* The workers that call the factory in this step start with it from s.
FetchesFrom(s) ==
  LET calling == {w \in Worker : pc[w] # "factory" /\ pc'[w] = "factory"} IN
  /\ fetchState' = IF calling = {} THEN s ELSE FetchCalled(s)
  /\ fetching' = [w \in Worker |-> IF w \in calling THEN PageOf(s) ELSE fetching[w]]

\* fetchNext() brings a page.  A collection that does not say whether there is a
\* next page counts as having one.
PageFetched(w) ==
  /\ fetching[w] # NoPage
  /\ FactoryReturnsTasks(w)
  /\ baseI' = baseI + 1
  /\ \E items \in 0..MaxItems, hasNext \in BOOLEAN :
       /\ fetching[w] = LastPage => ~hasNext
       /\ FetchesFrom([fetchState EXCEPT !.page = fetching[w], !.hasNext = hasNext])
       /\ pages' = Append(pages, [page |-> fetching[w], items |-> items])
  /\ UNCHANGED <<fetchOptions, pageStage, visited, startIndex>>

NoMorePages(w) ==
  /\ fetching[w] = NoPage
  /\ FactoryReturnsNull(w)
  /\ FetchesFrom(fetchState)
  /\ UNCHANGED <<fetchOptions, pageVars>>

\* fetchNext() rejects: the request fails, or it turns out that no page follows.
FetchFails(w) ==
  /\ fetching[w] # NoPage
  /\ FactoryRejects(w)
  /\ UNCHANGED <<fetchOptions, fetchState, fetching, pageVars>>

-----------------------------------------------------------------------------
(* The task of a page, and the executor around it *)

\* filterPageItems() has resolved: what it leaves is passed to iteratePageItems(),
\* with the number of items visited so far.
ItemsFiltered(w) ==
  /\ pc[w] = "running"
  /\ pageStage[hand[w]] = "fetched"
  /\ \E n \in 0..pages[hand[w] + 1].items : visited' = [visited EXCEPT ![hand[w]] = n]
  /\ pageStage' = [pageStage EXCEPT ![hand[w]] = "filtered"]
  /\ startIndex' = [startIndex EXCEPT ![hand[w]] = fetchState.totalItemsVisited]
  /\ UNCHANGED <<vars, fetchOptions, fetchState, fetching, pages>>

PassedFinalItem(s) ==
  \/ s.totalItemsLoaded > fetchOptions.loadItemLimit
  \/ s.totalItemsVisited > fetchOptions.iterateItemsLimit

ReachedOtherLimit(s) ==
  \/ s.totalItemsLoaded >= fetchOptions.iterateItemsLimit
  \/ s.totalItemsVisited >= fetchOptions.loadItemLimit

ReachedFinalItem(s) ==
  \/ s.totalItemsLoaded >= fetchOptions.loadItemLimit
  \/ s.totalItemsVisited >= fetchOptions.iterateItemsLimit

\* State s after the items of page t have been iterated.
Counted(s, t) ==
  [s EXCEPT !.totalItemsLoaded = @ + pages[t + 1].items,
            !.totalItemsVisited = @ + visited[t]]

\* iteratePageItems() has resolved, and usePageResult() is called.
ItemsIterated(w) ==
  /\ pc[w] = "running"
  /\ pageStage[hand[w]] = "filtered"
  /\ fetchState' = Counted(fetchState, hand[w])
  /\ pageStage' = [pageStage EXCEPT ![hand[w]] = "iterated"]
  /\ UNCHANGED <<vars, fetchOptions, fetching, pages, visited, startIndex>>

\* usePageResult() has resolved, and endEarly() decides.  Iterating by items it is
\* whether a limit is reached; otherwise it is the caller's.
PageUsed(w) ==
  /\ TaskSucceeds(w)
  /\ pageStage[hand[w]] = "iterated"
  /\ \E early \in IF fetchOptions.byItems THEN {ReachedFinalItem(fetchState)} ELSE BOOLEAN :
       fetchState' = [fetchState EXCEPT !.hasReachedEnd = @ \/ early]
  /\ UNCHANGED <<fetchOptions, fetching, pageVars>>

\* One of the callbacks rejects.
PageFails(w) ==
  /\ TaskFails(w)
  /\ UNCHANGED <<fetchOptions, fetchState, fetching, pageVars>>

\* The executor goes on, which may call the input factory.
FetchProceeds(w) ==
  /\ Dispatch(w) \/ ResumeGetNextTask(w) \/ StartTask(w) \/ FinishParallel(w)
  /\ FetchesFrom(fetchState)
  /\ UNCHANGED <<fetchOptions, pageVars>>

-----------------------------------------------------------------------------
(* The specification *)

\* page and hasNext are those of currentNextPage.
FetchStart ==
  [page |-> NoPage, hasNext |-> TRUE, hasReachedEnd |-> FALSE,
   totalItemsLoaded |-> 0, totalItemsVisited |-> 0]

FetchInit ==
  /\ Init
  /\ ~waitsBetweenRequests
  /\ \A t, u \in Task : t # u => KeysOf(t) \cap KeysOf(u) = {}
  /\ fetchOptions \in [maxPage : MaxPages, iterateItemsLimit : IterateLimits,
                       loadItemLimit : LoadLimits, byItems : BOOLEAN]
  /\ fetchState = FetchCalled(FetchStart)
  /\ fetching = [w \in Worker |-> PageOf(FetchStart)]
  /\ pages = <<>>
  /\ pageStage = [t \in Task |-> "fetched"]
  /\ visited = [t \in Task |-> 0]
  /\ startIndex = [t \in Task |-> 0]

FetchEnds(w) == PageFetched(w) \/ NoMorePages(w) \/ FetchFails(w)

PageRuns(w) == ItemsFiltered(w) \/ ItemsIterated(w) \/ PageUsed(w) \/ PageFails(w)

FetchStops == Stop /\ UNCHANGED fetchVars

FetchNext ==
  \/ \E w \in Worker : FetchProceeds(w) \/ FetchEnds(w) \/ PageRuns(w)
  \/ FetchStops

FetchSpec == FetchInit /\ [][FetchNext]_fetchVars

-----------------------------------------------------------------------------
(* Properties *)

\* The variables hold values of the kind the code declares them with.
FetchTypeOK ==
  /\ fetchOptions \in [maxPage : MaxPages, iterateItemsLimit : IterateLimits,
                       loadItemLimit : LoadLimits, byItems : BOOLEAN]
  /\ fetchState \in [page : Nat \cup {NoPage}, hasNext : BOOLEAN, hasReachedEnd : BOOLEAN,
                     totalItemsLoaded : Nat, totalItemsVisited : Nat]
  /\ fetching \in [Worker -> Nat \cup {NoPage}]
  /\ pages \in Seq([page : Nat, items : 0..MaxItems])
  /\ pageStage \in [Task -> {"fetched", "filtered", "iterated"}]
  /\ visited \in [Task -> 0..MaxItems]
  /\ startIndex \in [Task -> Nat]

\* No page is fetched twice and none is passed over, though several workers ask for
\* the next one; a call under way fetches the page after the current one.
PagesInSequence ==
  /\ \A i \in 1..Len(pages) : pages[i].page = i - 1
  /\ fetchState.page = Len(pages) - 1
  /\ \A w \in Worker : pc[w] = "factory" => fetching[w] \in {NoPage, Len(pages)}

\* A limit on items is overshot by what was in flight when it was reached, and no
\* more: the page that reached it and one page of every other worker.
LimitsOvershotByPagesInFlight ==
  fetchOptions.byItems =>
    /\ fetchOptions.loadItemLimit > 0 =>
         fetchState.totalItemsLoaded < fetchOptions.loadItemLimit + MaxParallel * MaxItems
    /\ fetchOptions.iterateItemsLimit > 0 =>
         fetchState.totalItemsVisited < fetchOptions.iterateItemsLimit + MaxParallel * MaxItems

\* The last page has been fetched, or a limit on items is reached.
EndIsReached ==
  \/ fetchState.page >= fetchOptions.maxPage
  \/ ~fetchState.hasNext
  \/ fetchState.totalItemsLoaded >= fetchOptions.loadItemLimit
  \/ fetchState.totalItemsVisited >= fetchOptions.iterateItemsLimit

\* By items, the iteration resolves only at the last page or once a limit is
\* reached: none of the workers ends it before.
ResolvesAtTheEnd == outcome = "resolved" /\ fetchOptions.byItems => EndIsReached

\* The input factory answers null only when the end is reached, and a call that fetches
\* a page was made when another page was known to follow.
NoPageMeansReachedEnd ==
  /\ isOutOfTasks => fetchState.hasReachedEnd
  /\ fetchState.page = NoPage => fetchState.hasNext
  /\ fetchOptions.byItems /\ fetchState.hasReachedEnd => EndIsReached
  /\ \A w \in Worker : pc[w] = "factory" =>
       IF fetching[w] = NoPage THEN fetchState.hasReachedEnd
       ELSE fetchState.hasNext /\ fetchState.page < fetchOptions.maxPage

\* The workers that may still count the items of a page.  Once the end is reached, that
\* is the one page each of them has or is fetching.
MayStillCount ==
  {w \in Worker :
    \/ pc[w] = "running" /\ pageStage[hand[w]] # "iterated"
    \/ pc[w] \in {"handed", "chosen"} /\ hand[w] # NoTask
    \/ pc[w] = "factory" /\ fetching[w] # NoPage
    \/ pc[w] \in {"timer", "queued"} /\ ~fetchState.hasReachedEnd}

\* The items of one page for each worker that has counted since the limit was reached.
LimitsOvershotByCounted ==
  fetchOptions.byItems =>
    LET most == (MaxParallel - Cardinality(MayStillCount)) * MaxItems IN
    /\ fetchOptions.loadItemLimit > 0 =>
         fetchState.totalItemsLoaded < fetchOptions.loadItemLimit + most
    /\ fetchOptions.iterateItemsLimit > 0 =>
         fetchState.totalItemsVisited < fetchOptions.iterateItemsLimit + most

\* The tasks given out are the pages fetched.
TasksArePages == baseI = Len(pages)

\* The inductive invariant ResolvesAtTheEnd and LimitsOvershotByPagesInFlight rest on.
PagesInvariant ==
  /\ DeliveryInvariant
  /\ TasksComeSingly
  /\ FetchTypeOK
  /\ PagesInSequence
  /\ NoPageMeansReachedEnd
  /\ TasksArePages
  /\ LimitsOvershotByCounted
=============================================================================
