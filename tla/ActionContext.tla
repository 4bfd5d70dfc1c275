----------------------------- MODULE ActionContext -----------------------------
(***************************************************************************)
(* An action of @dereekb/dbx-core: the ActionContextStore, the directive   *)
(* that gets the value once it is triggered (DbxActionValueOnTrigger-      *)
(* Instance), the handler that works on the value (DbxActionHandler-       *)
(* Instance with WorkInstance), and the lock sets that delay what is       *)
(* destroyed with the component.                                           *)
(*                                                                         *)
(* The store's updates and what its observables set off at once are one    *)
(* step, as they run in one go on the queue scheduler.  Values, results    *)
(* and errors are left out; a value is the trigger that asked for it.      *)
(***************************************************************************)
EXTENDS Naturals, Sequences, FiniteSets

CONSTANTS
  DisabledKey,  \* keys of disable() and enable()
  MaxTriggers,  \* bound: the times the action is triggered
  MaxChanges    \* bound: the times the handler function is replaced

ASSUME BoundsAssumption == MaxTriggers \in Nat /\ MaxChanges \in Nat

VARIABLES
  actionState,    \* of the ActionContextStore
  disabled,       \* its disabled keys
  lastReady,      \* the value valueReady$ would replay: its trigger, 0 for none
  getterOpen,     \* whether the value getter of the last trigger is subscribed to
  works,          \* the WorkInstances so far
  handlerLock,    \* the work whose completion the handler's lock follows, 0 for none
  handlerErrored, \* whether the handler's subscription has ended in an error
  stage,          \* how far each part is destroyed
  triggers,       \* bound: how often the action was triggered
  triggersBefore, \* history: how often before the component was destroyed
  interrupted,    \* history: whether something cut in on an action that was under way
  timedOut        \* history: whether the store no longer waited for its lock

vars == <<actionState, disabled, lastReady, getterOpen, works, handlerLock,
          handlerErrored, stage, triggers, triggersBefore, interrupted, timedOut>>

\* DISABLED is what actionState$ shows of an idle action with disabled keys; no update
\* sets it.
ActionState == {"idle", "triggered", "valueReady", "working", "rejected", "resolved"}

\* The parts that wait on the lock set of the context before they are destroyed: the
\* value getter, the handler, and the context, which then destroys the store.
Directive == {"getter", "handler", "context"}
Stage == {"alive", "waiting", "unlocked", "destroyed"}

-----------------------------------------------------------------------------
(* Lock sets *)

isIdleActionState(s) == s \in {"idle", "rejected", "resolved"}

isWorkingActionState(s) == ~isIdleActionState(s)

LockedInProgress(s) == s = "working"

\* What the lock set of the store follows.
StoreLocked(s) == isWorkingActionState(s)

\* WorkInstances.
Work == [trigger : Nat, isReplay : BOOLEAN,
         status : {"created", "started", "succeeded", "failed"}]

IsEnded(work) == work.status \in {"succeeded", "failed"}

\* isUnlocked$ of the context's lock set is true.  It says nothing while the work has
\* not started: the lock of such a work has not emitted.
ContextUnlocked(ws, lock) == lock = 0 \/ IsEnded(ws[lock])

\* Whoever waits for an unlock sees it at once, and goes on after a delay.
SeeUnlocks ==
  stage' = [p \in DOMAIN stage |->
             IF /\ stage[p] = "waiting"
                /\ IF p = "store" THEN ~StoreLocked(actionState')
                                  ELSE ContextUnlocked(works', handlerLock')
             THEN "unlocked" ELSE stage[p]]

IsAlive(p) == stage[p] # "destroyed"

\* A destroyed store takes no updates.
Update(s) == actionState' = IF IsAlive("store") THEN s ELSE actionState

-----------------------------------------------------------------------------
(* Updates of the store *)

isActionContextEnabled == disabled = {}

canTriggerWhenEnabled == isActionContextEnabled

canTriggerAction == isActionContextEnabled /\ isIdleActionState(actionState)

canReadyWhenIdle == isIdleActionState(actionState)

canReadyWhenWorking == isWorkingActionState(actionState)

canReadyValue == actionState = "triggered"

\* The new state has no disabled keys: there were none.  The value getter is
\* subscribed to anew.
Trigger ==
  /\ IsAlive("store") /\ canTriggerAction /\ triggers < MaxTriggers
  /\ actionState' = "triggered"
  /\ disabled' = {}
  /\ triggers' = triggers + 1
  /\ getterOpen' = IsAlive("getter")
  /\ UNCHANGED <<lastReady, works, handlerLock, handlerErrored, triggersBefore,
                 interrupted, timedOut>>
  /\ SeeUnlocks

SetIsModified ==
  /\ IsAlive("store") /\ actionState = "resolved"
  /\ actionState' = "idle"
  /\ UNCHANGED <<disabled, lastReady, getterOpen, works, handlerLock, handlerErrored,
                 triggers, triggersBefore, interrupted, timedOut>>
  /\ SeeUnlocks

SetDisabled(keys) ==
  /\ IsAlive("store")
  /\ disabled' = keys
  /\ UNCHANGED <<actionState, lastReady, getterOpen, works, handlerLock, handlerErrored,
                 stage, triggers, triggersBefore, interrupted, timedOut>>

Disable(k) == SetDisabled(disabled \cup {k})

Enable(k) == SetDisabled(disabled \ {k})

Reset ==
  /\ IsAlive("store")
  /\ actionState' = "idle"
  /\ disabled' = {}
  /\ interrupted' = (interrupted \/ isWorkingActionState(actionState))
  /\ UNCHANGED <<lastReady, getterOpen, works, handlerLock, handlerErrored, triggers,
                 triggersBefore, timedOut>>
  /\ SeeUnlocks

-----------------------------------------------------------------------------
(* The handler and its work *)

\* The handler function is called with the value of trigger t, in state s.  It starts
\* the work, leaves that for later, or completes it at once, and the handler locks.  Or
\* it throws, which rejects the work without a lock.  That throws too when the work is completed, as it
\* is if performTaskWithReturnValue() has rejected it; so does returning an observable
\* with the work started.  Then the handler's subscription ends.
Handle(t, isReplay, s) ==
  LET Does(status, next) ==
        /\ works' = Append(works, [trigger |-> t, status |-> status, isReplay |-> isReplay])
        /\ Update(next)
      Starts == Does("started", "working")
      Succeeds == Does("succeeded", "resolved")
      Fails == Does("failed", "rejected")
  IN \/ /\ Starts \/ Does("created", s) \/ Succeeds \/ Fails
        /\ handlerLock' = Len(works') /\ UNCHANGED handlerErrored
     \/ Fails /\ UNCHANGED <<handlerLock, handlerErrored>>
     \/ /\ Starts \/ Succeeds \/ Fails
        /\ handlerErrored' = TRUE /\ UNCHANGED handlerLock

IsHandling == IsAlive("handler") /\ ~handlerErrored

\* Another handler function: valueReady$ is subscribed to again, and replays.
HandlerChanges ==
  /\ IsHandling /\ lastReady # 0
  /\ Cardinality({i \in 1..Len(works) : works[i].isReplay}) < MaxChanges
  /\ Handle(lastReady, TRUE, actionState)
  /\ interrupted' = TRUE
  /\ UNCHANGED <<disabled, lastReady, getterOpen, triggers, triggersBefore, timedOut>>
  /\ SeeUnlocks

\* A work reaches a status, and tells the store through its delegate.
WorkGoesOn(i, from, status, s) ==
  /\ works[i].status \in from
  /\ works' = [works EXCEPT ![i].status = status]
  /\ Update(s)
  /\ UNCHANGED <<disabled, lastReady, getterOpen, handlerLock, handlerErrored, triggers,
                 triggersBefore, interrupted, timedOut>>
  /\ SeeUnlocks

WorkStarts(i) == WorkGoesOn(i, {"created"}, "started", "working")

WorkSucceeds(i) == WorkGoesOn(i, {"created", "started"}, "succeeded", "resolved")

WorkFails(i) == WorkGoesOn(i, {"created", "started"}, "failed", "rejected")

-----------------------------------------------------------------------------
(* The value getter *)

\* It may go on and give another value, which is not taken.
GetterGivesValue ==
  /\ getterOpen
  /\ getterOpen' \in BOOLEAN
  /\ IF IsAlive("store") /\ canReadyValue
     THEN /\ lastReady' = triggers
          /\ IF IsHandling
             THEN Handle(triggers, FALSE, "valueReady")
             ELSE actionState' = "valueReady" /\ UNCHANGED <<works, handlerLock, handlerErrored>>
     ELSE UNCHANGED <<actionState, lastReady, works, handlerLock, handlerErrored>>
  /\ UNCHANGED <<disabled, triggers, triggersBefore, interrupted, timedOut>>
  /\ SeeUnlocks

\* It gives no value, one that is not modified, or an error, whatever the state is.
GetterGivesNothing ==
  /\ getterOpen
  /\ getterOpen' \in BOOLEAN
  /\ Update("rejected")
  /\ interrupted' = (interrupted \/ actionState \in {"valueReady", "working"})
  /\ UNCHANGED <<disabled, lastReady, works, handlerLock, handlerErrored, triggers,
                 triggersBefore, timedOut>>
  /\ SeeUnlocks

-----------------------------------------------------------------------------
(* Destruction *)

\* ngOnDestroy() of the component's directives.
DestroyComponent ==
  /\ stage["context"] = "alive"
  /\ stage' = [p \in DOMAIN stage |->
                IF p = "store" THEN "alive"
                ELSE IF ContextUnlocked(works, handlerLock) THEN "unlocked" ELSE "waiting"]
  /\ triggersBefore' = triggers
  /\ UNCHANGED <<actionState, disabled, lastReady, getterOpen, works, handlerLock,
                 handlerErrored, triggers, interrupted, timedOut>>

\* onNextUnlock() calls back: the getter and the handler unsubscribe, the context has
\* the store wait for its own lock set.
DirectiveDestroyed(p) ==
  /\ stage' = IF p = "context"
              THEN [stage EXCEPT ![p] = "destroyed",
                                 !["store"] = IF StoreLocked(actionState) THEN "waiting"
                                                                        ELSE "unlocked"]
              ELSE [stage EXCEPT ![p] = "destroyed"]
  /\ getterOpen' = (getterOpen /\ p # "getter")
  /\ UNCHANGED <<actionState, disabled, lastReady, works, handlerLock, handlerErrored,
                 triggers, triggersBefore, interrupted, timedOut>>

DirectiveUnlocks(p) == stage[p] = "unlocked" /\ DirectiveDestroyed(p)

\* After 50 seconds, when every delay of none has passed.
DirectiveTimesOut(p) ==
  /\ stage[p] = "waiting"
  /\ \A q \in Directive : stage[q] # "unlocked"
  /\ DirectiveDestroyed(p)

WaitIsOverByUnlock(isTimeOut) == stage["store"] = "unlocked" /\ ~isTimeOut

WaitIsOver(isTimeOut) == stage["store"] = IF isTimeOut THEN "waiting" ELSE "unlocked"

\* The store's delay of two seconds begins after the directives' timers were set.
StoreDestroyed(isTimeOut) ==
  /\ \A p \in Directive : stage[p] = "destroyed"
  /\ WaitIsOver(isTimeOut)
  /\ stage' = [stage EXCEPT !["store"] = "destroyed"]
  /\ timedOut' = (timedOut \/ isTimeOut)
  /\ UNCHANGED <<actionState, disabled, lastReady, getterOpen, works, handlerLock,
                 handlerErrored, triggers, triggersBefore, interrupted>>

-----------------------------------------------------------------------------
(* The specification *)

Init ==
  /\ actionState = "idle"
  /\ disabled = {}
  /\ lastReady = 0
  /\ getterOpen = FALSE
  /\ works = <<>>
  /\ handlerLock = 0
  /\ handlerErrored = FALSE
  /\ stage = [p \in Directive \cup {"store"} |-> "alive"]
  /\ triggers = 0
  /\ triggersBefore = 0
  /\ interrupted = FALSE
  /\ timedOut = FALSE

\* What components and other directives call.
Calls == Trigger \/ SetIsModified \/ Reset \/ \E k \in DisabledKey : Disable(k) \/ Enable(k)

GetterAnswers == GetterGivesValue \/ GetterGivesNothing

WorkEnds(i) == WorkSucceeds(i) \/ WorkFails(i)

WorkSteps == \E i \in 1..Len(works) : WorkStarts(i) \/ WorkEnds(i)

DirectiveSteps == \E p \in Directive : DirectiveUnlocks(p) \/ DirectiveTimesOut(p)

StoreSteps == \E isTimeOut \in BOOLEAN : StoreDestroyed(isTimeOut)

\* Nothing more need happen to a store that is destroyed.
Rest == ~IsAlive("store") /\ UNCHANGED vars

Next ==
  \/ Calls \/ GetterAnswers \/ HandlerChanges \/ WorkSteps
  \/ DestroyComponent \/ DirectiveSteps \/ StoreSteps \/ Rest

Spec == Init /\ [][Next]_vars

\* Timers fire; a getter that is asked answers, and work that is given ends.
Fairness ==
  /\ WF_vars(GetterAnswers)
  /\ \A i \in 1..(MaxTriggers + MaxChanges) : WF_vars(i \in 1..Len(works) /\ WorkEnds(i))
  /\ \A p \in Directive : WF_vars(DirectiveUnlocks(p) \/ DirectiveTimesOut(p))
  /\ WF_vars(StoreSteps)

FairSpec == Spec /\ Fairness

-----------------------------------------------------------------------------
(* Properties *)

\* The variables hold values of their kinds; the getter is not subscribed to once its
\* directive is destroyed, and the handler's lock follows a work there is.
TypeOK ==
  /\ actionState \in ActionState
  /\ disabled \subseteq DisabledKey
  /\ lastReady \in 0..triggers
  /\ getterOpen \in BOOLEAN /\ (getterOpen => IsAlive("getter"))
  /\ works \in Seq(Work) /\ (\A i \in 1..Len(works) : works[i].trigger \in 1..triggers)
  /\ handlerLock \in 0..Len(works)
  /\ handlerErrored \in BOOLEAN
  /\ stage \in [Directive \cup {"store"} -> Stage]
  /\ triggers \in 0..MaxTriggers
  /\ triggersBefore \in 0..triggers
  /\ interrupted \in BOOLEAN /\ timedOut \in BOOLEAN

IsUnderWay(i) == ~IsEnded(works[i])

\* A trigger leads to one work at most, however often the getter answers, and whatever
\* cuts in.  Work done again for another handler function is not counted.
OneWorkPerTrigger ==
  \A i, j \in 1..Len(works) :
    ~works[i].isReplay /\ ~works[j].isReplay /\ works[i].trigger = works[j].trigger => i = j

\* As long as nothing cuts in on an action under way, an idle store has no work under
\* way, so that a trigger it takes starts the only one.
IdleMeansNothingUnderWay ==
  ~interrupted =>
    /\ isIdleActionState(actionState) => \A i \in 1..Len(works) : ~IsUnderWay(i)
    /\ \A i, j \in 1..Len(works) : IsUnderWay(i) /\ IsUnderWay(j) => i = j

\* Work for a trigger that came before the component was destroyed ends before the
\* store is destroyed, however the destruction of the directives interleaves with it.
WorkEndsBeforeItsStore ==
  ~IsAlive("store") /\ ~timedOut /\ ~interrupted =>
    \A i \in 1..Len(works) : works[i].trigger <= triggersBefore => ~IsUnderWay(i)

\* While an action waits for its value no work has been given that value.
ValueIsNew ==
  /\ actionState = "triggered" => lastReady < triggers
  /\ \A i \in 1..Len(works) : ~works[i].isReplay => works[i].trigger <= lastReady

\* As long as nothing cuts in, no work is under way while the action waits for its value.
NothingUnderWayBefore ==
  ~interrupted /\ actionState = "triggered" => \A i \in 1..Len(works) : ~IsUnderWay(i)

\* The store waits for its lock after the context is destroyed; once it has seen it
\* unlocked, only later triggers lead to work.
StoreWaitsForWork ==
  /\ stage["store"] # "alive" => stage["context"] = "destroyed"
  /\ stage["store"] \in {"unlocked", "destroyed"} /\ ~timedOut /\ ~interrupted =>
       /\ \A i \in 1..Len(works) : works[i].trigger <= triggersBefore => ~IsUnderWay(i)
       /\ actionState = "triggered" => triggersBefore < triggers

\* The inductive invariant the safety properties rest on.
ActionInvariant ==
  /\ TypeOK
  /\ ValueIsNew /\ OneWorkPerTrigger
  /\ NothingUnderWayBefore /\ IdleMeansNothingUnderWay
  /\ StoreWaitsForWork

\* A triggered action comes to an end, unless its handler has failed or the store is
\* destroyed.
ActionSettles ==
  actionState = "triggered" ~>
    isIdleActionState(actionState) \/ handlerErrored \/ ~IsAlive("store")

\* A component that is destroyed has its store destroyed in the end, also if the
\* action never settles.
DestroyCompletes == stage["context"] # "alive" ~> ~IsAlive("store")
=============================================================================
