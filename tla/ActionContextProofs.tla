-------------------------- MODULE ActionContextProofs --------------------------
(***************************************************************************)
(* What is proved of ActionContext, for any number of triggers and of      *)
(* handler functions: each trigger leads to one work at most, an idle      *)
(* store has no work under way, a store that is destroyed has none under   *)
(* way for the triggers it was waited for, and disabled keys stay.         *)
(***************************************************************************)
EXTENDS ActionContext, SequenceTheorems, TLAPS

Part == Directive \cup {"store"}

-----------------------------------------------------------------------------
(* What steps have in common *)

\* Seeing an unlock destroys nothing, and sees one of the store when its state is idle.
LEMMA SeeUnlocksStep ==
  ASSUME stage \in [Part -> Stage], SeeUnlocks
  PROVE  /\ stage' \in [Part -> Stage]
         /\ \A p \in Part : /\ stage'[p] = "destroyed" <=> stage[p] = "destroyed"
                            /\ stage'[p] = "alive" <=> stage[p] = "alive"
                            /\ stage[p] = "unlocked" => stage'[p] = "unlocked"
         /\ stage'["store"] = "unlocked" /\ stage["store"] # "unlocked"
              => isIdleActionState(actionState')
<1> DEFINE sees(p) == /\ stage[p] = "waiting"
                      /\ IF p = "store" THEN ~StoreLocked(actionState')
                                        ELSE ContextUnlocked(works', handlerLock')
<1>1. stage' = [p \in Part |-> IF sees(p) THEN "unlocked" ELSE stage[p]]
  BY DEF SeeUnlocks
<1>2. sees("store") => isIdleActionState(actionState')
  BY DEF StoreLocked, isWorkingActionState
<1>3. \A p \in Part : sees(p) => stage[p] = "waiting"
  OBVIOUS
<1>4. "store" \in Part
  BY DEF Part
<1> HIDE DEF sees
<1> QED BY <1>1, <1>2, <1>3, <1>4 DEF Stage

\* What handing a value to the handler makes of the works: one more, of this trigger,
\* which, as long as the store is alive, is not under way when the store is idle
\* afterwards, unless it was idle before.
LEMMA HandleStep ==
  ASSUME works \in Seq(Work), handlerLock \in 0..Len(works), handlerErrored \in BOOLEAN,
         actionState \in ActionState,
         NEW t \in Nat, NEW isReplay \in BOOLEAN, NEW s \in ActionState,
         Handle(t, isReplay, s)
  PROVE  /\ \E new \in Work :
              /\ works' = Append(works, new)
              /\ new.trigger = t /\ new.isReplay = isReplay
              /\ IsAlive("store") /\ ~IsEnded(new) => actionState' \in {s, "working"}
         /\ handlerLock' \in 0..(Len(works) + 1)
         /\ handlerErrored' \in BOOLEAN
         /\ actionState' \in {actionState, s, "working", "resolved", "rejected"}
<1> DEFINE new(status) == [trigger |-> t, status |-> status, isReplay |-> isReplay]
           Does(status, next) == /\ works' = Append(works, new(status))
                                 /\ Update(next)
           Holds == /\ \E w \in Work :
                         /\ works' = Append(works, w)
                         /\ w.trigger = t /\ w.isReplay = isReplay
                         /\ IsAlive("store") /\ ~IsEnded(w) => actionState' \in {s, "working"}
                    /\ actionState' \in {actionState, s, "working", "resolved", "rejected"}
                    /\ Len(works') = Len(works) + 1
<1>1. \A status \in {"created", "started", "succeeded", "failed"} :
        /\ new(status) \in Work /\ new(status).trigger = t
        /\ new(status).isReplay = isReplay /\ new(status).status = status
  BY DEF Work
<1> HIDE DEF new
<1>2. ASSUME NEW w \in Work, works' = Append(works, w)
      PROVE  Len(works') = Len(works) + 1
  BY <1>2, AppendProperties
<1>3. Does("started", "working") => Holds
  BY <1>1, <1>2 DEF Update
<1>4. Does("created", s) => Holds
  BY <1>1, <1>2 DEF Update
<1>5. Does("succeeded", "resolved") => Holds
  BY <1>1, <1>2 DEF Update, IsEnded
<1>6. Does("failed", "rejected") => Holds
  BY <1>1, <1>2 DEF Update, IsEnded
<1>7. /\ \/ Does("started", "working") \/ Does("created", s)
         \/ Does("succeeded", "resolved") \/ Does("failed", "rejected")
      /\ handlerLock' \in {handlerLock, Len(works')}
      /\ handlerErrored' \in {handlerErrored, TRUE}
  BY DEF Handle, new
<1>8. Holds
  BY <1>3, <1>4, <1>5, <1>6, <1>7
<1>9. Len(works) \in Nat
  BY LenProperties
<1>10. handlerLock' \in 0..(Len(works) + 1) /\ handlerErrored' \in BOOLEAN
  <2>1. handlerLock' \in {handlerLock, Len(works) + 1}
    BY <1>7, <1>8
  <2>2. handlerErrored' \in BOOLEAN
    BY <1>7
  <2> QED BY <1>9, <2>1, <2>2
<1> HIDE DEF Does
<1> QED BY <1>8, <1>10

\* A work appended leaves the others as they are.
LEMMA AppendWork ==
  ASSUME works \in Seq(Work), NEW new \in Work, works' = Append(works, new)
  PROVE  /\ Len(works) \in Nat
         /\ works' \in Seq(Work)
         /\ Len(works') = Len(works) + 1
         /\ works'[Len(works) + 1] = new
         /\ \A i \in 1..Len(works) : works'[i] = works[i]
BY AppendProperties, LenProperties

\* A work that goes on leaves the others, and its own trigger, as they are.
LEMMA WorkGoesOnStep ==
  ASSUME works \in Seq(Work), NEW i \in 1..Len(works),
         NEW status \in {"created", "started", "succeeded", "failed"},
         works' = [works EXCEPT ![i].status = status]
  PROVE  /\ works' \in Seq(Work)
         /\ Len(works') = Len(works)
         /\ works'[i].status = status
         /\ \A j \in 1..Len(works) : /\ works'[j].trigger = works[j].trigger
                                     /\ works'[j].isReplay = works[j].isReplay
                                     /\ j # i => works'[j] = works[j]
<1> DEFINE new == [works[i] EXCEPT !.status = status]
<1>1. works[i] \in Work
  BY ElementOfSeq
<1>2. new \in Work /\ new.status = status
      /\ new.trigger = works[i].trigger /\ new.isReplay = works[i].isReplay
  BY <1>1 DEF Work
<1>3. works' = [works EXCEPT ![i] = new]
  OBVIOUS
<1> HIDE DEF new
<1>4. works' \in Seq(Work) /\ Len(works') = Len(works)
      /\ \A j \in 1..Len(works) : works'[j] = IF j = i THEN new ELSE works[j]
  <2>1. works \in Seq(Work) /\ i \in 1..Len(works) /\ new \in Work
    BY <1>2, Zenon
  <2> DEFINE changed == [works EXCEPT ![i] = new]
  <2>2. /\ changed \in Seq(Work)
        /\ Len(changed) = Len(works)
        /\ \A j \in 1..Len(works) : changed[j] = IF j = i THEN new ELSE works[j]
    BY ONLY <2>1, ExceptSeq
  <2> QED BY <1>3, <2>2, Zenon
<1> QED BY <1>2, <1>4

\* The store once it has seen its own unlock: what StoreWaitsForWork says of it then.
NothingOldUnderWay ==
  /\ \A i \in 1..Len(works) : works[i].trigger <= triggersBefore => ~IsUnderWay(i)
  /\ actionState = "triggered" => triggersBefore < triggers

\* A step with an update of the store keeps StoreWaitsForWork if it does so for a store
\* that has seen its unlock before: if it sees it now, the state is idle.
LEMMA StoreWaitsStep ==
  ASSUME stage \in [Part -> Stage], StoreWaitsForWork, SeeUnlocks,
         IdleMeansNothingUnderWay',
         timedOut' = timedOut,
         stage["store"] \in {"unlocked", "destroyed"} /\ ~timedOut /\ ~interrupted'
           => NothingOldUnderWay'
  PROVE  StoreWaitsForWork'
<1>1. /\ \A p \in Part : /\ stage'[p] = "destroyed" <=> stage[p] = "destroyed"
                         /\ stage'[p] = "alive" <=> stage[p] = "alive"
      /\ stage'["store"] = "unlocked" /\ stage["store"] # "unlocked"
              => isIdleActionState(actionState')
  BY SeeUnlocksStep
<1>2. "store" \in Part /\ "context" \in Part
  BY DEF Part, Directive
<1>3. stage'["store"] # "alive" => stage'["context"] = "destroyed"
  BY <1>1, <1>2 DEF StoreWaitsForWork
<1>4. ASSUME stage'["store"] \in {"unlocked", "destroyed"}, ~timedOut, ~interrupted'
      PROVE  NothingOldUnderWay'
  <2>1. CASE stage["store"] \in {"unlocked", "destroyed"}
    BY <1>4, <2>1
  <2>2. CASE stage["store"] \notin {"unlocked", "destroyed"}
    <3>1. isIdleActionState(actionState')
      BY <1>1, <1>2, <1>4, <2>2
    <3>2. \A i \in 1..Len(works') : ~IsUnderWay(i)'
      BY <1>4, <3>1 DEF IdleMeansNothingUnderWay
    <3> QED BY <3>1, <3>2 DEF NothingOldUnderWay, isIdleActionState
  <2> QED BY <2>1, <2>2
<1> QED BY <1>3, <1>4 DEF StoreWaitsForWork, NothingOldUnderWay

-----------------------------------------------------------------------------
(* Updates of the store *)

LEMMA TriggerStep ==
  ASSUME ActionInvariant, Trigger
  PROVE  ActionInvariant'
<1>1. TypeOK /\ ValueIsNew /\ OneWorkPerTrigger /\ NothingUnderWayBefore
      /\ IdleMeansNothingUnderWay /\ StoreWaitsForWork
  BY DEF ActionInvariant
<1>2. /\ IsAlive("store") /\ disabled = {} /\ isIdleActionState(actionState)
      /\ triggers < MaxTriggers /\ triggers' = triggers + 1
      /\ actionState' = "triggered" /\ disabled' = {} /\ getterOpen' = IsAlive("getter")
      /\ UNCHANGED <<lastReady, works, handlerLock, handlerErrored, triggersBefore,
                     interrupted, timedOut>>
      /\ SeeUnlocks
  BY DEF Trigger, canTriggerAction, isActionContextEnabled
<1>3. stage \in [Part -> Stage] /\ triggers \in Nat /\ MaxTriggers \in Nat
      /\ lastReady \in 0..triggers /\ triggersBefore \in 0..triggers
  BY <1>1, BoundsAssumption DEF TypeOK, Part
<1>4. /\ stage' \in [Part -> Stage]
      /\ \A p \in Part : stage'[p] = "destroyed" <=> stage[p] = "destroyed"
  BY <1>2, <1>3, SeeUnlocksStep
<1>5. TypeOK'
  <2>1. triggers' \in 0..MaxTriggers /\ lastReady' \in 0..triggers'
        /\ triggersBefore' \in 0..triggers'
    BY <1>2, <1>3
  <2>2. getterOpen' \in BOOLEAN /\ (getterOpen' => IsAlive("getter")')
    BY <1>2, <1>4 DEF IsAlive, Part, Directive
  <2>3. \A i \in 1..Len(works') : works'[i].trigger \in 1..triggers'
    BY <1>1, <1>2, <1>3 DEF TypeOK
  <2>4. handlerLock' \in 0..Len(works') /\ works' \in Seq(Work)
    BY <1>1, <1>2 DEF TypeOK
  <2>5. /\ actionState' \in ActionState /\ disabled' \subseteq DisabledKey
        /\ handlerErrored' \in BOOLEAN /\ interrupted' \in BOOLEAN /\ timedOut' \in BOOLEAN
    BY <1>1, <1>2 DEF TypeOK, ActionState
  <2> QED BY <1>4, <2>1, <2>2, <2>3, <2>4, <2>5 DEF TypeOK, Part
<1>6. ValueIsNew'
  <2>1. lastReady' < triggers'
    BY <1>2, <1>3
  <2> QED BY <1>1, <1>2, <2>1 DEF ValueIsNew
<1>7. OneWorkPerTrigger'
  BY <1>1, <1>2 DEF OneWorkPerTrigger
<1>8. NothingUnderWayBefore' /\ IdleMeansNothingUnderWay'
  BY <1>1, <1>2 DEF NothingUnderWayBefore, IdleMeansNothingUnderWay, IsUnderWay,
                    isIdleActionState
<1>9. StoreWaitsForWork'
  <2>1. triggersBefore' < triggers'
    BY <1>2, <1>3
  <2>2. ~interrupted' => \A i \in 1..Len(works') : ~IsUnderWay(i)'
    BY <1>2, <1>8 DEF NothingUnderWayBefore
  <2>3. ~interrupted' => NothingOldUnderWay'
    BY <2>1, <2>2 DEF NothingOldUnderWay
  <2>4. timedOut' = timedOut
    BY <1>2
  <2> QED BY <1>1, <1>2, <1>3, <1>8, <2>3, <2>4, StoreWaitsStep
<1> QED BY <1>5, <1>6, <1>7, <1>8, <1>9 DEF ActionInvariant

\* An update that leaves the works, the triggers and the ready value alone, to a state
\* that is idle, and that counts as an interruption when work may be under way.
LEMMA IdleUpdateStep ==
  ASSUME ActionInvariant, SeeUnlocks,
         actionState' = actionState \/ isIdleActionState(actionState'),
         actionState' \in ActionState, disabled' \subseteq DisabledKey,
         getterOpen' \in BOOLEAN, getterOpen' => getterOpen,
         interrupted' \in BOOLEAN, interrupted => interrupted',
         actionState \in {"valueReady", "working"} => interrupted' \/ actionState' = actionState,
         UNCHANGED <<lastReady, works, handlerLock, handlerErrored, triggers,
                     triggersBefore, timedOut>>
  PROVE  ActionInvariant'
<1>1. TypeOK /\ ValueIsNew /\ OneWorkPerTrigger /\ NothingUnderWayBefore
      /\ IdleMeansNothingUnderWay /\ StoreWaitsForWork
  BY DEF ActionInvariant
<1>2. stage \in [Part -> Stage]
  BY <1>1 DEF TypeOK, Part
<1>3. /\ stage' \in [Part -> Stage]
      /\ \A p \in Part : stage'[p] = "destroyed" <=> stage[p] = "destroyed"
  BY <1>2, SeeUnlocksStep
<1>4. TypeOK'
  <2>1. getterOpen' => IsAlive("getter")'
    BY <1>1, <1>3 DEF TypeOK, IsAlive, Part, Directive
  <2> QED BY <1>1, <1>3, <2>1 DEF TypeOK, Part
<1>5. actionState' = "triggered" => actionState = "triggered"
  BY DEF isIdleActionState
<1>6. ValueIsNew'
  BY <1>1, <1>5 DEF ValueIsNew
<1>7. OneWorkPerTrigger'
  BY <1>1 DEF OneWorkPerTrigger
<1>8. NothingUnderWayBefore'
  BY <1>1, <1>5 DEF NothingUnderWayBefore, IsUnderWay
<1>9. IdleMeansNothingUnderWay'
  <2>1. SUFFICES ASSUME ~interrupted' PROVE IdleMeansNothingUnderWay'
    BY DEF IdleMeansNothingUnderWay
  <2>2. isIdleActionState(actionState') =>
          isIdleActionState(actionState) \/ actionState = "triggered"
    BY <1>1, <2>1 DEF TypeOK, ActionState, isIdleActionState
  <2>3. isIdleActionState(actionState') => \A i \in 1..Len(works) : ~IsUnderWay(i)
    BY <1>1, <2>1, <2>2 DEF IdleMeansNothingUnderWay, NothingUnderWayBefore
  <2> QED BY <1>1, <2>1, <2>3 DEF IdleMeansNothingUnderWay, IsUnderWay
<1>10. StoreWaitsForWork'
  <2>1. stage["store"] \in {"unlocked", "destroyed"} /\ ~timedOut /\ ~interrupted'
          => NothingOldUnderWay'
    BY <1>1, <1>5 DEF StoreWaitsForWork, NothingOldUnderWay, IsUnderWay
  <2>2. timedOut' = timedOut
    OBVIOUS
  <2> QED BY <1>1, <1>2, <1>9, <2>1, <2>2, StoreWaitsStep
<1> QED BY <1>4, <1>6, <1>7, <1>8, <1>9, <1>10 DEF ActionInvariant

LEMMA SetIsModifiedStep ==
  ASSUME ActionInvariant, SetIsModified
  PROVE  ActionInvariant'
<1>1. /\ actionState' = "idle" /\ SeeUnlocks
      /\ UNCHANGED <<disabled, getterOpen, interrupted>>
      /\ UNCHANGED <<lastReady, works, handlerLock, handlerErrored, triggers,
                     triggersBefore, timedOut>>
      /\ actionState = "resolved"
  BY DEF SetIsModified
<1>2. disabled' \subseteq DisabledKey /\ getterOpen' \in BOOLEAN /\ interrupted' \in BOOLEAN
  BY <1>1 DEF ActionInvariant, TypeOK
<1>3. actionState' \in ActionState /\ isIdleActionState(actionState')
  BY <1>1 DEF ActionState, isIdleActionState
<1> QED BY <1>1, <1>2, <1>3, IdleUpdateStep

LEMMA ResetStep ==
  ASSUME ActionInvariant, Reset
  PROVE  ActionInvariant'
<1>1. /\ actionState' = "idle" /\ disabled' = {} /\ SeeUnlocks
      /\ interrupted' = (interrupted \/ isWorkingActionState(actionState))
      /\ UNCHANGED getterOpen
      /\ UNCHANGED <<lastReady, works, handlerLock, handlerErrored, triggers,
                     triggersBefore, timedOut>>
  BY DEF Reset
<1>2. disabled' \subseteq DisabledKey /\ getterOpen' \in BOOLEAN
  BY <1>1 DEF ActionInvariant, TypeOK
<1>3. interrupted' \in BOOLEAN
  BY <1>1 DEF ActionInvariant, TypeOK, isWorkingActionState, isIdleActionState
<1>4. actionState' \in ActionState /\ isIdleActionState(actionState')
  BY <1>1 DEF ActionState, isIdleActionState
<1>5. actionState \in {"valueReady", "working"} => interrupted'
  BY <1>1 DEF isWorkingActionState, isIdleActionState
<1> QED BY <1>1, <1>2, <1>3, <1>4, <1>5, IdleUpdateStep

LEMMA GetterGivesNothingStep ==
  ASSUME ActionInvariant, GetterGivesNothing
  PROVE  ActionInvariant'
<1>1. /\ getterOpen /\ getterOpen' \in BOOLEAN
      /\ Update("rejected") /\ SeeUnlocks
      /\ interrupted' = (interrupted \/ actionState \in {"valueReady", "working"})
      /\ UNCHANGED disabled
      /\ UNCHANGED <<lastReady, works, handlerLock, handlerErrored, triggers,
                     triggersBefore, timedOut>>
  BY DEF GetterGivesNothing
<1>2. disabled' \subseteq DisabledKey /\ interrupted' \in BOOLEAN
  BY <1>1 DEF ActionInvariant, TypeOK
<1>3. /\ actionState' \in ActionState
      /\ actionState' = actionState \/ isIdleActionState(actionState')
  BY <1>1 DEF ActionInvariant, TypeOK, Update, ActionState, isIdleActionState
<1> QED BY <1>1, <1>2, <1>3, IdleUpdateStep

LEMMA SetDisabledStep ==
  ASSUME ActionInvariant, NEW keys \in SUBSET DisabledKey, SetDisabled(keys)
  PROVE  ActionInvariant'
<1>1. /\ disabled' = keys
      /\ UNCHANGED <<actionState, lastReady, getterOpen, works, handlerLock,
                     handlerErrored, stage, triggers, triggersBefore, interrupted, timedOut>>
  BY DEF SetDisabled
<1>2. TypeOK'
  BY <1>1 DEF ActionInvariant, TypeOK, IsAlive
<1>3. (ValueIsNew /\ OneWorkPerTrigger /\ NothingUnderWayBefore
       /\ IdleMeansNothingUnderWay /\ StoreWaitsForWork)'
  BY <1>1 DEF ActionInvariant, ValueIsNew, OneWorkPerTrigger, NothingUnderWayBefore,
              IdleMeansNothingUnderWay, StoreWaitsForWork, IsUnderWay
<1> QED BY <1>2, <1>3 DEF ActionInvariant

-----------------------------------------------------------------------------
(* Work *)

\* A work that starts, succeeds or fails: as long as nothing cut in it is the only one
\* under way, and it is for a later trigger than those the store was waited for.
LEMMA WorkStep ==
  ASSUME ActionInvariant, NEW i \in 1..Len(works), NEW from,
         from \subseteq {"created", "started"},
         NEW status \in {"started", "succeeded", "failed"},
         NEW s \in {"working", "resolved", "rejected"},
         s # "working" => status # "started",
         s = "working" => status = "started",
         WorkGoesOn(i, from, status, s)
  PROVE  ActionInvariant'
<1>1. TypeOK /\ ValueIsNew /\ OneWorkPerTrigger /\ NothingUnderWayBefore
      /\ IdleMeansNothingUnderWay /\ StoreWaitsForWork
  BY DEF ActionInvariant
<1>2. /\ works[i].status \in from
      /\ works' = [works EXCEPT ![i].status = status]
      /\ Update(s) /\ SeeUnlocks
      /\ UNCHANGED <<disabled, lastReady, getterOpen, handlerLock, handlerErrored,
                     triggers, triggersBefore, interrupted, timedOut>>
  BY DEF WorkGoesOn
<1>3. works \in Seq(Work) /\ stage \in [Part -> Stage]
  BY <1>1 DEF TypeOK, Part
<1>4. /\ works' \in Seq(Work) /\ Len(works') = Len(works)
      /\ works'[i].status = status
      /\ \A j \in 1..Len(works) : /\ works'[j].trigger = works[j].trigger
                                  /\ works'[j].isReplay = works[j].isReplay
                                  /\ j # i => works'[j] = works[j]
  BY <1>2, <1>3, WorkGoesOnStep
<1>5. /\ stage' \in [Part -> Stage]
      /\ \A p \in Part : stage'[p] = "destroyed" <=> stage[p] = "destroyed"
  BY <1>2, <1>3, SeeUnlocksStep
<1>6. IsUnderWay(i)
  BY <1>2 DEF IsUnderWay, IsEnded
<1>7. \A j \in 1..Len(works) : IsUnderWay(j)' => IsUnderWay(j)
  BY <1>4, <1>6 DEF IsUnderWay
<1>8. actionState' \in {actionState, s} /\ (actionState' = "triggered" => actionState = "triggered")
  BY <1>2 DEF Update
<1>9. TypeOK'
  <2>1. getterOpen' => IsAlive("getter")'
    BY <1>1, <1>2, <1>5 DEF TypeOK, IsAlive, Part, Directive
  <2>2. \A j \in 1..Len(works') : works'[j].trigger \in 1..triggers'
    BY <1>1, <1>2, <1>4 DEF TypeOK
  <2>3. actionState' \in ActionState
    BY <1>1, <1>8 DEF TypeOK, ActionState
  <2>4. handlerLock' \in 0..Len(works')
    BY <1>1, <1>2, <1>4 DEF TypeOK
  <2>5. /\ disabled' \subseteq DisabledKey /\ lastReady' \in 0..triggers'
        /\ getterOpen' \in BOOLEAN /\ handlerErrored' \in BOOLEAN
        /\ triggers' \in 0..MaxTriggers /\ triggersBefore' \in 0..triggers'
        /\ interrupted' \in BOOLEAN /\ timedOut' \in BOOLEAN
    BY <1>1, <1>2 DEF TypeOK
  <2> QED BY <1>4, <1>5, <2>1, <2>2, <2>3, <2>4, <2>5 DEF TypeOK, Part
<1>10. ValueIsNew'
  BY <1>1, <1>2, <1>4, <1>8 DEF ValueIsNew
<1>11. OneWorkPerTrigger'
  BY <1>1, <1>4 DEF OneWorkPerTrigger
<1>12. ~interrupted => \A j \in 1..Len(works) : j # i => ~IsUnderWay(j)
  BY <1>1, <1>6 DEF IdleMeansNothingUnderWay
<1>13. ~interrupted => ~isIdleActionState(actionState) /\ actionState # "triggered"
  BY <1>1, <1>6 DEF IdleMeansNothingUnderWay, NothingUnderWayBefore
<1>14. NothingUnderWayBefore'
  BY <1>2, <1>8, <1>13 DEF NothingUnderWayBefore
<1>15. IdleMeansNothingUnderWay'
  <2>1. SUFFICES ASSUME ~interrupted PROVE IdleMeansNothingUnderWay'
    BY <1>2 DEF IdleMeansNothingUnderWay
  <2>2. \A j \in 1..Len(works) : IsUnderWay(j)' => j = i
    BY <1>7, <1>12, <2>1
  <2>3. isIdleActionState(actionState') => ~IsUnderWay(i)'
    <3>1. SUFFICES ASSUME isIdleActionState(actionState') PROVE ~IsUnderWay(i)'
      OBVIOUS
    <3>2. s # "working"
      BY <1>8, <1>13, <2>1, <3>1 DEF isIdleActionState
    <3> QED BY <1>4, <3>2 DEF IsUnderWay, IsEnded
  <2> QED BY <1>4, <2>2, <2>3 DEF IdleMeansNothingUnderWay
<1>16. StoreWaitsForWork'
  <2>1. stage["store"] \in {"unlocked", "destroyed"} /\ ~timedOut /\ ~interrupted'
          => NothingOldUnderWay'
    BY <1>1, <1>2, <1>4, <1>7, <1>8 DEF StoreWaitsForWork, NothingOldUnderWay
  <2>2. timedOut' = timedOut
    BY <1>2
  <2> QED BY <1>1, <1>2, <1>3, <1>15, <2>1, <2>2, StoreWaitsStep
<1> QED BY <1>9, <1>10, <1>11, <1>14, <1>15, <1>16 DEF ActionInvariant

LEMMA WorkStepsStep ==
  ASSUME ActionInvariant, WorkSteps
  PROVE  ActionInvariant'
<1>1. PICK i \in 1..Len(works) : WorkStarts(i) \/ WorkSucceeds(i) \/ WorkFails(i)
  BY DEF WorkSteps, WorkEnds
<1>2. CASE WorkStarts(i)
  <2>1. WorkGoesOn(i, {"created"}, "started", "working")
    BY <1>2 DEF WorkStarts
  <2>2. {"created"} \subseteq {"created", "started"}
    OBVIOUS
  <2> QED BY <2>1, <2>2, WorkStep
<1>3. CASE WorkSucceeds(i)
  <2>1. WorkGoesOn(i, {"created", "started"}, "succeeded", "resolved")
    BY <1>3 DEF WorkSucceeds
  <2> QED BY <2>1, WorkStep
<1>4. CASE WorkFails(i)
  <2>1. WorkGoesOn(i, {"created", "started"}, "failed", "rejected")
    BY <1>4 DEF WorkFails
  <2> QED BY <2>1, WorkStep
<1> QED BY <1>1, <1>2, <1>3, <1>4

-----------------------------------------------------------------------------
(* Values handed to the handler *)

\* Work handed over again counts as an interruption; only the types and the numbering
\* of the works need to be kept.
LEMMA HandlerChangesStep ==
  ASSUME ActionInvariant, HandlerChanges
  PROVE  ActionInvariant'
<1>1. TypeOK /\ ValueIsNew /\ OneWorkPerTrigger /\ StoreWaitsForWork
  BY DEF ActionInvariant
<1>2. /\ lastReady # 0 /\ interrupted' = TRUE /\ SeeUnlocks
      /\ Handle(lastReady, TRUE, actionState)
      /\ UNCHANGED <<disabled, lastReady, getterOpen, triggers, triggersBefore, timedOut>>
  BY DEF HandlerChanges
<1>3. /\ works \in Seq(Work) /\ stage \in [Part -> Stage] /\ Len(works) \in Nat
      /\ handlerLock \in 0..Len(works) /\ handlerErrored \in BOOLEAN
      /\ actionState \in ActionState
      /\ triggers \in Nat /\ lastReady \in 1..triggers /\ lastReady \in Nat
  BY <1>1, <1>2, LenProperties, BoundsAssumption DEF TypeOK, Part
<1>4. /\ \E new \in Work : /\ works' = Append(works, new)
                           /\ new.trigger = lastReady /\ new.isReplay = TRUE
      /\ handlerLock' \in 0..(Len(works) + 1)
      /\ handlerErrored' \in BOOLEAN
      /\ actionState' \in {actionState, "working", "resolved", "rejected"}
  <2>1. Handle(lastReady, TRUE, actionState) /\ TRUE \in BOOLEAN
    BY <1>2
  <2> QED BY <1>3, <2>1, HandleStep
<1>5. PICK new \in Work : /\ works' = Append(works, new)
                          /\ new.trigger = lastReady /\ new.isReplay = TRUE
  BY <1>4
<1>6. /\ works' \in Seq(Work) /\ Len(works') = Len(works) + 1
      /\ works'[Len(works) + 1] = new
      /\ \A i \in 1..Len(works) : works'[i] = works[i]
  BY <1>3, <1>5, AppendWork
<1>7. \A i \in 1..Len(works') : i \in 1..Len(works) \/ i = Len(works) + 1
  BY <1>3, <1>6
<1>8. /\ stage' \in [Part -> Stage]
      /\ \A p \in Part : stage'[p] = "destroyed" <=> stage[p] = "destroyed"
  BY <1>2, <1>3, SeeUnlocksStep
<1>9. TypeOK'
  <2>1. getterOpen' => IsAlive("getter")'
    BY <1>1, <1>2, <1>8 DEF TypeOK, IsAlive, Part, Directive
  <2>2. \A i \in 1..Len(works') : works'[i].trigger \in 1..triggers'
    BY <1>1, <1>2, <1>3, <1>5, <1>6, <1>7 DEF TypeOK
  <2>3. actionState' \in ActionState
    BY <1>3, <1>4 DEF ActionState
  <2>4. handlerLock' \in 0..Len(works')
    BY <1>4, <1>6
  <2>5. /\ disabled' \subseteq DisabledKey /\ lastReady' \in 0..triggers'
        /\ getterOpen' \in BOOLEAN /\ interrupted' \in BOOLEAN /\ timedOut' \in BOOLEAN
        /\ triggers' \in 0..MaxTriggers /\ triggersBefore' \in 0..triggers'
    BY <1>1, <1>2 DEF TypeOK
  <2> QED BY <1>4, <1>6, <1>8, <2>1, <2>2, <2>3, <2>4, <2>5 DEF TypeOK, Part
<1>10. ValueIsNew'
  BY <1>1, <1>2, <1>4, <1>5, <1>6, <1>7 DEF ValueIsNew
<1>11. OneWorkPerTrigger'
  BY <1>1, <1>5, <1>6, <1>7 DEF OneWorkPerTrigger
<1>12. NothingUnderWayBefore' /\ IdleMeansNothingUnderWay'
  BY <1>2 DEF NothingUnderWayBefore, IdleMeansNothingUnderWay
<1>13. StoreWaitsForWork'
  BY <1>1, <1>2, <1>3, <1>12, StoreWaitsStep
<1> QED BY <1>9, <1>10, <1>11, <1>12, <1>13 DEF ActionInvariant

\* What a value that is taken leaves of the invariant when it leaves the works alone, or
\* adds one for the last trigger: no earlier work is under way, and none has this trigger.
LEMMA ValueTakenStep ==
  ASSUME ActionInvariant, IsAlive("store"), canReadyValue, getterOpen, getterOpen' \in BOOLEAN,
         NEW n \in Nat, n = Len(works') - Len(works), n \in {0, 1},
         works' \in Seq(Work),
         \A i \in 1..Len(works) : works'[i] = works[i],
         n = 1 => /\ works'[Len(works) + 1].trigger = triggers
                  /\ ~works'[Len(works) + 1].isReplay
                  /\ ~IsEnded(works'[Len(works) + 1]) => actionState' \in {"valueReady", "working"},
         actionState' \in {"valueReady", "working", "resolved", "rejected"},
         handlerLock' \in 0..Len(works'), handlerErrored' \in BOOLEAN,
         lastReady' = triggers,
         UNCHANGED <<disabled, triggers, triggersBefore, interrupted, timedOut>>,
         SeeUnlocks
  PROVE  ActionInvariant'
<1>1. /\ TypeOK /\ ValueIsNew /\ OneWorkPerTrigger /\ NothingUnderWayBefore
      /\ StoreWaitsForWork
      /\ actionState = "triggered"
  BY DEF ActionInvariant, canReadyValue
<1>2. /\ stage \in [Part -> Stage] /\ Len(works) \in Nat /\ Len(works') \in Nat
      /\ triggers \in Nat /\ triggersBefore \in 0..triggers /\ lastReady \in Nat
      /\ lastReady < triggers
  BY <1>1, LenProperties, BoundsAssumption DEF TypeOK, Part, ValueIsNew
<1>3. \A i \in 1..Len(works') : i \in 1..Len(works) \/ (i = Len(works) + 1 /\ n = 1)
  BY <1>2
<1>4. /\ stage' \in [Part -> Stage]
      /\ \A p \in Part : stage'[p] = "destroyed" <=> stage[p] = "destroyed"
  BY <1>2, SeeUnlocksStep
<1>5. TypeOK'
  <2>1. getterOpen' => IsAlive("getter")'
    BY <1>1, <1>4 DEF TypeOK, IsAlive, Part, Directive
  <2>2. \A i \in 1..Len(works') : works'[i].trigger \in 1..triggers'
    BY <1>1, <1>2, <1>3 DEF TypeOK
  <2>3. actionState' \in ActionState /\ lastReady' \in 0..triggers'
    BY <1>2 DEF ActionState
  <2>4. /\ disabled' \subseteq DisabledKey /\ interrupted' \in BOOLEAN /\ timedOut' \in BOOLEAN
        /\ triggers' \in 0..MaxTriggers /\ triggersBefore' \in 0..triggers'
    BY <1>1 DEF TypeOK
  <2> QED BY <1>4, <2>1, <2>2, <2>3, <2>4 DEF TypeOK, Part
<1>6. ValueIsNew'
  <2>1. \A i \in 1..Len(works') : ~works'[i].isReplay => works'[i].trigger <= triggers
    <3>1. SUFFICES ASSUME NEW i \in 1..Len(works'), ~works'[i].isReplay
                   PROVE  works'[i].trigger <= triggers
      OBVIOUS
    <3>2. works'[i].trigger \in 1..triggers
      BY <1>5 DEF TypeOK
    <3> QED BY <1>2, <3>2
  <2> QED BY <2>1 DEF ValueIsNew
<1>7. OneWorkPerTrigger'
  <2>1. \A i \in 1..Len(works) : ~works[i].isReplay => works[i].trigger # triggers
    <3>1. SUFFICES ASSUME NEW i \in 1..Len(works), ~works[i].isReplay
                   PROVE  works[i].trigger # triggers
      OBVIOUS
    <3>2. works[i].trigger <= lastReady /\ works[i].trigger \in 1..triggers
      BY <1>1, <3>1 DEF ValueIsNew, TypeOK
    <3> QED BY <1>2, <3>2
  <2> QED BY <1>1, <1>3, <2>1 DEF OneWorkPerTrigger
<1>8. ~interrupted => \A i \in 1..Len(works) : ~IsUnderWay(i)'
  BY <1>1 DEF NothingUnderWayBefore, IsUnderWay
<1>9. NothingUnderWayBefore'
  BY DEF NothingUnderWayBefore
<1>10. IdleMeansNothingUnderWay'
  <2>1. SUFFICES ASSUME ~interrupted PROVE IdleMeansNothingUnderWay'
    BY DEF IdleMeansNothingUnderWay
  <2>2. \A i \in 1..Len(works') : IsUnderWay(i)' => i = Len(works) + 1 /\ n = 1
    BY <1>3, <1>8, <2>1
  <2>3. isIdleActionState(actionState') => \A i \in 1..Len(works') : ~IsUnderWay(i)'
    BY <2>2 DEF isIdleActionState, IsUnderWay
  <2> QED BY <2>2, <2>3 DEF IdleMeansNothingUnderWay
<1>11. StoreWaitsForWork'
  <2>1. ASSUME stage["store"] \in {"unlocked", "destroyed"}, ~timedOut, ~interrupted'
        PROVE  NothingOldUnderWay'
    <3>1. triggersBefore < triggers
      BY <1>1, <2>1 DEF StoreWaitsForWork
    <3>2. \A i \in 1..Len(works) : ~IsUnderWay(i)'
      BY <1>8, <2>1
    <3>3. n = 1 => works'[Len(works) + 1].trigger = triggers
      OBVIOUS
    <3>4. \A i \in 1..Len(works') :
            works'[i].trigger <= triggersBefore => ~IsUnderWay(i)'
      <4>1. SUFFICES ASSUME NEW i \in 1..Len(works'), works'[i].trigger <= triggersBefore
                     PROVE  ~IsUnderWay(i)'
        OBVIOUS
      <4>2. i \in 1..Len(works)
        BY <1>2, <1>3, <3>1, <3>3, <4>1
      <4> QED BY <3>2, <4>2
    <3> QED BY <3>4 DEF NothingOldUnderWay
  <2>2. timedOut' = timedOut
    OBVIOUS
  <2> QED BY <1>1, <1>2, <1>10, <2>1, <2>2, StoreWaitsStep
<1> QED BY <1>5, <1>6, <1>7, <1>9, <1>10, <1>11 DEF ActionInvariant

LEMMA GetterGivesValueStep ==
  ASSUME ActionInvariant, GetterGivesValue
  PROVE  ActionInvariant'
<1>1. /\ getterOpen /\ getterOpen' \in BOOLEAN /\ SeeUnlocks
      /\ UNCHANGED <<disabled, triggers, triggersBefore, interrupted, timedOut>>
  BY DEF GetterGivesValue
<1>2. /\ works \in Seq(Work) /\ Len(works) \in Nat
      /\ handlerLock \in 0..Len(works) /\ handlerErrored \in BOOLEAN
      /\ actionState \in ActionState /\ triggers \in Nat
      /\ disabled \subseteq DisabledKey /\ interrupted \in BOOLEAN
  BY LenProperties, BoundsAssumption DEF ActionInvariant, TypeOK
<1>3. CASE IsAlive("store") /\ canReadyValue /\ IsHandling
  <2>1. lastReady' = triggers /\ Handle(triggers, FALSE, "valueReady")
    BY <1>3 DEF GetterGivesValue
  <2>2. "valueReady" \in ActionState /\ FALSE \in BOOLEAN
    BY DEF ActionState
  <2>3. /\ \E new \in Work :
             /\ works' = Append(works, new)
             /\ new.trigger = triggers /\ new.isReplay = FALSE
             /\ IsAlive("store") /\ ~IsEnded(new) => actionState' \in {"valueReady", "working"}
        /\ handlerLock' \in 0..(Len(works) + 1)
        /\ handlerErrored' \in BOOLEAN
        /\ actionState' \in {actionState, "valueReady", "working", "resolved", "rejected"}
    BY <1>2, <2>1, <2>2, HandleStep
  <2>4. PICK new \in Work :
             /\ works' = Append(works, new)
             /\ new.trigger = triggers /\ new.isReplay = FALSE
             /\ ~IsEnded(new) => actionState' \in {"valueReady", "working"}
    BY <1>3, <2>3
  <2>5. /\ works' \in Seq(Work) /\ Len(works') = Len(works) + 1
        /\ works'[Len(works) + 1] = new
        /\ \A i \in 1..Len(works) : works'[i] = works[i]
    BY <1>2, <2>4, AppendWork
  <2>6. ~IsEnded(works'[Len(works) + 1]) => actionState' \in {"valueReady", "working"}
    BY <2>4, <2>5
  <2>7. actionState' \in {"valueReady", "working", "resolved", "rejected"}
    BY <1>3, <2>1 DEF Handle, Update
  <2>8. handlerLock' \in 0..Len(works') /\ handlerErrored' \in BOOLEAN
    BY <2>3, <2>5
  <2>9. 1 = Len(works') - Len(works) /\ 1 \in Nat /\ 1 \in {0, 1}
    BY <1>2, <2>5
  <2>10. /\ works'[Len(works) + 1].trigger = triggers
         /\ ~works'[Len(works) + 1].isReplay
    BY <2>4, <2>5
  <2> QED BY <1>1, <1>3, <2>1, <2>5, <2>6, <2>7, <2>8, <2>9, <2>10, ValueTakenStep
<1>4. CASE IsAlive("store") /\ canReadyValue /\ ~IsHandling
  <2>1. /\ lastReady' = triggers /\ actionState' = "valueReady"
        /\ UNCHANGED <<works, handlerLock, handlerErrored>>
    BY <1>4 DEF GetterGivesValue
  <2>2. 0 = Len(works') - Len(works) /\ 0 \in Nat /\ 0 \in {0, 1}
    BY <1>2, <2>1
  <2>3. /\ works' \in Seq(Work) /\ \A i \in 1..Len(works) : works'[i] = works[i]
        /\ handlerLock' \in 0..Len(works') /\ handlerErrored' \in BOOLEAN
        /\ actionState' \in {"valueReady", "working", "resolved", "rejected"}
    BY <1>2, <2>1
  <2> QED BY <1>1, <1>4, <2>1, <2>2, <2>3, ValueTakenStep
<1>5. CASE ~(IsAlive("store") /\ canReadyValue)
  <2>1. UNCHANGED <<actionState, lastReady, works, handlerLock, handlerErrored>>
    BY <1>5 DEF GetterGivesValue
  <2>2. UNCHANGED <<lastReady, works, handlerLock, handlerErrored, triggers,
                    triggersBefore, timedOut>>
    BY <1>1, <2>1
  <2>3. actionState' = actionState /\ actionState' \in ActionState
    BY <1>2, <2>1
  <2>4. disabled' \subseteq DisabledKey /\ interrupted' \in BOOLEAN
        /\ (interrupted => interrupted')
    BY <1>1, <1>2
  <2> QED BY <1>1, <2>2, <2>3, <2>4, IdleUpdateStep
<1> QED BY <1>3, <1>4, <1>5

-----------------------------------------------------------------------------
(* Destruction *)

\* Steps of the destruction change nothing but how far the parts are destroyed, and
\* the getter's subscription.
LEMMA DestructionStep ==
  ASSUME ActionInvariant, stage' \in [Part -> Stage],
         getterOpen' \in BOOLEAN, getterOpen' => getterOpen /\ stage'["getter"] # "destroyed",
         triggersBefore' \in 0..triggers, timedOut' \in BOOLEAN,
         StoreWaitsForWork',
         UNCHANGED <<actionState, disabled, lastReady, works, handlerLock, handlerErrored,
                     triggers, interrupted>>
  PROVE  ActionInvariant'
<1>1. TypeOK'
  BY DEF ActionInvariant, TypeOK, IsAlive, Part
<1>2. (ValueIsNew /\ OneWorkPerTrigger /\ NothingUnderWayBefore /\ IdleMeansNothingUnderWay)'
  BY DEF ActionInvariant, ValueIsNew, OneWorkPerTrigger, NothingUnderWayBefore,
         IdleMeansNothingUnderWay, IsUnderWay
<1> QED BY <1>1, <1>2 DEF ActionInvariant

LEMMA DestroyComponentStep ==
  ASSUME ActionInvariant, DestroyComponent
  PROVE  ActionInvariant'
<1>1. /\ stage' = [p \in DOMAIN stage |->
                IF p = "store" THEN "alive"
                ELSE IF ContextUnlocked(works, handlerLock) THEN "unlocked" ELSE "waiting"]
      /\ triggersBefore' = triggers
      /\ UNCHANGED <<actionState, disabled, lastReady, getterOpen, works, handlerLock,
                     handlerErrored, triggers, interrupted, timedOut>>
  BY DEF DestroyComponent
<1>2. /\ stage \in [Part -> Stage] /\ triggers \in Nat
      /\ getterOpen \in BOOLEAN /\ timedOut \in BOOLEAN
  BY BoundsAssumption DEF ActionInvariant, TypeOK, Part
<1>3. /\ stage' \in [Part -> Stage] /\ stage'["store"] = "alive"
      /\ stage'["getter"] # "destroyed"
  BY <1>1, <1>2 DEF Part, Directive, Stage
<1>4. StoreWaitsForWork'
  BY <1>3 DEF StoreWaitsForWork
<1>5. triggersBefore' \in 0..triggers /\ getterOpen' \in BOOLEAN /\ timedOut' \in BOOLEAN
  BY <1>1, <1>2
<1> QED BY <1>1, <1>3, <1>4, <1>5, DestructionStep

\* The context goes, and the store starts to wait: if it sees no lock, nothing is under
\* way.
LEMMA DirectiveDestroyedStep ==
  ASSUME ActionInvariant, NEW p \in Directive, stage[p] \in {"unlocked", "waiting"},
         DirectiveDestroyed(p)
  PROVE  ActionInvariant'
<1>1. /\ stage' = IF p = "context"
              THEN [stage EXCEPT ![p] = "destroyed",
                                 !["store"] = IF StoreLocked(actionState) THEN "waiting"
                                                                        ELSE "unlocked"]
              ELSE [stage EXCEPT ![p] = "destroyed"]
      /\ getterOpen' = (getterOpen /\ p # "getter")
      /\ UNCHANGED <<triggersBefore, timedOut>>
      /\ UNCHANGED <<actionState, disabled, lastReady, works, handlerLock, handlerErrored,
                     triggers, interrupted>>
  BY DEF DirectiveDestroyed
<1>2. /\ stage \in [Part -> Stage] /\ getterOpen \in BOOLEAN
      /\ (getterOpen => stage["getter"] # "destroyed")
      /\ timedOut \in BOOLEAN /\ triggersBefore \in 0..triggers
      /\ IdleMeansNothingUnderWay /\ StoreWaitsForWork
  BY DEF ActionInvariant, TypeOK, Part, IsAlive
<1>3. p \in Part /\ p # "store" /\ "store" \in Part /\ "getter" \in Part /\ "context" \in Part
  BY DEF Part, Directive
<1>4. stage' \in [Part -> Stage]
  BY <1>1, <1>2, <1>3 DEF Stage
<1>5. getterOpen' \in BOOLEAN /\ (getterOpen' => getterOpen /\ stage'["getter"] # "destroyed")
  BY <1>1, <1>2, <1>3
<1>6. StoreWaitsForWork'
  <2>1. CASE p = "context"
    <3>1. /\ stage'["context"] = "destroyed"
          /\ stage'["store"] = IF StoreLocked(actionState) THEN "waiting" ELSE "unlocked"
      BY <1>1, <1>2, <1>3, <2>1
    <3>2. stage'["store"] \in {"unlocked", "destroyed"} => isIdleActionState(actionState)
      BY <3>1 DEF StoreLocked, isWorkingActionState
    <3> QED BY <1>1, <1>2, <3>1, <3>2
            DEF StoreWaitsForWork, IdleMeansNothingUnderWay, IsUnderWay, isIdleActionState
  <2>2. CASE p # "context"
    <3>1. stage'["context"] = stage["context"] /\ stage'["store"] = stage["store"]
      BY <1>1, <1>2, <1>3, <2>2
    <3> QED BY <1>1, <1>2, <3>1 DEF StoreWaitsForWork, IsUnderWay
  <2> QED BY <2>1, <2>2
<1>7. triggersBefore' \in 0..triggers /\ timedOut' \in BOOLEAN
  BY <1>1, <1>2
<1> QED BY <1>1, <1>4, <1>5, <1>6, <1>7, DestructionStep

LEMMA StoreDestroyedStep ==
  ASSUME ActionInvariant, NEW isTimeOut \in BOOLEAN, StoreDestroyed(isTimeOut)
  PROVE  ActionInvariant'
<1>1. /\ \A p \in Directive : stage[p] = "destroyed"
      /\ stage["store"] = IF isTimeOut THEN "waiting" ELSE "unlocked"
      /\ stage' = [stage EXCEPT !["store"] = "destroyed"]
      /\ timedOut' = (timedOut \/ isTimeOut)
      /\ UNCHANGED <<getterOpen, triggersBefore>>
      /\ UNCHANGED <<actionState, disabled, lastReady, works, handlerLock, handlerErrored,
                     triggers, interrupted>>
  BY DEF StoreDestroyed, WaitIsOver
<1>2. /\ stage \in [Part -> Stage] /\ getterOpen \in BOOLEAN /\ timedOut \in BOOLEAN
      /\ (getterOpen => stage["getter"] # "destroyed")
      /\ triggersBefore \in 0..triggers /\ StoreWaitsForWork
  BY DEF ActionInvariant, TypeOK, Part, IsAlive
<1>3. "store" \in Part /\ "getter" \in Part /\ "context" \in Directive
      /\ "context" \in Part /\ "getter" # "store" /\ "context" # "store"
  BY DEF Part, Directive
<1>4. stage' \in [Part -> Stage] /\ stage'["context"] = "destroyed"
  BY <1>1, <1>2, <1>3 DEF Stage
<1>5. getterOpen' \in BOOLEAN /\ (getterOpen' => getterOpen /\ stage'["getter"] # "destroyed")
  BY <1>1, <1>2, <1>3
<1>6. StoreWaitsForWork'
  <2>1. CASE isTimeOut
    <3>1. timedOut' = TRUE
      BY <1>1, <2>1
    <3> QED BY <1>4, <3>1 DEF StoreWaitsForWork
  <2>2. CASE ~isTimeOut
    <3>1. stage["store"] = "unlocked" /\ (timedOut' => timedOut) /\ (~timedOut' => ~timedOut)
      BY <1>1, <2>2
    <3> QED BY <1>1, <1>2, <1>4, <3>1 DEF StoreWaitsForWork, IsUnderWay
  <2> QED BY <2>1, <2>2
<1>7. triggersBefore' \in 0..triggers /\ timedOut' \in BOOLEAN
  BY <1>1, <1>2
<1> QED BY <1>1, <1>4, <1>5, <1>6, <1>7, DestructionStep

-----------------------------------------------------------------------------
(* Theorems *)

LEMMA InvariantInitially == Init => ActionInvariant
<1> SUFFICES ASSUME Init PROVE ActionInvariant
  OBVIOUS
<1>1. /\ actionState = "idle" /\ disabled = {} /\ lastReady = 0 /\ getterOpen = FALSE
      /\ works = <<>> /\ handlerLock = 0 /\ handlerErrored = FALSE
      /\ stage = [p \in Part |-> "alive"]
      /\ triggers = 0 /\ triggersBefore = 0 /\ interrupted = FALSE /\ timedOut = FALSE
  BY DEF Init, Part
<1>2. works \in Seq(Work) /\ Len(works) = 0
  BY <1>1
<1>3. "store" \in Part
  BY DEF Part
<1>4. TypeOK
  <2>1. works \in Seq(Work) /\ \A i \in 1..Len(works) : works[i].trigger \in 1..triggers
    BY <1>2
  <2>2. stage \in [Part -> Stage]
    BY <1>1 DEF Stage
  <2>3. /\ handlerLock \in 0..Len(works) /\ lastReady \in 0..triggers
        /\ triggers \in 0..MaxTriggers /\ triggersBefore \in 0..triggers
    BY <1>1, <1>2, BoundsAssumption
  <2>4. /\ actionState \in ActionState /\ disabled \subseteq DisabledKey
        /\ getterOpen = FALSE /\ handlerErrored \in BOOLEAN
        /\ interrupted \in BOOLEAN /\ timedOut \in BOOLEAN
    BY <1>1 DEF ActionState
  <2> QED BY <2>1, <2>2, <2>3, <2>4 DEF TypeOK, Part
<1>5. ValueIsNew /\ OneWorkPerTrigger /\ NothingUnderWayBefore
      /\ IdleMeansNothingUnderWay /\ StoreWaitsForWork
  BY <1>1, <1>2, <1>3
     DEF ValueIsNew, OneWorkPerTrigger, NothingUnderWayBefore, IdleMeansNothingUnderWay,
         StoreWaitsForWork
<1> QED BY <1>4, <1>5 DEF ActionInvariant

LEMMA InvariantKept == ActionInvariant /\ [Next]_vars => ActionInvariant'
<1> SUFFICES ASSUME ActionInvariant, [Next]_vars
             PROVE  ActionInvariant'
  OBVIOUS
<1>1. CASE Calls
  <2>1. \A k \in DisabledKey : disabled \cup {k} \in SUBSET DisabledKey
                               /\ disabled \ {k} \in SUBSET DisabledKey
    BY DEF ActionInvariant, TypeOK
  <2>2. ASSUME NEW k \in DisabledKey, Disable(k) \/ Enable(k)
        PROVE  ActionInvariant'
    <3>1. SetDisabled(disabled \cup {k}) \/ SetDisabled(disabled \ {k})
      BY <2>2 DEF Disable, Enable
    <3> QED BY <2>1, <3>1, SetDisabledStep
  <2> QED BY <1>1, <2>2, TriggerStep, SetIsModifiedStep, ResetStep DEF Calls
<1>2. CASE GetterAnswers
  BY <1>2, GetterGivesValueStep, GetterGivesNothingStep DEF GetterAnswers
<1>3. CASE HandlerChanges
  BY <1>3, HandlerChangesStep
<1>4. CASE WorkSteps
  BY <1>4, WorkStepsStep
<1>5. CASE DestroyComponent
  BY <1>5, DestroyComponentStep
<1>6. CASE DirectiveSteps
  <2>1. PICK p \in Directive : DirectiveUnlocks(p) \/ DirectiveTimesOut(p)
    BY <1>6 DEF DirectiveSteps
  <2>2. DirectiveDestroyed(p) /\ stage[p] \in {"unlocked", "waiting"}
    BY <2>1 DEF DirectiveUnlocks, DirectiveTimesOut
  <2> QED BY <2>2, DirectiveDestroyedStep
<1>7. CASE StoreSteps
  BY <1>7, StoreDestroyedStep DEF StoreSteps
<1>8. CASE UNCHANGED vars
  <2>1. UNCHANGED <<actionState, disabled, lastReady, works, handlerLock, handlerErrored,
                    triggers, interrupted>>
        /\ UNCHANGED <<getterOpen, stage, triggersBefore, timedOut>>
    BY <1>8 DEF vars
  <2>2. /\ StoreWaitsForWork' /\ stage' \in [Part -> Stage]
        /\ triggersBefore' \in 0..triggers /\ timedOut' \in BOOLEAN
        /\ getterOpen' \in BOOLEAN /\ (getterOpen' => getterOpen /\ stage'["getter"] # "destroyed")
    BY <2>1 DEF ActionInvariant, TypeOK, StoreWaitsForWork, IsUnderWay, Part, IsAlive
  <2> QED BY <2>1, <2>2, DestructionStep
<1>9. CASE Rest
  BY <1>8, <1>9 DEF Rest
<1> QED BY <1>1, <1>2, <1>3, <1>4, <1>5, <1>6, <1>7, <1>8, <1>9 DEF Next

\* The inductive invariant holds of every action context.
THEOREM ActionInvariantHolds == Spec => []ActionInvariant
BY InvariantInitially, InvariantKept, PTL DEF Spec

\* The variables keep their kinds.
THEOREM ActionTypeCorrect == Spec => []TypeOK
<1>1. ActionInvariant => TypeOK
  BY DEF ActionInvariant
<1> QED BY <1>1, ActionInvariantHolds, PTL

\* Whatever cuts in and however often the getter answers, a trigger leads to one work.
THEOREM TriggersWorkOnce == Spec => []OneWorkPerTrigger
<1>1. ActionInvariant => OneWorkPerTrigger
  BY DEF ActionInvariant
<1> QED BY <1>1, ActionInvariantHolds, PTL

\* As long as nothing cuts in, work ends before the store is idle again, and one work
\* is under way at a time.
THEOREM IdleStoreHasNoWork == Spec => []IdleMeansNothingUnderWay
<1>1. ActionInvariant => IdleMeansNothingUnderWay
  BY DEF ActionInvariant
<1> QED BY <1>1, ActionInvariantHolds, PTL

\* The store outlives the work for what was triggered before its component was
\* destroyed.
THEOREM StoreOutlivesWork == Spec => []WorkEndsBeforeItsStore
<1>1. ActionInvariant => WorkEndsBeforeItsStore
  <2> SUFFICES ASSUME ActionInvariant, ~IsAlive("store"), ~timedOut, ~interrupted,
                      NEW i \in 1..Len(works), works[i].trigger <= triggersBefore
               PROVE  ~IsUnderWay(i)
    BY DEF WorkEndsBeforeItsStore
  <2>1. stage["store"] \in {"unlocked", "destroyed"}
    BY DEF IsAlive
  <2> QED BY <2>1 DEF ActionInvariant, StoreWaitsForWork
<1> QED BY <1>1, ActionInvariantHolds, PTL
=============================================================================
