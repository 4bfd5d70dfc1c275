----------------------------- MODULE NewUserSetup -----------------------------
(***************************************************************************)
(* One user of the Firebase server, its claims, and the requests that work *)
(* on it through user contexts (AbstractFirebaseServerAuthUserContext) and *)
(* the new user service (AbstractFirebaseServerNewUserService).            *)
(*                                                                         *)
(* A request makes one operation after the other, each through a context of*)
(* its own or through the one it already has, and a context keeps the      *)
(* record it has loaded.  An action is the code between two awaited calls  *)
(* and the effect of the call that ends it; any call may fail.  Firebase   *)
(* auth and the sending of mails are external.                             *)
(***************************************************************************)
EXTENDS Integers, FiniteSets

CONSTANTS
  Request,        \* the requests
  Throttle,       \* setupThrottleTime
  MaxTime,        \* bound: the time
  MaxOperations,  \* bound: the operations
  MaxFailures,    \* bound: the calls that fail
  None            \* null or undefined

ASSUME RequestAssumption == IsFiniteSet(Request)
ASSUME TimeAssumption == Throttle \in Nat /\ MaxTime \in Nat
ASSUME BoundsAssumption == MaxOperations \in Nat /\ MaxFailures \in Nat
ASSUME NoneAssumption == None \notin Nat \cup Request

Time == 0..MaxTime

\* setupPassword and resetPassword are known by the request that has made them up;
\* resetCommunicationAt comes and goes with resetPassword.
Claims == [setupPassword : Request \cup {None}, setupCommunicationAt : Time \cup {None},
           resetPassword : Request \cup {None}, role : BOOLEAN]

NoClaims == [setupPassword |-> None, setupCommunicationAt |-> None,
             resetPassword |-> None, role |-> FALSE]

Operation == {
  "initializeNewUser", "addNewUserSetupClaims", "sendSetupContent",
  "markUserSetupAsComplete", "addRoles", "removeRoles", "setRoles", "clearClaims",
  "beginResetPassword", "setPassword", "loadRecord"}

\* They make contexts of their own, for the user's id.
OwnContext == {"initializeNewUser", "markUserSetupAsComplete"}

\* What a request awaits.
Awaited == {
  "getUser",        \* initializeNewUser() looks for the user
  "createUser",
  "exists",         \* the record of the user that setup content is sent to
  "sendSetupContentToUser",
  "clearIfExists",  \* the record of the user whose setup is complete
  "loadClaims",     \* the record whose claims are updated
  "setClaims", "updateUser", "loadRecord"}

VARIABLES
  exists, claims,  \* the user in Firebase auth
  now,
  op,        \* each request's operation,
  pc,        \* what it awaits, or how it has ended,
  record,    \* what its context has kept of loading the record,
  update,    \* the claims it changes, and to what,
  pending,   \* the claims it sets,
  sends,     \* initializeNewUser(): content is to be sent
  sent,      \* and has been
  operations, failures,
  outdated,  \* another request, or a call that failed, has set the claims since the load
  mailedAt,  \* when setup content was sent last
  unmarked   \* and it is not known from the claims, or two were sending at once

user == <<exists, claims>>
bounds == <<operations, failures>>
ghosts == <<outdated, mailedAt, unmarked>>
vars == <<user, now, op, pc, record, update, pending, sends, sent, bounds, ghosts>>

-----------------------------------------------------------------------------
(* The context *)

\* What the getter has kept: nothing yet, a record's claims, or a promise that is rejected
\* because there is no user or for another reason.
Kept == [is : {"unloaded", "loaded", "noUser", "rejected"}, claims : Claims]

Without(what) == [is |-> what, claims |-> NoClaims]

Unloaded == Without("unloaded")

IsLoaded(rec) == rec.is = "loaded"

\* _loadRecord(): what has been kept, or the answer of the server.
Record(r) ==
  IF record[r] # Unloaded THEN record[r]
  ELSE IF exists THEN [is |-> "loaded", claims |-> claims] ELSE Without("noUser")

Keeps(r, rec) ==
  /\ record' = [record EXCEPT ![r] = rec]
  /\ outdated' = [outdated EXCEPT ![r] = record[r] # Unloaded /\ @]

Await(r, call) == pc' = [pc EXCEPT ![r] = call]

End(r, how) == Await(r, how)

MergedIgnoringNull(current, u) ==
  [k \in DOMAIN current |-> IF k \in DOMAIN u /\ u[k] # None THEN u[k] ELSE current[k]]

\* { ...currentClaims, ...claims } without what is null.  Null takes a claim away.
Merged(current, u) == [k \in DOMAIN current |-> IF k \in DOMAIN u THEN u[k] ELSE current[k]]

\* updateClaims() goes on with the record of its context.
SetMerged(r, rec, u) ==
  /\ pending' = [pending EXCEPT ![r] = Merged(rec.claims, u)]
  /\ update' = [update EXCEPT ![r] = u]
  /\ Await(r, "setClaims")

\* What is kept once request r has set the claims.
StillKept(r) == record[r]

Reset(r) == Unloaded

-----------------------------------------------------------------------------
(* Beginning an operation *)

Setup(r) == [setupPassword |-> r]

SetupDone == [setupPassword |-> None, setupCommunicationAt |-> None]

\* The first call an operation awaits, and the claims it changes or sets.
First(o) ==
  CASE o = "initializeNewUser" -> "getUser"
    [] o = "sendSetupContent" -> "exists"
    [] o = "markUserSetupAsComplete" -> "clearIfExists"
    [] o \in {"addNewUserSetupClaims", "addRoles", "removeRoles", "beginResetPassword"} -> "loadClaims"
    [] o \in {"setRoles", "clearClaims"} -> "setClaims"
    [] o = "setPassword" -> "updateUser"
    [] o = "loadRecord" -> "loadRecord"

\* What setRoles() can be told to retain: nothing, or the claims of the setup.
Retained == {NoClaims, [claims EXCEPT !.resetPassword = None, !.role = FALSE]}

Change(r, o, retained) ==
  CASE o \in {"initializeNewUser", "addNewUserSetupClaims"} -> Setup(r)
    [] o = "markUserSetupAsComplete" -> SetupDone
    [] o = "addRoles" -> [role |-> TRUE]
    [] o = "removeRoles" -> [role |-> FALSE]
    [] o = "beginResetPassword" -> [resetPassword |-> r]
    [] o = "setPassword" -> [resetPassword |-> None]
    [] o = "setRoles" -> [retained EXCEPT !.role = TRUE]
    [] o = "clearClaims" -> NoClaims
    [] OTHER -> << >>

Begin(r) ==
  /\ pc[r] \in {"idle", "returned", "threw"} /\ operations < MaxOperations
  /\ operations' = operations + 1
  /\ \E o \in Operation, isNew \in BOOLEAN, retained \in Retained :
       /\ o \in OwnContext => isNew
       /\ op' = [op EXCEPT ![r] = o]
       /\ Await(r, First(o))
       /\ update' = [update EXCEPT ![r] = Change(r, o, retained)]
       /\ pending' = [pending EXCEPT ![r] =
            IF First(o) = "setClaims" THEN Change(r, o, retained) ELSE NoClaims]
       /\ record' = [record EXCEPT ![r] = IF isNew THEN Unloaded ELSE @]
       /\ outdated' = [outdated EXCEPT ![r] = ~isNew /\ @]
  /\ sends' = [sends EXCEPT ![r] = FALSE]
  /\ sent' = [sent EXCEPT ![r] = FALSE]
  /\ UNCHANGED <<user, now, failures, mailedAt, unmarked>>

-----------------------------------------------------------------------------
(* initializeNewUser(), besides what follows *)

NewContext(r) ==
  /\ record' = [record EXCEPT ![r] = Unloaded]
  /\ outdated' = [outdated EXCEPT ![r] = FALSE]

\* Content is sent to a user that is there only if the caller asks for that.
FindUser(r) ==
  /\ pc[r] = "getUser"
  /\ \/ exists /\ \E sendIfExists \in BOOLEAN : Await(r, IF sendIfExists THEN "exists" ELSE "returned")
     \/ ~exists /\ Await(r, "createUser")
  /\ UNCHANGED <<user, now, op, record, update, pending, sends, sent, bounds, ghosts>>

\* A user that another request has created meanwhile is an error.
CreateUser(r) ==
  /\ pc[r] = "createUser"
  /\ \/ exists /\ End(r, "threw") /\ UNCHANGED <<exists, sends>>
     \/ /\ ~exists /\ exists' = TRUE
        /\ \E s \in BOOLEAN : sends' = [sends EXCEPT ![r] = s]
        /\ Await(r, "loadClaims")
  /\ UNCHANGED <<claims, now, op, record, update, pending, sent, bounds, ghosts>>

\* The record is loaded: for itself, or at the end of initializeNewUser(), or before it
\* sends content.
LoadRecord(r) ==
  /\ pc[r] = "loadRecord"
  /\ \/ /\ IsLoaded(Record(r)) /\ sends[r] /\ ~sent[r]
        /\ NewContext(r)
        /\ Await(r, "exists")
     \/ /\ ~(IsLoaded(Record(r)) /\ sends[r] /\ ~sent[r])
        /\ Keeps(r, Record(r))
        /\ End(r, IF IsLoaded(Record(r)) THEN "returned" ELSE "threw")
  /\ UNCHANGED <<user, now, op, update, pending, sends, sent, bounds, mailedAt, unmarked>>

-----------------------------------------------------------------------------
(* updateClaims() and markUserSetupAsComplete() *)

LoadClaims(r) ==
  /\ pc[r] \in {"loadClaims", "clearIfExists"}
  /\ Keeps(r, Record(r))
  /\ \/ IsLoaded(Record(r)) /\ SetMerged(r, Record(r), update[r])
     \/ /\ ~IsLoaded(Record(r))
        /\ End(r, IF pc[r] = "clearIfExists" /\ Record(r).is = "noUser" THEN "returned" ELSE "threw")
        /\ UNCHANGED <<update, pending>>
  /\ UNCHANGED <<user, now, op, sends, sent, bounds, mailedAt, unmarked>>

\* The operation goes on when the claims are set.
AfterSetClaims(r) ==
  CASE op[r] = "initializeNewUser" -> "loadRecord"
    [] op[r] = "beginResetPassword" -> "updateUser"
    [] OTHER -> "returned"

Marks(r) ==
  /\ op[r] \in {"initializeNewUser", "sendSetupContent"}
  /\ "setupCommunicationAt" \in DOMAIN update[r] /\ update[r].setupCommunicationAt # None

\* The request is about to note when it has sent content.
Marking(r) == pc[r] = "setClaims" /\ Marks(r)

ClaimsAreSet(r) ==
  /\ claims' = pending[r]
  /\ unmarked' = (unmarked \/ (~Marks(r) /\ claims'.setupCommunicationAt # claims.setupCommunicationAt))

SetClaims(r) ==
  /\ pc[r] = "setClaims"
  /\ exists
  /\ ClaimsAreSet(r)
  /\ record' = [record EXCEPT ![r] = Reset(r)]
  /\ outdated' = [q \in Request |-> q # r]
  /\ Await(r, AfterSetClaims(r))
  /\ UNCHANGED <<exists, now, op, update, pending, sends, sent, bounds, mailedAt>>

UpdateUser(r) ==
  /\ pc[r] = "updateUser"
  /\ Await(r, IF ~exists THEN "threw" ELSE IF op[r] = "setPassword" THEN "loadClaims" ELSE "returned")
  /\ UNCHANGED <<user, now, op, record, update, pending, sends, sent, bounds, ghosts>>

-----------------------------------------------------------------------------
(* sendSetupContent() *)

IsThrottledBefore(c) == c.setupCommunicationAt # None /\ now < c.setupCommunicationAt + Throttle

IsThrottled(c) == c.setupCommunicationAt # None /\ now <= c.setupCommunicationAt + Throttle

\* initializeNewUser() loads the record again only when content has been sent.
CheckSetup(r) ==
  /\ pc[r] = "exists"
  /\ Keeps(r, Record(r))
  /\ \/ /\ IsLoaded(Record(r))
        /\ Await(r, IF Record(r).claims.setupPassword # None /\ ~IsThrottled(Record(r).claims)
                    THEN "sendSetupContentToUser" ELSE "returned")
     \/ ~IsLoaded(Record(r)) /\ End(r, IF Record(r).is = "noUser" THEN "returned" ELSE "threw")
  /\ UNCHANGED <<user, now, op, update, pending, sends, sent, bounds, mailedAt, unmarked>>

\* The claims that updateSetupContentSentTime() merges into are those of the check.
MarkSent(r) == SetMerged(r, record[r], [setupCommunicationAt |-> now])

SendSetupContent(r) ==
  /\ pc[r] = "sendSetupContentToUser"
  /\ MarkSent(r)
  /\ sent' = [sent EXCEPT ![r] = TRUE]
  /\ mailedAt' = now
  /\ unmarked' = \/ outdated[r]
                 \/ \E q \in Request \ {r} :
                      pc[q] = "sendSetupContentToUser" \/ Marking(q)
  /\ UNCHANGED <<user, now, op, record, sends, bounds, outdated>>

-----------------------------------------------------------------------------
(* What happens around it *)

\* A call fails, and the operation with it.  A load that failed is kept by the context;
\* claims may have been set nevertheless.
Fail(r) ==
  /\ pc[r] \in Awaited /\ failures < MaxFailures
  /\ failures' = failures + 1
  /\ End(r, "threw")
  /\ \/ /\ pc[r] \in {"exists", "clearIfExists", "loadClaims", "loadRecord"} /\ record[r] = Unloaded
        /\ record' = [record EXCEPT ![r] = Without("rejected")]
        /\ UNCHANGED <<claims, outdated, unmarked>>
     \/ /\ pc[r] \in {"getUser", "createUser", "sendSetupContentToUser", "updateUser"}
        /\ UNCHANGED <<claims, record, outdated, unmarked>>
     \/ /\ pc[r] = "setClaims"
        /\ unmarked' = (unmarked \/ Marks(r))
        /\ UNCHANGED <<claims, record, outdated>>
     \/ /\ pc[r] = "setClaims" /\ exists
        /\ ClaimsAreSet(r)
        /\ outdated' = [q \in Request |-> TRUE]
        /\ UNCHANGED record
  /\ UNCHANGED <<exists, now, op, update, pending, sends, sent, operations, mailedAt>>

\* There is no user whose claims could be set.
FailWithoutUser(r) ==
  /\ pc[r] = "setClaims" /\ ~exists
  /\ End(r, "threw")
  /\ UNCHANGED <<user, now, op, record, update, pending, sends, sent, bounds, ghosts>>

Tick ==
  /\ now < MaxTime
  /\ now' = now + 1
  /\ UNCHANGED <<user, op, pc, record, update, pending, sends, sent, bounds, ghosts>>

-----------------------------------------------------------------------------
(* The specification *)

\* The user may be there, with its setup password or without.
Init ==
  /\ exists \in BOOLEAN
  /\ claims \in {NoClaims} \cup
       (IF exists THEN {[NoClaims EXCEPT !.setupPassword = r] : r \in Request} ELSE {})
  /\ now = 0
  /\ op = [r \in Request |-> "loadRecord"]
  /\ pc = [r \in Request |-> "idle"]
  /\ record = [r \in Request |-> Unloaded]
  /\ update = [r \in Request |-> << >>]
  /\ pending = [r \in Request |-> NoClaims]
  /\ sends = [r \in Request |-> FALSE] /\ sent = [r \in Request |-> FALSE]
  /\ operations = 0 /\ failures = 0
  /\ outdated = [r \in Request |-> FALSE]
  /\ mailedAt = None
  /\ unmarked = FALSE

Step(r) ==
  \/ FindUser(r) \/ CreateUser(r) \/ LoadRecord(r)
  \/ LoadClaims(r) \/ SetClaims(r) \/ UpdateUser(r)
  \/ CheckSetup(r) \/ SendSetupContent(r)

Next ==
  \/ \E r \in Request : Begin(r) \/ Step(r) \/ Fail(r) \/ FailWithoutUser(r)
  \/ Tick

Spec == Init /\ [][Next]_vars

-----------------------------------------------------------------------------
(* Properties *)

\* A change names some of the claims, with values such claims can have.
IsChange(u) == \E c \in Claims : \A k \in DOMAIN u : k \in DOMAIN c /\ u[k] = c[k]

\* The claims are of the kind the code declares, and what is awaited is known.
SetupTypeOK ==
  /\ exists \in BOOLEAN /\ claims \in Claims /\ now \in Time
  /\ pc \in [Request -> Awaited \cup {"idle", "returned", "threw"}]
  /\ op \in [Request -> Operation]
  /\ record \in [Request -> Kept]
  /\ DOMAIN update = Request /\ \A r \in Request : IsChange(update[r])
  /\ pending \in [Request -> Claims]
  /\ sends \in [Request -> BOOLEAN] /\ sent \in [Request -> BOOLEAN]
  /\ outdated \in [Request -> BOOLEAN]
  /\ mailedAt \in Time \cup {None} /\ unmarked \in BOOLEAN

\* What a context has kept of the user is what the user is, however often the request
\* has changed the user through it, until somebody else changes the claims or a call to
\* set them fails.
ContextsAreUpToDate ==
  \A r \in Request : IsLoaded(record[r]) /\ ~outdated[r] => exists /\ record[r].claims = claims

\* Updating claims changes those it is about, to what they are to be, and leaves the
\* others: of a password reset, of roles, of the setup.  Claims get lost only if they
\* were set between a context's load and its update.
UpdatesKeepOtherClaims ==
  [][\A r \in Request :
       pc[r] = "setClaims" /\ pc'[r] \notin {"setClaims", "threw"} /\ ~outdated[r]
         => \A k \in DOMAIN claims :
              claims'[k] = IF k \in DOMAIN update[r] THEN update[r][k] ELSE claims[k]]_vars

\* Setup content is not sent twice within the throttle time, unless two requests were at
\* it at once, one knew an outdated record, the first could not note the time of it, or
\* that was taken out of the claims.
SetupContentIsThrottled ==
  [][\A r \in Request :
       pc[r] = "sendSetupContentToUser" /\ pc'[r] = "setClaims" /\ mailedAt # None
         => unmarked \/ unmarked' \/ now > mailedAt + Throttle]_vars

\* A context that has loaded the user's record has found a user, and content is sent by a
\* context that has, and that found the user's setup not throttled.
SendersHaveChecked ==
  \A r \in Request :
    /\ IsLoaded(record[r]) => exists
    /\ pc[r] = "sendSetupContentToUser" => IsLoaded(record[r]) /\ ~IsThrottled(record[r].claims)

\* Only operations that send content note the time of it, after they have.
OnlySendersMark ==
  \A r \in Request :
    /\ sends[r] \/ pc[r] \in {"getUser", "createUser"} => op[r] = "initializeNewUser"
    /\ pc[r] \in {"exists", "sendSetupContentToUser"} => op[r] \in {"initializeNewUser", "sendSetupContent"}
    /\ pc[r] = "updateUser" => op[r] \in {"beginResetPassword", "setPassword"}
    /\ pc[r] \in {"getUser", "createUser", "loadClaims", "clearIfExists"} => ~Marks(r)

\* What is about to be set is the claims as they are, with the change, unless they have been
\* set by others since; the time of sending is in it in any case.
PendingIsTheUpdate ==
  \A r \in Request : pc[r] = "setClaims" =>
    /\ Marks(r) => exists /\ pending[r].setupCommunicationAt = update[r].setupCommunicationAt
    /\ ~outdated[r] => pending[r] = Merged(claims, update[r])

\* The time of the last content is in the claims, or about to be noted in them.
LastTimeIsNoted ==
  ~unmarked =>
    /\ \A r \in Request : Marking(r) => update[r].setupCommunicationAt = mailedAt
    /\ mailedAt # None /\ (\A r \in Request : ~Marking(r)) => claims.setupCommunicationAt = mailedAt

\* The inductive invariant UpdatesKeepOtherClaims and SetupContentIsThrottled rest on.
SetupInvariant ==
  /\ SetupTypeOK
  /\ ContextsAreUpToDate
  /\ SendersHaveChecked
  /\ OnlySendersMark
  /\ PendingIsTheUpdate
  /\ LastTimeIsNoted
=============================================================================
