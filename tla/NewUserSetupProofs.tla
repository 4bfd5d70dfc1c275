-------------------------- MODULE NewUserSetupProofs --------------------------
(***************************************************************************)
(* What is proved of NewUserSetup for any number of requests, operations   *)
(* and failures and any throttle time: what contexts keep of the user, what*)
(* updates leave of its claims, and how often setup content is sent.       *)
(* SetupInvariant is inductive.  It speaks of one request at a time but for*)
(* LastTimeIsNoted, and a step changes what it says of the others only when*)
(* it sets the claims.                                                     *)
(***************************************************************************)
EXTENDS NewUserSetup, TLAPS

-----------------------------------------------------------------------------
(* Claims, changes and records *)

LEMMA NoneIsNone == None \notin Nat /\ None \notin Request
BY NoneAssumption

LEMMA TimeIsNat == Time \subseteq Nat /\ 0 \in Time
BY TimeAssumption DEF Time

LEMMA ClaimsOfNobody == NoClaims \in Claims
BY DEF NoClaims, Claims

LEMMA MergedType ==
  ASSUME NEW c \in Claims, NEW u, IsChange(u)
  PROVE  Merged(c, u) \in Claims
BY DEF Claims, Merged, IsChange

\* A claim of a merged record is that of the change, if that has one.
LEMMA MergedClaim ==
  ASSUME NEW c \in Claims, NEW u, NEW k \in DOMAIN c
  PROVE  Merged(c, u)[k] = IF k \in DOMAIN u THEN u[k] ELSE c[k]
BY DEF Merged

LEMMA DomainOfClaims ==
  ASSUME NEW c \in Claims
  PROVE  DOMAIN c = {"setupPassword", "setupCommunicationAt", "resetPassword", "role"}
BY DEF Claims

\* To set all claims is to merge them.
LEMMA AllAreMerged ==
  ASSUME NEW c \in Claims, NEW d \in Claims
  PROVE  Merged(c, d) = d
<1>1. DOMAIN c = DOMAIN d
  BY DomainOfClaims
<1>2. Merged(c, d) = [k \in DOMAIN d |-> d[k]]
  BY <1>1 DEF Merged
<1> QED BY <1>2 DEF Claims

LEMMA TimeIsChange ==
  ASSUME NEW t \in Time
  PROVE  IsChange([setupCommunicationAt |-> t])
<1>1. [NoClaims EXCEPT !.setupCommunicationAt = t] \in Claims
  BY DEF NoClaims, Claims
<1>2. PICK c \in Claims : c.setupCommunicationAt = t
  BY <1>1 DEF NoClaims, Claims
<1> QED BY <1>2, DomainOfClaims DEF IsChange

\* What an operation changes are claims, and not the time of sending if it sends content.
LEMMA ChangeIsChange ==
  ASSUME NEW r \in Request, NEW o \in Operation, claims \in Claims, NEW retained \in Retained
  PROVE  /\ IsChange(Change(r, o, retained))
         /\ o \in {"initializeNewUser", "sendSetupContent"} =>
              "setupCommunicationAt" \notin DOMAIN Change(r, o, retained)
         /\ First(o) = "setClaims" => Change(r, o, retained) \in Claims
<1>1. \E c \in Claims : c.setupPassword = r
  <2>1. [NoClaims EXCEPT !.setupPassword = r] \in Claims
    BY DEF NoClaims, Claims
  <2> QED BY <2>1 DEF NoClaims, Claims
<1>2. \E c \in Claims : c.setupPassword = None /\ c.setupCommunicationAt = None
  BY ClaimsOfNobody DEF NoClaims
<1>3. \A b \in BOOLEAN : \E c \in Claims : c.role = b
  <2>1. SUFFICES ASSUME NEW b \in BOOLEAN
                 PROVE  \E c \in Claims : c.role = b
    OBVIOUS
  <2>2. [NoClaims EXCEPT !.role = b] \in Claims
    BY DEF NoClaims, Claims
  <2> QED BY <2>2 DEF NoClaims, Claims
<1>4. \A x \in Request \cup {None} : \E c \in Claims : c.resetPassword = x
  <2>1. SUFFICES ASSUME NEW x \in Request \cup {None}
                 PROVE  \E c \in Claims : c.resetPassword = x
    OBVIOUS
  <2>2. [NoClaims EXCEPT !.resetPassword = x] \in Claims
    BY DEF NoClaims, Claims
  <2> QED BY <2>2 DEF NoClaims, Claims
<1>5. CASE o \in {"initializeNewUser", "addNewUserSetupClaims"}
  <2>1. Change(r, o, retained) = [setupPassword |-> r]
    BY <1>5 DEF Change, Setup
  <2> QED BY <1>1, <1>5, <2>1, DomainOfClaims DEF IsChange, First
<1>6. CASE o = "markUserSetupAsComplete"
  <2>1. Change(r, o, retained) = [setupPassword |-> None, setupCommunicationAt |-> None]
    BY <1>6 DEF Change, SetupDone
  <2> QED BY <1>2, <1>6, <2>1, DomainOfClaims DEF IsChange, First
<1>7. CASE o \in {"addRoles", "removeRoles"}
  <2>1. Change(r, o, retained) = [role |-> TRUE] \/ Change(r, o, retained) = [role |-> FALSE]
    BY <1>7 DEF Change
  <2>2. First(o) # "setClaims"
    BY <1>7 DEF First
  <2>3. \A b \in BOOLEAN : IsChange([role |-> b])
    BY <1>3, DomainOfClaims DEF IsChange
  <2> QED BY <2>1, <2>2, <2>3
<1>8. CASE o \in {"beginResetPassword", "setPassword"}
  <2>1. Change(r, o, retained) = [resetPassword |-> r] \/ Change(r, o, retained) = [resetPassword |-> None]
    BY <1>8 DEF Change
  <2> QED BY <1>4, <1>8, <2>1, DomainOfClaims DEF IsChange, First
<1>9. CASE o \in {"setRoles", "clearClaims"}
  <2>1. Change(r, o, retained) = [retained EXCEPT !.role = TRUE] \/ Change(r, o, retained) = NoClaims
    BY <1>9 DEF Change
  <2>2. retained \in Claims
    BY ClaimsOfNobody DEF Retained, Claims
  <2>3. [retained EXCEPT !.role = TRUE] \in Claims
    BY <2>2 DEF Claims
  <2>4. Change(r, o, retained) \in Claims
    BY <2>1, <2>3, ClaimsOfNobody
  <2> QED BY <1>9, <2>4 DEF IsChange
<1>10. CASE o \in {"sendSetupContent", "loadRecord"}
  <2>1. Change(r, o, retained) = << >> /\ DOMAIN << >> = {}
    BY <1>10 DEF Change
  <2> QED BY <1>10, <2>1, ClaimsOfNobody DEF IsChange, First
<1> QED BY <1>5, <1>6, <1>7, <1>8, <1>9, <1>10 DEF Operation

-----------------------------------------------------------------------------
(* The invariant, one request at a time *)

\* What SetupInvariant says of request r.
RequestOK(r) ==
  /\ IsLoaded(record[r]) => exists
  /\ IsLoaded(record[r]) /\ ~outdated[r] => record[r].claims = claims
  /\ pc[r] = "sendSetupContentToUser" => IsLoaded(record[r]) /\ ~IsThrottled(record[r].claims)
  /\ sends[r] \/ pc[r] \in {"getUser", "createUser"} => op[r] = "initializeNewUser"
  /\ pc[r] \in {"exists", "sendSetupContentToUser"} => op[r] \in {"initializeNewUser", "sendSetupContent"}
  /\ pc[r] = "updateUser" => op[r] \in {"beginResetPassword", "setPassword"}
  /\ pc[r] \in {"getUser", "createUser", "loadClaims", "clearIfExists"} => ~Marks(r)
  /\ Marking(r) => exists /\ pending[r].setupCommunicationAt = update[r].setupCommunicationAt
  /\ pc[r] = "setClaims" /\ ~outdated[r] => pending[r] = Merged(claims, update[r])

LEMMA InvariantByRequest ==
  /\ SetupInvariant <=>
       SetupTypeOK /\ (\A r \in Request : RequestOK(r)) /\ LastTimeIsNoted
  /\ SetupInvariant' <=>
       SetupTypeOK' /\ (\A r \in Request : RequestOK(r)') /\ LastTimeIsNoted'
BY DEF SetupInvariant, RequestOK, ContextsAreUpToDate, SendersHaveChecked, OnlySendersMark,
       PendingIsTheUpdate, Marking

SameRequest(q) ==
  /\ op'[q] = op[q] /\ pc'[q] = pc[q] /\ record'[q] = record[q] /\ update'[q] = update[q]
  /\ pending'[q] = pending[q] /\ sends'[q] = sends[q] /\ outdated'[q] = outdated[q]

LEMMA SameRequestOK ==
  ASSUME NEW q \in Request, RequestOK(q), SameRequest(q),
         claims' = claims, now' = now, exists => exists'
  PROVE  RequestOK(q)' /\ (Marking(q)' <=> Marking(q))
BY DEF RequestOK, SameRequest, Marks, Marking, IsThrottled, IsLoaded

\* When the claims have been set, what other requests know of them is outdated.
LEMMA OutdatedRequestOK ==
  ASSUME NEW q \in Request, RequestOK(q),
         op'[q] = op[q], pc'[q] = pc[q], record'[q] = record[q], update'[q] = update[q],
         pending'[q] = pending[q], sends'[q] = sends[q], outdated'[q] = TRUE,
         now' = now, exists => exists'
  PROVE  RequestOK(q)' /\ (Marking(q)' <=> Marking(q))
BY DEF RequestOK, Marks, Marking, IsThrottled, IsLoaded

\* A step of one request that sets no claims and notes no time.
LEMMA QuietStep ==
  ASSUME SetupInvariant, NEW r \in Request, SetupTypeOK',
         \A q \in Request \ {r} : SameRequest(q),
         UNCHANGED <<claims, now, mailedAt, unmarked>>, exists => exists',
         ~Marking(r), RequestOK(r)', ~Marking(r)'
  PROVE  SetupInvariant'
<1>1. /\ \A q \in Request : RequestOK(q)
      /\ LastTimeIsNoted
  BY InvariantByRequest
<1>2. \A q \in Request \ {r} : RequestOK(q)' /\ (Marking(q)' <=> Marking(q))
  BY <1>1, SameRequestOK
<1>3. \A q \in Request : RequestOK(q)' /\ (Marking(q)' <=> Marking(q))
  BY <1>2
<1>4. LastTimeIsNoted'
  <2>1. SUFFICES ASSUME ~unmarked'
                 PROVE  /\ \A q \in Request : Marking(q)' => update'[q].setupCommunicationAt = mailedAt'
                        /\ mailedAt' # None /\ (\A q \in Request : ~Marking(q)')
                             => claims'.setupCommunicationAt = mailedAt'
    BY DEF LastTimeIsNoted
  <2>2. \A q \in Request : Marking(q)' => update'[q] = update[q]
    BY DEF SameRequest
  <2> QED BY <1>1, <1>3, <2>1, <2>2 DEF LastTimeIsNoted
<1>5. SetupTypeOK' /\ (\A q \in Request : RequestOK(q)') /\ LastTimeIsNoted'
  BY <1>3, <1>4
<1> QED BY <1>5, InvariantByRequest

-----------------------------------------------------------------------------
(* Steps *)

\* What the record of a request is when it is asked for: the user's, if it is there.
LEMMA RecordAsked ==
  ASSUME SetupInvariant, NEW r \in Request
  PROVE  /\ Record(r) \in Kept
         /\ IsLoaded(Record(r)) => exists
         /\ record[r] = Unloaded => (IsLoaded(Record(r)) => Record(r).claims = claims)
         /\ record[r] # Unloaded => Record(r) = record[r]
         /\ Unloaded \in Kept /\ ~IsLoaded(Unloaded)
<1>1. /\ RequestOK(r) /\ record[r] \in Kept /\ claims \in Claims /\ exists \in BOOLEAN
  BY InvariantByRequest DEF SetupTypeOK
<1>2. /\ Without("unloaded") \in Kept /\ Without("noUser") \in Kept
      /\ ~IsLoaded(Without("unloaded")) /\ ~IsLoaded(Without("noUser"))
      /\ [is |-> "loaded", claims |-> claims] \in Kept
  BY <1>1, ClaimsOfNobody DEF Without, Kept, IsLoaded
<1> QED BY <1>1, <1>2 DEF Record, RequestOK, Unloaded, IsLoaded

LEMMA FirstCalls ==
  ASSUME NEW o \in Operation
  PROVE  /\ First(o) \in Awaited \ {"createUser", "sendSetupContentToUser"}
         /\ First(o) = "getUser" => o = "initializeNewUser"
         /\ First(o) = "exists" => o = "sendSetupContent"
         /\ First(o) = "updateUser" => o = "setPassword"
<1>1. CASE o = "initializeNewUser"
  BY <1>1 DEF First, Awaited
<1>2. CASE o = "sendSetupContent"
  BY <1>2 DEF First, Awaited
<1>3. CASE o = "markUserSetupAsComplete"
  BY <1>3 DEF First, Awaited
<1>4. CASE o \in {"addNewUserSetupClaims", "addRoles", "removeRoles", "beginResetPassword"}
  <2>1. First(o) = "loadClaims"
    BY <1>4 DEF First
  <2> QED BY <2>1 DEF Awaited
<1>5. CASE o \in {"setRoles", "clearClaims"}
  <2>1. First(o) = "setClaims"
    BY <1>5 DEF First
  <2> QED BY <2>1 DEF Awaited
<1>6. CASE o = "setPassword"
  BY <1>6 DEF First, Awaited
<1>7. CASE o = "loadRecord"
  BY <1>7 DEF First, Awaited
<1> QED BY <1>1, <1>2, <1>3, <1>4, <1>5, <1>6, <1>7 DEF Operation

LEMMA BeginStep ==
  ASSUME SetupInvariant, NEW r \in Request, Begin(r)
  PROVE  SetupInvariant'
<1>1. /\ SetupTypeOK /\ RequestOK(r)
  BY InvariantByRequest
<1>2. PICK o \in Operation, isNew \in BOOLEAN, retained \in Retained :
        /\ op' = [op EXCEPT ![r] = o]
        /\ pc' = [pc EXCEPT ![r] = First(o)]
        /\ update' = [update EXCEPT ![r] = Change(r, o, retained)]
        /\ pending' = [pending EXCEPT ![r] =
             IF First(o) = "setClaims" THEN Change(r, o, retained) ELSE NoClaims]
        /\ record' = [record EXCEPT ![r] = IF isNew THEN Unloaded ELSE @]
        /\ outdated' = [outdated EXCEPT ![r] = ~isNew /\ @]
  BY DEF Begin, Await
<1>3. /\ sends' = [sends EXCEPT ![r] = FALSE] /\ sent' = [sent EXCEPT ![r] = FALSE]
      /\ UNCHANGED <<user, now, mailedAt, unmarked>>
      /\ pc[r] \in {"idle", "returned", "threw"}
  BY DEF Begin
<1>4. /\ IsChange(Change(r, o, retained))
      /\ o \in {"initializeNewUser", "sendSetupContent"} =>
           "setupCommunicationAt" \notin DOMAIN Change(r, o, retained)
      /\ First(o) = "setClaims" => Change(r, o, retained) \in Claims
      /\ First(o) \in Awaited \ {"createUser", "sendSetupContentToUser"}
      /\ First(o) = "getUser" => o = "initializeNewUser"
      /\ First(o) = "exists" => o = "sendSetupContent"
      /\ First(o) = "updateUser" => o = "setPassword"
  BY <1>1, ChangeIsChange, FirstCalls DEF SetupTypeOK
<1>5. SetupTypeOK'
  <2>1. update'[r] = Change(r, o, retained) /\ \A q \in Request \ {r} : update'[q] = update[q]
    BY <1>1, <1>2 DEF SetupTypeOK
  <2>2. \A q \in Request : IsChange(update'[q])
    BY <1>1, <1>4, <2>1 DEF SetupTypeOK
  <2>3. pending' \in [Request -> Claims] /\ pc' \in [Request -> Awaited \cup {"idle", "returned", "threw"}]
    BY <1>1, <1>2, <1>4, ClaimsOfNobody DEF SetupTypeOK
  <2>4. record' \in [Request -> Kept] /\ outdated' \in [Request -> BOOLEAN]
    BY <1>1, <1>2, RecordAsked DEF SetupTypeOK
  <2>5. DOMAIN update' = Request /\ op' \in [Request -> Operation]
        /\ sends' \in [Request -> BOOLEAN] /\ sent' \in [Request -> BOOLEAN]
    BY <1>1, <1>2, <1>3 DEF SetupTypeOK
  <2> QED BY <1>1, <1>3, <2>2, <2>3, <2>4, <2>5 DEF SetupTypeOK, user
<1>6. /\ op'[r] = o /\ pc'[r] = First(o) /\ update'[r] = Change(r, o, retained) /\ sends'[r] = FALSE
      /\ First(o) = "setClaims" => pending'[r] = Change(r, o, retained)
      /\ \/ record'[r] = Unloaded
         \/ record'[r] = record[r] /\ outdated'[r] = outdated[r]
  BY <1>1, <1>2, <1>3 DEF SetupTypeOK
<1>7. ~Marks(r)' /\ ~Marking(r)' /\ ~Marking(r)
  BY <1>3, <1>4, <1>6 DEF Marks, Marking
<1>8. RequestOK(r)'
  <2>1. First(o) = "setClaims" => pending'[r] = Merged(claims', update'[r])
    BY <1>1, <1>3, <1>4, <1>6, AllAreMerged DEF SetupTypeOK, user
  <2>2. /\ IsLoaded(record'[r]) => exists'
        /\ IsLoaded(record'[r]) /\ ~outdated'[r] => record'[r].claims = claims'
    BY <1>1, <1>3, <1>6, RecordAsked DEF RequestOK, user
  <2> QED BY <1>4, <1>6, <1>7, <2>1, <2>2 DEF RequestOK
<1>9. \A q \in Request \ {r} : SameRequest(q)
  BY <1>1, <1>2, <1>3 DEF SameRequest, SetupTypeOK
<1> QED BY <1>3, <1>5, <1>7, <1>8, <1>9, QuietStep DEF user

\* A request awaits another call, or ends, and has perhaps loaded the record.
LEMMA AwaitingStep ==
  ASSUME SetupInvariant, NEW r \in Request, ~Marking(r),
         NEW call \in Awaited \cup {"idle", "returned", "threw"}, pc' = [pc EXCEPT ![r] = call],
         call \notin {"setClaims", "sendSetupContentToUser"},
         call \in {"getUser", "createUser"} => op[r] = "initializeNewUser",
         call = "exists" => op[r] \in {"initializeNewUser", "sendSetupContent"},
         call = "updateUser" => op[r] \in {"beginResetPassword", "setPassword"},
         call \in {"getUser", "createUser", "loadClaims", "clearIfExists"} => ~Marks(r),
         UNCHANGED <<op, update, pending, claims, now, mailedAt, unmarked, sent>>,
         exists' \in BOOLEAN, exists => exists',
         sends' \in [Request -> BOOLEAN], \A q \in Request \ {r} : sends'[q] = sends[q],
         sends'[r] => op[r] = "initializeNewUser",
         \/ Keeps(r, Record(r))
         \/ NewContext(r)
         \/ record' = [record EXCEPT ![r] = Without("rejected")] /\ outdated' = outdated
         \/ UNCHANGED <<record, outdated>>
  PROVE  SetupInvariant'
<1>1. /\ SetupTypeOK /\ RequestOK(r)
  BY InvariantByRequest
<1>2. /\ Record(r) \in Kept
      /\ IsLoaded(Record(r)) => exists
      /\ record[r] = Unloaded => (IsLoaded(Record(r)) => Record(r).claims = claims)
      /\ record[r] # Unloaded => Record(r) = record[r]
      /\ Unloaded \in Kept /\ ~IsLoaded(Unloaded)
  BY RecordAsked
<1>3. Without("rejected") \in Kept /\ ~IsLoaded(Without("rejected"))
  BY ClaimsOfNobody DEF Without, Kept, IsLoaded
<1>4. /\ record' \in [Request -> Kept] /\ outdated' \in [Request -> BOOLEAN]
      /\ \A q \in Request \ {r} : record'[q] = record[q] /\ outdated'[q] = outdated[q]
      /\ \/ record'[r] = Record(r) /\ outdated'[r] = (record[r] # Unloaded /\ outdated[r])
         \/ ~IsLoaded(record'[r])
         \/ record'[r] = record[r] /\ outdated'[r] = outdated[r]
  <2>1. CASE Keeps(r, Record(r))
    BY <1>1, <1>2, <2>1 DEF Keeps, SetupTypeOK
  <2>2. CASE NewContext(r)
    BY <1>1, <1>2, <2>2 DEF NewContext, SetupTypeOK
  <2>3. CASE record' = [record EXCEPT ![r] = Without("rejected")] /\ outdated' = outdated
    BY <1>1, <1>3, <2>3 DEF SetupTypeOK
  <2>4. CASE UNCHANGED <<record, outdated>>
    BY <1>1, <2>4 DEF SetupTypeOK
  <2> QED BY <2>1, <2>2, <2>3, <2>4
<1>5. SetupTypeOK'
  <2>1. pc' \in [Request -> Awaited \cup {"idle", "returned", "threw"}]
    BY <1>1 DEF SetupTypeOK
  <2> QED BY <1>1, <1>4, <2>1 DEF SetupTypeOK
<1>6. /\ IsLoaded(record'[r]) => exists'
      /\ IsLoaded(record'[r]) /\ ~outdated'[r] => record'[r].claims = claims'
  BY <1>1, <1>2, <1>4 DEF RequestOK
<1>7. pc'[r] = call /\ (Marks(r)' <=> Marks(r)) /\ ~Marking(r)'
  BY <1>1 DEF SetupTypeOK, Marks, Marking
<1>8. RequestOK(r)'
  BY <1>1, <1>6, <1>7 DEF RequestOK
<1>9. \A q \in Request \ {r} : SameRequest(q)
  BY <1>1, <1>4 DEF SameRequest, SetupTypeOK
<1> QED BY <1>5, <1>7, <1>8, <1>9, QuietStep

LEMMA FindUserStep ==
  ASSUME SetupInvariant, NEW r \in Request, FindUser(r)
  PROVE  SetupInvariant'
<1>1. SetupTypeOK /\ RequestOK(r)
  BY InvariantByRequest
<1>2. PICK call \in {"exists", "returned", "createUser"} : pc' = [pc EXCEPT ![r] = call]
  BY DEF FindUser, Await
<1>3. /\ pc[r] = "getUser"
      /\ UNCHANGED <<exists, claims, now, op, record, update, pending, sends, sent, outdated, mailedAt, unmarked>>
  BY DEF FindUser, user, ghosts
<1>4. ~Marks(r) /\ op[r] = "initializeNewUser" /\ ~Marking(r)
  BY <1>1, <1>3 DEF RequestOK, Marking
<1>5. call \in Awaited \cup {"idle", "returned", "threw"}
  BY DEF Awaited
<1>6. sends' \in [Request -> BOOLEAN] /\ exists' \in BOOLEAN
  BY <1>1, <1>3 DEF SetupTypeOK
<1> QED
  BY <1>1, <1>2, <1>3, <1>4, <1>5, <1>6, AwaitingStep DEF RequestOK

LEMMA CreateUserStep ==
  ASSUME SetupInvariant, NEW r \in Request, CreateUser(r)
  PROVE  SetupInvariant'
<1>1. SetupTypeOK /\ RequestOK(r)
  BY InvariantByRequest
<1>2. PICK call \in {"threw", "loadClaims"} : pc' = [pc EXCEPT ![r] = call]
  BY DEF CreateUser, Await, End
<1>3. /\ pc[r] = "createUser"
      /\ UNCHANGED <<claims, now, op, record, update, pending, sent, outdated, mailedAt, unmarked>>
  BY DEF CreateUser, ghosts
<1>4. ~Marks(r) /\ op[r] = "initializeNewUser" /\ ~Marking(r)
  BY <1>1, <1>3 DEF RequestOK, Marking
<1>5. call \in Awaited \cup {"idle", "returned", "threw"}
  BY DEF Awaited
<1>6. /\ sends' \in [Request -> BOOLEAN] /\ exists' \in BOOLEAN /\ (exists => exists')
      /\ \A q \in Request \ {r} : sends'[q] = sends[q]
  <2>1. CASE UNCHANGED <<exists, sends>>
    BY <1>1, <2>1 DEF SetupTypeOK
  <2>2. CASE exists' = TRUE /\ \E s \in BOOLEAN : sends' = [sends EXCEPT ![r] = s]
    <3>1. PICK s \in BOOLEAN : sends' = [sends EXCEPT ![r] = s]
      BY <2>2
    <3> QED BY <1>1, <2>2, <3>1 DEF SetupTypeOK
  <2> QED BY <2>1, <2>2 DEF CreateUser
<1> QED
  BY <1>1, <1>2, <1>3, <1>4, <1>5, <1>6, AwaitingStep

LEMMA LoadRecordStep ==
  ASSUME SetupInvariant, NEW r \in Request, LoadRecord(r)
  PROVE  SetupInvariant'
<1>1. SetupTypeOK /\ RequestOK(r)
  BY InvariantByRequest
<1>2. PICK call \in {"exists", "returned", "threw"} :
        /\ pc' = [pc EXCEPT ![r] = call]
        /\ call = "exists" => sends[r]
        /\ NewContext(r) \/ Keeps(r, Record(r))
  BY DEF LoadRecord, Await, End
<1>3. /\ pc[r] = "loadRecord"
      /\ UNCHANGED <<exists, claims, now, op, update, pending, sends, sent, mailedAt, unmarked>>
  BY DEF LoadRecord, user
<1>4. /\ ~Marking(r) /\ (sends[r] => op[r] = "initializeNewUser")
  BY <1>1, <1>3 DEF RequestOK, Marking
<1>5. call \in Awaited \cup {"idle", "returned", "threw"}
  BY DEF Awaited
<1>6. sends' \in [Request -> BOOLEAN] /\ exists' \in BOOLEAN
  BY <1>1, <1>3 DEF SetupTypeOK
<1> QED
  BY <1>2, <1>3, <1>4, <1>5, <1>6, AwaitingStep

LEMMA UpdateUserStep ==
  ASSUME SetupInvariant, NEW r \in Request, UpdateUser(r)
  PROVE  SetupInvariant'
<1>1. SetupTypeOK /\ RequestOK(r)
  BY InvariantByRequest
<1>2. PICK call \in {"threw", "loadClaims", "returned"} : pc' = [pc EXCEPT ![r] = call]
  BY DEF UpdateUser, Await
<1>3. /\ pc[r] = "updateUser"
      /\ UNCHANGED <<exists, claims, now, op, record, update, pending, sends, sent, outdated, mailedAt, unmarked>>
  BY DEF UpdateUser, user, ghosts
<1>4. ~Marks(r) /\ ~Marking(r) /\ (sends[r] => op[r] = "initializeNewUser")
  BY <1>1, <1>3 DEF RequestOK, Marks, Marking
<1>5. call \in Awaited \cup {"idle", "returned", "threw"}
  BY DEF Awaited
<1>6. sends' \in [Request -> BOOLEAN] /\ exists' \in BOOLEAN
  BY <1>1, <1>3 DEF SetupTypeOK
<1> QED
  BY <1>2, <1>3, <1>4, <1>5, <1>6, AwaitingStep

\* A check of the record lets content be sent, or ends the operation.
LEMMA CheckSetupStep ==
  ASSUME SetupInvariant, NEW r \in Request, CheckSetup(r)
  PROVE  SetupInvariant'
<1>1. SetupTypeOK /\ RequestOK(r)
  BY InvariantByRequest
<1>2. PICK call \in {"sendSetupContentToUser", "returned", "threw"} :
        /\ pc' = [pc EXCEPT ![r] = call]
        /\ call = "sendSetupContentToUser" => IsLoaded(Record(r)) /\ ~IsThrottled(Record(r).claims)
  BY DEF CheckSetup, Await, End
<1>3. /\ pc[r] = "exists" /\ Keeps(r, Record(r))
      /\ UNCHANGED <<exists, claims, now, op, update, pending, sends, sent, mailedAt, unmarked>>
  BY DEF CheckSetup, user
<1>4. /\ ~Marking(r) /\ (sends[r] => op[r] = "initializeNewUser")
      /\ op[r] \in {"initializeNewUser", "sendSetupContent"}
  BY <1>1, <1>3 DEF RequestOK, Marking
<1>5. call \in Awaited \cup {"idle", "returned", "threw"}
  BY DEF Awaited
<1>6. sends' \in [Request -> BOOLEAN] /\ exists' \in BOOLEAN
  BY <1>1, <1>3 DEF SetupTypeOK
<1>7. CASE call \in {"returned", "threw"}
  BY <1>2, <1>3, <1>4, <1>5, <1>6, <1>7, AwaitingStep
<1>8. CASE call = "sendSetupContentToUser"
  <2>1. /\ Record(r) \in Kept
        /\ IsLoaded(Record(r)) => exists
        /\ record[r] = Unloaded => (IsLoaded(Record(r)) => Record(r).claims = claims)
        /\ record[r] # Unloaded => Record(r) = record[r]
    BY RecordAsked
  <2>2. /\ record' \in [Request -> Kept] /\ outdated' \in [Request -> BOOLEAN]
        /\ \A q \in Request \ {r} : record'[q] = record[q] /\ outdated'[q] = outdated[q]
        /\ record'[r] = Record(r) /\ outdated'[r] = (record[r] # Unloaded /\ outdated[r])
    BY <1>1, <1>3, <2>1 DEF Keeps, SetupTypeOK
  <2>3. /\ pc' \in [Request -> Awaited \cup {"idle", "returned", "threw"}] /\ pc'[r] = call
        /\ \A q \in Request \ {r} : pc'[q] = pc[q]
    BY <1>1, <1>2, <1>5 DEF SetupTypeOK
  <2>4. SetupTypeOK'
    BY <1>1, <1>3, <2>2, <2>3 DEF SetupTypeOK
  <2>5. (Marks(r)' <=> Marks(r)) /\ ~Marking(r)'
    BY <1>3, <1>8, <2>3 DEF Marks, Marking
  <2>6. IsLoaded(record'[r]) /\ ~IsThrottled(record[r].claims)' /\ exists'
    BY <1>2, <1>3, <1>8, <2>1, <2>2 DEF IsThrottled
  <2>7. ~outdated'[r] => record'[r].claims = claims'
    BY <1>1, <1>2, <1>3, <1>8, <2>1, <2>2 DEF RequestOK
  <2>8. RequestOK(r)'
    BY <1>1, <1>3, <1>4, <1>8, <2>3, <2>5, <2>6, <2>7 DEF RequestOK
  <2>9. \A q \in Request \ {r} : SameRequest(q)
    BY <1>3, <2>2, <2>3 DEF SameRequest
  <2> QED BY <1>3, <1>4, <2>4, <2>5, <2>8, <2>9, QuietStep
<1> QED BY <1>2, <1>7, <1>8

\* The change is merged into the record that has been loaded, or there is none.
LEMMA LoadClaimsStep ==
  ASSUME SetupInvariant, NEW r \in Request, LoadClaims(r)
  PROVE  SetupInvariant'
<1>1. SetupTypeOK /\ RequestOK(r)
  BY InvariantByRequest
<1>2. /\ pc[r] \in {"loadClaims", "clearIfExists"} /\ Keeps(r, Record(r))
      /\ UNCHANGED <<exists, claims, now, op, sends, sent, mailedAt, unmarked>>
  BY DEF LoadClaims, user
<1>3. ~Marking(r) /\ ~Marks(r) /\ (sends[r] => op[r] = "initializeNewUser")
  BY <1>1, <1>2 DEF RequestOK, Marking
<1>4. sends' \in [Request -> BOOLEAN] /\ exists' \in BOOLEAN
  BY <1>1, <1>2 DEF SetupTypeOK
<1>5. CASE ~IsLoaded(Record(r))
  <2>1. PICK call \in {"returned", "threw"} : pc' = [pc EXCEPT ![r] = call]
    BY <1>5 DEF LoadClaims, Await, End
  <2>2. UNCHANGED <<update, pending>>
    BY <1>5 DEF LoadClaims
  <2>3. call \in Awaited \cup {"idle", "returned", "threw"}
    OBVIOUS
  <2> QED BY <1>2, <1>3, <1>4, <2>1, <2>2, <2>3, AwaitingStep
<1>6. CASE IsLoaded(Record(r))
  <2>1. /\ Record(r) \in Kept
        /\ IsLoaded(Record(r)) => exists
        /\ record[r] = Unloaded => (IsLoaded(Record(r)) => Record(r).claims = claims)
        /\ record[r] # Unloaded => Record(r) = record[r]
    BY RecordAsked
  <2>2. /\ record' \in [Request -> Kept] /\ outdated' \in [Request -> BOOLEAN]
        /\ \A q \in Request \ {r} : record'[q] = record[q] /\ outdated'[q] = outdated[q]
        /\ record'[r] = Record(r) /\ outdated'[r] = (record[r] # Unloaded /\ outdated[r])
    BY <1>1, <1>2, <2>1 DEF Keeps, SetupTypeOK
  <2>3. SetMerged(r, Record(r), update[r])
    BY <1>6 DEF LoadClaims
  <2>4. /\ pending' = [pending EXCEPT ![r] = Merged(Record(r).claims, update[r])]
        /\ update' = [update EXCEPT ![r] = update[r]]
        /\ pc' = [pc EXCEPT ![r] = "setClaims"]
    BY <2>3 DEF SetMerged, Await
  <2>5. /\ Merged(Record(r).claims, update[r]) \in Claims /\ Record(r).claims \in Claims
    <3>1. Record(r).claims \in Claims /\ IsChange(update[r])
      BY <1>1, <2>1 DEF SetupTypeOK, Kept
    <3> QED BY <3>1, MergedType
  <2>6. /\ pending'[r] = Merged(Record(r).claims, update[r])
        /\ pending' \in [Request -> Claims]
        /\ \A q \in Request \ {r} : pending'[q] = pending[q]
    BY <1>1, <2>4, <2>5 DEF SetupTypeOK
  <2>7. /\ pc' \in [Request -> Awaited \cup {"idle", "returned", "threw"}] /\ pc'[r] = "setClaims"
        /\ \A q \in Request \ {r} : pc'[q] = pc[q]
    BY <1>1, <2>4 DEF SetupTypeOK, Awaited
  <2>8. DOMAIN update' = Request /\ \A q \in Request : update'[q] = update[q]
    BY <1>1, <2>4 DEF SetupTypeOK
  <2>9. SetupTypeOK'
    BY <1>1, <1>2, <2>2, <2>6, <2>7, <2>8 DEF SetupTypeOK
  <2>10. ~Marks(r)' /\ ~Marking(r)'
    BY <1>2, <1>3, <2>8 DEF Marks, Marking
  <2>11. exists' /\ (~outdated'[r] => record'[r].claims = claims')
    BY <1>1, <1>2, <1>6, <2>1, <2>2 DEF RequestOK
  <2>12. ~outdated'[r] => pending'[r] = Merged(claims', update'[r])
    BY <2>2, <2>6, <2>8, <2>11
  <2>13. RequestOK(r)'
    BY <1>2, <1>3, <2>7, <2>10, <2>11, <2>12 DEF RequestOK
  <2>14. \A q \in Request \ {r} : SameRequest(q)
    BY <1>2, <2>2, <2>6, <2>7, <2>8 DEF SameRequest
  <2> QED BY <1>2, <1>3, <2>9, <2>10, <2>13, <2>14, QuietStep
<1> QED BY <1>5, <1>6

LEMMA FailingStep ==
  ASSUME SetupInvariant, NEW r \in Request, ~Marking(r),
         pc' = [pc EXCEPT ![r] = "threw"],
         UNCHANGED <<exists, claims, now, op, update, pending, sends, sent, outdated, mailedAt, unmarked>>,
         \/ record' = [record EXCEPT ![r] = Without("rejected")]
         \/ UNCHANGED record
  PROVE  SetupInvariant'
<1>1. SetupTypeOK /\ RequestOK(r)
  BY InvariantByRequest
<1>2. sends[r] => op[r] = "initializeNewUser"
  BY <1>1 DEF RequestOK
<1>3. sends' \in [Request -> BOOLEAN] /\ exists' \in BOOLEAN
  BY <1>1 DEF SetupTypeOK
<1>4. "threw" \in Awaited \cup {"idle", "returned", "threw"}
  OBVIOUS
<1>5. CASE record' = [record EXCEPT ![r] = Without("rejected")]
  BY <1>2, <1>3, <1>4, <1>5, AwaitingStep
<1>6. CASE UNCHANGED record
  BY <1>2, <1>3, <1>4, <1>6, AwaitingStep
<1> QED BY <1>5, <1>6

\* Content is sent, and the time of it is to be noted.
LEMMA SendSetupContentStep ==
  ASSUME SetupInvariant, NEW r \in Request, SendSetupContent(r)
  PROVE  SetupInvariant'
<1>1. SetupTypeOK /\ \A q \in Request : RequestOK(q)
  BY InvariantByRequest
<1>2. /\ pc[r] = "sendSetupContentToUser" /\ sent' = [sent EXCEPT ![r] = TRUE] /\ mailedAt' = now
      /\ SetMerged(r, record[r], [setupCommunicationAt |-> now])
      /\ unmarked' \in BOOLEAN
      /\ ~unmarked' => \A q \in Request \ {r} : ~Marking(q)
      /\ UNCHANGED <<exists, claims, now, op, record, sends, outdated>>
  BY DEF SendSetupContent, MarkSent, user
<1> DEFINE u == [setupCommunicationAt |-> now]
<1>3. /\ pending' = [pending EXCEPT ![r] = Merged(record[r].claims, u)]
      /\ update' = [update EXCEPT ![r] = u]
      /\ pc' = [pc EXCEPT ![r] = "setClaims"]
  BY <1>2 DEF SetMerged, Await
<1>4. /\ IsLoaded(record[r]) /\ exists /\ record[r].claims \in Claims
      /\ op[r] \in {"initializeNewUser", "sendSetupContent"}
      /\ ~outdated[r] => record[r].claims = claims
  BY <1>1, <1>2 DEF RequestOK, SetupTypeOK, Kept
<1>5. now \in Time /\ now # None
  BY <1>1, TimeIsNat, NoneIsNone DEF SetupTypeOK
<1>6. IsChange(u) /\ DOMAIN u = {"setupCommunicationAt"} /\ u.setupCommunicationAt = now
  BY <1>5, TimeIsChange
<1> HIDE DEF u
<1>7. /\ Merged(record[r].claims, u) \in Claims
      /\ Merged(record[r].claims, u).setupCommunicationAt = now
  <2>1. "setupCommunicationAt" \in DOMAIN record[r].claims
    BY <1>4, DomainOfClaims
  <2> QED BY <1>4, <1>6, <2>1, MergedType, MergedClaim
<1>8. /\ pending'[r] = Merged(record[r].claims, u) /\ update'[r] = u /\ pc'[r] = "setClaims"
      /\ \A q \in Request \ {r} : pending'[q] = pending[q] /\ update'[q] = update[q] /\ pc'[q] = pc[q]
  BY <1>1, <1>3 DEF SetupTypeOK
<1>9. SetupTypeOK'
  <2>1. pending' \in [Request -> Claims]
    BY <1>1, <1>3, <1>7 DEF SetupTypeOK
  <2>2. DOMAIN update' = Request /\ \A q \in Request : IsChange(update'[q])
    BY <1>1, <1>3, <1>6, <1>8 DEF SetupTypeOK
  <2>3. pc' \in [Request -> Awaited \cup {"idle", "returned", "threw"}]
    BY <1>1, <1>3 DEF SetupTypeOK, Awaited
  <2>4. sent' \in [Request -> BOOLEAN] /\ mailedAt' \in Time \cup {None}
    BY <1>1, <1>2, <1>5 DEF SetupTypeOK
  <2> QED BY <1>1, <1>2, <2>1, <2>2, <2>3, <2>4 DEF SetupTypeOK
<1>10. Marks(r)' /\ Marking(r)'
  BY <1>2, <1>4, <1>5, <1>6, <1>8 DEF Marks, Marking
<1>11. RequestOK(r)'
  <2>1. pending'[r].setupCommunicationAt = update'[r].setupCommunicationAt
    BY <1>6, <1>7, <1>8
  <2>2. ~outdated'[r] => pending'[r] = Merged(claims', update'[r])
    BY <1>2, <1>4, <1>8
  <2>3. (sends'[r] => op'[r] = "initializeNewUser")
        /\ (IsLoaded(record'[r]) /\ ~outdated'[r] => record'[r].claims = claims')
    BY <1>1, <1>2 DEF RequestOK
  <2> QED BY <1>2, <1>4, <1>8, <2>1, <2>2, <2>3 DEF RequestOK
<1>12. \A q \in Request \ {r} : RequestOK(q)' /\ (Marking(q)' <=> Marking(q))
  <2>1. \A q \in Request \ {r} : SameRequest(q)
    BY <1>2, <1>8 DEF SameRequest
  <2> QED BY <1>1, <1>2, <2>1, SameRequestOK
<1>13. LastTimeIsNoted'
  <2>1. ~unmarked' => \A q \in Request : Marking(q)' => q = r
    BY <1>2, <1>12
  <2>2. update'[r].setupCommunicationAt = mailedAt'
    BY <1>2, <1>6, <1>8
  <2> QED BY <1>10, <2>1, <2>2 DEF LastTimeIsNoted
<1>14. \A q \in Request : RequestOK(q)'
  BY <1>11, <1>12
<1> QED BY <1>9, <1>13, <1>14, InvariantByRequest

\* Request r sets the claims, and is told of it or not.
LEMMA ClaimsAreSetStep ==
  ASSUME SetupInvariant, NEW r \in Request,
         pc[r] = "setClaims", exists, ClaimsAreSet(r),
         UNCHANGED <<exists, now, op, update, pending, sends, sent, mailedAt>>,
         NEW call \in {"loadRecord", "updateUser", "returned", "threw"}, pc' = [pc EXCEPT ![r] = call],
         call = "updateUser" => op[r] \in {"beginResetPassword", "setPassword"},
         record' = [record EXCEPT ![r] = Unloaded] \/ record' = record,
         outdated' \in [Request -> BOOLEAN], \A q \in Request \ {r} : outdated'[q],
         record'[r] = Unloaded \/ outdated'[r]
  PROVE  SetupInvariant'
<1>1. SetupTypeOK /\ (\A q \in Request : RequestOK(q)) /\ LastTimeIsNoted
  BY InvariantByRequest
<1>2. /\ claims' = pending[r] /\ unmarked' \in BOOLEAN
      /\ ~unmarked' => ~unmarked /\ (Marks(r) \/ claims'.setupCommunicationAt = claims.setupCommunicationAt)
  BY DEF ClaimsAreSet
<1>3. /\ pc'[r] = call /\ \A q \in Request \ {r} : pc'[q] = pc[q] /\ record'[q] = record[q]
  BY <1>1 DEF SetupTypeOK
<1>4. Unloaded \in Kept /\ ~IsLoaded(Unloaded)
  BY RecordAsked
<1>5. SetupTypeOK'
  <2>1. pc' \in [Request -> Awaited \cup {"idle", "returned", "threw"}]
    BY <1>1 DEF SetupTypeOK, Awaited
  <2>2. record' \in [Request -> Kept] /\ claims' \in Claims
    BY <1>1, <1>2, <1>4 DEF SetupTypeOK
  <2> QED BY <1>1, <1>2, <2>1, <2>2 DEF SetupTypeOK
<1>6. (Marks(r)' <=> Marks(r)) /\ ~Marking(r)'
  BY <1>3 DEF Marks, Marking
<1>7. RequestOK(r)'
  <2>1. /\ IsLoaded(record'[r]) => exists'
        /\ IsLoaded(record'[r]) /\ ~outdated'[r] => record'[r].claims = claims'
    BY <1>4
  <2>2. sends'[r] => op'[r] = "initializeNewUser"
    BY <1>1, <1>6 DEF RequestOK
  <2> QED BY <1>3, <1>6, <2>1, <2>2 DEF RequestOK
<1>8. \A q \in Request \ {r} : RequestOK(q)' /\ (Marking(q)' <=> Marking(q))
  <2>1. SUFFICES ASSUME NEW q \in Request \ {r}
                 PROVE  RequestOK(q)' /\ (Marking(q)' <=> Marking(q))
    OBVIOUS
  <2>2. outdated'[q] = TRUE
    OBVIOUS
  <2> QED BY <1>1, <1>3, <2>2, OutdatedRequestOK
<1>9. LastTimeIsNoted'
  <2>1. SUFFICES ASSUME ~unmarked'
                 PROVE  /\ \A q \in Request : Marking(q)' => update'[q].setupCommunicationAt = mailedAt'
                        /\ mailedAt' # None /\ (\A q \in Request : ~Marking(q)')
                             => claims'.setupCommunicationAt = mailedAt'
    BY DEF LastTimeIsNoted
  <2>2. ~unmarked /\ (Marks(r) \/ claims'.setupCommunicationAt = claims.setupCommunicationAt)
    BY <1>2, <2>1
  <2>3. \A q \in Request : Marking(q)' => Marking(q)
    BY <1>6, <1>8
  <2>4. \A q \in Request : Marking(q) => update[q].setupCommunicationAt = mailedAt
    BY <1>1, <2>2 DEF LastTimeIsNoted
  <2>5. CASE Marks(r)
    <3>1. Marking(r)
      BY <2>5 DEF Marking
    <3>2. pending[r].setupCommunicationAt = mailedAt
      BY <1>1, <2>4, <3>1 DEF RequestOK
    <3> QED BY <1>2, <2>3, <2>4, <3>2
  <2>6. CASE ~Marks(r)
    <3>1. ~Marking(r) /\ claims'.setupCommunicationAt = claims.setupCommunicationAt
      BY <2>2, <2>6 DEF Marking
    <3>2. (\A q \in Request : ~Marking(q)') => (\A q \in Request : ~Marking(q))
      BY <1>8, <3>1
    <3> QED BY <1>1, <2>2, <2>3, <2>4, <3>1, <3>2 DEF LastTimeIsNoted
  <2> QED BY <2>5, <2>6
<1>10. \A q \in Request : RequestOK(q)'
  BY <1>7, <1>8
<1> QED BY <1>5, <1>9, <1>10, InvariantByRequest

LEMMA SetClaimsStep ==
  ASSUME SetupInvariant, NEW r \in Request, SetClaims(r)
  PROVE  SetupInvariant'
<1>1. SetupTypeOK
  BY InvariantByRequest
<1>2. /\ pc[r] = "setClaims" /\ exists /\ ClaimsAreSet(r)
      /\ record' = [record EXCEPT ![r] = Unloaded] /\ outdated' = [q \in Request |-> q # r]
      /\ UNCHANGED <<exists, now, op, update, pending, sends, sent, mailedAt>>
  BY DEF SetClaims, Reset
<1>3. PICK call \in {"loadRecord", "updateUser", "returned", "threw"} :
        /\ pc' = [pc EXCEPT ![r] = call]
        /\ call = "updateUser" => op[r] = "beginResetPassword"
  BY DEF SetClaims, Await, AfterSetClaims
<1>4. /\ outdated' \in [Request -> BOOLEAN] /\ (\A q \in Request \ {r} : outdated'[q])
      /\ record'[r] = Unloaded
  BY <1>1, <1>2 DEF SetupTypeOK
<1> QED BY <1>2, <1>3, <1>4, ClaimsAreSetStep

LEMMA FailStep ==
  ASSUME SetupInvariant, NEW r \in Request, Fail(r)
  PROVE  SetupInvariant'
<1>1. SetupTypeOK /\ (\A q \in Request : RequestOK(q)) /\ LastTimeIsNoted
  BY InvariantByRequest
<1>2. /\ pc' = [pc EXCEPT ![r] = "threw"]
      /\ UNCHANGED <<exists, now, op, update, pending, sends, sent, mailedAt>>
  BY DEF Fail, End, Await
<1>3. CASE /\ pc[r] \in {"exists", "clearIfExists", "loadClaims", "loadRecord"} /\ record[r] = Unloaded
           /\ record' = [record EXCEPT ![r] = Without("rejected")]
           /\ UNCHANGED <<claims, outdated, unmarked>>
  <2>1. ~Marking(r)
    BY <1>3 DEF Marking
  <2> QED BY <1>2, <1>3, <2>1, FailingStep
<1>4. CASE /\ pc[r] \in {"getUser", "createUser", "sendSetupContentToUser", "updateUser"}
           /\ UNCHANGED <<claims, record, outdated, unmarked>>
  <2>1. ~Marking(r)
    BY <1>4 DEF Marking
  <2> QED BY <1>2, <1>4, <2>1, FailingStep
<1>5. CASE /\ pc[r] = "setClaims"
           /\ unmarked' = (unmarked \/ Marks(r))
           /\ UNCHANGED <<claims, record, outdated>>
  <2>1. CASE ~Marks(r)
    <3>1. ~Marking(r) /\ UNCHANGED unmarked
      BY <1>1, <1>5, <2>1 DEF Marking, SetupTypeOK
    <3> QED BY <1>2, <1>5, <3>1, FailingStep
  <2>2. CASE Marks(r)
    <3>1. SetupTypeOK'
      <4>1. pc' \in [Request -> Awaited \cup {"idle", "returned", "threw"}] /\ unmarked' \in BOOLEAN
        BY <1>1, <1>2, <1>5 DEF SetupTypeOK
      <4> QED BY <1>1, <1>2, <1>5, <4>1 DEF SetupTypeOK
    <3>2. LastTimeIsNoted'
      BY <1>5, <2>2 DEF LastTimeIsNoted
    <3>3. pc'[r] = "threw" /\ \A q \in Request \ {r} : pc'[q] = pc[q]
      BY <1>1, <1>2 DEF SetupTypeOK
    <3>4. RequestOK(r)'
      BY <1>1, <1>2, <1>5, <3>3 DEF RequestOK, Marks, Marking
    <3>5. \A q \in Request \ {r} : RequestOK(q)'
      <4>1. \A q \in Request \ {r} : SameRequest(q)
        BY <1>2, <1>5, <3>3 DEF SameRequest
      <4> QED BY <1>1, <1>2, <1>5, <4>1, SameRequestOK
    <3>6. \A q \in Request : RequestOK(q)'
      BY <3>4, <3>5
    <3> QED BY <3>1, <3>2, <3>6, InvariantByRequest
  <2> QED BY <2>1, <2>2
<1>6. CASE /\ pc[r] = "setClaims" /\ exists
           /\ ClaimsAreSet(r)
           /\ outdated' = [q \in Request |-> TRUE]
           /\ UNCHANGED record
  <2>1. outdated' \in [Request -> BOOLEAN] /\ \A q \in Request : outdated'[q]
    BY <1>6
  <2> QED BY <1>2, <1>6, <2>1, ClaimsAreSetStep
<1> QED BY <1>3, <1>4, <1>5, <1>6 DEF Fail

LEMMA FailWithoutUserStep ==
  ASSUME SetupInvariant, NEW r \in Request, FailWithoutUser(r)
  PROVE  SetupInvariant'
<1>1. RequestOK(r)
  BY InvariantByRequest
<1>2. /\ pc' = [pc EXCEPT ![r] = "threw"] /\ ~exists
      /\ UNCHANGED <<exists, claims, now, op, record, update, pending, sends, sent, outdated, mailedAt, unmarked>>
  BY DEF FailWithoutUser, End, Await, user, ghosts
<1>3. ~Marking(r)
  BY <1>1, <1>2 DEF RequestOK
<1> QED BY <1>2, <1>3, FailingStep

\* Time passes, and what was not throttled is not throttled.
LEMMA TickStep ==
  ASSUME SetupInvariant, Tick
  PROVE  SetupInvariant'
<1>1. SetupTypeOK /\ (\A q \in Request : RequestOK(q)) /\ LastTimeIsNoted
  BY InvariantByRequest
<1>2. /\ now < MaxTime /\ now' = now + 1
      /\ UNCHANGED <<exists, claims, op, pc, record, update, pending, sends, sent, outdated, mailedAt, unmarked>>
  BY DEF Tick, user, ghosts
<1>3. now \in Nat /\ MaxTime \in Nat /\ Throttle \in Nat /\ now' \in Time
  BY <1>1, <1>2, TimeAssumption DEF SetupTypeOK, Time
<1>4. SetupTypeOK'
  BY <1>1, <1>2, <1>3 DEF SetupTypeOK
<1>5. \A c \in Claims : ~IsThrottled(c) => ~(c.setupCommunicationAt # None /\ now' <= c.setupCommunicationAt + Throttle)
  <2>1. SUFFICES ASSUME NEW c \in Claims, ~IsThrottled(c), c.setupCommunicationAt # None,
                        now' <= c.setupCommunicationAt + Throttle
                 PROVE  FALSE
    OBVIOUS
  <2>2. c.setupCommunicationAt \in Time
    BY <2>1 DEF Claims
  <2>3. PICK t \in Nat : t = c.setupCommunicationAt
    BY <2>2, TimeIsNat
  <2>4. now <= t + Throttle
    BY <1>2, <1>3, <2>1, <2>3
  <2> QED BY <2>1, <2>3, <2>4 DEF IsThrottled
<1>6. \A q \in Request : RequestOK(q)' /\ (Marking(q)' <=> Marking(q))
  <2>1. SUFFICES ASSUME NEW q \in Request
                 PROVE  RequestOK(q)' /\ (Marking(q)' <=> Marking(q))
    OBVIOUS
  <2>2. record[q].claims \in Claims /\ RequestOK(q)
    BY <1>1 DEF SetupTypeOK, Kept
  <2>3. pc[q] = "sendSetupContentToUser" => ~IsThrottled(record[q].claims)'
    BY <1>2, <1>5, <2>2 DEF RequestOK, IsThrottled
  <2> QED BY <1>2, <2>2, <2>3 DEF RequestOK, Marks, Marking
<1>7. LastTimeIsNoted'
  BY <1>1, <1>2, <1>6 DEF LastTimeIsNoted
<1>8. \A q \in Request : RequestOK(q)'
  BY <1>6
<1> QED BY <1>4, <1>7, <1>8, InvariantByRequest

LEMMA InitialInvariant == Init => SetupInvariant
<1> SUFFICES ASSUME Init PROVE SetupInvariant
  OBVIOUS
<1>1. Unloaded \in Kept /\ ~IsLoaded(Unloaded)
  BY ClaimsOfNobody DEF Unloaded, Without, Kept, IsLoaded
<1>2. claims \in Claims
  <2>1. \A r \in Request : [NoClaims EXCEPT !.setupPassword = r] \in Claims
    BY DEF NoClaims, Claims
  <2> QED BY <2>1, ClaimsOfNobody DEF Init
<1>3. IsChange(<< >>) /\ DOMAIN << >> = {}
  BY ClaimsOfNobody DEF IsChange
<1>4. SetupTypeOK
  <2>1. pc \in [Request -> Awaited \cup {"idle", "returned", "threw"}] /\ op \in [Request -> Operation]
    BY DEF Init, Operation
  <2>2. now \in Time /\ mailedAt \in Time \cup {None}
    BY TimeIsNat DEF Init
  <2>3. DOMAIN update = Request /\ \A r \in Request : IsChange(update[r])
    BY <1>3 DEF Init
  <2>4. record \in [Request -> Kept] /\ pending \in [Request -> Claims]
    BY <1>1, ClaimsOfNobody DEF Init
  <2> QED BY <1>2, <2>1, <2>2, <2>3, <2>4 DEF Init, SetupTypeOK
<1>5. \A r \in Request : RequestOK(r)
  BY <1>1, <1>3 DEF Init, RequestOK, Marks, Marking
<1>6. LastTimeIsNoted
  BY DEF Init, LastTimeIsNoted, Marking
<1> QED BY <1>4, <1>5, <1>6, InvariantByRequest

LEMMA NextKeepsInvariant == SetupInvariant /\ [Next]_vars => SetupInvariant'
<1> SUFFICES ASSUME SetupInvariant, [Next]_vars PROVE SetupInvariant'
  OBVIOUS
<1>1. ASSUME NEW r \in Request, Begin(r)
      PROVE  SetupInvariant'
  BY <1>1, BeginStep
<1>2. ASSUME NEW r \in Request, Step(r)
      PROVE  SetupInvariant'
  BY <1>2, FindUserStep, CreateUserStep, LoadRecordStep, LoadClaimsStep, SetClaimsStep, UpdateUserStep,
     CheckSetupStep, SendSetupContentStep DEF Step
<1>3. ASSUME NEW r \in Request, Fail(r) \/ FailWithoutUser(r)
      PROVE  SetupInvariant'
  BY <1>3, FailStep, FailWithoutUserStep
<1>4. CASE Tick
  BY <1>4, TickStep
<1>5. CASE UNCHANGED vars
  <2>1. UNCHANGED <<exists, claims, now, op, pc, record, update, pending, sends, sent, outdated, mailedAt, unmarked>>
    BY <1>5 DEF vars, user, ghosts
  <2>2. SetupTypeOK /\ (\A q \in Request : RequestOK(q)) /\ LastTimeIsNoted
    BY InvariantByRequest
  <2>3. \A q \in Request : RequestOK(q)' /\ (Marking(q)' <=> Marking(q))
    BY <2>1, <2>2, SameRequestOK DEF SameRequest
  <2>4. SetupTypeOK'
    BY <2>1, <2>2 DEF SetupTypeOK
  <2>5. LastTimeIsNoted'
    BY <2>1, <2>2, <2>3 DEF LastTimeIsNoted
  <2> QED BY <2>3, <2>4, <2>5, InvariantByRequest
<1> QED BY <1>1, <1>2, <1>3, <1>4, <1>5 DEF Next

-----------------------------------------------------------------------------
(* Theorems *)

\* SetupInvariant is inductive: requests that have checked the user's setup before they send
\* content, the claims they are about to set, and the time that is noted once content is sent.
THEOREM SetupInvariantHolds == Spec => []SetupInvariant
BY InitialInvariant, NextKeepsInvariant, PTL DEF Spec

\* The record a context has loaded is the user's, until somebody else sets the claims or a
\* call that sets them fails: the context is reset whenever it has set them itself.
THEOREM ContextsKeepUpToDate == Spec => []ContextsAreUpToDate
<1>1. SetupInvariant => ContextsAreUpToDate
  BY DEF SetupInvariant
<1> QED BY <1>1, SetupInvariantHolds, PTL

\* Only the call that sets the claims brings a request past it, if it does not fail.
LEMMA OnlySetClaimsGoesOn ==
  ASSUME SetupTypeOK, Next, NEW r \in Request,
         pc[r] = "setClaims", pc'[r] \notin {"setClaims", "threw"}
  PROVE  SetClaims(r)
<1>1. ASSUME NEW q \in Request, Begin(q)
      PROVE  q # r /\ pc'[r] = pc[r]
  BY <1>1 DEF Begin, Await, SetupTypeOK
<1>2. ASSUME NEW q \in Request, Step(q), ~SetClaims(q)
      PROVE  q # r /\ pc'[r] = pc[r]
  BY <1>2 DEF Step, FindUser, CreateUser, LoadRecord, LoadClaims, UpdateUser, CheckSetup, SendSetupContent,
     MarkSent, SetMerged, Await, End, SetupTypeOK
<1>3. ASSUME NEW q \in Request, Fail(q) \/ FailWithoutUser(q)
      PROVE  pc'[r] \in {pc[r], "threw"}
  BY <1>3 DEF Fail, FailWithoutUser, Await, End, SetupTypeOK
<1>4. ASSUME NEW q \in Request \ {r}, SetClaims(q)
      PROVE  pc'[r] = pc[r]
  BY <1>4 DEF SetClaims, Await, SetupTypeOK
<1>5. Tick => pc'[r] = pc[r]
  BY DEF Tick
<1> QED BY <1>1, <1>2, <1>3, <1>4, <1>5 DEF Next

\* An update sets the claims it is about and leaves the others, whatever the change and
\* the claims are: the merge starts from the record of a context that is up to date.
THEOREM UpdatesLeaveOtherClaims == Spec => UpdatesKeepOtherClaims
<1>1. SetupInvariant /\ [Next]_vars =>
        [\A r \in Request :
           pc[r] = "setClaims" /\ pc'[r] \notin {"setClaims", "threw"} /\ ~outdated[r]
             => \A k \in DOMAIN claims :
                  claims'[k] = IF k \in DOMAIN update[r] THEN update[r][k] ELSE claims[k]]_vars
  <2>1. SUFFICES ASSUME SetupInvariant, Next, NEW r \in Request,
                        pc[r] = "setClaims", pc'[r] \notin {"setClaims", "threw"}, ~outdated[r],
                        NEW k \in DOMAIN claims
                 PROVE  claims'[k] = IF k \in DOMAIN update[r] THEN update[r][k] ELSE claims[k]
    OBVIOUS
  <2>2. SetupTypeOK /\ RequestOK(r)
    BY <2>1, InvariantByRequest
  <2>3. SetClaims(r)
    BY <2>1, <2>2, OnlySetClaimsGoesOn
  <2>4. claims' = Merged(claims, update[r])
    BY <2>1, <2>2, <2>3 DEF SetClaims, ClaimsAreSet, RequestOK
  <2> QED BY <2>2, <2>4, MergedClaim DEF SetupTypeOK
<1> QED BY <1>1, SetupInvariantHolds, PTL DEF Spec, UpdatesKeepOtherClaims

LEMMA OnlySendSetupContentSends ==
  ASSUME SetupTypeOK, Next, NEW r \in Request,
         pc[r] = "sendSetupContentToUser", pc'[r] = "setClaims"
  PROVE  SendSetupContent(r)
<1>1. ASSUME NEW q \in Request, Begin(q)
      PROVE  pc'[r] = pc[r]
  BY <1>1 DEF Begin, Await, SetupTypeOK
<1>2. ASSUME NEW q \in Request, Step(q), ~SendSetupContent(q)
      PROVE  q # r /\ pc'[r] = pc[r]
  <2>1. q # r
    BY <1>2 DEF Step, FindUser, CreateUser, LoadRecord, LoadClaims, SetClaims, UpdateUser, CheckSetup
  <2> QED BY <1>2, <2>1 DEF Step, FindUser, CreateUser, LoadRecord, LoadClaims, SetClaims, UpdateUser,
         CheckSetup, SetMerged, Await, End, SetupTypeOK
<1>3. ASSUME NEW q \in Request, Fail(q) \/ FailWithoutUser(q)
      PROVE  pc'[r] \in {pc[r], "threw"}
  BY <1>3 DEF Fail, FailWithoutUser, Await, End, SetupTypeOK
<1>4. ASSUME NEW q \in Request \ {r}, SendSetupContent(q)
      PROVE  pc'[r] = pc[r]
  BY <1>4 DEF SendSetupContent, MarkSent, SetMerged, Await, SetupTypeOK
<1>5. Tick => pc'[r] = pc[r]
  BY DEF Tick
<1> QED BY <1>1, <1>2, <1>3, <1>4, <1>5 DEF Next

\* Content is sent only when the throttle time has passed since it was sent last: the time of
\* that is in the claims, the context has them, and has found the user not throttled.
THEOREM SetupContentThrottled == Spec => SetupContentIsThrottled
<1>1. SetupInvariant /\ [Next]_vars =>
        [\A r \in Request :
           pc[r] = "sendSetupContentToUser" /\ pc'[r] = "setClaims" /\ mailedAt # None
             => unmarked \/ unmarked' \/ now > mailedAt + Throttle]_vars
  <2>1. SUFFICES ASSUME SetupInvariant, Next, NEW r \in Request,
                        pc[r] = "sendSetupContentToUser", pc'[r] = "setClaims", mailedAt # None,
                        ~unmarked, ~unmarked'
                 PROVE  now > mailedAt + Throttle
    OBVIOUS
  <2>2. SetupTypeOK /\ RequestOK(r) /\ LastTimeIsNoted
    BY <2>1, InvariantByRequest
  <2>3. SendSetupContent(r)
    BY <2>1, <2>2, OnlySendSetupContentSends
  <2>4. ~outdated[r] /\ \A q \in Request \ {r} : ~Marking(q)
    BY <2>1, <2>3 DEF SendSetupContent
  <2>5. \A q \in Request : ~Marking(q)
    BY <2>1, <2>4 DEF Marking
  <2>6. claims.setupCommunicationAt = mailedAt
    BY <2>1, <2>2, <2>5 DEF LastTimeIsNoted
  <2>7. ~IsThrottled(record[r].claims) /\ record[r].claims = claims
    BY <2>1, <2>2, <2>4 DEF RequestOK
  <2>8. ~(now <= mailedAt + Throttle)
    BY <2>1, <2>6, <2>7 DEF IsThrottled
  <2>9. now \in Nat /\ mailedAt \in Nat /\ Throttle \in Nat
    BY <2>1, <2>2, TimeIsNat, TimeAssumption DEF SetupTypeOK
  <2> QED BY <2>8, <2>9
<1> QED BY <1>1, SetupInvariantHolds, PTL DEF Spec, SetupContentIsThrottled
=============================================================================
