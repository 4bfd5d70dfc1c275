------------------------------ MODULE ZohoTokens ------------------------------
(***************************************************************************)
(* The access tokens of @dereekb/zoho: callers of several services ask     *)
(* zohoAccountsZohoAccessTokenFactory() for a token, which keeps one, loads*)
(* another from a cache when it has none, and refreshes it when it is about*)
(* to expire.  The cache is the file cache of @dereekb/zoho/nestjs that all*)
(* services share, alone or merged behind a cache in memory.  The process  *)
(* may crash and start again; what is left of it is the file.              *)
(*                                                                         *)
(* An action is a stretch of code between two events from outside, which   *)
(* are what is read from and written to the file, the server's answer to a *)
(* refresh, and time.  Zoho's server and the file system are external.     *)
(***************************************************************************)
EXTENDS Integers, FiniteSets

CONSTANTS
  Service,     \* the keys of the services
  Caller,      \* the callers
  ServiceOf,   \* the service each caller asks
  Life,        \* how long a token lasts, in units of time
  Buffer,      \* tokenExpirationBuffer
  MaxTokens,   \* bound: the tokens there can be
  MaxCalls,    \* bound: the calls
  MaxCrashes,  \* bound: the crashes
  None         \* null or undefined

ASSUME CallersAssumption == IsFiniteSet(Service) /\ ServiceOf \in [Caller -> Service]
ASSUME LifeAssumption == Life \in Nat /\ Buffer \in Nat /\ Buffer < Life
ASSUME BoundsAssumption == MaxTokens \in Nat \ {0} /\ MaxCalls \in Nat /\ MaxCrashes \in Nat

Token == 1..MaxTokens

VARIABLES
  useMemoryCache,  \* input: the file cache keeps what it has read,
  isMerged,        \* input: and stands behind a cache in memory
  currentToken,    \* for each service, the token its factory keeps
  memoryTokens,    \* the cache in memory
  loadedTokens,    \* what the file cache has kept, or None
  file,            \* the tokens in the file, or None where it cannot be parsed
  life,            \* the time until each token expires, negative once that is past
  made,            \* the tokens there are
  pc,              \* where each caller is
  buffer,          \* the tokens it has read or writes
  token,           \* the token it has refreshed, and then what it is returned
  calls, crashes,
  latest,          \* for each service, the token that should be in the file
  overlapped,      \* in this process reads and writes of the file have overlapped, or one
                   \* has failed
  usable           \* the tokens that outlasted the buffer at a time since each caller asked

inputs == <<useMemoryCache, isMerged>>
caches == <<currentToken, memoryTokens, loadedTokens>>
tokens == <<life, made, latest>>
vars == <<inputs, caches, tokens, file, pc, buffer, token, calls, crashes, overlapped, usable>>

Stage == {
  "idle",
  "reading",        \* the file is read to load a token
  "read",           \* it has been, and readTokenFile() is not resolved yet
  "refreshing",     \* tokenRefresher() is awaited
  "updateReading", "updateRead",  \* the file is read to update it
  "writing",        \* writeTokenFile() is awaited
  "returned", "threw"}

\* The caller has asked for a token and not got one yet.
IsWaiting(c) == pc[c] \notin {"idle", "returned", "threw"}

NoTokens == [s \in Service |-> None]

Record == [Service -> Token \cup {None}]

ASSUME NoneAssumption == None \notin Nat /\ None \notin Record

-----------------------------------------------------------------------------
(* The file, shared by the callers *)

Writing == {c \in Caller : pc[c] = "writing"}

UsesFile(c) == pc[c] \in {"reading", "read", "updateReading", "updateRead", "writing"}

\* A file that is being written may be found empty or cut off.
Contents == IF Writing = {} THEN {file} ELSE {file, None}

FileIsRead(c) ==
  /\ \/ pc[c] = "reading" /\ pc' = [pc EXCEPT ![c] = "read"]
     \/ pc[c] = "updateReading" /\ pc' = [pc EXCEPT ![c] = "updateRead"]
  /\ \E x \in Contents : buffer' = [buffer EXCEPT ![c] = x]
  /\ overlapped' = (overlapped \/ Writing # {})
  /\ UNCHANGED <<inputs, caches, tokens, file, token, calls, crashes, usable>>

\* { ...a, ...b }
Spread(a, b) ==
  LET x == IF a = None THEN NoTokens ELSE a
      y == IF b = None THEN NoTokens ELSE b
  IN [s \in Service |-> IF y[s] = None THEN x[s] ELSE y[s]]

\* What readTokenFile() keeps of x.
Keep(x) == loadedTokens' = IF useMemoryCache THEN Spread(loadedTokens, x) ELSE loadedTokens

StartWrite(c, content) ==
  /\ buffer' = [buffer EXCEPT ![c] = content]
  /\ pc' = [pc EXCEPT ![c] = "writing"]
  /\ overlapped' = (overlapped \/ \E d \in Caller \ {c} : UsesFile(d))

-----------------------------------------------------------------------------
(* loadCachedToken() *)

isPast(t) == life[t] < 0

\* What is found in record x.  A merged cache does not return what has expired.
Found(s, x) == IF x # None /\ x[s] # None /\ ~(isMerged /\ isPast(x[s])) THEN x[s] ELSE None

InMemory(s) == IF isMerged THEN Found(s, memoryTokens) ELSE None

-----------------------------------------------------------------------------
(* zohoAccountsZohoAccessTokenFactory() *)

IsExpired(t) == Buffer >= life[t]

\* An expired token stays the current one until the refresh is answered.
KeepExpired(c, t) ==
  /\ currentToken' = [currentToken EXCEPT ![ServiceOf[c]] = t]
  /\ IF t # None /\ ~IsExpired(t)
     THEN token' = [token EXCEPT ![c] = t] /\ pc' = [pc EXCEPT ![c] = "returned"]
     ELSE pc' = [pc EXCEPT ![c] = "refreshing"] /\ UNCHANGED token

\* The factory goes on with t as its current token: it is returned, or dropped and
\* refreshed.
CheckExpiration(c, t) ==
  /\ IF t # None /\ ~IsExpired(t)
     THEN /\ currentToken' = [currentToken EXCEPT ![ServiceOf[c]] = t]
          /\ token' = [token EXCEPT ![c] = t]
          /\ pc' = [pc EXCEPT ![c] = "returned"]
     ELSE /\ currentToken' = [currentToken EXCEPT ![ServiceOf[c]] = None]
          /\ pc' = [pc EXCEPT ![c] = "refreshing"]
          /\ UNCHANGED token

\* The current token, or one that the caches have at hand, or a read of the file.
Call(c) ==
  LET s == ServiceOf[c]
      cached == IF InMemory(s) # None THEN InMemory(s) ELSE Found(s, loadedTokens)
  IN /\ pc[c] \in {"idle", "returned", "threw"} /\ calls < MaxCalls
     /\ calls' = calls + 1
     /\ \/ /\ currentToken[s] # None
           /\ CheckExpiration(c, currentToken[s])
        \/ /\ currentToken[s] = None
           /\ InMemory(s) # None \/ loadedTokens # None
           /\ CheckExpiration(c, cached)
        \/ /\ currentToken[s] = None
           /\ InMemory(s) = None /\ loadedTokens = None
           /\ pc' = [pc EXCEPT ![c] = "reading"]
           /\ UNCHANGED <<currentToken, token>>
     /\ usable' = [usable EXCEPT ![c] = {t \in Token : life[t] > Buffer}]
     /\ UNCHANGED <<inputs, memoryTokens, loadedTokens, tokens, file, buffer, crashes, overlapped>>

\* A token read from the file becomes the current one, whatever has come to be it
\* during the read.
LoadResolves(c) ==
  LET found == Found(ServiceOf[c], buffer[c]) IN
  /\ pc[c] = "read"
  /\ Keep(buffer[c])
  /\ CheckExpiration(c, IF found # None THEN found ELSE currentToken[ServiceOf[c]])
  /\ buffer' = [buffer EXCEPT ![c] = None]
  /\ UNCHANGED <<inputs, memoryTokens, tokens, file, calls, crashes, overlapped, usable>>

\* What is written for caller c's token t: the record of tokens it was put into.
OnlyUpdated(c, x, t) == [NoTokens EXCEPT ![ServiceOf[c]] = t]

Updated(c, x, t) == [Spread(NoTokens, x) EXCEPT ![ServiceOf[c]] = t]

\* updateCachedToken(), after the factory has taken the token on.
RefreshSucceeds(c) ==
  LET s == ServiceOf[c]
      t == made + 1
  IN /\ pc[c] = "refreshing" /\ made < MaxTokens
     /\ made' = t
     /\ life' = [life EXCEPT ![t] = Life]
     /\ latest' = [latest EXCEPT ![s] = t]
     /\ currentToken' = [currentToken EXCEPT ![s] = t]
     /\ memoryTokens' = IF isMerged THEN [memoryTokens EXCEPT ![s] = t] ELSE memoryTokens
     /\ token' = [token EXCEPT ![c] = t]
     /\ usable' = [d \in Caller |-> IF IsWaiting(d) THEN usable[d] \cup {t} ELSE usable[d]]
     /\ \/ /\ loadedTokens # None
           /\ loadedTokens' = Updated(c, loadedTokens, t)
           /\ StartWrite(c, loadedTokens')
        \/ /\ loadedTokens = None
           /\ pc' = [pc EXCEPT ![c] = "updateReading"]
           /\ UNCHANGED <<loadedTokens, buffer, overlapped>>
     /\ UNCHANGED <<inputs, file, calls, crashes>>

RefreshFails(c) ==
  /\ pc[c] = "refreshing"
  /\ pc' = [pc EXCEPT ![c] = "threw"]
  /\ UNCHANGED <<inputs, caches, tokens, file, buffer, token, calls, crashes, overlapped, usable>>

UpdateGoesOn(c) ==
  /\ pc[c] = "updateRead"
  /\ Keep(buffer[c])
  /\ StartWrite(c, Updated(c, buffer[c], token[c]))
  /\ UNCHANGED <<inputs, currentToken, memoryTokens, tokens, file, token, calls, crashes, usable>>

\* The token that could not be written is dropped.
DropOnError(c) ==
  /\ pc[c] = "writing"
  /\ file' \in {file, buffer[c]}
  /\ currentToken' = IF file' = file THEN [currentToken EXCEPT ![ServiceOf[c]] = None] ELSE currentToken
  /\ buffer' = [buffer EXCEPT ![c] = None]
  /\ token' = [token EXCEPT ![c] = currentToken'[ServiceOf[c]]]
  /\ pc' = [pc EXCEPT ![c] = "returned"]
  /\ overlapped' = TRUE
  /\ UNCHANGED <<inputs, memoryTokens, loadedTokens, tokens, calls, crashes, usable>>

\* The file is written; when two are at it at once it may end up garbled.  An error
\* is swallowed.  Then what is the current token by now is returned.
WriteEnds(c) ==
  /\ pc[c] = "writing"
  /\ \/ /\ file' \in IF Cardinality(Writing) > 1 THEN {buffer[c], None} ELSE {buffer[c]}
        /\ UNCHANGED overlapped
     \/ /\ file' \in {file, None}
        /\ overlapped' = TRUE
  /\ buffer' = [buffer EXCEPT ![c] = None]
  /\ token' = [token EXCEPT ![c] = currentToken[ServiceOf[c]]]
  /\ pc' = [pc EXCEPT ![c] = "returned"]
  /\ UNCHANGED <<inputs, caches, tokens, calls, crashes, usable>>

-----------------------------------------------------------------------------
(* What happens around it *)

\* The caller has refreshed a token and updateCachedToken() is awaited.
IsSaving(c) == pc[c] \in {"updateReading", "updateRead", "writing"}

\* Something of what should be in the file may be missing when the process ends.
IsInterrupted == overlapped \/ \E c \in Caller : IsSaving(c)

\* A crash keeps the file as it is, or cut off where it was being written.  If that has
\* lost tokens, the next process starts with what is left.
Crash ==
  /\ crashes < MaxCrashes
  /\ crashes' = crashes + 1
  /\ file' \in Contents
  /\ latest' = IF IsInterrupted THEN Spread(NoTokens, file') ELSE latest
  /\ overlapped' = FALSE
  /\ currentToken' = NoTokens
  /\ memoryTokens' = NoTokens
  /\ loadedTokens' = None
  /\ pc' = [c \in Caller |-> "idle"]
  /\ buffer' = [c \in Caller |-> None]
  /\ token' = [c \in Caller |-> None]
  /\ usable' = [c \in Caller |-> {}]
  /\ UNCHANGED <<inputs, life, made, calls>>

\* A unit of time passes.
Tick ==
  /\ \E t \in 1..made : life[t] >= 0
  /\ life' = [t \in Token |-> IF life[t] < 0 THEN life[t] ELSE life[t] - 1]
  /\ UNCHANGED <<inputs, caches, made, latest, file, pc, buffer, token, calls, crashes, overlapped,
                 usable>>

-----------------------------------------------------------------------------
(* The specification *)

\* The file may hold a token of each service, made by an earlier process, or none.
Init ==
  /\ useMemoryCache \in BOOLEAN /\ isMerged \in BOOLEAN
  /\ currentToken = NoTokens
  /\ memoryTokens = NoTokens
  /\ loadedTokens = None
  /\ \/ /\ made = 0 /\ file = None
        /\ life = [t \in Token |-> -1]
     \/ /\ made = 1
        /\ file \in {[NoTokens EXCEPT ![s] = 1] : s \in Service}
        /\ \E n \in -1..Life : life = [t \in Token |-> IF t = 1 THEN n ELSE -1]
  /\ latest = IF file = None THEN NoTokens ELSE file
  /\ pc = [c \in Caller |-> "idle"]
  /\ buffer = [c \in Caller |-> None]
  /\ token = [c \in Caller |-> None]
  /\ calls = 0 /\ crashes = 0
  /\ overlapped = FALSE
  /\ usable = [c \in Caller |-> {}]

FileAnswers(c) == FileIsRead(c) \/ LoadResolves(c) \/ UpdateGoesOn(c) \/ WriteEnds(c)

RefreshAnswers(c) == RefreshSucceeds(c) \/ RefreshFails(c)

Next ==
  \/ \E c \in Caller : Call(c) \/ FileAnswers(c) \/ RefreshAnswers(c)
  \/ Crash
  \/ Tick

Spec == Init /\ [][Next]_vars

-----------------------------------------------------------------------------
(* Properties *)

\* The values are of the kind the code declares.
TypeOK ==
  /\ useMemoryCache \in BOOLEAN /\ isMerged \in BOOLEAN
  /\ currentToken \in Record /\ memoryTokens \in Record /\ latest \in Record
  /\ loadedTokens \in Record \cup {None} /\ file \in Record \cup {None}
  /\ life \in [Token -> -1..Life] /\ made \in 0..MaxTokens
  /\ pc \in [Caller -> Stage]
  /\ buffer \in [Caller -> Record \cup {None}]
  /\ token \in [Caller -> Token \cup {None}]
  /\ overlapped \in BOOLEAN
  /\ usable \in [Caller -> SUBSET Token]

\* Whatever a caller is returned outlasted the buffer at some time since it has asked.  It
\* returns the token its service has by then, which is not the one it has looked at or
\* refreshed if others have called, loaded an old one late, or refreshed meanwhile.
ReturnedTokensWereUsable ==
  \A c \in Caller : pc[c] = "returned" => token[c] \in usable[c] \cup {None}

\* The caller has found no token that will do, or has not found any yet: it is at getting one,
\* or has failed to.
Retrieves(c) == pc[c] \in {"reading", "read", "refreshing", "threw"}

\* A caller is returned null only when another one of its service has dropped the token and
\* is at getting the next, or has failed to: never on account of the caches, of errors of
\* the file, of callers of other services, or of a crash.
NullOnlyWhileAnotherRetrieves ==
  [][\A c \in Caller :
       pc[c] # "returned" /\ pc'[c] = "returned" /\ token'[c] = None
         => \E d \in Caller \ {c} : ServiceOf[d] = ServiceOf[c] /\ Retrieves(d)]_vars

\* As long as no two callers of a process are at the file at once, and it is written
\* without an error, it holds the latest token of every service: neither a service nor a
\* restart loses the token of another one, also after a crash that has cut the file off.
LatestTokensAreKept ==
  ~overlapped /\ Writing = {} /\ (\A c \in Caller : pc[c] \notin {"updateReading", "updateRead"})
    => Spread(NoTokens, file) = latest

\* The caller has refreshed a token and is about to write it.
Updating(c) == pc[c] \in {"updateReading", "updateRead"}

\* What the file holds, or will when it has been written.
ToBeHeld == LET w == CHOOSE c \in Writing : TRUE
            IN Spread(NoTokens, IF Writing = {} THEN file ELSE buffer[w])

\* A file cache that keeps what it reads has read the file before any token is refreshed,
\* and one that does not has kept nothing.
CacheIsRead ==
  /\ ~useMemoryCache => loadedTokens = None
  /\ useMemoryCache =>
       /\ \A c \in Caller : ~Updating(c)
       /\ loadedTokens = None =>
            /\ currentToken = NoTokens /\ memoryTokens = NoTokens
            /\ \A c \in Caller : pc[c] \notin {"refreshing", "writing"}

\* As long as no two callers are at the file at once, what they have read of it is what it
\* holds, what it keeps are the latest tokens, and a token that neither the file nor a write
\* has is held by a caller that is about to write it.
NothingOverlapped ==
  ~overlapped =>
    /\ \A c, d \in Writing : c = d
    /\ \A c \in Caller : pc[c] \in {"read", "updateRead"} => Writing = {} /\ buffer[c] = file
    /\ loadedTokens # None => loadedTokens = latest
    /\ \A s \in Service :
         IF \E c \in Caller : Updating(c) /\ ServiceOf[c] = s
         THEN \E c \in Caller : Updating(c) /\ ServiceOf[c] = s /\ token[c] = latest[s]
         ELSE ToBeHeld[s] = latest[s]

\* The inductive invariant LatestTokensAreKept rests on.
TokensInvariant == TypeOK /\ CacheIsRead /\ NothingOverlapped

\* What is usable while a caller waits counts for it, and so does the token its service has
\* while it saves the one it has refreshed, unless another caller of the service has dropped
\* that token and retrieves the next.
TokensAreAtHand ==
  \A c \in Caller :
    /\ IsWaiting(c) => \A t \in Token : life[t] > Buffer => t \in usable[c]
    /\ IsSaving(c) =>
         \/ currentToken[ServiceOf[c]] \in usable[c]
         \/ /\ currentToken[ServiceOf[c]] = None
            /\ \E d \in Caller \ {c} : ServiceOf[d] = ServiceOf[c] /\ Retrieves(d)
    /\ pc[c] = "returned" => token[c] \in usable[c] \cup {None}
=============================================================================
