--------------------------- MODULE ZohoTokensProofs ---------------------------
(***************************************************************************)
(* What is proved of ZohoTokens for any services and callers, any life and *)
(* buffer of tokens, and any number of calls and crashes: no token gets    *)
(* lost from the file while the callers are at it one after the other, what*)
(* a caller is returned has been usable since it asked, however the callers*)
(* share the current token, and it is returned null only on account of     *)
(* another caller that retrieves a token.                                  *)
(* TokensInvariant is inductive: a step either leaves the file and those   *)
(* who are at it alone, or it starts a write, ends one, or puts a new token*)
(* into the hands of a caller that will write it.  TokensAreAtHand is      *)
(* inductive with it: it looks at the current token, which any caller of   *)
(* the service may replace or drop while another one saves its own.        *)
(***************************************************************************)
EXTENDS ZohoTokens, FiniteSetTheorems, TLAPS

-----------------------------------------------------------------------------
(* Records of tokens *)

LEMMA NoneIsNoToken == None \notin Token /\ Token \subseteq Nat /\ None \notin Record /\ 1 \in Token
BY NoneAssumption, BoundsAssumption DEF Token

LEMMA NoTokensType == NoTokens \in Record /\ \A s \in Service : NoTokens[s] = None
BY DEF NoTokens, Record

LEMMA RecordsAreEqual ==
  ASSUME NEW x \in Record, NEW y \in Record, \A s \in Service : x[s] = y[s]
  PROVE  x = y
BY DEF Record

\* What is spread into a record wins.
LEMMA SpreadValue ==
  ASSUME NEW x \in Record, NEW y \in Record \cup {None}
  PROVE  /\ Spread(x, y) \in Record /\ Spread(None, y) = Spread(NoTokens, y)
         /\ Spread(x, None) = x
         /\ y # None => \A s \in Service : Spread(x, y)[s] = IF y[s] = None THEN x[s] ELSE y[s]
<1>1. /\ NoTokens \in Record /\ (\A s \in Service : NoTokens[s] = None)
      /\ x # None /\ NoTokens # None /\ None \notin Record
  BY NoTokensType, NoneIsNoToken
<1>2. Spread(None, y) = Spread(NoTokens, y)
  BY <1>1 DEF Spread
<1>3. y # None => Spread(x, y) = [s \in Service |-> IF y[s] = None THEN x[s] ELSE y[s]]
  BY <1>1 DEF Spread
<1>4. Spread(x, None) = [s \in Service |-> x[s]]
  BY <1>1 DEF Spread
<1>5. Spread(x, None) = x
  BY <1>4 DEF Record
<1>6. Spread(x, y) \in Record
  <2>1. CASE y = None
    BY <1>5, <2>1
  <2>2. CASE y # None
    BY <1>3, <2>2 DEF Record
  <2> QED BY <2>1, <2>2
<1> QED BY <1>2, <1>3, <1>5, <1>6

\* To spread nothing into a record, a record into none, or into itself, leaves it.
LEMMA SpreadAgain ==
  ASSUME NEW x \in Record, NEW y \in Record \cup {None}, Spread(NoTokens, y) = x
  PROVE  Spread(x, y) = x /\ (y # None => y = x)
<1>1. CASE y = None
  BY <1>1, SpreadValue
<1>2. CASE y # None
  <2>1. y \in Record
    BY <1>2
  <2>2. \A s \in Service : x[s] = IF y[s] = None THEN NoTokens[s] ELSE y[s]
    BY <1>2, NoTokensType, SpreadValue
  <2>3. y = x
    BY <2>1, <2>2, NoTokensType, RecordsAreEqual
  <2>4. \A s \in Service : Spread(x, y)[s] = x[s]
    BY <1>2, <2>3, SpreadValue
  <2>5. Spread(x, y) \in Record
    BY SpreadValue
  <2> QED BY <2>3, <2>4, <2>5, RecordsAreEqual
<1> QED BY <1>1, <1>2

LEMMA SpreadRecord ==
  ASSUME NEW x \in Record
  PROVE  Spread(NoTokens, x) = x
<1>1. x # None
  BY NoneIsNoToken
<1>2. Spread(NoTokens, x) \in Record /\ \A s \in Service : Spread(NoTokens, x)[s] = x[s]
  BY <1>1, NoTokensType, SpreadValue
<1> QED BY <1>2, RecordsAreEqual

\* What is written has the new token, and those of the others.
LEMMA UpdatedValue ==
  ASSUME NEW c \in Caller, NEW x \in Record \cup {None}, NEW t \in Token \cup {None}
  PROVE  /\ Updated(c, x, t) \in Record /\ Updated(c, x, t) # None
         /\ Updated(c, x, t)[ServiceOf[c]] = t
         /\ \A s \in Service \ {ServiceOf[c]} : Updated(c, x, t)[s] = Spread(NoTokens, x)[s]
<1>1. Spread(NoTokens, x) \in Record /\ ServiceOf[c] \in Service
  BY NoTokensType, SpreadValue, CallersAssumption
<1> QED BY <1>1, NoneIsNoToken DEF Updated, Record

-----------------------------------------------------------------------------
(* The file and those who are at it *)

LEMMA Held ==
  /\ Writing = {} => ToBeHeld = Spread(NoTokens, file)
  /\ \A c \in Caller : Writing = {c} => ToBeHeld = Spread(NoTokens, buffer[c])
<1>1. Writing = {} => ToBeHeld = Spread(NoTokens, file)
  BY DEF ToBeHeld
<1>2. ASSUME NEW c \in Caller, Writing = {c}
      PROVE  ToBeHeld = Spread(NoTokens, buffer[c])
  <2>1. (CHOOSE d \in Writing : TRUE) = c
    BY <1>2
  <2> QED BY <1>2, <2>1 DEF ToBeHeld
<1> QED BY <1>1, <1>2

LEMMA HeldType ==
  ASSUME TypeOK, \A c, d \in Writing : c = d
  PROVE  ToBeHeld \in Record
<1>1. Writing = {} \/ \E c \in Caller : Writing = {c}
  BY DEF Writing
<1> QED BY <1>1, Held, NoTokensType, SpreadValue DEF TypeOK

\* When nobody is about to write, the file holds the latest tokens.
LEMMA NobodyIsUpdating ==
  ASSUME TypeOK, NothingOverlapped, ~overlapped, \A c \in Caller : ~Updating(c)
  PROVE  ToBeHeld = latest
<1>1. \A s \in Service : ToBeHeld[s] = latest[s]
  BY DEF NothingOverlapped
<1>2. ToBeHeld \in Record /\ latest \in Record
  BY HeldType DEF NothingOverlapped, TypeOK
<1> QED BY <1>1, <1>2, RecordsAreEqual

\* A step that leaves the file alone, and those who write it or have a token for it.
LEMMA FileIsLeftAlone ==
  ASSUME TypeOK, NothingOverlapped, UNCHANGED <<file, latest>>, ~overlapped' => ~overlapped,
         \A c \in Caller :
           /\ pc'[c] = "writing" <=> pc[c] = "writing"
           /\ pc'[c] = "writing" => buffer'[c] = buffer[c]
           /\ Updating(c)' <=> Updating(c)
           /\ Updating(c) => token'[c] = token[c]
           /\ ~overlapped' /\ pc'[c] \in {"read", "updateRead"} =>
                \/ pc[c] \in {"read", "updateRead"} /\ buffer'[c] = buffer[c]
                \/ Writing = {} /\ buffer'[c] = file,
         ~overlapped' /\ loadedTokens' # None => loadedTokens' = loadedTokens \/ loadedTokens' = latest
  PROVE  NothingOverlapped'
<1>1. SUFFICES ASSUME ~overlapped'
               PROVE  NothingOverlapped'
  BY DEF NothingOverlapped
<1>2. ~overlapped /\ Writing' = Writing
  BY <1>1 DEF Writing
<1>3. \A c, d \in Writing : c = d
  BY <1>2 DEF NothingOverlapped
<1>4. ToBeHeld' = ToBeHeld
  <2>1. CASE Writing = {}
    <3>1. /\ ToBeHeld = Spread(NoTokens, file)
          /\ ToBeHeld' = Spread(NoTokens, file')
      BY <1>2, <2>1 DEF ToBeHeld
    <3> QED BY <3>1
  <2>2. CASE Writing # {}
    <3>1. PICK c \in Caller : Writing = {c}
      BY <1>3, <2>2 DEF Writing
    <3>2. pc'[c] = "writing" /\ (CHOOSE d \in Writing : TRUE) = c /\ (CHOOSE d \in Writing' : TRUE) = c
      BY <1>2, <3>1 DEF Writing
    <3>3. /\ ToBeHeld = Spread(NoTokens, buffer[c])
          /\ ToBeHeld' = Spread(NoTokens, buffer'[c])
      BY <1>2, <3>1, <3>2 DEF ToBeHeld
    <3> QED BY <3>2, <3>3
  <2> QED BY <2>1, <2>2
<1>5. \A c \in Caller : pc'[c] \in {"read", "updateRead"} => Writing' = {} /\ buffer'[c] = file'
  BY <1>1, <1>2 DEF NothingOverlapped
<1>6. loadedTokens' # None => loadedTokens' = latest'
  BY <1>1, <1>2 DEF NothingOverlapped
<1>7. ASSUME NEW s \in Service
      PROVE  IF \E c \in Caller : Updating(c)' /\ ServiceOf[c] = s
             THEN \E c \in Caller : Updating(c)' /\ ServiceOf[c] = s /\ token'[c] = latest'[s]
             ELSE ToBeHeld'[s] = latest'[s]
  BY <1>2, <1>4 DEF NothingOverlapped
<1> QED BY <1>2, <1>3, <1>5, <1>6, <1>7 DEF NothingOverlapped

\* A write that starts while nobody else is at the file, of the latest tokens.
LEMMA WriteStarts ==
  ASSUME TypeOK, NEW c \in Caller, NEW content \in Record, StartWrite(c, content),
         ~overlapped' => content = latest' /\ (loadedTokens' # None => loadedTokens' = latest')
  PROVE  NothingOverlapped'
<1>1. SUFFICES ASSUME ~overlapped'
               PROVE  NothingOverlapped'
  BY DEF NothingOverlapped
<1>2. pc'[c] = "writing" /\ buffer'[c] = content /\ \A d \in Caller \ {c} : pc'[d] = pc[d] /\ ~UsesFile(d)
  BY <1>1 DEF StartWrite, TypeOK
<1>3. Writing' = {c}
  BY <1>2 DEF Writing, UsesFile
<1>4. \A d \in Caller : ~Updating(d)' /\ pc'[d] \notin {"read", "updateRead"}
  BY <1>2 DEF Updating, UsesFile
<1>5. ToBeHeld' = latest'
  <2>1. (CHOOSE d \in Writing' : TRUE) = c
    BY <1>3
  <2>2. ToBeHeld' = Spread(NoTokens, buffer'[c])
    BY <1>3, <2>1 DEF ToBeHeld
  <2> QED BY <1>1, <1>2, <2>2, SpreadRecord
<1> QED BY <1>1, <1>3, <1>4, <1>5 DEF NothingOverlapped

-----------------------------------------------------------------------------
(* Steps *)

LEMMA FoundType ==
  ASSUME NEW s \in Service, NEW x \in Record \cup {None}
  PROVE  Found(s, x) \in Token \cup {None} /\ (x = NoTokens => Found(s, x) = None)
<1>1. x # None => x[s] \in Token \cup {None}
  BY DEF Record
<1> QED BY <1>1, NoTokensType DEF Found

\* The factory keeps the token or drops it, and the caller has it or refreshes.
LEMMA CheckedTypes ==
  ASSUME TypeOK, NEW c \in Caller, NEW t \in Token \cup {None}, CheckExpiration(c, t)
  PROVE  /\ currentToken' \in Record /\ token' \in [Caller -> Token \cup {None}]
         /\ \A d \in Caller \ {c} : pc'[d] = pc[d] /\ token'[d] = token[d]
         /\ \/ pc'[c] = "returned" /\ t \in Token /\ token'[c] = t /\ ~IsExpired(t)
            \/ pc'[c] = "refreshing" /\ token'[c] = token[c]
         /\ pc' \in [Caller -> Stage]
<1>1. ServiceOf[c] \in Service
  BY CallersAssumption
<1>2. CASE t # None /\ ~IsExpired(t)
  <2>1. /\ currentToken' = [currentToken EXCEPT ![ServiceOf[c]] = t]
        /\ token' = [token EXCEPT ![c] = t] /\ pc' = [pc EXCEPT ![c] = "returned"]
    BY <1>2 DEF CheckExpiration
  <2> QED BY <1>1, <1>2, <2>1 DEF TypeOK, Record, Stage
<1>3. CASE ~(t # None /\ ~IsExpired(t))
  <2>1. /\ currentToken' = [currentToken EXCEPT ![ServiceOf[c]] = None]
        /\ token' = token /\ pc' = [pc EXCEPT ![c] = "refreshing"]
    BY <1>3 DEF CheckExpiration
  <2> QED BY <1>1, <2>1 DEF TypeOK, Record, Stage
<1> QED BY <1>2, <1>3

\* What a call finds, or that it reads the file.
LEMMA CallCases ==
  ASSUME TypeOK, NEW c \in Caller, Call(c)
  PROVE  \/ \E t \in Token \cup {None} :
              /\ CheckExpiration(c, t)
              /\ \/ currentToken[ServiceOf[c]] # None
                 \/ InMemory(ServiceOf[c]) # None \/ loadedTokens # None
         \/ pc' = [pc EXCEPT ![c] = "reading"] /\ UNCHANGED <<currentToken, token>>
<1> DEFINE s == ServiceOf[c]
<1>1. s \in Service /\ currentToken[s] \in Token \cup {None}
  BY CallersAssumption DEF TypeOK, Record
<1>2. InMemory(s) \in Token \cup {None} /\ Found(s, loadedTokens) \in Token \cup {None}
  BY <1>1, FoundType DEF InMemory, TypeOK
<1> QED BY <1>1, <1>2 DEF Call

LEMMA CallStep ==
  ASSUME TokensInvariant, NEW c \in Caller, Call(c)
  PROVE  TokensInvariant'
<1>1. TypeOK /\ CacheIsRead /\ NothingOverlapped /\ ServiceOf[c] \in Service
  BY CallersAssumption DEF TokensInvariant
<1>2. /\ UNCHANGED <<useMemoryCache, isMerged, memoryTokens, loadedTokens, life, made, latest, file, buffer, overlapped>>
      /\ pc[c] \in {"idle", "returned", "threw"}
  BY DEF Call, inputs, tokens
<1>3. /\ currentToken' \in Record /\ token' \in [Caller -> Token \cup {None}]
      /\ \A d \in Caller \ {c} : pc'[d] = pc[d] /\ token'[d] = token[d]
      /\ pc' \in [Caller -> Stage] /\ pc'[c] \in {"returned", "refreshing", "reading"}
      /\ \/ currentToken[ServiceOf[c]] # None
         \/ InMemory(ServiceOf[c]) # None \/ loadedTokens # None
         \/ UNCHANGED currentToken /\ pc'[c] = "reading"
  <2>1. CASE \E t \in Token \cup {None} :
               /\ CheckExpiration(c, t)
               /\ \/ currentToken[ServiceOf[c]] # None
                  \/ InMemory(ServiceOf[c]) # None \/ loadedTokens # None
    BY <1>1, <2>1, CheckedTypes
  <2>2. CASE pc' = [pc EXCEPT ![c] = "reading"] /\ UNCHANGED <<currentToken, token>>
    BY <1>1, <2>2 DEF TypeOK, Stage
  <2> QED BY <1>1, <2>1, <2>2, CallCases
<1>4. TypeOK'
  <2>1. usable' \in [Caller -> SUBSET Token]
    BY <1>1 DEF Call, TypeOK
  <2> QED BY <1>1, <1>2, <1>3, <2>1 DEF TypeOK
<1>5. CacheIsRead'
  <2>1. \A d \in Caller : ~Updating(d) => ~Updating(d)'
    BY <1>3 DEF Updating
  <2>2. ASSUME useMemoryCache, loadedTokens = None
        PROVE  UNCHANGED currentToken /\ pc'[c] = "reading"
    <3>1. currentToken = NoTokens /\ memoryTokens = NoTokens
      BY <1>1, <2>2 DEF CacheIsRead
    <3>2. currentToken[ServiceOf[c]] = None /\ InMemory(ServiceOf[c]) = None
      BY <1>1, <3>1, NoTokensType, FoundType DEF InMemory
    <3> QED BY <1>3, <2>2, <3>2
  <2> QED BY <1>1, <1>2, <1>3, <2>1, <2>2 DEF CacheIsRead
<1>6. \A d \in Caller :
        /\ pc'[d] = "writing" <=> pc[d] = "writing"
        /\ Updating(d)' <=> Updating(d)
        /\ Updating(d) => token'[d] = token[d]
        /\ pc'[d] \in {"read", "updateRead"} => pc[d] \in {"read", "updateRead"}
  BY <1>2, <1>3 DEF Updating
<1>7. NothingOverlapped'
  BY <1>1, <1>2, <1>6, FileIsLeftAlone
<1> QED BY <1>4, <1>5, <1>7 DEF TokensInvariant

LEMMA FileIsReadStep ==
  ASSUME TokensInvariant, NEW c \in Caller, FileIsRead(c)
  PROVE  TokensInvariant'
<1>1. TypeOK /\ CacheIsRead /\ NothingOverlapped
  BY DEF TokensInvariant
<1>2. /\ UNCHANGED <<useMemoryCache, isMerged, currentToken, memoryTokens, loadedTokens, life, made, latest, file, token, usable>>
      /\ overlapped' = (overlapped \/ Writing # {})
  BY DEF FileIsRead, inputs, caches, tokens
<1>3. PICK x \in Contents : buffer' = [buffer EXCEPT ![c] = x]
  BY DEF FileIsRead
<1>4. PICK stage : /\ pc' = [pc EXCEPT ![c] = stage]
                   /\ \/ pc[c] = "reading" /\ stage = "read"
                      \/ pc[c] = "updateReading" /\ stage = "updateRead"
  BY DEF FileIsRead
<1>5. x \in {file, None} /\ (Writing = {} => x = file)
  BY DEF Contents
<1>6. TypeOK'
  <2>1. buffer' \in [Caller -> Record \cup {None}] /\ pc' \in [Caller -> Stage] /\ overlapped' \in BOOLEAN
    BY <1>1, <1>2, <1>3, <1>4, <1>5 DEF TypeOK, Stage
  <2> QED BY <1>1, <1>2, <2>1 DEF TypeOK
<1>7. /\ pc'[c] = stage /\ buffer'[c] = x
      /\ \A d \in Caller \ {c} : pc'[d] = pc[d] /\ buffer'[d] = buffer[d]
  BY <1>1, <1>3, <1>4 DEF TypeOK
<1>8. \A d \in Caller : (Updating(d)' <=> Updating(d)) /\ (pc'[d] = "writing" <=> pc[d] = "writing")
                        /\ (pc'[d] = "refreshing" <=> pc[d] = "refreshing")
  BY <1>4, <1>7 DEF Updating
<1>9. CacheIsRead'
  BY <1>1, <1>2, <1>8 DEF CacheIsRead
<1>10. \A d \in Caller :
         /\ pc'[d] = "writing" => buffer'[d] = buffer[d]
         /\ ~overlapped' /\ pc'[d] \in {"read", "updateRead"} =>
              \/ pc[d] \in {"read", "updateRead"} /\ buffer'[d] = buffer[d]
              \/ Writing = {} /\ buffer'[d] = file
  BY <1>2, <1>4, <1>5, <1>7
<1>11. NothingOverlapped'
  BY <1>1, <1>2, <1>8, <1>10, FileIsLeftAlone
<1> QED BY <1>6, <1>9, <1>11 DEF TokensInvariant

\* What a file cache keeps of the file that has been read are the latest tokens.
LEMMA KeptTokens ==
  ASSUME TypeOK, CacheIsRead, NEW c \in Caller, pc[c] \in {"read", "updateRead"}, Keep(buffer[c])
  PROVE  /\ loadedTokens' \in Record \cup {None}
         /\ useMemoryCache => loadedTokens' # None
         /\ ~useMemoryCache => loadedTokens' = None
         /\ NothingOverlapped /\ ~overlapped /\ loadedTokens' # None => loadedTokens' = latest
<1>1. /\ loadedTokens \in Record \cup {None} /\ buffer[c] \in Record \cup {None}
      /\ NoTokens \in Record /\ latest \in Record /\ useMemoryCache \in BOOLEAN
  BY NoTokensType DEF TypeOK
<1>2. CASE ~useMemoryCache
  BY <1>1, <1>2 DEF Keep, CacheIsRead
<1>3. CASE useMemoryCache
  <2>1. loadedTokens' = Spread(loadedTokens, buffer[c])
    BY <1>3 DEF Keep
  <2>2. loadedTokens' \in Record /\ loadedTokens' # None
    BY <1>1, <2>1, SpreadValue, NoneIsNoToken
  <2>3. ASSUME NothingOverlapped, ~overlapped
        PROVE  loadedTokens' = latest
    <3>1. Writing = {} /\ buffer[c] = file
      BY <2>3 DEF NothingOverlapped
    <3>2. Spread(NoTokens, buffer[c]) = latest
      BY <1>3, <2>3, <3>1, Held, NobodyIsUpdating DEF CacheIsRead
    <3>3. CASE loadedTokens = None
      BY <1>1, <2>1, <3>2, <3>3, SpreadValue
    <3>4. CASE loadedTokens # None
      <4>1. loadedTokens = latest
        BY <2>3, <3>4 DEF NothingOverlapped
      <4> QED BY <1>1, <2>1, <3>2, <4>1, SpreadAgain
    <3> QED BY <3>3, <3>4
  <2> QED BY <1>3, <2>2, <2>3
<1> QED BY <1>1, <1>2, <1>3

LEMMA LoadResolvesStep ==
  ASSUME TokensInvariant, NEW c \in Caller, LoadResolves(c)
  PROVE  TokensInvariant'
<1>1. TypeOK /\ CacheIsRead /\ NothingOverlapped /\ ServiceOf[c] \in Service
  BY CallersAssumption DEF TokensInvariant
<1>2. /\ UNCHANGED <<useMemoryCache, isMerged, memoryTokens, life, made, latest, file, overlapped, usable>>
      /\ pc[c] = "read" /\ Keep(buffer[c]) /\ buffer' = [buffer EXCEPT ![c] = None]
  BY DEF LoadResolves, inputs, tokens
<1>3. PICK t \in Token \cup {None} : CheckExpiration(c, t)
  <2>1. currentToken[ServiceOf[c]] \in Token \cup {None}
    BY <1>1 DEF TypeOK, Record
  <2>2. Found(ServiceOf[c], buffer[c]) \in Token \cup {None}
    BY <1>1, FoundType DEF TypeOK
  <2> QED BY <2>1, <2>2 DEF LoadResolves
<1>4. /\ currentToken' \in Record /\ token' \in [Caller -> Token \cup {None}]
      /\ \A d \in Caller \ {c} : pc'[d] = pc[d] /\ token'[d] = token[d]
      /\ pc' \in [Caller -> Stage] /\ pc'[c] \in {"returned", "refreshing"}
  BY <1>1, <1>3, CheckedTypes
<1>5. /\ loadedTokens' \in Record \cup {None}
      /\ useMemoryCache => loadedTokens' # None
      /\ ~useMemoryCache => loadedTokens' = None
      /\ ~overlapped /\ loadedTokens' # None => loadedTokens' = latest
  BY <1>1, <1>2, KeptTokens
<1>6. /\ buffer' \in [Caller -> Record \cup {None}]
      /\ \A d \in Caller \ {c} : buffer'[d] = buffer[d]
  BY <1>1, <1>2 DEF TypeOK
<1>7. TypeOK'
  BY <1>1, <1>2, <1>4, <1>5, <1>6 DEF TypeOK
<1>8. CacheIsRead'
  BY <1>1, <1>2, <1>4, <1>5 DEF CacheIsRead, Updating
<1>9. \A d \in Caller :
        /\ pc'[d] = "writing" <=> pc[d] = "writing"
        /\ pc'[d] = "writing" => buffer'[d] = buffer[d]
        /\ Updating(d)' <=> Updating(d)
        /\ Updating(d) => token'[d] = token[d]
        /\ pc'[d] \in {"read", "updateRead"} => pc[d] \in {"read", "updateRead"} /\ buffer'[d] = buffer[d]
  BY <1>2, <1>4, <1>6 DEF Updating
<1>10. NothingOverlapped'
  BY <1>1, <1>2, <1>5, <1>9, FileIsLeftAlone
<1> QED BY <1>7, <1>8, <1>10 DEF TokensInvariant

\* A new token is written at once, or its caller is going to write it.
LEMMA RefreshSucceedsStep ==
  ASSUME TokensInvariant, NEW c \in Caller, RefreshSucceeds(c)
  PROVE  TokensInvariant'
<1> DEFINE s == ServiceOf[c]
           t == made + 1
<1>1. TypeOK /\ CacheIsRead /\ NothingOverlapped /\ s \in Service
  BY CallersAssumption DEF TokensInvariant
<1>2. /\ pc[c] = "refreshing" /\ made < MaxTokens /\ made' = t
      /\ life' = [life EXCEPT ![t] = Life] /\ latest' = [latest EXCEPT ![s] = t]
      /\ currentToken' = [currentToken EXCEPT ![s] = t]
      /\ memoryTokens' = IF isMerged THEN [memoryTokens EXCEPT ![s] = t] ELSE memoryTokens
      /\ token' = [token EXCEPT ![c] = t]
      /\ usable' = [d \in Caller |-> IF IsWaiting(d) THEN usable[d] \cup {t} ELSE usable[d]]
      /\ UNCHANGED <<useMemoryCache, isMerged, file>>
  BY DEF RefreshSucceeds, inputs
<1>3. t \in Token /\ t \in 0..MaxTokens
  BY <1>1, <1>2, BoundsAssumption DEF TypeOK, Token
<1> HIDE DEF t
<1>4. /\ currentToken' \in Record /\ memoryTokens' \in Record /\ latest' \in Record
      /\ life' \in [Token -> -1..Life] /\ made' \in 0..MaxTokens
      /\ token' \in [Caller -> Token \cup {None}] /\ usable' \in [Caller -> SUBSET Token]
  <2>1. \A x \in Record : [x EXCEPT ![s] = t] \in Record
    BY <1>1, <1>3 DEF Record
  <2>2. Life \in -1..Life
    BY LifeAssumption
  <2>3. currentToken' \in Record /\ memoryTokens' \in Record /\ latest' \in Record
    BY <1>1, <1>2, <2>1 DEF TypeOK
  <2>4. token' \in [Caller -> Token \cup {None}] /\ life' \in [Token -> -1..Life]
    BY <1>1, <1>2, <1>3, <2>2 DEF TypeOK
  <2>5. usable' \in [Caller -> SUBSET Token]
    BY <1>1, <1>2, <1>3 DEF TypeOK
  <2> QED BY <1>2, <1>3, <2>3, <2>4, <2>5
<1>5. latest'[s] = t /\ \A q \in Service \ {s} : latest'[q] = latest[q]
  BY <1>1, <1>2 DEF TypeOK, Record
<1>6. CASE /\ loadedTokens # None
           /\ loadedTokens' = Updated(c, loadedTokens, t)
           /\ StartWrite(c, loadedTokens')
  <2>1. /\ loadedTokens' \in Record /\ loadedTokens' # None /\ loadedTokens'[s] = t
        /\ \A q \in Service \ {s} : loadedTokens'[q] = loadedTokens[q]
    <3>1. loadedTokens \in Record
      BY <1>1, <1>6 DEF TypeOK
    <3>2. Spread(NoTokens, loadedTokens) = loadedTokens
      BY <3>1, SpreadRecord
    <3> QED BY <1>3, <1>6, <3>1, <3>2, UpdatedValue
  <2>2. /\ buffer' \in [Caller -> Record \cup {None}] /\ pc' \in [Caller -> Stage] /\ overlapped' \in BOOLEAN
        /\ pc'[c] = "writing" /\ \A d \in Caller \ {c} : pc'[d] = pc[d]
    BY <1>1, <1>6, <2>1 DEF StartWrite, TypeOK, Stage
  <2>3. ~overlapped' => ~overlapped
    BY <1>6 DEF StartWrite
  <2>4. TypeOK'
    BY <1>1, <1>2, <1>4, <2>1, <2>2 DEF TypeOK
  <2>5. CacheIsRead'
    <3>1. useMemoryCache /\ \A d \in Caller : ~Updating(d)'
      BY <1>1, <1>6, <2>2 DEF CacheIsRead, Updating
    <3> QED BY <1>2, <2>1, <3>1 DEF CacheIsRead
  <2>6. ~overlapped' => loadedTokens' = latest'
    <3>1. SUFFICES ASSUME ~overlapped' PROVE loadedTokens' = latest'
      OBVIOUS
    <3>2. loadedTokens = latest
      BY <1>1, <1>6, <2>3, <3>1 DEF NothingOverlapped
    <3>3. \A q \in Service : loadedTokens'[q] = latest'[q]
      BY <1>5, <2>1, <3>2
    <3> QED BY <1>4, <2>1, <3>3, RecordsAreEqual
  <2>7. NothingOverlapped'
    <3>1. PICK content \in Record : content = loadedTokens'
      BY <2>1
    <3>2. StartWrite(c, content)
      BY <1>6, <3>1
    <3> QED BY <1>1, <2>6, <3>1, <3>2, WriteStarts
  <2> QED BY <2>4, <2>5, <2>7 DEF TokensInvariant
<1>7. CASE /\ loadedTokens = None
           /\ pc' = [pc EXCEPT ![c] = "updateReading"]
           /\ UNCHANGED <<loadedTokens, buffer, overlapped>>
  <2>1. /\ pc' \in [Caller -> Stage] /\ pc'[c] = "updateReading" /\ token'[c] = t
        /\ \A d \in Caller \ {c} : pc'[d] = pc[d] /\ token'[d] = token[d]
    BY <1>1, <1>2, <1>7 DEF TypeOK, Stage
  <2>2. TypeOK'
    BY <1>1, <1>2, <1>4, <1>7, <2>1 DEF TypeOK
  <2>3. CacheIsRead'
    <3>1. ~useMemoryCache
      BY <1>1, <1>2, <1>7 DEF CacheIsRead
    <3> QED BY <1>2, <1>7, <3>1 DEF CacheIsRead
  <2>4. NothingOverlapped'
    <3>1. SUFFICES ASSUME ~overlapped'
                   PROVE  NothingOverlapped'
      BY DEF NothingOverlapped
    <3>2. ~overlapped /\ Writing' = Writing /\ ToBeHeld' = ToBeHeld
      <4>1. ~overlapped /\ Writing' = Writing
        BY <1>2, <1>7, <2>1, <3>1 DEF Writing
      <4> QED BY <1>2, <1>7, <4>1 DEF ToBeHeld
    <3>3. \A d \in Caller \ {c} : Updating(d)' <=> Updating(d)
      BY <2>1 DEF Updating
    <3>4. Updating(c)' /\ ~Updating(c)
      BY <1>2, <2>1 DEF Updating
    <3>5. ASSUME NEW q \in Service
          PROVE  IF \E d \in Caller : Updating(d)' /\ ServiceOf[d] = q
                 THEN \E d \in Caller : Updating(d)' /\ ServiceOf[d] = q /\ token'[d] = latest'[q]
                 ELSE ToBeHeld'[q] = latest'[q]
      <4>1. CASE q = s
        BY <1>5, <2>1, <3>4, <4>1
      <4>2. CASE q # s
        <5>1. IF \E d \in Caller : Updating(d) /\ ServiceOf[d] = q
              THEN \E d \in Caller : Updating(d) /\ ServiceOf[d] = q /\ token[d] = latest[q]
              ELSE ToBeHeld[q] = latest[q]
          BY <1>1, <3>2 DEF NothingOverlapped
        <5>2. latest'[q] = latest[q]
          BY <1>5, <4>2
        <5>3. \A d \in Caller : ServiceOf[d] = q =>
                (Updating(d)' <=> Updating(d)) /\ (Updating(d) => token'[d] = token[d])
          BY <2>1, <3>3, <4>2
        <5> QED BY <3>2, <5>1, <5>2, <5>3
      <4> QED BY <4>1, <4>2
    <3>6. \A d \in Caller : pc'[d] \in {"read", "updateRead"} => Writing' = {} /\ buffer'[d] = file'
      <4>1. \A d \in Caller : pc'[d] \in {"read", "updateRead"} => pc[d] \in {"read", "updateRead"}
        BY <2>1
      <4> QED BY <1>1, <1>2, <1>7, <3>2, <4>1 DEF NothingOverlapped
    <3>7. \A d, e \in Writing' : d = e
      BY <1>1, <3>2 DEF NothingOverlapped
    <3> QED BY <1>7, <3>5, <3>6, <3>7 DEF NothingOverlapped
  <2> QED BY <2>2, <2>3, <2>4 DEF TokensInvariant
<1> QED BY <1>6, <1>7 DEF RefreshSucceeds, t

LEMMA RefreshFailsStep ==
  ASSUME TokensInvariant, NEW c \in Caller, RefreshFails(c)
  PROVE  TokensInvariant'
<1>1. TypeOK /\ CacheIsRead /\ NothingOverlapped
  BY DEF TokensInvariant
<1>2. /\ UNCHANGED <<useMemoryCache, isMerged, currentToken, memoryTokens, loadedTokens, life, made, latest, file>>
      /\ UNCHANGED <<buffer, token, overlapped, usable>>
      /\ pc[c] = "refreshing" /\ pc' = [pc EXCEPT ![c] = "threw"]
  BY DEF RefreshFails, inputs, caches, tokens
<1>3. /\ pc' \in [Caller -> Stage] /\ pc'[c] = "threw"
      /\ \A d \in Caller \ {c} : pc'[d] = pc[d]
  BY <1>1, <1>2 DEF TypeOK, Stage
<1>4. TypeOK'
  BY <1>1, <1>2, <1>3 DEF TypeOK
<1>5. CacheIsRead'
  BY <1>1, <1>2, <1>3 DEF CacheIsRead, Updating
<1>6. \A d \in Caller :
        /\ pc'[d] = "writing" <=> pc[d] = "writing"
        /\ Updating(d)' <=> Updating(d)
        /\ pc'[d] \in {"read", "updateRead"} => pc[d] \in {"read", "updateRead"}
  BY <1>2, <1>3 DEF Updating
<1>7. NothingOverlapped'
  BY <1>1, <1>2, <1>6, FileIsLeftAlone
<1> QED BY <1>4, <1>5, <1>7 DEF TokensInvariant

\* The token is put into what has been read, which nobody has changed since if the caller
\* is alone: then the token is the latest of its service.
LEMMA UpdateGoesOnStep ==
  ASSUME TokensInvariant, NEW c \in Caller, UpdateGoesOn(c)
  PROVE  TokensInvariant'
<1> DEFINE content == Updated(c, buffer[c], token[c])
           s == ServiceOf[c]
<1>1. TypeOK /\ CacheIsRead /\ NothingOverlapped /\ s \in Service
  BY CallersAssumption DEF TokensInvariant
<1>2. /\ UNCHANGED <<useMemoryCache, isMerged, currentToken, memoryTokens, life, made, latest, file, token, usable>>
      /\ pc[c] = "updateRead" /\ Keep(buffer[c]) /\ StartWrite(c, content)
  BY DEF UpdateGoesOn, inputs, tokens
<1>3. Updating(c) /\ ~useMemoryCache /\ loadedTokens' = None
  <2>1. Updating(c) /\ ~useMemoryCache
    BY <1>1, <1>2 DEF Updating, CacheIsRead
  <2> QED BY <1>1, <1>2, <2>1, KeptTokens
<1>4. /\ content \in Record /\ content[s] = token[c]
      /\ \A q \in Service \ {s} : content[q] = Spread(NoTokens, buffer[c])[q]
  <2>1. buffer[c] \in Record \cup {None} /\ token[c] \in Token \cup {None}
    BY <1>1 DEF TypeOK
  <2> QED BY <2>1, UpdatedValue
<1> HIDE DEF content
<1>5. /\ buffer' \in [Caller -> Record \cup {None}] /\ pc' \in [Caller -> Stage] /\ overlapped' \in BOOLEAN
      /\ pc'[c] = "writing" /\ \A d \in Caller \ {c} : pc'[d] = pc[d]
  BY <1>1, <1>2, <1>4 DEF StartWrite, TypeOK, Stage
<1>6. TypeOK'
  BY <1>1, <1>2, <1>3, <1>5 DEF TypeOK
<1>7. CacheIsRead'
  BY <1>2, <1>3 DEF CacheIsRead
<1>8. ~overlapped' => content = latest'
  <2>1. SUFFICES ASSUME ~overlapped' PROVE content = latest'
    OBVIOUS
  <2>2. ~overlapped /\ \A d \in Caller \ {c} : ~Updating(d)
    BY <1>2, <2>1 DEF StartWrite, UsesFile, Updating
  <2>3. Writing = {} /\ buffer[c] = file /\ ToBeHeld = Spread(NoTokens, buffer[c])
    BY <1>1, <1>2, <2>2, Held DEF NothingOverlapped
  <2>4. token[c] = latest[s]
    BY <1>1, <1>3, <2>2 DEF NothingOverlapped
  <2>5. \A q \in Service \ {s} : ToBeHeld[q] = latest[q]
    BY <1>1, <2>2 DEF NothingOverlapped
  <2>6. \A q \in Service : content[q] = latest[q]
    BY <1>4, <2>3, <2>4, <2>5
  <2> QED BY <1>1, <1>2, <1>4, <2>6, RecordsAreEqual DEF TypeOK
<1>9. NothingOverlapped'
  BY <1>1, <1>2, <1>3, <1>4, <1>8, WriteStarts
<1> QED BY <1>6, <1>7, <1>9 DEF TokensInvariant

LEMMA WriteEndsStep ==
  ASSUME TokensInvariant, NEW c \in Caller, WriteEnds(c)
  PROVE  TokensInvariant'
<1>1. TypeOK /\ CacheIsRead /\ NothingOverlapped /\ ServiceOf[c] \in Service
  BY CallersAssumption DEF TokensInvariant
<1>2. /\ UNCHANGED <<useMemoryCache, isMerged, currentToken, memoryTokens, loadedTokens, life, made, latest, usable>>
      /\ pc[c] = "writing" /\ pc' = [pc EXCEPT ![c] = "returned"]
      /\ buffer' = [buffer EXCEPT ![c] = None]
      /\ token' = [token EXCEPT ![c] = currentToken[ServiceOf[c]]]
  BY DEF WriteEnds, inputs, caches, tokens
<1>3. /\ file' \in {buffer[c], file, None} /\ overlapped' \in BOOLEAN
      /\ ~overlapped' => ~overlapped /\ (Writing = {c} => file' = buffer[c])
  <2>1. Cardinality({c}) = 1
    BY FS_Singleton
  <2>2. Writing = {c} => ~(Cardinality(Writing) > 1)
    BY <2>1
  <2>3. CASE /\ file' \in IF Cardinality(Writing) > 1 THEN {buffer[c], None} ELSE {buffer[c]}
             /\ UNCHANGED overlapped
    BY <1>1, <2>2, <2>3 DEF TypeOK
  <2>4. CASE file' \in {file, None} /\ overlapped' = TRUE
    BY <2>4
  <2> QED BY <2>3, <2>4 DEF WriteEnds
<1>4. /\ pc' \in [Caller -> Stage] /\ pc'[c] = "returned"
      /\ \A d \in Caller \ {c} : pc'[d] = pc[d] /\ token'[d] = token[d]
      /\ buffer' \in [Caller -> Record \cup {None}] /\ token' \in [Caller -> Token \cup {None}]
      /\ file' \in Record \cup {None}
  <2>1. currentToken[ServiceOf[c]] \in Token \cup {None}
    BY <1>1 DEF TypeOK, Record
  <2> QED BY <1>1, <1>2, <1>3, <2>1 DEF TypeOK, Stage
<1>5. TypeOK'
  BY <1>1, <1>2, <1>3, <1>4 DEF TypeOK
<1>6. CacheIsRead'
  BY <1>1, <1>2, <1>4 DEF CacheIsRead, Updating
<1>7. NothingOverlapped'
  <2>1. SUFFICES ASSUME ~overlapped'
                 PROVE  NothingOverlapped'
    BY DEF NothingOverlapped
  <2>2. ~overlapped /\ Writing = {c}
    BY <1>1, <1>2, <1>3, <2>1 DEF NothingOverlapped, Writing
  <2>3. Writing' = {} /\ file' = buffer[c]
    BY <1>3, <1>4, <2>1, <2>2 DEF Writing
  <2>4. ToBeHeld = Spread(NoTokens, buffer[c])
    BY <2>2, Held
  <2>5. ToBeHeld' = Spread(NoTokens, file')
    BY <2>3 DEF ToBeHeld
  <2>6. \A d \in Caller : pc[d] \notin {"read", "updateRead"}
    BY <1>1, <2>2 DEF NothingOverlapped
  <2>7. \A d \in Caller : pc'[d] \notin {"read", "updateRead"}
    BY <1>4, <2>6
  <2>8. \A d \in Caller : (Updating(d)' <=> Updating(d)) /\ (Updating(d) => token'[d] = token[d])
    BY <1>2, <1>4 DEF Updating
  <2>9. ASSUME NEW q \in Service
        PROVE  IF \E d \in Caller : Updating(d)' /\ ServiceOf[d] = q
               THEN \E d \in Caller : Updating(d)' /\ ServiceOf[d] = q /\ token'[d] = latest'[q]
               ELSE ToBeHeld'[q] = latest'[q]
    BY <1>1, <1>2, <2>2, <2>3, <2>4, <2>5, <2>8 DEF NothingOverlapped
  <2> QED BY <1>1, <1>2, <2>2, <2>3, <2>7, <2>9 DEF NothingOverlapped
<1> QED BY <1>5, <1>6, <1>7 DEF TokensInvariant

\* A process that is not interrupted leaves all tokens in the file, and one that is, those
\* its successor starts with.
LEMMA CrashStep ==
  ASSUME TokensInvariant, Crash
  PROVE  TokensInvariant'
<1>1. TypeOK /\ CacheIsRead /\ NothingOverlapped
  BY DEF TokensInvariant
<1>2. /\ UNCHANGED <<useMemoryCache, isMerged, life, made>>
      /\ file' \in Contents
      /\ latest' = IF IsInterrupted THEN Spread(NoTokens, file') ELSE latest
      /\ overlapped' = FALSE
      /\ currentToken' = NoTokens /\ memoryTokens' = NoTokens /\ loadedTokens' = None
      /\ pc' = [c \in Caller |-> "idle"] /\ buffer' = [c \in Caller |-> None] /\ token' = [c \in Caller |-> None]
      /\ usable' = [c \in Caller |-> {}]
  BY DEF Crash, inputs
<1>3. \A c \in Caller : pc'[c] = "idle"
  BY <1>2
<1>4. file' \in Record \cup {None} /\ latest' \in Record /\ Spread(NoTokens, file') = latest'
  <2>1. file' \in Record \cup {None}
    BY <1>1, <1>2 DEF Contents, TypeOK
  <2>2. Spread(NoTokens, file') \in Record
    BY <2>1, NoTokensType, SpreadValue
  <2>3. CASE IsInterrupted
    BY <1>2, <2>1, <2>2, <2>3
  <2>4. CASE ~IsInterrupted
    <3>1. ~overlapped /\ Writing = {} /\ \A c \in Caller : ~Updating(c)
      BY <2>4 DEF IsInterrupted, IsSaving, Writing, Updating
    <3>2. file' = file
      BY <1>2, <3>1 DEF Contents
    <3>3. ToBeHeld = latest /\ ToBeHeld = Spread(NoTokens, file)
      BY <1>1, <3>1, NobodyIsUpdating, Held
    <3>4. latest' = latest
      BY <1>2, <2>4
    <3> QED BY <2>1, <2>2, <3>2, <3>3, <3>4
  <2> QED BY <2>3, <2>4
<1>5. TypeOK'
  <2>1. pc' \in [Caller -> Stage]
    BY <1>2 DEF Stage
  <2> QED BY <1>1, <1>2, <1>4, <2>1, NoTokensType DEF TypeOK
<1>6. CacheIsRead'
  BY <1>2, <1>3 DEF CacheIsRead, Updating
<1>7. NothingOverlapped'
  <2>1. Writing' = {}
    BY <1>3 DEF Writing
  <2>2. ToBeHeld' = latest'
    BY <1>4, <2>1 DEF ToBeHeld
  <2>3. \A c \in Caller : ~Updating(c)' /\ pc'[c] \notin {"read", "updateRead"}
    BY <1>3 DEF Updating
  <2> QED BY <1>2, <2>1, <2>2, <2>3 DEF NothingOverlapped
<1> QED BY <1>5, <1>6, <1>7 DEF TokensInvariant

LEMMA TickStep ==
  ASSUME TokensInvariant, Tick
  PROVE  TokensInvariant'
<1>1. TypeOK /\ CacheIsRead /\ NothingOverlapped
  BY DEF TokensInvariant
<1>2. /\ UNCHANGED <<useMemoryCache, isMerged, currentToken, memoryTokens, loadedTokens, made, latest, file>>
      /\ UNCHANGED <<pc, buffer, token, overlapped, usable>>
      /\ life' = [t \in Token |-> IF life[t] < 0 THEN life[t] ELSE life[t] - 1]
  BY DEF Tick, inputs, caches
<1>3. life' \in [Token -> -1..Life]
  BY <1>1, <1>2, LifeAssumption DEF TypeOK
<1>4. TypeOK'
  BY <1>1, <1>2, <1>3 DEF TypeOK
<1>5. CacheIsRead'
  BY <1>1, <1>2 DEF CacheIsRead, Updating
<1>6. NothingOverlapped'
  BY <1>1, <1>2, FileIsLeftAlone DEF Updating
<1> QED BY <1>4, <1>5, <1>6 DEF TokensInvariant

LEMMA InitialInvariant == Init => TokensInvariant
<1> SUFFICES ASSUME Init PROVE TokensInvariant
  OBVIOUS
<1>1. file \in Record \cup {None} /\ made \in 0..MaxTokens /\ life \in [Token -> -1..Life]
  <2>1. CASE made = 0 /\ file = None /\ life = [t \in Token |-> -1]
    BY <2>1, LifeAssumption, BoundsAssumption
  <2>2. CASE /\ made = 1
             /\ file \in {[NoTokens EXCEPT ![s] = 1] : s \in Service}
             /\ \E n \in -1..Life : life = [t \in Token |-> IF t = 1 THEN n ELSE -1]
    <3>1. file \in Record
      BY <2>2, NoneIsNoToken DEF NoTokens, Record
    <3>2. PICK n \in -1..Life : life = [t \in Token |-> IF t = 1 THEN n ELSE -1]
      BY <2>2
    <3>3. made \in 0..MaxTokens
      BY <2>2, BoundsAssumption
    <3>4. -1 \in -1..Life
      BY LifeAssumption
    <3>5. life \in [Token -> -1..Life]
      BY <3>2, <3>4
    <3> QED BY <3>1, <3>3, <3>5
  <2> QED BY <2>1, <2>2 DEF Init
<1>2. latest \in Record /\ Spread(NoTokens, file) = latest
  BY <1>1, NoTokensType, SpreadValue, SpreadRecord DEF Init
<1>3. TypeOK
  <2>1. pc \in [Caller -> Stage]
    BY DEF Init, Stage
  <2> QED BY <1>1, <1>2, <2>1, NoTokensType DEF Init, TypeOK
<1>4. \A c \in Caller : pc[c] = "idle"
  BY DEF Init
<1>5. CacheIsRead
  BY <1>4 DEF Init, CacheIsRead, Updating
<1>6. NothingOverlapped
  <2>1. Writing = {} /\ \A c \in Caller : ~Updating(c)
    BY <1>4 DEF Writing, Updating
  <2>2. ToBeHeld = latest
    BY <1>2, <2>1, Held
  <2> QED BY <1>4, <2>1, <2>2 DEF Init, NothingOverlapped
<1> QED BY <1>3, <1>5, <1>6 DEF TokensInvariant

LEMMA NextKeepsInvariant == TokensInvariant /\ [Next]_vars => TokensInvariant'
<1> SUFFICES ASSUME TokensInvariant, [Next]_vars PROVE TokensInvariant'
  OBVIOUS
<1>1. ASSUME NEW c \in Caller, Call(c)
      PROVE  TokensInvariant'
  BY <1>1, CallStep
<1>2. ASSUME NEW c \in Caller, FileAnswers(c)
      PROVE  TokensInvariant'
  BY <1>2, FileIsReadStep, LoadResolvesStep, UpdateGoesOnStep, WriteEndsStep DEF FileAnswers
<1>3. ASSUME NEW c \in Caller, RefreshAnswers(c)
      PROVE  TokensInvariant'
  BY <1>3, RefreshSucceedsStep, RefreshFailsStep DEF RefreshAnswers
<1>4. CASE UNCHANGED vars
  <2>1. TypeOK /\ CacheIsRead /\ NothingOverlapped
    BY DEF TokensInvariant
  <2>2. /\ UNCHANGED <<useMemoryCache, isMerged, currentToken, memoryTokens, loadedTokens, life, made, latest>>
        /\ UNCHANGED <<file, pc, buffer, token, overlapped, usable>>
    BY <1>4 DEF vars, inputs, caches, tokens
  <2>3. TypeOK'
    BY <2>1, <2>2 DEF TypeOK
  <2>4. CacheIsRead'
    BY <2>1, <2>2 DEF CacheIsRead, Updating
  <2>5. NothingOverlapped'
    BY <2>1, <2>2, FileIsLeftAlone DEF Updating
  <2> QED BY <2>3, <2>4, <2>5 DEF TokensInvariant
<1> QED BY <1>1, <1>2, <1>3, <1>4, CrashStep, TickStep DEF Next

-----------------------------------------------------------------------------
(* Theorems *)

\* TokensInvariant is inductive: what the caches and the callers know of the file, and who
\* has the tokens that it does not hold yet.
THEOREM TokensInvariantHolds == Spec => []TokensInvariant
BY InitialInvariant, NextKeepsInvariant, PTL DEF Spec

\* The file holds the latest token of every service whenever nobody is about to write it,
\* whichever caches are used and however often the process has crashed, unless two callers of
\* the process were at the file at once, or a write failed.
THEOREM NoTokenGetsLost == Spec => []LatestTokensAreKept
<1>1. TokensInvariant => LatestTokensAreKept
  <2>1. SUFFICES ASSUME TokensInvariant, ~overlapped, Writing = {}, \A c \in Caller : ~Updating(c)
                 PROVE  Spread(NoTokens, file) = latest
    BY DEF LatestTokensAreKept, Updating
  <2> QED BY <2>1, NobodyIsUpdating, Held DEF TokensInvariant
<1> QED BY <1>1, TokensInvariantHolds, PTL

-----------------------------------------------------------------------------
(* What a caller is returned *)

\* A step that leaves the current tokens alone and what the callers have, and after which no
\* caller waits, saves or has returned that did not before, and none that retrieves has got it.
LEMMA HandsAreLeftAlone ==
  ASSUME TokensAreAtHand, UNCHANGED <<currentToken, token, usable>>,
         \A t \in Token : life'[t] > Buffer => life[t] > Buffer,
         \A c \in Caller :
           /\ IsWaiting(c)' => IsWaiting(c)
           /\ IsSaving(c)' => IsSaving(c)
           /\ Retrieves(c) => Retrieves(c)'
           /\ pc'[c] = "returned" => pc[c] = "returned"
  PROVE  TokensAreAtHand'
<1>1. SUFFICES ASSUME NEW c \in Caller
               PROVE  /\ IsWaiting(c)' => \A t \in Token : life'[t] > Buffer => t \in usable'[c]
                      /\ IsSaving(c)' =>
                           \/ currentToken'[ServiceOf[c]] \in usable'[c]
                           \/ /\ currentToken'[ServiceOf[c]] = None
                              /\ \E d \in Caller \ {c} : ServiceOf[d] = ServiceOf[c] /\ Retrieves(d)'
                      /\ pc'[c] = "returned" => token'[c] \in usable'[c] \cup {None}
  BY DEF TokensAreAtHand
<1>2. IsWaiting(c)' => \A t \in Token : life'[t] > Buffer => t \in usable'[c]
  BY DEF TokensAreAtHand
<1>3. IsSaving(c)' =>
        \/ currentToken'[ServiceOf[c]] \in usable'[c]
        \/ /\ currentToken'[ServiceOf[c]] = None
           /\ \E d \in Caller \ {c} : ServiceOf[d] = ServiceOf[c] /\ Retrieves(d)'
  BY DEF TokensAreAtHand
<1>4. pc'[c] = "returned" => token'[c] \in usable'[c] \cup {None}
  BY DEF TokensAreAtHand
<1> QED BY <1>2, <1>3, <1>4

\* What a caller finds is usable for all that wait, and if it is not returned at once, the
\* caller retrieves the next.
LEMMA CheckedHands ==
  ASSUME TypeOK, TokensAreAtHand, NEW c \in Caller, NEW t \in Token \cup {None},
         CheckExpiration(c, t), ~IsSaving(c), UNCHANGED life,
         \A d \in Caller \ {c} : usable'[d] = usable[d],
         \A u \in Token : life[u] > Buffer => u \in usable'[c]
  PROVE  TokensAreAtHand'
<1> DEFINE s == ServiceOf[c]
           IsKept == t # None /\ ~IsExpired(t)
<1>1. /\ s \in Service /\ currentToken' = [currentToken EXCEPT ![s] = IF IsKept THEN t ELSE None]
      /\ IsKept => token'[c] = t /\ pc'[c] = "returned"
      /\ ~IsKept => pc'[c] = "refreshing"
      /\ \A d \in Caller \ {c} : pc'[d] = pc[d] /\ token'[d] = token[d]
  BY CallersAssumption DEF CheckExpiration, TypeOK
<1>2. IsKept => t \in Token /\ life[t] > Buffer
  <2>1. IsKept => t \in Token /\ ~(Buffer >= life[t])
    BY DEF IsExpired
  <2>2. t \in Token => life[t] \in Int /\ Buffer \in Int
    BY LifeAssumption DEF TypeOK
  <2> QED BY <2>1, <2>2
<1> HIDE DEF IsKept
<1>3. \A q \in Service : currentToken'[q] = IF q = s THEN (IF IsKept THEN t ELSE None) ELSE currentToken[q]
  BY <1>1 DEF TypeOK, Record
<1>4. ~IsSaving(c)'
  BY <1>1 DEF IsSaving
<1>5. \A d \in Caller \ {c} : /\ IsWaiting(d)' <=> IsWaiting(d)
                              /\ IsSaving(d)' <=> IsSaving(d)
                              /\ Retrieves(d)' <=> Retrieves(d)
                              /\ IsSaving(d) => IsWaiting(d)
  BY <1>1 DEF IsWaiting, IsSaving, Retrieves
<1>6. ASSUME NEW d \in Caller
      PROVE  IsWaiting(d)' => \A u \in Token : life'[u] > Buffer => u \in usable'[d]
  <2>1. CASE d = c
    BY <2>1
  <2>2. CASE d # c
    BY <1>5, <2>2 DEF TokensAreAtHand
  <2> QED BY <2>1, <2>2
<1>7. ASSUME NEW d \in Caller, IsSaving(d)'
      PROVE  \/ currentToken'[ServiceOf[d]] \in usable'[d]
             \/ /\ currentToken'[ServiceOf[d]] = None
                /\ \E e \in Caller \ {d} : ServiceOf[e] = ServiceOf[d] /\ Retrieves(e)'
  <2>1. d # c /\ IsSaving(d) /\ IsWaiting(d) /\ usable'[d] = usable[d] /\ ServiceOf[d] \in Service
    BY <1>4, <1>5, <1>7, CallersAssumption
  <2>2. CASE ServiceOf[d] = s /\ IsKept
    <3>1. currentToken'[ServiceOf[d]] = t
      BY <1>1, <1>3, <2>2
    <3>2. t \in usable[d]
      BY <1>2, <2>1, <2>2 DEF TokensAreAtHand
    <3> QED BY <2>1, <3>1, <3>2
  <2>3. CASE ServiceOf[d] = s /\ ~IsKept
    <3>1. currentToken'[ServiceOf[d]] = None
      BY <1>1, <1>3, <2>3
    <3>2. Retrieves(c)'
      BY <1>1, <2>3 DEF Retrieves
    <3> QED BY <2>1, <2>3, <3>1, <3>2
  <2>4. CASE ServiceOf[d] # s
    <3>1. currentToken'[ServiceOf[d]] = currentToken[ServiceOf[d]]
      BY <1>3, <2>1, <2>4
    <3>2. CASE currentToken[ServiceOf[d]] \in usable[d]
      BY <2>1, <3>1, <3>2
    <3>3. CASE /\ currentToken[ServiceOf[d]] = None
               /\ \E e \in Caller \ {d} : ServiceOf[e] = ServiceOf[d] /\ Retrieves(e)
      <4>1. PICK e \in Caller \ {d} : ServiceOf[e] = ServiceOf[d] /\ Retrieves(e)
        BY <3>3
      <4>2. e # c /\ Retrieves(e)'
        BY <1>5, <2>4, <4>1
      <4> QED BY <3>1, <3>3, <4>1, <4>2
    <3> QED BY <2>1, <3>2, <3>3 DEF TokensAreAtHand
  <2> QED BY <2>2, <2>3, <2>4
<1>8. ASSUME NEW d \in Caller, pc'[d] = "returned"
      PROVE  token'[d] \in usable'[d] \cup {None}
  <2>1. CASE d = c
    <3>1. IsKept
      BY <1>1, <1>8, <2>1
    <3> QED BY <1>1, <1>2, <2>1, <3>1
  <2>2. CASE d # c
    BY <1>1, <1>8, <2>2 DEF TokensAreAtHand
  <2> QED BY <2>1, <2>2
<1> QED BY <1>6, <1>7, <1>8 DEF TokensAreAtHand

LEMMA CallHands ==
  ASSUME TypeOK, TokensAreAtHand, NEW c \in Caller, Call(c)
  PROVE  TokensAreAtHand'
<1>1. /\ UNCHANGED life /\ pc[c] \in {"idle", "returned", "threw"}
      /\ usable' = [usable EXCEPT ![c] = {t \in Token : life[t] > Buffer}]
  BY DEF Call, tokens
<1>2. /\ usable'[c] = {t \in Token : life[t] > Buffer}
      /\ \A d \in Caller \ {c} : usable'[d] = usable[d]
      /\ ~IsSaving(c)
  BY <1>1 DEF TypeOK, IsSaving
<1>3. CASE \E t \in Token \cup {None} : CheckExpiration(c, t)
  BY <1>1, <1>2, <1>3, CheckedHands
<1>4. CASE pc' = [pc EXCEPT ![c] = "reading"] /\ UNCHANGED <<currentToken, token>>
  <2>1. pc'[c] = "reading" /\ \A d \in Caller \ {c} : pc'[d] = pc[d]
    BY <1>4 DEF TypeOK
  <2>2. ~IsSaving(c)' /\ Retrieves(c)' /\ \A d \in Caller \ {c} :
                                           /\ IsWaiting(d)' <=> IsWaiting(d)
                                           /\ IsSaving(d)' <=> IsSaving(d)
                                           /\ Retrieves(d)' <=> Retrieves(d)
    BY <2>1 DEF IsWaiting, IsSaving, Retrieves
  <2>3. ASSUME NEW d \in Caller
        PROVE  /\ IsWaiting(d)' => \A t \in Token : life'[t] > Buffer => t \in usable'[d]
               /\ pc'[d] = "returned" => token'[d] \in usable'[d] \cup {None}
    <3>1. CASE d = c
      BY <1>1, <1>2, <2>1, <3>1
    <3>2. CASE d # c
      BY <1>1, <1>2, <1>4, <2>1, <2>2, <3>2 DEF TokensAreAtHand
    <3> QED BY <3>1, <3>2
  <2>4. ASSUME NEW d \in Caller, IsSaving(d)'
        PROVE  \/ currentToken'[ServiceOf[d]] \in usable'[d]
               \/ /\ currentToken'[ServiceOf[d]] = None
                  /\ \E e \in Caller \ {d} : ServiceOf[e] = ServiceOf[d] /\ Retrieves(e)'
    <3>1. d # c /\ IsSaving(d) /\ usable'[d] = usable[d]
      BY <1>2, <2>2, <2>4
    <3>2. \A e \in Caller : Retrieves(e) => Retrieves(e)'
      BY <2>2
    <3> QED BY <1>4, <3>1, <3>2 DEF TokensAreAtHand
  <2> QED BY <2>3, <2>4 DEF TokensAreAtHand
<1> QED BY <1>3, <1>4, CallCases

LEMMA LoadResolvesHands ==
  ASSUME TypeOK, TokensAreAtHand, NEW c \in Caller, LoadResolves(c)
  PROVE  TokensAreAtHand'
<1>1. pc[c] = "read" /\ UNCHANGED <<life, usable>>
  BY DEF LoadResolves, tokens
<1>2. PICK t \in Token \cup {None} : CheckExpiration(c, t)
  <2>1. ServiceOf[c] \in Service
    BY CallersAssumption
  <2>2. currentToken[ServiceOf[c]] \in Token \cup {None} /\ Found(ServiceOf[c], buffer[c]) \in Token \cup {None}
    BY <2>1, FoundType DEF TypeOK, Record
  <2> QED BY <2>2 DEF LoadResolves
<1>3. IsWaiting(c) /\ ~IsSaving(c)
  BY <1>1 DEF IsWaiting, IsSaving
<1>4. \A u \in Token : life[u] > Buffer => u \in usable'[c]
  BY <1>1, <1>3 DEF TokensAreAtHand
<1> QED BY <1>1, <1>2, <1>3, <1>4, CheckedHands

\* The new token is usable for all that wait, the caller itself included.
LEMMA RefreshSucceedsHands ==
  ASSUME TypeOK, TokensAreAtHand, NEW c \in Caller, RefreshSucceeds(c)
  PROVE  TokensAreAtHand'
<1> DEFINE s == ServiceOf[c]
           t == made + 1
<1>1. /\ pc[c] = "refreshing" /\ made < MaxTokens
      /\ life' = [life EXCEPT ![t] = Life] /\ currentToken' = [currentToken EXCEPT ![s] = t]
      /\ token' = [token EXCEPT ![c] = t]
      /\ usable' = [d \in Caller |-> IF IsWaiting(d) THEN usable[d] \cup {t} ELSE usable[d]]
  BY DEF RefreshSucceeds
<1>2. t \in Token /\ s \in Service
  <2>1. made \in 0..MaxTokens /\ MaxTokens \in Nat /\ made < MaxTokens
    BY <1>1, BoundsAssumption DEF TypeOK
  <2>2. t \in Token
    BY <2>1 DEF Token
  <2> QED BY <2>2, CallersAssumption
<1> HIDE DEF t
<1>3. pc'[c] \in {"writing", "updateReading"} /\ \A d \in Caller \ {c} : pc'[d] = pc[d]
  BY DEF RefreshSucceeds, StartWrite, TypeOK
<1>4. /\ IsWaiting(c) /\ IsWaiting(c)' /\ IsSaving(c)'
      /\ \A d \in Caller \ {c} : /\ IsWaiting(d)' <=> IsWaiting(d)
                                 /\ IsSaving(d)' <=> IsSaving(d)
                                 /\ Retrieves(d)' <=> Retrieves(d)
      /\ \A d \in Caller : IsSaving(d)' => IsWaiting(d)
  BY <1>1, <1>3 DEF IsWaiting, IsSaving, Retrieves
<1>5. \A d \in Caller : IsWaiting(d) => usable'[d] = usable[d] \cup {t}
  BY <1>1
<1>6. \A d \in Caller : usable[d] \subseteq usable'[d]
  BY <1>1
<1>7. ASSUME NEW d \in Caller, IsWaiting(d)', NEW u \in Token, life'[u] > Buffer
      PROVE  u \in usable'[d]
  <2>1. IsWaiting(d)
    BY <1>4, <1>7
  <2>2. u = t \/ life'[u] = life[u]
    BY <1>1, <1>2 DEF TypeOK
  <2> QED BY <1>5, <1>7, <2>1, <2>2 DEF TokensAreAtHand
<1>8. ASSUME NEW d \in Caller, IsSaving(d)'
      PROVE  \/ currentToken'[ServiceOf[d]] \in usable'[d]
             \/ /\ currentToken'[ServiceOf[d]] = None
                /\ \E e \in Caller \ {d} : ServiceOf[e] = ServiceOf[d] /\ Retrieves(e)'
  <2>1. ServiceOf[d] \in Service /\ IsWaiting(d)
    BY <1>4, <1>8, CallersAssumption
  <2>2. CASE ServiceOf[d] = s
    <3>1. currentToken'[ServiceOf[d]] = t
      BY <1>1, <1>2, <2>2 DEF TypeOK, Record
    <3> QED BY <1>5, <2>1, <3>1
  <2>3. CASE ServiceOf[d] # s
    <3>1. d # c /\ IsSaving(d)
      BY <1>4, <1>8, <2>3
    <3>2. currentToken'[ServiceOf[d]] = currentToken[ServiceOf[d]]
      BY <1>1, <1>2, <2>1, <2>3 DEF TypeOK, Record
    <3>3. CASE currentToken[ServiceOf[d]] \in usable[d]
      BY <1>6, <3>2, <3>3
    <3>4. CASE /\ currentToken[ServiceOf[d]] = None
               /\ \E e \in Caller \ {d} : ServiceOf[e] = ServiceOf[d] /\ Retrieves(e)
      <4>1. PICK e \in Caller \ {d} : ServiceOf[e] = ServiceOf[d] /\ Retrieves(e)
        BY <3>4
      <4>2. e # c /\ Retrieves(e)'
        BY <1>4, <2>3, <4>1
      <4> QED BY <3>2, <3>4, <4>1, <4>2
    <3> QED BY <3>1, <3>3, <3>4 DEF TokensAreAtHand
  <2> QED BY <2>2, <2>3
<1>9. ASSUME NEW d \in Caller, pc'[d] = "returned"
      PROVE  token'[d] \in usable'[d] \cup {None}
  <2>1. d # c /\ pc[d] = "returned" /\ token'[d] = token[d]
    BY <1>1, <1>3, <1>9 DEF TypeOK
  <2> QED BY <1>6, <2>1 DEF TokensAreAtHand
<1> QED BY <1>7, <1>8, <1>9 DEF TokensAreAtHand

LEMMA WriteEndsHands ==
  ASSUME TypeOK, TokensAreAtHand, NEW c \in Caller, WriteEnds(c)
  PROVE  TokensAreAtHand'
<1>1. /\ UNCHANGED <<currentToken, life, usable>> /\ pc[c] = "writing"
      /\ pc'[c] = "returned" /\ token'[c] = currentToken[ServiceOf[c]]
      /\ \A d \in Caller \ {c} : pc'[d] = pc[d] /\ token'[d] = token[d]
  BY DEF WriteEnds, caches, tokens, TypeOK
<1>2. /\ IsSaving(c) /\ ~IsSaving(c)' /\ ~IsWaiting(c)' /\ ~Retrieves(c)
      /\ \A d \in Caller \ {c} : /\ IsWaiting(d)' <=> IsWaiting(d)
                                 /\ IsSaving(d)' <=> IsSaving(d)
                                 /\ Retrieves(d)' <=> Retrieves(d)
  BY <1>1 DEF IsWaiting, IsSaving, Retrieves
<1>3. token'[c] \in usable'[c] \cup {None}
  BY <1>1, <1>2 DEF TokensAreAtHand
<1>4. ASSUME NEW d \in Caller
      PROVE  /\ IsWaiting(d)' => \A t \in Token : life'[t] > Buffer => t \in usable'[d]
             /\ pc'[d] = "returned" => token'[d] \in usable'[d] \cup {None}
  <2>1. CASE d = c
    BY <1>2, <1>3, <2>1
  <2>2. CASE d # c
    BY <1>1, <1>2, <2>2 DEF TokensAreAtHand
  <2> QED BY <2>1, <2>2
<1>5. ASSUME NEW d \in Caller, IsSaving(d)'
      PROVE  \/ currentToken'[ServiceOf[d]] \in usable'[d]
             \/ /\ currentToken'[ServiceOf[d]] = None
                /\ \E e \in Caller \ {d} : ServiceOf[e] = ServiceOf[d] /\ Retrieves(e)'
  <2>1. IsSaving(d) /\ \A e \in Caller : Retrieves(e) => Retrieves(e)'
    BY <1>2, <1>5
  <2> QED BY <1>1, <2>1 DEF TokensAreAtHand
<1> QED BY <1>4, <1>5 DEF TokensAreAtHand

LEMMA NextKeepsHands == TokensInvariant /\ TokensAreAtHand /\ [Next]_vars => TokensAreAtHand'
<1> SUFFICES ASSUME TokensInvariant, TokensAreAtHand, [Next]_vars PROVE TokensAreAtHand'
  OBVIOUS
<1>1. TypeOK
  BY DEF TokensInvariant
<1>2. ASSUME NEW c \in Caller, FileIsRead(c) \/ RefreshFails(c) \/ UpdateGoesOn(c)
      PROVE  TokensAreAtHand'
  <2>1. UNCHANGED <<currentToken, token, usable, life>>
    BY <1>2 DEF FileIsRead, RefreshFails, UpdateGoesOn, caches, tokens
  <2>2. /\ \/ pc[c] = "reading" /\ pc'[c] = "read"
           \/ pc[c] = "updateReading" /\ pc'[c] = "updateRead"
           \/ pc[c] = "refreshing" /\ pc'[c] = "threw"
           \/ pc[c] = "updateRead" /\ pc'[c] = "writing"
        /\ \A d \in Caller \ {c} : pc'[d] = pc[d]
    BY <1>1, <1>2 DEF FileIsRead, RefreshFails, UpdateGoesOn, StartWrite, TypeOK
  <2>3. \A d \in Caller : /\ IsWaiting(d)' => IsWaiting(d)
                          /\ IsSaving(d)' => IsSaving(d)
                          /\ Retrieves(d) => Retrieves(d)'
                          /\ pc'[d] = "returned" => pc[d] = "returned"
    BY <2>2 DEF IsWaiting, IsSaving, Retrieves
  <2> QED BY <2>1, <2>3, HandsAreLeftAlone
<1>3. CASE Crash
  <2>1. \A c \in Caller : pc'[c] = "idle"
    BY <1>3 DEF Crash
  <2>2. \A c \in Caller : ~IsWaiting(c)' /\ ~IsSaving(c)' /\ pc'[c] # "returned"
    BY <2>1 DEF IsWaiting, IsSaving
  <2> QED BY <2>2 DEF TokensAreAtHand
<1>4. CASE Tick \/ UNCHANGED vars
  <2>1. UNCHANGED <<currentToken, token, usable, pc>>
    BY <1>4 DEF Tick, caches, vars
  <2>2. \A t \in Token : life'[t] > Buffer => life[t] > Buffer
    <3>1. \A t \in Token : life[t] \in Int /\ life'[t] \in {life[t], life[t] - 1}
      BY <1>1, <1>4 DEF TypeOK, Tick, vars, tokens
    <3>2. Buffer \in Int
      BY LifeAssumption
    <3> QED BY <3>1, <3>2
  <2>3. \A d \in Caller : /\ IsWaiting(d)' <=> IsWaiting(d)
                          /\ IsSaving(d)' <=> IsSaving(d)
                          /\ Retrieves(d)' <=> Retrieves(d)
    BY <2>1 DEF IsWaiting, IsSaving, Retrieves
  <2> QED BY <2>1, <2>2, <2>3, HandsAreLeftAlone
<1> QED BY <1>1, <1>2, <1>3, <1>4, CallHands, LoadResolvesHands, RefreshSucceedsHands, WriteEndsHands
        DEF Next, FileAnswers, RefreshAnswers

\* TokensAreAtHand holds with the invariant of the caches: a caller that saves its token would
\* be returned one that is usable, or another caller retrieves the next.
THEOREM TokensAreAtHandHolds == Spec => []TokensAreAtHand
<1>1. Init => TokensAreAtHand
  <2>1. Init => \A c \in Caller : pc[c] = "idle"
    BY DEF Init
  <2> QED BY <2>1 DEF TokensAreAtHand, IsWaiting, IsSaving
<1> QED BY <1>1, TokensInvariantHolds, NextKeepsHands, PTL DEF Spec

\* A caller is never returned a token that was about to expire all the time it waited, whoever
\* has replaced the current token of its service meanwhile.
THEOREM NoStaleTokenIsReturned == Spec => []ReturnedTokensWereUsable
<1>1. TokensAreAtHand => ReturnedTokensWereUsable
  BY DEF TokensAreAtHand, ReturnedTokensWereUsable
<1> QED BY <1>1, TokensAreAtHandHolds, PTL

\* Only a caller that saves the token it has refreshed can be returned null, and then the
\* token was dropped by another caller of its service, which retrieves the next or has failed.
THEOREM NullComesFromAnotherCaller == Spec => NullOnlyWhileAnotherRetrieves
<1>1. ASSUME TokensInvariant, TokensAreAtHand, [Next]_vars
      PROVE  [\A c \in Caller :
                pc[c] # "returned" /\ pc'[c] = "returned" /\ token'[c] = None
                  => \E d \in Caller \ {c} : ServiceOf[d] = ServiceOf[c] /\ Retrieves(d)]_vars
  <2>1. SUFFICES ASSUME Next, NEW c \in Caller,
                        pc[c] # "returned", pc'[c] = "returned", token'[c] = None
                 PROVE  \E d \in Caller \ {c} : ServiceOf[d] = ServiceOf[c] /\ Retrieves(d)
    BY <1>1
  <2>2. TypeOK
    BY <1>1 DEF TokensInvariant
  <2>3. ASSUME NEW d \in Caller, NEW t \in Token \cup {None}, CheckExpiration(d, t)
        PROVE  FALSE
    <3>1. d = c /\ t \in Token /\ token'[c] = t
      BY <2>1, <2>2, <2>3, CheckedTypes
    <3> QED BY <2>1, <3>1, NoneIsNoToken
  <2>4. ASSUME NEW d \in Caller, Call(d)
        PROVE  FALSE
    <3>1. pc' = [pc EXCEPT ![d] = "reading"]
      BY <2>2, <2>3, <2>4, CallCases
    <3> QED BY <2>1, <2>2, <3>1 DEF TypeOK
  <2>5. ASSUME NEW d \in Caller, LoadResolves(d)
        PROVE  FALSE
    <3>1. ServiceOf[d] \in Service
      BY CallersAssumption
    <3>2. currentToken[ServiceOf[d]] \in Token \cup {None} /\ Found(ServiceOf[d], buffer[d]) \in Token \cup {None}
      BY <2>2, <3>1, FoundType DEF TypeOK, Record
    <3> QED BY <2>3, <2>5, <3>2 DEF LoadResolves
  <2>6. ASSUME NEW d \in Caller, FileIsRead(d) \/ RefreshFails(d) \/ UpdateGoesOn(d) \/ RefreshSucceeds(d)
        PROVE  FALSE
    BY <2>1, <2>2, <2>6 DEF FileIsRead, RefreshFails, UpdateGoesOn, RefreshSucceeds, StartWrite, TypeOK
  <2>7. ASSUME NEW d \in Caller, WriteEnds(d)
        PROVE  \E e \in Caller \ {c} : ServiceOf[e] = ServiceOf[c] /\ Retrieves(e)
    <3>1. d = c /\ pc[c] = "writing" /\ token'[c] = currentToken[ServiceOf[c]]
      BY <2>1, <2>2, <2>7 DEF WriteEnds, TypeOK
    <3>2. IsSaving(c) /\ currentToken[ServiceOf[c]] \notin usable[c]
      BY <2>1, <2>2, <3>1, NoneIsNoToken DEF IsSaving, TypeOK
    <3> QED BY <1>1, <3>2 DEF TokensAreAtHand
  <2>8. ~Crash /\ ~Tick
    BY <2>1 DEF Crash, Tick
  <2> QED BY <2>1, <2>4, <2>5, <2>6, <2>7, <2>8 DEF Next, FileAnswers, RefreshAnswers
<1> QED BY <1>1, TokensInvariantHolds, TokensAreAtHandHolds, PTL DEF Spec, NullOnlyWhileAnotherRetrieves
=============================================================================
