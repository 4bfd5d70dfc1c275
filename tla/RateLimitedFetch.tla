--------------------------- MODULE RateLimitedFetch ---------------------------
(***************************************************************************)
(* zohoRateLimitedFetchHandler() of @dereekb/zoho: requests that wait for  *)
(* a resetPeriodPromiseRateLimiter() of @dereekb/util before they are      *)
(* sent, and the answers that tell the limiter how many are left in the    *)
(* server's period and when it ends.  A request that was refused for there *)
(* being too many is sent once more.  The server, and the other clients of *)
(* the account, are external.                                              *)
(*                                                                         *)
(* Time is counted in units of the cooldown.  Points in time are kept as   *)
(* the time until them, or since them, so that it needs no bound.          *)
(***************************************************************************)
EXTENDS Integers, FiniteSetsExt

CONSTANTS
  Request,       \* the requests made, each once
  DefaultLimit,  \* defaultLimit
  ResetPeriod,   \* defaultResetPeriod, and the server's
  ServerLimits,  \* values of the limit the server has
  CooldownRate,  \* what the exponential limiter cools down by in a unit of time,
                 \* for the limit it is configured for
  MaxWaitTime,   \* maxWaitTime
  MaxRetries     \* maxRetries

ASSUME RequestAssumption == IsFiniteSet(Request)
ASSUME LimitAssumption ==
  /\ DefaultLimit \in Nat \ {0} /\ ResetPeriod \in Nat \ {0}
  /\ ServerLimits \subseteq Nat \ {0}
  /\ MaxWaitTime \in Nat /\ MaxRetries \in Nat
ASSUME CooldownAssumption ==
  CooldownRate \in [{1, DefaultLimit} -> Nat \ {0}]

VARIABLES
  remaining,      \* the limiter: how many may go before the next reset,
  untilReset,     \* time until nextResetAt, negative once that is past,
  enabled,        \* whether it limits at all,
  configuredFor,  \* and the limit its exponential limiter is configured for
  currentCount,   \* the exponential limiter: what it has counted,
  sinceLast,      \* and the time since timeOfLastExecution
  pc,             \* where each request is
  wait,           \* the time left of its wait
  attempts,       \* retriesAttempted
  answer,         \* the answer to it that is on its way, or that refused it
  overtaken,      \* another answer was applied between that one and its retry
  periodEnded,    \* the server's period has ended since it refused it
  serverLimit,    \* input: the server's limit,
  served,         \* the requests it has let through in its period,
  untilEnd        \* and the time until that ends

limiter == <<remaining, untilReset, enabled, configuredFor, currentCount, sinceLast>>
requests == <<pc, wait, attempts, answer, overtaken, periodEnded>>
server == <<serverLimit, served, untilEnd>>
vars == <<limiter, requests, server>>

Stage == {
  "idle", "waiting", "sent", "answered",
  "refused",   \* the limiter is updated, and shouldRetry is awaited
  "done",      \* a response is returned
  "throttled", \* the error of too many requests is thrown
  "failed"}    \* there was no response, and updateWithResponse() threw on it

\* What the answer's header says, and its status.
Answer == [status : {"ok", "tooMany", "noHeader"}, remaining : Nat, until : Int]

NoAnswer == [status |-> "noHeader", remaining |-> 0, until |-> -1]

Refused == [NoAnswer EXCEPT !.status = "tooMany"]

-----------------------------------------------------------------------------
(* resetPeriodPromiseRateLimiter() and the exponential limiter in it *)

\* The defaults: startLimitAt is never passed on by the outer limiter's setConfig(),
\* which its constructor calls too.
StartLimitAt == 1

ExponentRate == 2

CooledCount ==
  LET cooldown == sinceLast * CooldownRate[configuredFor]
  IN Max({currentCount - cooldown, 0})

EffectiveCount == Max({CooledCount - StartLimitAt, 0})

\* From countForMaxWaitTime on the wait is maxWaitTime.
ExponentialWait(effectiveCount) == Min({ExponentRate ^ effectiveCount - 1, MaxWaitTime})

\* isPast(nextResetAt)
IsPast == untilReset < 0

\* computeNextWaitTime(), with left remaining before.
Take(r, left) ==
  /\ remaining' = left - 1
  /\ wait' = [wait EXCEPT ![r] = ExponentialWait(EffectiveCount)]
  /\ currentCount' = CooledCount + 1
  /\ sinceLast' = 0

\* With none remaining the wait is for the reset, and takes nothing.
WaitForReset(r) ==
  /\ wait' = [wait EXCEPT ![r] = Max({untilReset, 0})]
  /\ UNCHANGED <<remaining, untilReset, currentCount, sinceLast>>

WaitForRateLimit(r) ==
  /\ pc' = [pc EXCEPT ![r] = "waiting"]
  /\ \/ /\ ~enabled
        /\ wait' = [wait EXCEPT ![r] = 0]
        /\ UNCHANGED <<remaining, untilReset, currentCount, sinceLast>>
     \/ /\ enabled /\ remaining > 0
        /\ Take(r, remaining)
        /\ UNCHANGED untilReset
     \/ /\ enabled /\ remaining <= 0 /\ IsPast
        /\ Take(r, DefaultLimit)
        /\ untilReset' = ResetPeriod
     \/ /\ enabled /\ remaining <= 0 /\ ~IsPast
        /\ WaitForReset(r)
  /\ UNCHANGED <<enabled, configuredFor>>

-----------------------------------------------------------------------------
(* rateLimitedFetchHandler() *)

Fetch(r) ==
  /\ pc[r] = "idle"
  /\ WaitForRateLimit(r)
  /\ UNCHANGED <<attempts, answer, overtaken, periodEnded, server>>

Send(r) ==
  /\ pc[r] = "waiting" /\ wait[r] = 0
  /\ pc' = [pc EXCEPT ![r] = "sent"]
  /\ UNCHANGED <<limiter, wait, attempts, answer, overtaken, periodEnded, server>>

\* zohoRateLimitHeaderDetails() takes the limit from headers.has(), which makes 1
\* of it; remaining and reset are read.
HeaderLimit == 1

UpdateUnlessRefused(a) ==
  /\ a.status # "noHeader"
  /\ configuredFor' = IF HeaderLimit # DefaultLimit THEN HeaderLimit ELSE configuredFor
  /\ remaining' = IF a.status = "tooMany" THEN remaining ELSE a.remaining
  /\ untilReset' = a.until
  /\ enabled' = TRUE

\* updateWithResponse().  setConfig() leaves the count of the exponential limiter.
UpdateWithResponse(a) ==
  \/ /\ a.status = "noHeader"
     /\ enabled' = FALSE
     /\ UNCHANGED <<remaining, untilReset, configuredFor>>
  \/ /\ a.status # "noHeader"
     /\ configuredFor' = IF HeaderLimit # DefaultLimit THEN HeaderLimit ELSE configuredFor
     /\ remaining' = a.remaining
     /\ untilReset' = a.until
     /\ enabled' = TRUE

ResponseArrives(r) ==
  /\ pc[r] = "answered"
  /\ UpdateWithResponse(answer[r])
  /\ LET refused == answer[r].status = "tooMany" IN
     /\ pc' = [pc EXCEPT ![r] = IF refused THEN "refused" ELSE "done"]
     /\ answer' = [answer EXCEPT ![r] = IF refused THEN Refused ELSE NoAnswer]
     /\ overtaken' = [q \in Request |-> q # r /\ (overtaken[q] \/ pc[q] = "refused")]
     /\ periodEnded' = [periodEnded EXCEPT ![r] = refused /\ @]
  /\ UNCHANGED <<currentCount, sinceLast, wait, attempts, server>>

MayRetry(r) == attempts[r] < MaxRetries

AfterRefusalUncounted(r) ==
  /\ pc[r] = "refused"
  /\ WaitForRateLimit(r)
  /\ UNCHANGED <<attempts, answer, overtaken, periodEnded, server>>

\* updateWithResponse() has been awaited: wait for the limiter again, or throw.
AfterRefusal(r) ==
  /\ pc[r] = "refused"
  /\ \/ /\ MayRetry(r)
        /\ attempts' = [attempts EXCEPT ![r] = @ + 1]
        /\ WaitForRateLimit(r)
     \/ /\ ~MayRetry(r)
        /\ pc' = [pc EXCEPT ![r] = "throttled"]
        /\ UNCHANGED <<limiter, wait, attempts>>
  /\ UNCHANGED <<answer, overtaken, periodEnded, server>>

\* The request fails or is aborted.  There is no response to update with, and
\* reading its headers throws.
RequestFails(r) ==
  /\ pc[r] = "sent"
  /\ pc' = [pc EXCEPT ![r] = "failed"]
  /\ answer' = [answer EXCEPT ![r] = NoAnswer]
  /\ overtaken' = [overtaken EXCEPT ![r] = FALSE]
  /\ periodEnded' = [periodEnded EXCEPT ![r] = FALSE]
  /\ UNCHANGED <<limiter, wait, attempts, server>>

-----------------------------------------------------------------------------
(* The server, and time *)

\* It counts the requests of its period.  Some answers have no header.
ServerAnswers(r) ==
  LET a == [status |-> IF served < serverLimit THEN "ok" ELSE "tooMany",
            remaining |-> Max({serverLimit - served - 1, 0}), until |-> untilEnd]
  IN /\ pc[r] = "sent"
     /\ pc' = [pc EXCEPT ![r] = "answered"]
     /\ \E b \in {a, NoAnswer} : answer' = [answer EXCEPT ![r] = b]
     /\ served' = Min({served + 1, serverLimit})
     /\ periodEnded' = [periodEnded EXCEPT ![r] = FALSE]
     /\ overtaken' = [overtaken EXCEPT ![r] = FALSE]
     /\ UNCHANGED <<limiter, wait, attempts, serverLimit, untilEnd>>

OtherClientServed ==
  /\ served < serverLimit
  /\ served' = served + 1
  /\ UNCHANGED <<limiter, requests, serverLimit, untilEnd>>

\* A unit of time passes.  Once a point is past, or the count has cooled down at
\* every rate, it does not matter for how long.
Tick ==
  /\ untilReset' = Max({untilReset - 1, -1})
  /\ sinceLast' = Min({sinceLast + 1, currentCount})
  /\ wait' = [r \in Request |-> Max({wait[r] - 1, 0})]
  /\ answer' = [r \in Request |-> [answer[r] EXCEPT !.until = Max({@ - 1, -1})]]
  /\ untilEnd' = IF untilEnd = 1 THEN ResetPeriod ELSE untilEnd - 1
  /\ served' = IF untilEnd = 1 THEN 0 ELSE served
  /\ periodEnded' = 
       [r \in Request |-> periodEnded[r] \/ (untilEnd = 1 /\ answer[r].status = "tooMany")]
  /\ UNCHANGED <<remaining, enabled, configuredFor, currentCount, pc, attempts, overtaken, serverLimit>>

-----------------------------------------------------------------------------
(* The specification *)

Init ==
  /\ remaining = DefaultLimit
  /\ untilReset = ResetPeriod
  /\ enabled = TRUE
  /\ configuredFor = DefaultLimit
  /\ currentCount = 0
  /\ sinceLast = 0
  /\ pc = [r \in Request |-> "idle"]
  /\ wait = [r \in Request |-> 0]
  /\ attempts = [r \in Request |-> 0]
  /\ answer = [r \in Request |-> NoAnswer]
  /\ overtaken = [r \in Request |-> FALSE]
  /\ periodEnded = [r \in Request |-> FALSE]
  /\ serverLimit \in ServerLimits
  /\ served = 0
  /\ untilEnd = ResetPeriod

Proceed(r) == Send(r) \/ ServerAnswers(r) \/ ResponseArrives(r) \/ AfterRefusal(r) \/ RequestFails(r)

Next ==
  \/ \E r \in Request : Fetch(r) \/ Proceed(r)
  \/ OtherClientServed
  \/ Tick

\* Time passes, timers fire, and every request is answered or fails.
Spec == Init /\ [][Next]_vars /\ WF_vars(Tick) /\ \A r \in Request : WF_vars(Proceed(r))

-----------------------------------------------------------------------------
(* Properties *)

\* The limiter's numbers stay in their ranges: none is taken that was not remaining,
\* however late answers come; the server's stay in theirs.
NumbersInRange ==
  /\ remaining \in 0 .. Max({DefaultLimit, serverLimit})
  /\ untilReset \in -1 .. ResetPeriod
  /\ enabled \in BOOLEAN
  /\ configuredFor \in DOMAIN CooldownRate
  /\ currentCount \in Nat /\ sinceLast \in 0..currentCount
  /\ serverLimit \in Nat \ {0} /\ served \in 0..serverLimit /\ untilEnd \in 1..ResetPeriod

\* What is kept of the requests is of its type, and an answer is one this server gave:
\* it leaves no more than the limit and ends with the period it was given in.
RequestsInRange ==
  /\ pc \in [Request -> Stage]
  /\ attempts \in [Request -> 0..MaxRetries]
  /\ answer \in [Request -> [status : {"ok", "tooMany", "noHeader"},
                             remaining : 0..serverLimit, until : -1 .. ResetPeriod]]
  /\ overtaken \in [Request -> BOOLEAN] /\ periodEnded \in [Request -> BOOLEAN]

\* Those, and no request waits longer than maxWaitTime or, if that is later, the end
\* of the server's period.
TypeOK ==
  /\ NumbersInRange
  /\ RequestsInRange
  /\ wait \in [Request -> 0 .. Max({MaxWaitTime, ResetPeriod})]

\* A request that is refused is sent again only when the server's period has ended,
\* unless an answer of another request came in between.
RetriesLandInALaterPeriod ==
  \A r \in Request :
    pc[r] = "sent" /\ attempts[r] > 0 /\ ~overtaken[r] => periodEnded[r]

\* Whoever is or waits to be sent again is so because of a refusal.
RefusedBefore(r) ==
  /\ pc[r] = "idle" => attempts[r] = 0
  /\ pc[r] = "refused" \/ (pc[r] \in {"waiting", "sent"} /\ attempts[r] > 0)
       => answer[r].status = "tooMany"

\* While the period of r's refusal lasts, and no other answer was applied since: the
\* answer that carries it, the limiter once it has applied it, and the wait it then
\* gave to r are all for the end of that period.
RefusalStands(r) ==
  /\ pc[r] = "answered" /\ answer[r].status = "tooMany"
       => answer[r].remaining = 0 /\ answer[r].until = untilEnd
  /\ pc[r] = "refused" /\ ~overtaken[r]
       => enabled /\ remaining = 0 /\ untilReset = untilEnd
  /\ pc[r] = "waiting" /\ attempts[r] > 0 /\ ~overtaken[r] => wait[r] = untilEnd

\* The state of the limiter, the requests and the server is of one piece, and keeps
\* RetriesLandInALaterPeriod in every step.
LimiterInvariant ==
  /\ NumbersInRange
  /\ RequestsInRange
  /\ DOMAIN wait = Request
  /\ \A r \in Request : RefusedBefore(r) /\ (~periodEnded[r] => RefusalStands(r))
  /\ RetriesLandInALaterPeriod

\* Every request that is made ends, in one way or another.
RequestsEnd ==
  \A r \in Request : pc[r] # "idle" ~> pc[r] \in {"done", "throttled", "failed"}
=============================================================================
