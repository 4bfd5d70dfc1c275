------------------------ MODULE RateLimitedFetchProofs ------------------------
(***************************************************************************)
(* What is proved of the rate limited fetch, for any number of requests,   *)
(* limits and retries: the limiter's numbers stay in their ranges, and a   *)
(* refused request is sent again in a later period of the server.          *)
(*                                                                         *)
(* No prover knows ^, so that nothing is said of how long the exponential  *)
(* limiter lets a request wait.                                            *)
(***************************************************************************)
EXTENDS RateLimitedFetch, TLAPS

-----------------------------------------------------------------------------
(* Numbers *)

\* The larger of two numbers.
LEMMA LargerOfTwo ==
  ASSUME NEW a \in Int, NEW b \in Int
  PROVE  Max({a, b}) = IF a >= b THEN a ELSE b
<1>1. \E x \in {a, b} : \A y \in {a, b} : x >= y
  OBVIOUS
<1>2. /\ Max({a, b}) \in {a, b}
      /\ \A y \in {a, b} : Max({a, b}) >= y
  BY <1>1 DEF Max
<1> QED BY <1>2

\* The smaller of two numbers.
LEMMA SmallerOfTwo ==
  ASSUME NEW a \in Int, NEW b \in Int
  PROVE  Min({a, b}) = IF a <= b THEN a ELSE b
<1>1. \E x \in {a, b} : \A y \in {a, b} : x =< y
  OBVIOUS
<1>2. /\ Min({a, b}) \in {a, b}
      /\ \A y \in {a, b} : Min({a, b}) =< y
  BY <1>1 DEF Min
<1> QED BY <1>2

\* The limits are positive, and the largest that can remain is one of them.
LEMMA Limits ==
  ASSUME NumbersInRange
  PROVE  /\ Max({DefaultLimit, serverLimit}) \in Nat
         /\ DefaultLimit <= Max({DefaultLimit, serverLimit})
         /\ serverLimit <= Max({DefaultLimit, serverLimit})
<1>1. DefaultLimit \in Nat /\ serverLimit \in Nat
  BY LimitAssumption DEF NumbersInRange
<1> QED BY <1>1, LargerOfTwo

\* What has cooled down counts as a natural number.
LEMMA CooledCountType ==
  ASSUME NumbersInRange
  PROVE  CooledCount \in Nat
<1> DEFINE rate == CooldownRate[configuredFor]
           cooldown == sinceLast * rate
<1>1. rate \in Nat
  BY CooldownAssumption DEF NumbersInRange
<1>2. cooldown \in Int /\ currentCount - cooldown \in Int
  BY <1>1 DEF NumbersInRange
<1>3. CooledCount = Max({currentCount - cooldown, 0})
  BY DEF CooledCount
<1> HIDE DEF cooldown
<1> QED BY <1>2, <1>3, LargerOfTwo

\* What the answers are that a request may hold.
AnswerNow == [status : {"ok", "tooMany", "noHeader"}, remaining : 0..serverLimit,
              until : -1 .. ResetPeriod]

\* No answer, and a refusal once it is applied, are among them.
LEMMA NoAnswerType ==
  ASSUME NumbersInRange
  PROVE  /\ NoAnswer \in AnswerNow /\ NoAnswer.status = "noHeader"
         /\ Refused \in AnswerNow /\ Refused.status = "tooMany"
BY LimitAssumption DEF NumbersInRange, AnswerNow, NoAnswer, Refused

-----------------------------------------------------------------------------
(* The parts of the steps *)

\* Where a function was changed at one place.
LEMMA ChangedAt ==
  ASSUME NEW f, NEW r \in DOMAIN f, NEW v, NEW g, g = [f EXCEPT ![r] = v]
  PROVE  /\ DOMAIN g = DOMAIN f /\ g[r] = v
         /\ \A q \in DOMAIN f : q # r => g[q] = f[q]
OBVIOUS

\* Waiting for the limiter takes from what remains, resets it or waits for the reset,
\* and a limiter with nothing left before its reset gives the time until then.
LEMMA WaitingForTheLimiter ==
  ASSUME NumbersInRange, RequestsInRange, DOMAIN wait = Request,
         NEW r \in Request, WaitForRateLimit(r)
  PROVE  /\ remaining' \in 0 .. Max({DefaultLimit, serverLimit})
         /\ untilReset' \in -1 .. ResetPeriod
         /\ enabled' = enabled /\ configuredFor' = configuredFor
         /\ currentCount' \in Nat /\ sinceLast' \in 0..currentCount'
         /\ pc' \in [Request -> Stage] /\ pc'[r] = "waiting"
         /\ \A q \in Request : q # r => pc'[q] = pc[q]
         /\ DOMAIN wait' = Request
         /\ \A q \in Request : q # r => wait'[q] = wait[q]
         /\ enabled /\ remaining = 0 /\ untilReset > 0
              => /\ remaining' = remaining /\ untilReset' = untilReset
                 /\ wait'[r] = untilReset
<1>1. /\ remaining \in 0 .. Max({DefaultLimit, serverLimit}) /\ untilReset \in -1 .. ResetPeriod
      /\ currentCount \in Nat /\ sinceLast \in 0..currentCount
  BY DEF NumbersInRange
<1>2. /\ Max({DefaultLimit, serverLimit}) \in Nat /\ DefaultLimit <= Max({DefaultLimit, serverLimit})
      /\ DefaultLimit \in Nat \ {0} /\ ResetPeriod \in Nat \ {0}
  BY Limits, LimitAssumption
<1>3. /\ pc' \in [Request -> Stage] /\ pc'[r] = "waiting"
      /\ \A q \in Request : q # r => pc'[q] = pc[q]
  BY DEF WaitForRateLimit, RequestsInRange, Stage
<1>4. enabled' = enabled /\ configuredFor' = configuredFor
  BY DEF WaitForRateLimit
<1>5. \E v : wait' = [wait EXCEPT ![r] = v]
  BY DEF WaitForRateLimit, Take, WaitForReset
<1>6. DOMAIN wait' = Request /\ \A q \in Request : q # r => wait'[q] = wait[q]
  BY <1>5, ChangedAt
<1>7. CASE ~enabled /\ UNCHANGED <<remaining, untilReset, currentCount, sinceLast>>
  BY <1>1, <1>3, <1>4, <1>6, <1>7
<1>8. ASSUME NEW left \in 1 .. Max({DefaultLimit, serverLimit}), Take(r, left)
      PROVE  /\ remaining' \in 0 .. Max({DefaultLimit, serverLimit})
             /\ currentCount' \in Nat /\ sinceLast' \in 0..currentCount'
  BY <1>2, <1>8, CooledCountType DEF Take
<1>9. CASE remaining > 0 /\ Take(r, remaining) /\ UNCHANGED untilReset
  BY <1>1, <1>2, <1>3, <1>4, <1>6, <1>8, <1>9
<1>10. CASE IsPast /\ Take(r, DefaultLimit) /\ untilReset' = ResetPeriod
  <2>1. ~(untilReset > 0) /\ untilReset' \in -1 .. ResetPeriod
    BY <1>1, <1>2, <1>10 DEF IsPast
  <2>2. DefaultLimit \in 1 .. Max({DefaultLimit, serverLimit})
    BY <1>2
  <2> QED BY <1>3, <1>4, <1>6, <1>8, <1>10, <2>1, <2>2
<1>11. CASE WaitForReset(r)
  <2>1. wait'[r] = Max({untilReset, 0})
    BY <1>11, ChangedAt DEF WaitForReset
  <2>2. untilReset > 0 => Max({untilReset, 0}) = untilReset
    BY <1>1, LargerOfTwo
  <2>3. UNCHANGED <<remaining, untilReset, currentCount, sinceLast>>
    BY <1>11 DEF WaitForReset
  <2> QED BY <1>1, <1>3, <1>4, <1>6, <2>1, <2>2, <2>3
<1> QED BY <1>7, <1>9, <1>10, <1>11 DEF WaitForRateLimit

\* An answer that is applied leaves the limiter in its ranges; one with a header
\* enables it with what the header says.
LEMMA AnswerApplied ==
  ASSUME NumbersInRange, NEW a \in AnswerNow, UpdateWithResponse(a)
  PROVE  /\ remaining' \in 0 .. Max({DefaultLimit, serverLimit})
         /\ untilReset' \in -1 .. ResetPeriod
         /\ enabled' \in BOOLEAN /\ configuredFor' \in DOMAIN CooldownRate
         /\ a.status # "noHeader"
              => enabled' = TRUE /\ remaining' = a.remaining /\ untilReset' = a.until
<1>1. DOMAIN CooldownRate = {1, DefaultLimit}
  BY CooldownAssumption
<1>2. /\ Max({DefaultLimit, serverLimit}) \in Nat /\ serverLimit <= Max({DefaultLimit, serverLimit})
      /\ serverLimit \in Nat
  BY Limits DEF NumbersInRange
<1>3. a.remaining \in 0..serverLimit /\ a.until \in -1 .. ResetPeriod
  BY DEF AnswerNow
<1>4. a.remaining \in 0 .. Max({DefaultLimit, serverLimit})
  BY <1>2, <1>3
<1> QED BY <1>1, <1>3, <1>4 DEF UpdateWithResponse, HeaderLimit, NumbersInRange

-----------------------------------------------------------------------------
(* The steps *)

\* A step by r that leaves the server, the limiter's number of what remains and its
\* reset as they are, and the other requests too, keeps what is said of those.
LEMMA OthersKeep ==
  ASSUME LimiterInvariant, NEW r \in Request, NEW q \in Request, q # r,
         UNCHANGED untilEnd,
         pc'[q] = pc[q], attempts'[q] = attempts[q], answer'[q] = answer[q],
         periodEnded'[q] = periodEnded[q], wait'[q] = wait[q],
         \/ overtaken'[q] = (overtaken[q] \/ pc[q] = "refused")
         \/ /\ overtaken'[q] = overtaken[q]
            /\ enabled /\ remaining = 0 /\ untilReset = untilEnd
                 => UNCHANGED <<enabled, remaining, untilReset>>
  PROVE  /\ RefusedBefore(q)' /\ (~periodEnded'[q] => RefusalStands(q)')
         /\ pc'[q] = "sent" /\ attempts'[q] > 0 /\ ~overtaken'[q] => periodEnded'[q]
<1>1. RefusedBefore(q) /\ (~periodEnded[q] => RefusalStands(q))
  BY DEF LimiterInvariant
<1>2. pc[q] = "sent" /\ attempts[q] > 0 /\ ~overtaken[q] => periodEnded[q]
  BY DEF LimiterInvariant, RetriesLandInALaterPeriod
<1>3. overtaken[q] \in BOOLEAN /\ periodEnded[q] \in BOOLEAN
  BY DEF LimiterInvariant, RequestsInRange
<1>4. ~overtaken'[q] => ~overtaken[q]
  BY <1>3
<1>5. pc[q] = "refused" /\ ~overtaken'[q] /\ enabled /\ remaining = 0 /\ untilReset = untilEnd
        => enabled' /\ remaining' = 0 /\ untilReset' = untilEnd'
  BY <1>3
<1>6. RefusedBefore(q)'
  BY <1>1 DEF RefusedBefore
<1>7. ~periodEnded'[q] => RefusalStands(q)'
  BY <1>1, <1>4, <1>5 DEF RefusalStands
<1> QED BY <1>2, <1>4, <1>6, <1>7

\* What a step needs to show to keep the invariant: the ranges, and for the one request
\* that moves what is said of it.
LEMMA StepOfOne ==
  ASSUME LimiterInvariant, NEW r \in Request,
         NumbersInRange', RequestsInRange', (DOMAIN wait = Request)', UNCHANGED untilEnd,
         \A q \in Request : q # r =>
           /\ pc'[q] = pc[q] /\ attempts'[q] = attempts[q] /\ answer'[q] = answer[q]
           /\ periodEnded'[q] = periodEnded[q] /\ wait'[q] = wait[q]
           /\ \/ overtaken'[q] = (overtaken[q] \/ pc[q] = "refused")
              \/ /\ overtaken'[q] = overtaken[q]
                 /\ enabled /\ remaining = 0 /\ untilReset = untilEnd
                      => UNCHANGED <<enabled, remaining, untilReset>>,
         RefusedBefore(r)', ~periodEnded'[r] => RefusalStands(r)',
         pc'[r] = "sent" /\ attempts'[r] > 0 /\ ~overtaken'[r] => periodEnded'[r]
  PROVE  LimiterInvariant'
<1>1. ASSUME NEW q \in Request
      PROVE  /\ RefusedBefore(q)' /\ (~periodEnded'[q] => RefusalStands(q)')
             /\ pc'[q] = "sent" /\ attempts'[q] > 0 /\ ~overtaken'[q] => periodEnded'[q]
  <2>1. CASE q = r
    BY <2>1
  <2>2. CASE q # r
    BY <2>2, OthersKeep
  <2> QED BY <2>1, <2>2
<1>2. (\A q \in Request : RefusedBefore(q) /\ (~periodEnded[q] => RefusalStands(q)))'
  BY <1>1
<1>3. RetriesLandInALaterPeriod'
  BY <1>1 DEF RetriesLandInALaterPeriod
<1> QED BY <1>2, <1>3 DEF LimiterInvariant

\* A first request waits for the limiter, and has not been refused.
LEMMA FetchStep ==
  ASSUME LimiterInvariant, NEW r \in Request, Fetch(r)
  PROVE  LimiterInvariant'
<1>1. NumbersInRange /\ RequestsInRange /\ DOMAIN wait = Request /\ RefusedBefore(r)
  BY DEF LimiterInvariant
<1>2. pc[r] = "idle" /\ WaitForRateLimit(r)
  BY DEF Fetch
<1>3. UNCHANGED <<attempts, answer, overtaken, periodEnded, serverLimit, served, untilEnd>>
  BY DEF Fetch, server
<1>4. attempts[r] = 0
  BY <1>1, <1>2 DEF RefusedBefore
<1> DEFINE top == Max({DefaultLimit, serverLimit})
<1>5. /\ remaining' \in 0 .. top /\ untilReset' \in -1 .. ResetPeriod
      /\ enabled' = enabled /\ configuredFor' = configuredFor
      /\ currentCount' \in Nat /\ sinceLast' \in 0..currentCount'
      /\ pc' \in [Request -> Stage] /\ pc'[r] = "waiting"
      /\ \A q \in Request : q # r => pc'[q] = pc[q]
      /\ DOMAIN wait' = Request /\ \A q \in Request : q # r => wait'[q] = wait[q]
      /\ enabled /\ remaining = 0 /\ untilReset > 0
           => remaining' = remaining /\ untilReset' = untilReset
  BY <1>1, <1>2, WaitingForTheLimiter
<1>6. untilEnd > 0
  BY <1>1, LimitAssumption DEF NumbersInRange
<1>7. NumbersInRange'
  BY <1>1, <1>3, <1>5 DEF NumbersInRange
<1>8. RequestsInRange'
  BY <1>1, <1>3, <1>5 DEF RequestsInRange
<1>9. RefusedBefore(r)' /\ RefusalStands(r)'
  BY <1>3, <1>4, <1>5 DEF RefusedBefore, RefusalStands
<1> HIDE DEF top
<1> QED BY <1>3, <1>5, <1>6, <1>7, <1>8, <1>9, StepOfOne

\* A request is sent when its wait is over: a retry not before the end of the period.
LEMMA SendStep ==
  ASSUME LimiterInvariant, NEW r \in Request, Send(r)
  PROVE  LimiterInvariant'
<1>1. /\ NumbersInRange /\ RequestsInRange /\ DOMAIN wait = Request
      /\ RefusedBefore(r) /\ (~periodEnded[r] => RefusalStands(r))
  BY DEF LimiterInvariant
<1>2. /\ pc[r] = "waiting" /\ wait[r] = 0 /\ pc' = [pc EXCEPT ![r] = "sent"]
      /\ UNCHANGED <<limiter, wait, attempts, answer, overtaken, periodEnded, server>>
  BY DEF Send
<1>3. untilEnd > 0
  BY <1>1, LimitAssumption DEF NumbersInRange
<1>4. /\ pc' \in [Request -> Stage] /\ pc'[r] = "sent"
      /\ \A q \in Request : q # r => pc'[q] = pc[q]
  BY <1>1, <1>2 DEF RequestsInRange, Stage
<1>5. NumbersInRange' /\ RequestsInRange'
  BY <1>1, <1>2, <1>4 DEF NumbersInRange, RequestsInRange, limiter, server
<1>6. attempts[r] > 0 /\ ~overtaken[r] => periodEnded[r]
  BY <1>1, <1>2, <1>3 DEF RefusalStands
<1>7. RefusedBefore(r)' /\ RefusalStands(r)'
  BY <1>1, <1>2, <1>4 DEF RefusedBefore, RefusalStands
<1>8. UNCHANGED <<enabled, remaining, untilReset, untilEnd>>
  BY <1>2 DEF limiter, server
<1> QED BY <1>1, <1>2, <1>4, <1>5, <1>6, <1>7, <1>8, StepOfOne

\* A refused request waits for the limiter once more, for the end of the period, or
\* is given up.
LEMMA AfterRefusalStep ==
  ASSUME LimiterInvariant, NEW r \in Request, AfterRefusal(r)
  PROVE  LimiterInvariant'
<1>1. /\ NumbersInRange /\ RequestsInRange /\ DOMAIN wait = Request
      /\ RefusedBefore(r) /\ (~periodEnded[r] => RefusalStands(r))
  BY DEF LimiterInvariant
<1>2. pc[r] = "refused" /\ UNCHANGED <<answer, overtaken, periodEnded, server>>
  BY DEF AfterRefusal
<1>3. UNCHANGED <<serverLimit, served, untilEnd>> /\ untilEnd > 0
  BY <1>1, <1>2, LimitAssumption DEF server, NumbersInRange
<1>4. answer[r].status = "tooMany"
  BY <1>1, <1>2 DEF RefusedBefore
<1>5. CASE MayRetry(r) /\ attempts' = [attempts EXCEPT ![r] = @ + 1] /\ WaitForRateLimit(r)
  <2> DEFINE top == Max({DefaultLimit, serverLimit})
  <2>1. /\ remaining' \in 0 .. top /\ untilReset' \in -1 .. ResetPeriod
        /\ enabled' = enabled /\ configuredFor' = configuredFor
        /\ currentCount' \in Nat /\ sinceLast' \in 0..currentCount'
        /\ pc' \in [Request -> Stage] /\ pc'[r] = "waiting"
        /\ \A q \in Request : q # r => pc'[q] = pc[q]
        /\ DOMAIN wait' = Request /\ \A q \in Request : q # r => wait'[q] = wait[q]
        /\ enabled /\ remaining = 0 /\ untilReset > 0
             => /\ remaining' = remaining /\ untilReset' = untilReset
                /\ wait'[r] = untilReset
    BY <1>1, <1>5, WaitingForTheLimiter
  <2>2. /\ attempts' \in [Request -> 0..MaxRetries]
        /\ \A q \in Request : q # r => attempts'[q] = attempts[q]
    BY <1>1, <1>5, LimitAssumption DEF MayRetry, RequestsInRange
  <2>3. NumbersInRange'
    BY <1>1, <1>3, <2>1 DEF NumbersInRange
  <2>4. RequestsInRange'
    BY <1>1, <1>2, <1>3, <2>1, <2>2 DEF RequestsInRange
  <2>5. RefusedBefore(r)'
    BY <1>2, <1>4, <2>1 DEF RefusedBefore
  <2>6. ~periodEnded'[r] => RefusalStands(r)'
    BY <1>1, <1>2, <1>3, <2>1 DEF RefusalStands
  <2> HIDE DEF top
  <2> QED BY <1>2, <1>3, <2>1, <2>2, <2>3, <2>4, <2>5, <2>6, StepOfOne
<1>6. CASE /\ pc' = [pc EXCEPT ![r] = "throttled"]
           /\ UNCHANGED <<limiter, wait, attempts>>
  <2>1. /\ pc' \in [Request -> Stage] /\ pc'[r] = "throttled"
        /\ \A q \in Request : q # r => pc'[q] = pc[q]
    BY <1>1, <1>6 DEF RequestsInRange, Stage
  <2>2. NumbersInRange' /\ RequestsInRange'
    BY <1>1, <1>2, <1>6, <2>1 DEF NumbersInRange, RequestsInRange, limiter, server
  <2>3. RefusedBefore(r)' /\ RefusalStands(r)'
    BY <2>1 DEF RefusedBefore, RefusalStands
  <2>4. UNCHANGED <<enabled, remaining, untilReset>>
    BY <1>6 DEF limiter
  <2> QED BY <1>1, <1>2, <1>3, <1>6, <2>1, <2>2, <2>3, <2>4, StepOfOne
<1> QED BY <1>5, <1>6 DEF AfterRefusal

\* A request that fails holds no answer.
LEMMA RequestFailsStep ==
  ASSUME LimiterInvariant, NEW r \in Request, RequestFails(r)
  PROVE  LimiterInvariant'
<1>1. NumbersInRange /\ RequestsInRange /\ DOMAIN wait = Request
  BY DEF LimiterInvariant
<1>2. /\ pc' = [pc EXCEPT ![r] = "failed"] /\ answer' = [answer EXCEPT ![r] = NoAnswer]
      /\ overtaken' = [overtaken EXCEPT ![r] = FALSE]
      /\ periodEnded' = [periodEnded EXCEPT ![r] = FALSE]
      /\ UNCHANGED <<limiter, wait, attempts, server>>
  BY DEF RequestFails
<1>3. /\ pc' \in [Request -> Stage] /\ pc'[r] = "failed"
      /\ \A q \in Request : q # r =>
           /\ pc'[q] = pc[q] /\ answer'[q] = answer[q] /\ overtaken'[q] = overtaken[q]
           /\ periodEnded'[q] = periodEnded[q]
  BY <1>1, <1>2 DEF RequestsInRange, Stage
<1>4. /\ overtaken' \in [Request -> BOOLEAN] /\ periodEnded' \in [Request -> BOOLEAN]
      /\ answer' \in [Request -> AnswerNow]
  BY <1>1, <1>2, NoAnswerType DEF RequestsInRange, AnswerNow
<1>5. NumbersInRange' /\ UNCHANGED <<enabled, remaining, untilReset, untilEnd, serverLimit>>
  BY <1>1, <1>2 DEF NumbersInRange, limiter, server
<1>6. RequestsInRange'
  BY <1>1, <1>2, <1>3, <1>4, <1>5 DEF RequestsInRange, AnswerNow
<1>7. RefusedBefore(r)' /\ RefusalStands(r)'
  BY <1>3 DEF RefusedBefore, RefusalStands
<1> QED BY <1>1, <1>2, <1>3, <1>5, <1>6, <1>7, StepOfOne

\* The server refuses when its limit is reached: nothing remains until its period ends.
LEMMA ServerAnswersStep ==
  ASSUME LimiterInvariant, NEW r \in Request, ServerAnswers(r)
  PROVE  LimiterInvariant'
<1> DEFINE a == [status |-> IF served < serverLimit THEN "ok" ELSE "tooMany",
                 remaining |-> Max({serverLimit - served - 1, 0}), until |-> untilEnd]
<1>1. NumbersInRange /\ RequestsInRange /\ DOMAIN wait = Request
  BY DEF LimiterInvariant
<1>2. /\ pc' = [pc EXCEPT ![r] = "answered"] /\ overtaken' = [overtaken EXCEPT ![r] = FALSE]
      /\ periodEnded' = [periodEnded EXCEPT ![r] = FALSE]
      /\ served' = Min({served + 1, serverLimit})
      /\ UNCHANGED <<limiter, wait, attempts, serverLimit, untilEnd>>
  BY DEF ServerAnswers
<1>3. PICK b \in {a, NoAnswer} : answer' = [answer EXCEPT ![r] = b]
  BY DEF ServerAnswers
<1>4. serverLimit \in Nat \ {0} /\ served \in 0..serverLimit /\ untilEnd \in 1..ResetPeriod
  BY <1>1 DEF NumbersInRange
<1>5. served' \in 0..serverLimit
  BY <1>2, <1>4, SmallerOfTwo
<1>6. /\ Max({serverLimit - served - 1, 0}) \in 0..serverLimit
      /\ ~(served < serverLimit) => Max({serverLimit - served - 1, 0}) = 0
  BY <1>4, LargerOfTwo
<1>7. a \in AnswerNow /\ (a.status = "tooMany" => a.remaining = 0 /\ a.until = untilEnd)
  BY <1>4, <1>6, LimitAssumption DEF AnswerNow
<1>8. b \in AnswerNow /\ (b.status = "tooMany" => b.remaining = 0 /\ b.until = untilEnd)
  BY <1>1, <1>3, <1>7, NoAnswerType
<1> HIDE DEF a
<1>9. /\ pc' \in [Request -> Stage] /\ pc'[r] = "answered"
      /\ \A q \in Request : q # r =>
           /\ pc'[q] = pc[q] /\ answer'[q] = answer[q] /\ overtaken'[q] = overtaken[q]
           /\ periodEnded'[q] = periodEnded[q]
  BY <1>1, <1>2, <1>3 DEF RequestsInRange, Stage
<1>10. /\ overtaken' \in [Request -> BOOLEAN] /\ periodEnded' \in [Request -> BOOLEAN]
       /\ answer' \in [Request -> AnswerNow] /\ answer'[r] = b
  BY <1>1, <1>2, <1>3, <1>8 DEF RequestsInRange, AnswerNow
<1>11. NumbersInRange' /\ UNCHANGED <<enabled, remaining, untilReset, untilEnd, serverLimit>>
  BY <1>1, <1>2, <1>5 DEF NumbersInRange, limiter
<1>12. RequestsInRange'
  BY <1>1, <1>2, <1>9, <1>10, <1>11 DEF RequestsInRange, AnswerNow
<1>13. RefusedBefore(r)' /\ RefusalStands(r)'
  BY <1>8, <1>9, <1>10, <1>11 DEF RefusedBefore, RefusalStands
<1> QED BY <1>1, <1>2, <1>9, <1>11, <1>12, <1>13, StepOfOne

\* A response updates the limiter; other requests that were refused are overtaken.
LEMMA ResponseArrivesStep ==
  ASSUME LimiterInvariant, NEW r \in Request, ResponseArrives(r)
  PROVE  LimiterInvariant'
<1> DEFINE refused == answer[r].status = "tooMany"
<1>1. /\ NumbersInRange /\ RequestsInRange /\ DOMAIN wait = Request
      /\ (~periodEnded[r] => RefusalStands(r))
  BY DEF LimiterInvariant
<1>2. pc[r] = "answered" /\ UpdateWithResponse(answer[r])
  BY DEF ResponseArrives
<1>3. /\ pc' = [pc EXCEPT ![r] = IF refused THEN "refused" ELSE "done"]
      /\ answer' = [answer EXCEPT ![r] = IF refused THEN Refused ELSE NoAnswer]
      /\ overtaken' = [q \in Request |-> q # r /\ (overtaken[q] \/ pc[q] = "refused")]
      /\ periodEnded' = [periodEnded EXCEPT ![r] = refused /\ @]
  BY DEF ResponseArrives
<1>4. /\ UNCHANGED <<currentCount, sinceLast, wait, attempts>>
      /\ UNCHANGED <<serverLimit, served, untilEnd>>
  BY DEF ResponseArrives, server
<1>5. answer[r] \in AnswerNow
  BY <1>1 DEF RequestsInRange, AnswerNow
<1>6. /\ remaining' \in 0 .. Max({DefaultLimit, serverLimit})
      /\ untilReset' \in -1 .. ResetPeriod
      /\ enabled' \in BOOLEAN /\ configuredFor' \in DOMAIN CooldownRate
      /\ refused => /\ enabled' = TRUE /\ remaining' = answer[r].remaining
                    /\ untilReset' = answer[r].until
  BY <1>1, <1>2, <1>5, AnswerApplied
<1>7. NumbersInRange'
  BY <1>1, <1>4, <1>6 DEF NumbersInRange
<1>8. /\ pc' \in [Request -> Stage] /\ pc'[r] = IF refused THEN "refused" ELSE "done"
      /\ answer'[r] = IF refused THEN Refused ELSE NoAnswer
      /\ \A q \in Request : q # r => pc'[q] = pc[q] /\ answer'[q] = answer[q]
  BY <1>1, <1>3 DEF RequestsInRange, Stage
<1>9. answer' \in [Request -> AnswerNow]
  <2>1. answer \in [Request -> AnswerNow]
    BY <1>1 DEF RequestsInRange, AnswerNow
  <2> QED BY <1>1, <1>3, <2>1, NoAnswerType
<1>10. /\ overtaken' \in [Request -> BOOLEAN]
       /\ \A q \in Request : q # r => overtaken'[q] = (overtaken[q] \/ pc[q] = "refused")
  BY <1>3
<1>11. /\ periodEnded' \in [Request -> BOOLEAN]
       /\ refused => periodEnded'[r] = periodEnded[r]
       /\ \A q \in Request : q # r => periodEnded'[q] = periodEnded[q]
  BY <1>1, <1>3, Zenon DEF RequestsInRange
<1>12. RequestsInRange'
  BY <1>1, <1>4, <1>8, <1>9, <1>10, <1>11 DEF RequestsInRange, AnswerNow
<1>13. RefusedBefore(r)'
  BY <1>1, <1>8, NoAnswerType DEF RefusedBefore
<1>14. ~periodEnded'[r] => RefusalStands(r)'
  <2>1. CASE refused
    BY <1>1, <1>2, <1>4, <1>6, <1>8, <1>11, <2>1 DEF RefusalStands
  <2>2. CASE ~refused
    BY <1>8, <2>2 DEF RefusalStands
  <2> QED BY <2>1, <2>2
<1>15. pc'[r] # "sent"
  BY <1>8
<1> HIDE DEF refused
<1> QED BY <1>1, <1>4, <1>7, <1>8, <1>10, <1>11, <1>12, <1>13, <1>14, <1>15, StepOfOne

\* Another client of the account only uses up the server's limit.
LEMMA OtherClientStep ==
  ASSUME LimiterInvariant, OtherClientServed
  PROVE  LimiterInvariant'
<1>1. NumbersInRange'
  BY DEF LimiterInvariant, OtherClientServed, NumbersInRange, limiter
<1>2. RequestsInRange' /\ (DOMAIN wait = Request)' /\ RetriesLandInALaterPeriod'
  BY DEF LimiterInvariant, OtherClientServed, RequestsInRange, RetriesLandInALaterPeriod, requests
<1>3. (\A q \in Request : RefusedBefore(q) /\ (~periodEnded[q] => RefusalStands(q)))'
  BY DEF LimiterInvariant, OtherClientServed, RefusedBefore, RefusalStands, limiter, requests
<1> QED BY <1>1, <1>2, <1>3 DEF LimiterInvariant

\* Time passes for the limiter, the waits, the answers and the server alike, and when
\* the period ends it does for every refusal.
LEMMA TickStep ==
  ASSUME LimiterInvariant, Tick
  PROVE  LimiterInvariant'
<1>1. NumbersInRange /\ RequestsInRange /\ DOMAIN wait = Request
  BY DEF LimiterInvariant
<1>2. /\ untilReset' = Max({untilReset - 1, -1})
      /\ sinceLast' = Min({sinceLast + 1, currentCount})
      /\ untilEnd' = IF untilEnd = 1 THEN ResetPeriod ELSE untilEnd - 1
      /\ served' = IF untilEnd = 1 THEN 0 ELSE served
      /\ UNCHANGED <<remaining, enabled, configuredFor, currentCount, pc, attempts,
                     overtaken, serverLimit>>
  BY DEF Tick
<1>3. /\ wait' = [r \in Request |-> Max({wait[r] - 1, 0})]
      /\ answer' = [r \in Request |-> [answer[r] EXCEPT !.until = Max({@ - 1, -1})]]
      /\ periodEnded' =
           [r \in Request |-> periodEnded[r] \/ (untilEnd = 1 /\ answer[r].status = "tooMany")]
  BY DEF Tick
<1>4. /\ untilReset \in -1 .. ResetPeriod /\ sinceLast \in 0..currentCount /\ currentCount \in Nat
      /\ untilEnd \in 1..ResetPeriod /\ serverLimit \in Nat \ {0} /\ served \in 0..serverLimit
      /\ ResetPeriod \in Nat \ {0}
  BY <1>1, LimitAssumption DEF NumbersInRange
<1>5. /\ untilReset' \in -1 .. ResetPeriod
      /\ untilReset > 0 => untilReset' = untilReset - 1
  BY <1>2, <1>4, LargerOfTwo
<1>6. sinceLast' \in 0..currentCount
  BY <1>2, <1>4, SmallerOfTwo
<1>7. untilEnd' \in 1..ResetPeriod /\ served' \in 0..serverLimit
  BY <1>2, <1>4
<1>8. NumbersInRange'
  BY <1>1, <1>2, <1>5, <1>6, <1>7 DEF NumbersInRange
<1>9. ASSUME NEW r \in Request
      PROVE  /\ answer'[r] \in AnswerNow /\ answer'[r].status = answer[r].status
             /\ answer'[r].remaining = answer[r].remaining
             /\ answer[r].until > 0 => answer'[r].until = answer[r].until - 1
  <2>1. answer[r] \in AnswerNow
    BY <1>1 DEF RequestsInRange, AnswerNow
  <2>2. answer[r].until \in -1 .. ResetPeriod
    BY <2>1 DEF AnswerNow
  <2>3. /\ Max({answer[r].until - 1, -1}) \in -1 .. ResetPeriod
        /\ answer[r].until > 0 => Max({answer[r].until - 1, -1}) = answer[r].until - 1
    BY <1>4, <2>2, LargerOfTwo
  <2>4. answer'[r] = [answer[r] EXCEPT !.until = Max({answer[r].until - 1, -1})]
    BY <1>3
  <2> QED BY <2>1, <2>3, <2>4 DEF AnswerNow
<1>10. answer' \in [Request -> AnswerNow]
  BY <1>3, <1>9
<1>11. \A r \in Request : periodEnded'[r] = (periodEnded[r] \/ (untilEnd = 1 /\ answer[r].status = "tooMany"))
  BY <1>3
<1>12. periodEnded' \in [Request -> BOOLEAN]
  BY <1>3
<1>13. RequestsInRange'
  BY <1>1, <1>2, <1>10, <1>12 DEF RequestsInRange, AnswerNow
<1>14. (DOMAIN wait = Request)'
  BY <1>3
<1>15. ASSUME NEW r \in Request
       PROVE  RefusedBefore(r)' /\ (~periodEnded'[r] => RefusalStands(r)')
  <2>1. RefusedBefore(r) /\ (~periodEnded[r] => RefusalStands(r))
    BY DEF LimiterInvariant
  <2>2. RefusedBefore(r)'
    BY <1>2, <1>9, <2>1 DEF RefusedBefore
  <2>3. SUFFICES ASSUME ~periodEnded'[r]
                 PROVE  RefusalStands(r)'
    BY <2>2
  <2>4. /\ RefusalStands(r)
        /\ answer[r].status = "tooMany" => untilEnd > 1 /\ untilEnd' = untilEnd - 1
    <3>1. ~periodEnded[r] /\ ~(untilEnd = 1 /\ answer[r].status = "tooMany")
      BY <1>11, <2>3, Zenon
    <3> QED BY <1>2, <1>4, <2>1, <3>1
  <2>5. pc[r] = "answered" /\ answer[r].status = "tooMany"
          => answer'[r].remaining = 0 /\ answer'[r].until = untilEnd'
    BY <1>9, <2>4, <1>4 DEF RefusalStands
  <2>6. pc[r] = "refused" /\ ~overtaken[r]
          => enabled /\ remaining = 0 /\ untilReset' = untilEnd'
    BY <1>4, <1>5, <2>1, <2>4 DEF RefusalStands, RefusedBefore
  <2>7. pc[r] = "waiting" /\ attempts[r] > 0 /\ ~overtaken[r] => wait'[r] = untilEnd'
    <3>1. SUFFICES ASSUME pc[r] = "waiting", attempts[r] > 0, ~overtaken[r]
                   PROVE  wait'[r] = untilEnd'
      OBVIOUS
    <3>2. wait[r] = untilEnd /\ untilEnd > 1 /\ untilEnd' = untilEnd - 1
      BY <2>1, <2>4, <3>1 DEF RefusalStands, RefusedBefore
    <3>3. Max({untilEnd - 1, 0}) = untilEnd - 1
      BY <1>4, <3>2, LargerOfTwo
    <3> QED BY <1>3, <3>2, <3>3
  <2> QED BY <1>2, <1>9, <2>5, <2>6, <2>7 DEF RefusalStands
<1>16. RetriesLandInALaterPeriod'
  <2>1. RetriesLandInALaterPeriod
    BY DEF LimiterInvariant
  <2> QED BY <1>2, <1>11, <2>1 DEF RetriesLandInALaterPeriod
<1> QED BY <1>8, <1>13, <1>14, <1>15, <1>16 DEF LimiterInvariant

-----------------------------------------------------------------------------
(* The theorems *)

\* Before the first request the limiter is at its defaults and nothing was refused.
LEMMA LimiterStarts ==
  ASSUME Init
  PROVE  LimiterInvariant
<1>1. serverLimit \in Nat \ {0} /\ DefaultLimit \in Nat \ {0} /\ ResetPeriod \in Nat \ {0}
  BY LimitAssumption DEF Init
<1>2. Max({DefaultLimit, serverLimit}) \in Nat /\ DefaultLimit <= Max({DefaultLimit, serverLimit})
  BY <1>1, LargerOfTwo
<1>3. NumbersInRange
  BY <1>1, <1>2, CooldownAssumption DEF Init, NumbersInRange
<1>4. NoAnswer \in AnswerNow /\ answer \in [Request -> AnswerNow]
  BY <1>3, NoAnswerType DEF Init
<1>5. RequestsInRange
  BY <1>4, LimitAssumption DEF Init, RequestsInRange, AnswerNow, Stage
<1>6. DOMAIN wait = Request /\ \A r \in Request : pc[r] = "idle" /\ attempts[r] = 0
  BY DEF Init
<1> QED BY <1>3, <1>5, <1>6
        DEF LimiterInvariant, RefusedBefore, RefusalStands, RetriesLandInALaterPeriod

\* The limiter, the requests and the server agree in every state: the numbers are in
\* their ranges, and a refusal stands until its period ends or another answer is applied
\* (updateWithResponse(), waitForRateLimit()).
THEOREM LimiterInvariantHolds == Spec => []LimiterInvariant
<1>1. LimiterInvariant /\ [Next]_vars => LimiterInvariant'
  <2>1. SUFFICES ASSUME LimiterInvariant, [Next]_vars
                 PROVE  LimiterInvariant'
    OBVIOUS
  <2>2. ASSUME NEW r \in Request, Fetch(r) \/ Proceed(r)
        PROVE  LimiterInvariant'
    BY <2>1, <2>2, FetchStep, SendStep, ServerAnswersStep, ResponseArrivesStep,
       AfterRefusalStep, RequestFailsStep DEF Proceed
  <2>3. CASE UNCHANGED vars
    BY <2>1, <2>3 DEF vars, limiter, requests, server, LimiterInvariant, NumbersInRange,
       RequestsInRange, RefusedBefore, RefusalStands, RetriesLandInALaterPeriod
  <2> QED BY <2>1, <2>2, <2>3, OtherClientStep, TickStep DEF Next
<1> QED BY <1>1, LimiterStarts, PTL DEF Spec

\* A request that is refused is sent again only in a later period of the server, unless
\* another answer was applied in between: the refusal leaves the limiter with nothing
\* before the end of the period, and the wait it then gives cannot be over earlier.
THEOREM RetriesComeLater == Spec => []RetriesLandInALaterPeriod
<1>1. LimiterInvariant => RetriesLandInALaterPeriod
  BY DEF LimiterInvariant
<1> QED BY <1>1, LimiterInvariantHolds, PTL
=============================================================================
