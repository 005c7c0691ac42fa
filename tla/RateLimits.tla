------------------------------ MODULE RateLimits ------------------------------
(***************************************************************************)
(* The rate limiters (adapter/valkey, gateway/middleware): a sliding       *)
(* window per key, kept as a sorted set in Valkey and judged by one Lua    *)
(* script, on the clock of the process that calls it.  Clocks of two       *)
(* processes differ.  Whoever cannot ask lets the request through, and so  *)
(* does the breaker of the general limiter while it is open.               *)
(***************************************************************************)
EXTENDS Integers, FiniteSets, Sequences

CONSTANTS
    RatePods, Skew,         \* processes, and how far ahead the clock of each is
    MaxSkew,
    RateKeys,               \* endpoint and address, address alone, or user
    RateLimitOf, RateWindow,
    RateBreakerFailures,    \* circuitbreaker.Config.MaxFailures
    MaxRateTime, MaxRateCalls, MaxRateFaults

VARIABLES
    zset,           \* the sorted set of each key: its scores, newest last
    zexpire,        \* when the key itself expires
    rateBreaker,    \* the breaker of each process
    passed,         \* history: when the requests of each key were let through as counted
    waved,          \* history: the number let through uncounted
    rateTime, rateCalls, rateFaults

rateVars == <<zset, zexpire, rateBreaker, passed, waved, rateTime, rateCalls, rateFaults>>

SlidingWindowTTLMultiplier == 2
BreakerClosed == [state |-> "closed", failures |-> 0]

RateInit ==
    /\ zset = [k \in RateKeys |-> <<>>]
    /\ zexpire = [k \in RateKeys |-> 0]
    /\ rateBreaker = [p \in RatePods |-> BreakerClosed]
    /\ passed = [k \in RateKeys |-> <<>>]
    /\ waved = 0
    /\ rateTime = 0 /\ rateCalls = 0 /\ rateFaults = 0

-----------------------------------------------------------------------------
\* Mutant: a request leaves the window one unit early.
InWindowShort(score, windowStart) == score > windowStart + 1

\* ZREMRANGEBYSCORE -inf window_start.
InWindow(score, windowStart) == score > windowStart

\* slidingWindowScript: entries out of the window are removed, and the request is added
\* when there is room.  The whole key goes when it is not asked for in two windows.
SlidingWindow(k, now) ==
    LET kept == IF rateTime < zexpire[k]
                THEN SelectSeq(zset[k], LAMBDA score : InWindow(score, now - RateWindow))
                ELSE <<>>
    IN [room |-> Len(kept) < RateLimitOf,
        set |-> IF Len(kept) < RateLimitOf THEN Append(kept, now) ELSE kept]

\* SlidingWindowRateLimiter.Allow in process p.
Allow(p, k) ==
    LET w == SlidingWindow(k, rateTime + Skew[p])
    IN /\ zset' = [zset EXCEPT ![k] = w.set]
       /\ zexpire' = [zexpire EXCEPT ![k] = rateTime + SlidingWindowTTLMultiplier * RateWindow]
       /\ passed' = IF w.room THEN [passed EXCEPT ![k] = Append(@, rateTime)] ELSE passed
       /\ UNCHANGED waved

\* The script does not answer, or its answer is lost when it has run.
LostAllow(p, k) ==
    /\ rateFaults < MaxRateFaults /\ rateFaults' = rateFaults + 1
    /\ \/ UNCHANGED <<zset, zexpire>>
       \/ zset' = [zset EXCEPT ![k] = SlidingWindow(k, rateTime + Skew[p]).set]
          /\ zexpire' = [zexpire EXCEPT ![k] = rateTime + SlidingWindowTTLMultiplier * RateWindow]
    /\ waved' = waved + 1
    /\ UNCHANGED passed

Call ==
    /\ rateCalls < MaxRateCalls /\ rateCalls' = rateCalls + 1
    /\ UNCHANGED rateTime

\* AuthRateLimit and AllowCheckout ask the limiter itself; an error lets the request on.
AuthRateLimit(p, k) ==
    /\ Call
    /\ \/ Allow(p, k) /\ UNCHANGED rateFaults
       \/ LostAllow(p, k)
    /\ UNCHANGED rateBreaker

\* RateLimit asks through the breaker (ResilientRateLimiter.Allow).
RateLimit(p, k) ==
    LET b == rateBreaker[p]
        fails == b.failures + 1
    IN /\ Call
       /\ \/ /\ b.state # "open" /\ Allow(p, k)
             /\ rateBreaker' = [rateBreaker EXCEPT ![p] = BreakerClosed]
             /\ UNCHANGED rateFaults
          \/ /\ b.state # "open" /\ LostAllow(p, k)
             /\ rateBreaker' = [rateBreaker EXCEPT ![p] =
                  [state |-> IF b.state = "half-open" \/ fails >= RateBreakerFailures
                             THEN "open" ELSE "closed", failures |-> fails]]
          \/ /\ b.state = "open"
             /\ waved' = waved + 1
             /\ UNCHANGED <<zset, zexpire, passed, rateBreaker, rateFaults>>

\* Time passes; a breaker's timeout ends some time or other.
PassRateTime ==
    /\ rateTime < MaxRateTime
    /\ rateTime' = rateTime + 1
    /\ rateBreaker' = [p \in RatePods |->
         IF rateBreaker[p].state = "open" THEN [rateBreaker[p] EXCEPT !.state = "half-open"]
                                          ELSE rateBreaker[p]]
    /\ UNCHANGED <<zset, zexpire, passed, waved, rateCalls, rateFaults>>

RateNext ==
    \/ \E p \in RatePods, k \in RateKeys : AuthRateLimit(p, k) \/ RateLimit(p, k)
    \/ PassRateTime

-----------------------------------------------------------------------------
\* rate_limiter.go: whatever processes a client's requests reach, no stretch of time
\* that is shorter than the window by the difference of the clocks sees more counted
\* requests than the limit; and nothing passes uncounted without a failure.
WindowKept ==
    /\ \A k \in RateKeys : \A i \in DOMAIN passed[k] :
         i > RateLimitOf =>
            passed[k][i] - passed[k][i - RateLimitOf] >= RateWindow - MaxSkew
    /\ rateFaults = 0 => waved = 0
=============================================================================
