---------------------------- MODULE RateLimiters ----------------------------
(***************************************************************************)
(* The token bucket and the sliding window of                              *)
(* ingestor/rate_limiting_advanced.py and the two routes that use them     *)
(* (ingestor/routers/records_v2.py), for one client key: keys share only a *)
(* lock around code that never awaits.                                     *)
(*                                                                         *)
(* Time is in whole seconds.  Tokens are measured by the seconds of refill *)
(* they take: one token is TokenCost = 1 / refill_per_second of them.      *)
(*                                                                         *)
(* Left out: the record the admitted request creates, and the headers      *)
(* other than Retry-After.                                                 *)
(***************************************************************************)
EXTENDS Integers, Sequences

CONSTANTS
    Limit,          \* limit of the sliding window
    WindowSeconds,  \* window_seconds
    Capacity,       \* capacity of the bucket, in seconds of refill
    TokenCost,      \* 1 / refill_per_second
    JitterMin,      \* JITTER_MIN_SECONDS: how much Retry-After may be short
    JitterMax,      \* JITTER_MAX_SECONDS
    MaxTime         \* bound on the clock

ASSUME LimiterAssumption ==
    /\ Limit \in Nat \ {0}
    /\ WindowSeconds \in Nat \ {0}
    /\ TokenCost \in Nat \ {0}
    /\ Capacity \in Nat /\ Capacity >= TokenCost
    /\ JitterMin \in Nat
    /\ JitterMax \in Nat
    /\ MaxTime \in Nat

VARIABLES
    now,        \* time.monotonic()
    passed,     \* the times of all requests the window let through; the
                \* deque is what remains of them
    evicted,    \* how many of them were popped from the deque
    bucket,     \* current_tokens of the bucket
    refilledAt, \* last_refill_monotonic
    drawn       \* ghost: the times of all tokens taken from the bucket

windowVars == <<passed, evicted>>
bucketVars == <<bucket, refilledAt, drawn>>
limiterVars == <<now, passed, evicted, bucket, refilledAt, drawn>>

Smaller(a, b) == IF a <= b THEN a ELSE b
Larger(a, b) == IF a >= b THEN a ELSE b

\* A key seen for the first time has an empty deque and a full bucket.
LimiterInit ==
    /\ now = 0
    /\ passed = <<>>
    /\ evicted = 0
    /\ bucket = Capacity
    /\ refilledAt = 0
    /\ drawn = <<>>

Tick ==
    /\ now < MaxTime
    /\ now' = now + 1
    /\ UNCHANGED <<windowVars, bucketVars>>

-----------------------------------------------------------------------------
(* SlidingWindowLimiter *)

\* The while loop: pop from the left what is older than the cutoff, and
\* stop at the first time that is not.
Evicts(t, e) ==
    /\ e \in evicted..Len(passed)
    /\ \A i \in evicted+1..e : passed[i] < t - WindowSeconds
    /\ e < Len(passed) => passed[e + 1] >= t - WindowSeconds

\* is_allowed
AllowedOneMore(e) == Len(passed) - e <= Limit
Allowed(e) == Len(passed) - e < Limit

IsAllowed ==
    \E e \in evicted..Len(passed) :
        /\ Evicts(now, e)
        /\ evicted' = e
        /\ passed' = IF Allowed(e) THEN Append(passed, now) ELSE passed
        /\ UNCHANGED <<now, bucketVars>>

\* reset_in, without jitter.
ResetIn ==
    IF evicted = Len(passed) THEN 0
    ELSE Larger(0, passed[evicted + 1] + WindowSeconds - now)

-----------------------------------------------------------------------------
(* TokenBucketLimiter *)

Refilled(t) == Smaller(Capacity, bucket + (t - refilledAt))

\* consume, with its one token per request.
ConsumeDeniedUntimed ==
    /\ IF Refilled(now) >= TokenCost
       THEN /\ bucket' = Refilled(now) - TokenCost
            /\ drawn' = Append(drawn, now)
            /\ refilledAt' = now
       ELSE /\ bucket' = Refilled(now)
            /\ UNCHANGED <<drawn, refilledAt>>
    /\ UNCHANGED <<now, windowVars>>
Consume ==
    /\ IF Refilled(now) >= TokenCost
       THEN /\ bucket' = Refilled(now) - TokenCost
            /\ drawn' = Append(drawn, now)
       ELSE /\ bucket' = Refilled(now)
            /\ UNCHANGED drawn
    /\ refilledAt' = now
    /\ UNCHANGED <<now, windowVars>>

\* seconds_until_token, without jitter.
SecondsUntilToken == Larger(0, TokenCost - Refilled(now))

-----------------------------------------------------------------------------
\* The values the Retry-After header of a 429 may have: int(retry_after) + 1
\* of the jittered, clamped time.
RetryAfterRounded(base) == {Larger(0, base + o) : o \in -JitterMin..JitterMax}
RetryAfter(base) == {Larger(0, base + o) + 1 : o \in -JitterMin..JitterMax}

LimiterNext == Tick \/ IsAllowed \/ Consume

LimiterSpec == LimiterInit /\ [][LimiterNext]_limiterVars

-----------------------------------------------------------------------------
LimiterTypeOK ==
    /\ now \in Nat
    /\ passed \in Seq(Nat)
    /\ evicted \in 0..Len(passed)
    /\ bucket \in 0..Capacity
    /\ refilledAt \in 0..now
    /\ drawn \in Seq(Nat)

\* "At most 10 requests are allowed in any 60-second span": the request
\* Limit places after another came more than a window later, however the
\* requests, the denied ones too, fell on the boundaries.
SpanBound ==
    \A i \in 1..Len(passed) :
        i + Limit <= Len(passed) => passed[i + Limit] - passed[i] > WindowSeconds

\* Between any two admitted requests the bucket handed out no more than one
\* full bucket plus what was refilled in between: denied requests, which
\* store the refilled value too, never create tokens.
BurstBound ==
    \A i \in 1..Len(drawn) : \A j \in i..Len(drawn) :
        TokenCost * (j - i + 1) <= Capacity + (drawn[j] - drawn[i])

\* Whether each limiter would admit a request at time t, if none came before.
WindowAdmits(t) == \A e \in evicted..Len(passed) : Evicts(t, e) => Allowed(e)
BucketAdmits(t) == Refilled(t) >= TokenCost

\* A client that was denied and waits as long as Retry-After says, plus the
\* time the jitter may have taken off, is admitted: a request exactly one
\* window old still counts, and the rounding of the header makes up for it.
RetryAfterSuffices ==
    /\ ~WindowAdmits(now) =>
          \A r \in RetryAfter(ResetIn) : WindowAdmits(now + r + JitterMin)
    /\ ~BucketAdmits(now) =>
          \A r \in RetryAfter(SecondsUntilToken) : BucketAdmits(now + r + JitterMin)
=============================================================================
