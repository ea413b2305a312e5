--------------------------- MODULE RecordsV2Proofs ---------------------------
(***************************************************************************)
(* Proofs about the two components behind /api/v2/records, which share no  *)
(* state: the rate limiters (RateLimiters), for any limit, window,         *)
(* capacity, rate of refill, jitter and length of time, and the idempotent *)
(* upsert (Upsert), for any set of clients and any number of rows.         *)
(*                                                                         *)
(* Neither bound of the limiters is inductive as it stands.  For the       *)
(* window one needs that the times are in order, that what was evicted is  *)
(* old for good, and that what is kept never exceeds the limit.  For the   *)
(* bucket the strengthening is a potential: what was drawn since any       *)
(* earlier request, together with what is still in the bucket, is at most  *)
(* one bucket and the refill since.  That a row is reported as created at  *)
(* most once needs that the ids drawn by unanswered INSERTs are different, *)
(* unreported and, until the commit, unused; that the answers name the row *)
(* of the key needs that a committed row keeps the key until a delete or a *)
(* PATCH takes it away.                                                    *)
(***************************************************************************)
EXTENDS RateLimiters, Upsert, TLAPS

WindowInv ==
    /\ \A i \in 1..Len(passed) : passed[i] <= now
    /\ \A i \in 1..evicted : passed[i] < now - WindowSeconds
    /\ Len(passed) - evicted <= Limit

BucketInv ==
    \A i \in 1..Len(drawn) :
        /\ drawn[i] <= refilledAt
        /\ TokenCost * (Len(drawn) - i + 1) + bucket <= Capacity + (refilledAt - drawn[i])

LimiterInv == LimiterTypeOK /\ WindowInv /\ SpanBound /\ BucketInv /\ BurstBound

\* What consume finds in the bucket.
LEMMA RefilledRange ==
    ASSUME LimiterTypeOK
    PROVE  /\ Refilled(now) \in 0..Capacity
           /\ Refilled(now) <= bucket + (now - refilledAt)
BY LimiterAssumption DEF LimiterTypeOK, Refilled, Smaller

\* Appending to a sequence.
LEMMA AppendFacts ==
    ASSUME NEW q \in Seq(Nat), NEW t \in Nat
    PROVE  /\ Append(q, t) \in Seq(Nat)
           /\ Len(q) \in Nat
           /\ Len(Append(q, t)) = Len(q) + 1
           /\ \A i \in 1..Len(q) : Append(q, t)[i] = q[i] /\ q[i] \in Nat
           /\ Append(q, t)[Len(q) + 1] = t
OBVIOUS

LEMMA LimiterTypeInductive == LimiterTypeOK /\ [LimiterNext]_limiterVars => LimiterTypeOK'
<1> SUFFICES ASSUME LimiterTypeOK, [LimiterNext]_limiterVars PROVE LimiterTypeOK'
  OBVIOUS
<1>1. CASE Tick
  BY <1>1 DEF Tick, LimiterTypeOK, windowVars, bucketVars
<1>2. CASE IsAllowed
  <2>1. PICK e \in evicted..Len(passed) :
          /\ evicted' = e
          /\ passed' = IF Allowed(e) THEN Append(passed, now) ELSE passed
          /\ UNCHANGED <<now, bucketVars>>
    BY <1>2 DEF IsAllowed
  <2>2. passed' \in Seq(Nat) /\ Len(passed') \in {Len(passed), Len(passed) + 1}
    BY <2>1, AppendFacts DEF LimiterTypeOK
  <2>3. evicted' \in 0..Len(passed')
    BY <2>1, <2>2, AppendFacts DEF LimiterTypeOK
  <2> QED BY <2>1, <2>2, <2>3 DEF LimiterTypeOK, bucketVars
<1>3. CASE Consume
  <2>1. drawn' \in Seq(Nat)
    BY <1>3, AppendFacts DEF Consume, LimiterTypeOK
  <2>2. bucket' \in 0..Capacity
    BY <1>3, RefilledRange, LimiterAssumption DEF Consume
  <2> QED BY <1>3, <2>1, <2>2 DEF Consume, LimiterTypeOK, windowVars
<1>4. CASE UNCHANGED limiterVars
  BY <1>4 DEF limiterVars, LimiterTypeOK
<1> QED BY <1>1, <1>2, <1>3, <1>4 DEF LimiterNext

\* The request that is let through is more than a window later than the one
\* Limit places before it, because that one is no longer kept.
LEMMA WindowInductive ==
    ASSUME LimiterTypeOK, LimiterTypeOK', WindowInv, SpanBound, [LimiterNext]_limiterVars
    PROVE  WindowInv' /\ SpanBound'
<1>0. /\ now \in Nat /\ evicted \in Nat /\ Len(passed) \in Nat
      /\ passed \in Seq(Nat)
      /\ \A i \in 1..Len(passed) : passed[i] \in Nat
      /\ Limit \in Nat \ {0} /\ WindowSeconds \in Nat
  BY LimiterAssumption DEF LimiterTypeOK
<1>1. CASE Tick
  <2>1. passed' = passed /\ evicted' = evicted /\ now' = now + 1
    BY <1>1 DEF Tick, windowVars
  <2>2. WindowInv'
    <3>1. evicted \in 0..Len(passed)
      BY DEF LimiterTypeOK
    <3> QED BY <1>0, <2>1, <3>1 DEF WindowInv
  <2>3. SpanBound'
    BY <2>1 DEF SpanBound
  <2> QED BY <2>2, <2>3
<1>2. CASE IsAllowed
  <2>1. PICK e \in evicted..Len(passed) :
          /\ Evicts(now, e)
          /\ evicted' = e
          /\ passed' = IF Allowed(e) THEN Append(passed, now) ELSE passed
          /\ now' = now
    BY <1>2 DEF IsAllowed
  <2>2. \A i \in 1..e : passed[i] < now - WindowSeconds
    BY <1>0, <2>1 DEF Evicts, WindowInv
  <2>3. CASE ~Allowed(e)
    BY <1>0, <2>1, <2>2, <2>3 DEF WindowInv, SpanBound
  <2>4. CASE Allowed(e)
    <3>1. /\ Len(passed') = Len(passed) + 1
          /\ \A i \in 1..Len(passed) : passed'[i] = passed[i]
          /\ passed'[Len(passed) + 1] = now
      BY <1>0, <2>1, <2>4, AppendFacts
    <3>2. Len(passed) - e < Limit
      BY <2>4 DEF Allowed
    <3>3. WindowInv'
      BY <1>0, <2>1, <2>2, <3>1, <3>2 DEF WindowInv
    <3>4. SpanBound'
      <4> SUFFICES ASSUME NEW i \in 1..Len(passed'), i + Limit <= Len(passed')
                   PROVE  passed'[i + Limit] - passed'[i] > WindowSeconds
        BY DEF SpanBound
      <4>1. CASE i + Limit <= Len(passed)
        <5>1. i \in 1..Len(passed) /\ i + Limit \in 1..Len(passed)
          BY <1>0, <3>1, <4>1
        <5>2. passed[i + Limit] - passed[i] > WindowSeconds
          BY <4>1, <5>1 DEF SpanBound
        <5>3. passed'[i] = passed[i] /\ passed'[i + Limit] = passed[i + Limit]
          BY <3>1, <5>1
        <5> QED BY <5>2, <5>3
      <4>2. CASE i + Limit = Len(passed) + 1
        <5>1. i \in 1..e /\ i \in 1..Len(passed)
          BY <1>0, <2>1, <3>1, <3>2, <4>2
        <5> QED BY <1>0, <2>2, <3>1, <4>2, <5>1
      <4> QED BY <1>0, <3>1, <4>1, <4>2
    <3> QED BY <3>3, <3>4
  <2> QED BY <2>3, <2>4
<1>3. CASE Consume
  BY <1>3 DEF Consume, windowVars, WindowInv, SpanBound
<1>4. CASE UNCHANGED limiterVars
  BY <1>4 DEF limiterVars, WindowInv, SpanBound
<1> QED BY <1>1, <1>2, <1>3, <1>4 DEF LimiterNext

\* Each token drawn takes as much from the bucket as it adds to the account.
LEMMA BucketInductive ==
    ASSUME LimiterTypeOK, LimiterTypeOK', BucketInv, BurstBound, [LimiterNext]_limiterVars
    PROVE  BucketInv' /\ BurstBound'
<1>0. /\ now \in Nat /\ refilledAt \in Nat /\ refilledAt <= now
      /\ bucket \in Nat /\ Len(drawn) \in Nat /\ drawn \in Seq(Nat)
      /\ \A i \in 1..Len(drawn) : drawn[i] \in Nat
      /\ TokenCost \in Nat /\ Capacity \in Nat
  BY LimiterAssumption DEF LimiterTypeOK
<1>1. CASE Tick \/ IsAllowed \/ UNCHANGED limiterVars
  BY <1>1 DEF Tick, IsAllowed, limiterVars, bucketVars, BucketInv, BurstBound
<1>2. CASE Consume
  <2> DEFINE r == Refilled(now)
             n == Len(drawn)
  <2>1. r \in Nat /\ r <= Capacity /\ r <= bucket + (now - refilledAt)
    BY <1>0, RefilledRange
  <2>2. /\ refilledAt' = now
        /\ \/ r >= TokenCost /\ bucket' = r - TokenCost /\ drawn' = Append(drawn, now)
           \/ bucket' = r /\ drawn' = drawn
    BY <1>2 DEF Consume
  <2> HIDE DEF r
  <2>3. \A i \in 1..n :
          /\ drawn[i] <= now
          /\ TokenCost * (n - i + 1) + r <= Capacity + (now - drawn[i])
    <3> SUFFICES ASSUME NEW i \in 1..n
                 PROVE  /\ drawn[i] <= now
                        /\ TokenCost * (n - i + 1) + r <= Capacity + (now - drawn[i])
      OBVIOUS
    <3> DEFINE spent == TokenCost * (n - i + 1)
    <3>1. drawn[i] <= refilledAt /\ spent + bucket <= Capacity + (refilledAt - drawn[i])
      BY DEF BucketInv
    <3>2. spent \in Int /\ drawn[i] \in Nat
      BY <1>0
    <3> HIDE DEF spent
    <3>3. drawn[i] <= now /\ spent + r <= Capacity + (now - drawn[i])
      BY <1>0, <2>1, <3>1, <3>2
    <3> QED BY <3>3 DEF spent
  <2>4. CASE bucket' = r /\ drawn' = drawn
    <3>1. BucketInv'
      BY <2>2, <2>3, <2>4 DEF BucketInv
    <3>2. BurstBound'
      BY <2>4 DEF BurstBound
    <3> QED BY <3>1, <3>2
  <2>5. CASE r >= TokenCost /\ bucket' = r - TokenCost /\ drawn' = Append(drawn, now)
    <3>1. /\ Len(drawn') = n + 1
          /\ \A i \in 1..n : drawn'[i] = drawn[i]
          /\ drawn'[n + 1] = now
      BY <1>0, <2>5, AppendFacts
    <3>2. ASSUME NEW i \in 1..(n + 1)
          PROVE  /\ drawn'[i] <= now
                 /\ TokenCost * (n + 1 - i + 1) + bucket' <= Capacity + (now - drawn'[i])
      <4>1. CASE i = n + 1
        <5>1. TokenCost * (n + 1 - i + 1) = TokenCost
          BY <1>0, <4>1
        <5> QED BY <1>0, <2>1, <2>5, <3>1, <4>1, <5>1
      <4>2. CASE i \in 1..n
        <5> DEFINE spent == TokenCost * (n - i + 1)
        <5>1. TokenCost * (n + 1 - i + 1) = spent + TokenCost /\ spent \in Int
          BY <1>0, <4>2
        <5>2. drawn'[i] = drawn[i] /\ drawn[i] \in Nat /\ drawn[i] <= now
              /\ spent + r <= Capacity + (now - drawn[i])
          BY <1>0, <2>3, <3>1, <4>2
        <5> HIDE DEF spent
        <5>3. spent + TokenCost + bucket' <= Capacity + (now - drawn[i])
          BY <1>0, <2>1, <2>5, <5>1, <5>2
        <5> QED BY <5>1, <5>2, <5>3
      <4> QED BY <1>0, <3>2, <4>1, <4>2
    <3>3. BucketInv'
      BY <2>2, <3>1, <3>2 DEF BucketInv
    <3>4. BurstBound'
      <4> SUFFICES ASSUME NEW i \in 1..(n + 1), NEW j \in i..(n + 1)
                   PROVE  TokenCost * (j - i + 1) <= Capacity + (drawn'[j] - drawn'[i])
        BY <3>1 DEF BurstBound
      <4>1. CASE j \in 1..n
        <5>1. i \in 1..n /\ j \in i..n
          BY <1>0, <4>1
        <5>2. drawn'[i] = drawn[i] /\ drawn'[j] = drawn[j]
          BY <3>1, <5>1, <4>1
        <5> QED BY <5>1, <5>2 DEF BurstBound
      <4>2. CASE j = n + 1
        <5> DEFINE spent == TokenCost * (n + 1 - i + 1)
        <5>1. spent + bucket' <= Capacity + (now - drawn'[i]) /\ spent \in Int
          BY <1>0, <3>2
        <5>2. bucket' \in Nat /\ drawn'[i] \in Nat
          BY <1>0, <2>1, <2>5, <3>1
        <5> HIDE DEF spent
        <5>3. spent <= Capacity + (now - drawn'[i])
          BY <1>0, <5>1, <5>2
        <5> QED BY <3>1, <4>2, <5>3 DEF spent
      <4> QED BY <1>0, <4>1, <4>2
    <3> QED BY <3>3, <3>4
  <2> QED BY <2>2, <2>4, <2>5
<1> QED BY <1>1, <1>2 DEF LimiterNext

LEMMA LimiterInvHolds == LimiterSpec => []LimiterInv
<1>1. LimiterInit => LimiterInv
  BY LimiterAssumption
  DEF LimiterInit, LimiterInv, LimiterTypeOK, WindowInv, SpanBound, BucketInv, BurstBound
<1>2. LimiterInv /\ [LimiterNext]_limiterVars => LimiterInv'
  BY LimiterTypeInductive, WindowInductive, BucketInductive DEF LimiterInv
<1> QED BY <1>1, <1>2, PTL DEF LimiterSpec

\* The limiters' state is well typed; in particular the bucket never holds
\* more than its capacity nor less than nothing.
THEOREM LimitersTypeCorrect == LimiterSpec => []LimiterTypeOK
BY LimiterInvHolds, PTL DEF LimiterInv

\* The sliding window lets at most Limit requests through in any span of
\* WindowSeconds, for any limit and window.
THEOREM WindowBoundsEverySpan == LimiterSpec => []SpanBound
BY LimiterInvHolds, PTL DEF LimiterInv

\* The token bucket never hands out more than a full bucket and the refill
\* since, between any two requests.
THEOREM BucketBoundsEveryBurst == LimiterSpec => []BurstBound
BY LimiterInvHolds, PTL DEF LimiterInv

-----------------------------------------------------------------------------
(* Retry-After *)

\* The jitter takes at most JitterMin off, and the rounding adds a second.
LEMMA RetryAfterRange ==
    ASSUME NEW b \in Nat, NEW r \in RetryAfter(b)
    PROVE  r \in Nat /\ r + JitterMin >= b + 1
BY LimiterAssumption DEF RetryAfter, Larger

\* After the time ResetIn gives, and one second more, the oldest request the
\* window keeps is no longer counted.
LEMMA WindowAdmitsAfterReset ==
    ASSUME LimiterTypeOK, WindowInv, NEW t \in Nat, t >= now + ResetIn + 1
    PROVE  ResetIn \in Nat /\ WindowAdmits(t)
<1>0. /\ now \in Nat /\ evicted \in 0..Len(passed) /\ Len(passed) \in Nat
      /\ \A i \in 1..Len(passed) : passed[i] \in Nat
      /\ Limit \in Nat \ {0} /\ WindowSeconds \in Nat
      /\ Len(passed) - evicted <= Limit
  BY LimiterAssumption DEF LimiterTypeOK, WindowInv
<1>1. CASE evicted = Len(passed)
  <2>1. \A e \in evicted..Len(passed) : Len(passed) - e < Limit
    BY <1>0, <1>1
  <2> QED BY <1>1, <2>1 DEF ResetIn, WindowAdmits, Allowed
<1>2. CASE evicted < Len(passed)
  <2>1. evicted + 1 \in 1..Len(passed) /\ passed[evicted + 1] \in Nat
    BY <1>0, <1>2
  <2>2. ResetIn \in Nat /\ passed[evicted + 1] + WindowSeconds - now <= ResetIn
    BY <1>0, <1>2, <2>1 DEF ResetIn, Larger
  <2>3. passed[evicted + 1] < t - WindowSeconds
    BY <1>0, <2>1, <2>2
  <2>4. ASSUME NEW e \in evicted..Len(passed), Evicts(t, e)
        PROVE  Len(passed) - e < Limit
    <3>1. e # evicted
      BY <1>0, <1>2, <2>1, <2>3, <2>4 DEF Evicts
    <3> QED BY <1>0, <3>1
  <2> QED BY <2>2, <2>4 DEF WindowAdmits, Allowed
<1> QED BY <1>0, <1>1, <1>2

\* After the time SecondsUntilToken gives the bucket holds a token.
LEMMA BucketAdmitsAfterRefill ==
    ASSUME LimiterTypeOK, NEW t \in Nat, t >= now + SecondsUntilToken
    PROVE  SecondsUntilToken \in Nat /\ BucketAdmits(t)
<1>1. /\ now \in Nat /\ bucket \in Nat /\ refilledAt \in Nat /\ refilledAt <= now
      /\ Capacity \in Nat /\ TokenCost \in Nat /\ Capacity >= TokenCost
  BY LimiterAssumption DEF LimiterTypeOK
<1>2. SecondsUntilToken \in Nat /\ SecondsUntilToken >= TokenCost - Refilled(now)
  BY <1>1 DEF SecondsUntilToken, Refilled, Larger, Smaller
<1>3. Refilled(t) >= TokenCost
  BY <1>1, <1>2 DEF Refilled, Smaller
<1> QED BY <1>2, <1>3 DEF BucketAdmits

\* A denied client that waits as long as Retry-After says, and as long again
\* as the jitter may have taken off, is admitted by either limiter, for any
\* limit, window, capacity, rate and jitter.
THEOREM RetryAfterIsEnough == LimiterSpec => []RetryAfterSuffices
<1>1. ASSUME LimiterTypeOK, WindowInv
      PROVE  RetryAfterSuffices
  <2>0. now \in Nat /\ JitterMin \in Nat
    BY <1>1, LimiterAssumption DEF LimiterTypeOK
  <2>1. ASSUME NEW r \in RetryAfter(ResetIn)
        PROVE  WindowAdmits(now + r + JitterMin)
    <3>1. ResetIn \in Nat
      <4>1. evicted = Len(passed) \/ passed[evicted + 1] \in Nat
        BY <1>1 DEF LimiterTypeOK
      <4> QED BY <1>1, <2>0, <4>1, LimiterAssumption DEF ResetIn, Larger
    <3>2. r \in Nat /\ r + JitterMin >= ResetIn + 1
      BY <2>1, <3>1, RetryAfterRange
    <3>3. now + r + JitterMin \in Nat /\ now + r + JitterMin >= now + ResetIn + 1
      BY <2>0, <3>1, <3>2
    <3> QED BY <1>1, <3>3, WindowAdmitsAfterReset
  <2>2. ASSUME NEW r \in RetryAfter(SecondsUntilToken)
        PROVE  BucketAdmits(now + r + JitterMin)
    <3>1. SecondsUntilToken \in Nat
      BY <1>1, RefilledRange, LimiterAssumption DEF SecondsUntilToken, Larger
    <3>2. r \in Nat /\ r + JitterMin >= SecondsUntilToken + 1
      BY <2>2, <3>1, RetryAfterRange
    <3>3. now + r + JitterMin \in Nat /\ now + r + JitterMin >= now + SecondsUntilToken
      BY <2>0, <3>1, <3>2
    <3> QED BY <1>1, <3>3, BucketAdmitsAfterRefill
  <2> QED BY <2>1, <2>2 DEF RetryAfterSuffices
<1>2. LimiterInv => RetryAfterSuffices
  BY <1>1 DEF LimiterInv
<1> QED BY <1>2, LimiterInvHolds, PTL

-----------------------------------------------------------------------------
(* The idempotent upsert *)

\* The undecided INSERT is that of the one client at its commit, and it was
\* begun because no row held the key.
OneInserter ==
    /\ inserter # NoClient => holder = 0
    /\ \A c \in Clients : pc[c] = "committing" <=> inserter = c

\* The id a request has drawn, until it is answered.
Drawn(c) == pc[c] \in {"committing", "refreshing"}

\* Drawn ids are different, none of them was reported as created, and their
\* rows appear with the commit.
DrawnOnce ==
    /\ \A c \in Clients : Drawn(c) =>
          /\ mine[c] \in 1..(nextId - 1) /\ mine[c] \in Ids /\ created[mine[c]] = 0
          /\ pc[c] = "committing" <=> rows[mine[c]] = "none"
    /\ \A c, d \in Clients : c # d /\ Drawn(c) /\ Drawn(d) => mine[c] # mine[d]

\* There are no rows of ids still to be drawn.
Undrawn == \A i \in Ids : i >= nextId => rows[i] = "none"

HolderPresent == holder # 0 => Present(holder)

\* A row that was committed and not yet reported has the key, unless a delete
\* or a PATCH took it away.
NewRowHolds ==
    \A c \in Clients :
        pc[c] = "refreshing" /\ Present(mine[c]) => mine[c] = holder \/ mine[c] \in moved

UpsertInv ==
    /\ TypeOK
    /\ OneInserter /\ DrawnOnce /\ Undrawn /\ HolderPresent /\ NewRowHolds
    /\ CreatedOnce

-----------------------------------------------------------------------------
LEMMA UpsertTypeInductive ==
    ASSUME UpsertInv, [Next]_vars
    PROVE  TypeOK'
<1>0. /\ MaxId \in Nat /\ Ids = 1..MaxId
      /\ nextId \in 1..(MaxId + 1)
      /\ \A c \in Clients : Drawn(c) => mine[c] \in Ids
  BY UpsertAssumption DEF UpsertInv, TypeOK, Ids, DrawnOnce
<1>1. ASSUME NEW c \in Clients, NEW m \in Modes, Flush(c, m)
      PROVE  TypeOK'
  <2>1. /\ UNCHANGED <<rows, holder, moved, reply, created>>
        /\ mode' = [mode EXCEPT ![c] = m]
        /\ inserter' \in {inserter, c}
        /\ pc' = [pc EXCEPT ![c] = "committing"] \/ pc' = [pc EXCEPT ![c] = "selecting"]
        /\ \/ UNCHANGED <<mine, nextId>>
           \/ /\ nextId <= MaxId /\ nextId' = nextId + 1
              /\ mine' = [mine EXCEPT ![c] = nextId]
    BY <1>1 DEF Flush, Goto, table
  <2>2. nextId' \in 1..(MaxId + 1) /\ mine' \in [Clients -> 0..MaxId]
    BY <1>0, <2>1 DEF UpsertInv, TypeOK
  <2>3. /\ mode' \in [Clients -> Modes] /\ inserter' \in Clients \cup {NoClient}
        /\ pc' \in [Clients -> {"idle", "committing", "refreshing", "selecting"}]
    BY <2>1 DEF UpsertInv, TypeOK
  <2> QED BY <2>1, <2>2, <2>3 DEF UpsertInv, TypeOK
<1>2. ASSUME NEW c \in Clients, Commit(c)
      PROVE  TypeOK'
  <2>1. mine[c] \in Ids
    BY <1>0, <1>2 DEF Commit, Drawn
  <2> QED BY <1>0, <1>2, <2>1 DEF Commit, Store, Goto, UpsertInv, TypeOK
<1>3. ASSUME NEW c \in Clients, CommitFails(c)
      PROVE  TypeOK'
  <2>1. mine[c] \in Ids
    BY <1>0, <1>3 DEF CommitFails, Drawn
  <2>2. /\ rows' \in [Ids -> {"none", "active", "archived", "deleted"}]
        /\ holder' \in 0..MaxId /\ moved' = moved
    <3>1. CASE Store(c)
      <4>1. mine[c] \in 0..MaxId
        BY DEF UpsertInv, TypeOK
      <4> QED BY <2>1, <3>1, <4>1 DEF Store, UpsertInv, TypeOK
    <3>2. CASE UNCHANGED table
      BY <3>2 DEF table, UpsertInv, TypeOK
    <3> QED BY <1>3, <3>1, <3>2 DEF CommitFails
  <2>3. /\ pc' \in [Clients -> {"idle", "committing", "refreshing", "selecting"}]
        /\ reply' \in [Clients -> [status : {0, 200, 201, 409, 500}, id : 0..MaxId]]
    BY <1>0, <1>3 DEF CommitFails, Reply, Goto, UpsertInv, TypeOK
  <2> QED BY <1>3, <2>2, <2>3 DEF CommitFails, UpsertInv, TypeOK
<1>4. ASSUME NEW c \in Clients, Refresh(c)
      PROVE  TypeOK'
  <2>1. mine[c] \in Ids
    BY <1>0, <1>4 DEF Refresh, Drawn
  <2>2. created' \in [Ids -> Nat]
    <3>1. created \in [Ids -> Nat] /\ created[mine[c]] \in Nat
      BY <2>1 DEF UpsertInv, TypeOK
    <3>2. created' = created \/ created' = [created EXCEPT ![mine[c]] = created[mine[c]] + 1]
      BY <1>4 DEF Refresh
    <3> QED BY <2>1, <3>1, <3>2
  <2>3. PICK st \in {201, 500}, i \in 0..MaxId : Reply(c, st, i)
    BY <1>0, <1>4, <2>1 DEF Refresh
  <2>4. reply' \in [Clients -> [status : {0, 200, 201, 409, 500}, id : 0..MaxId]]
    BY <2>3 DEF Reply, UpsertInv, TypeOK
  <2>5. pc' \in [Clients -> {"idle", "committing", "refreshing", "selecting"}]
    BY <2>3 DEF Reply, Goto, UpsertInv, TypeOK
  <2> QED BY <1>4, <2>2, <2>4, <2>5 DEF Refresh, UpsertInv, TypeOK, table
<1>5. ASSUME NEW c \in Clients, StatementFails(c)
      PROVE  TypeOK'
  BY <1>0, <1>5 DEF StatementFails, Reply, Goto, UpsertInv, TypeOK, table
<1>6. ASSUME NEW c \in Clients, SelectExisting(c)
      PROVE  TypeOK'
  <2>1. PICK st \in {200, 409, 500}, i \in 0..MaxId : Reply(c, st, i)
    BY <1>0, <1>6 DEF SelectExisting, UpsertInv, TypeOK
  <2>2. /\ pc' \in [Clients -> {"idle", "committing", "refreshing", "selecting"}]
        /\ reply' \in [Clients -> [status : {0, 200, 201, 409, 500}, id : 0..MaxId]]
    BY <2>1 DEF Reply, Goto, UpsertInv, TypeOK
  <2> QED BY <1>6, <2>2 DEF SelectExisting, UpsertInv, TypeOK, table
<1>7. ASSUME NEW i \in Ids, Archive(i) \/ Delete(i) \/ PatchAway(i) \/ PatchOnto(i)
      PROVE  TypeOK'
  <2>1. /\ rows' \in [Ids -> {"none", "active", "archived", "deleted"}]
        /\ holder' \in 0..MaxId /\ moved' \in SUBSET Ids
        /\ UNCHANGED requests
    <3>1. i \in 0..MaxId /\ 0 \in 0..MaxId
      BY <1>0
    <3>2. CASE Archive(i)
      BY <3>2 DEF Archive, UpsertInv, TypeOK
    <3>3. CASE Delete(i)
      BY <3>1, <3>3 DEF Delete, UpsertInv, TypeOK
    <3>4. CASE PatchAway(i)
      <4>1. moved' \in SUBSET Ids
        BY <3>4 DEF PatchAway, UpsertInv, TypeOK
      <4> QED BY <3>1, <3>4, <4>1 DEF PatchAway, UpsertInv, TypeOK
    <3>5. CASE PatchOnto(i)
      BY <3>1, <3>5 DEF PatchOnto, UpsertInv, TypeOK
    <3> QED BY <1>7, <3>2, <3>3, <3>4, <3>5
  <2> QED BY <2>1 DEF requests, UpsertInv, TypeOK
<1>8. CASE UNCHANGED vars
  BY <1>8 DEF vars, table, UpsertInv, TypeOK
<1> QED BY <1>1, <1>2, <1>3, <1>4, <1>5, <1>6, <1>7, <1>8 DEF Next, Proceed

Facts ==
    /\ OneInserter /\ DrawnOnce /\ Undrawn /\ HolderPresent /\ NewRowHolds
    /\ CreatedOnce

\* The INSERT draws an id nobody has; a rejected one changes no row.
LEMMA FlushStep ==
    ASSUME UpsertInv, TypeOK', NEW c \in Clients, NEW m \in Modes, Flush(c, m)
    PROVE  Facts'
<1>0. /\ nextId \in Nat \ {0} /\ MaxId \in Nat /\ Ids = 1..MaxId
      /\ created \in [Ids -> Nat] /\ mine \in [Clients -> 0..MaxId]
      /\ pc[c] = "idle" /\ inserter = NoClient /\ NoClient \notin Clients
      /\ rows' = rows /\ holder' = holder /\ moved' = moved /\ created' = created
  BY UpsertAssumption DEF Flush, table, UpsertInv, TypeOK, Ids
<1>1. HolderPresent' /\ CreatedOnce'
  BY <1>0 DEF UpsertInv, HolderPresent, Present, CreatedOnce
<1>2. CASE pc' = [pc EXCEPT ![c] = "committing"]
  <2>1. /\ holder = 0 /\ nextId \in Ids /\ inserter' = c
        /\ mine' = [mine EXCEPT ![c] = nextId] /\ nextId' = nextId + 1
    <3>1. pc'[c] = "committing"
      BY <1>2 DEF UpsertInv, TypeOK
    <3>2. ~Goto(c, "selecting")
      BY <3>1 DEF Goto, UpsertInv, TypeOK
    <3> QED BY <1>0, <3>2 DEF Flush
  <2>2. rows[nextId] = "none" /\ created[nextId] = 0
    <3>1. rows[nextId] = "none"
      BY <1>0, <2>1 DEF UpsertInv, Undrawn
    <3> QED BY <1>0, <2>1, <3>1 DEF UpsertInv, CreatedOnce
  <2>3. /\ mine'[c] = nextId /\ pc'[c] = "committing"
        /\ \A d \in Clients : d # c => /\ mine'[d] = mine[d] /\ pc'[d] = pc[d]
                                      /\ (Drawn(d)' <=> Drawn(d))
    BY <1>0, <1>2, <2>1 DEF UpsertInv, TypeOK, Drawn
  <2>4. OneInserter'
    BY <1>0, <2>1, <2>3 DEF UpsertInv, OneInserter
  <2>5. DrawnOnce'
    <3>1. \A d \in Clients : Drawn(d) =>
             /\ mine[d] \in 1..(nextId - 1) /\ mine[d] \in Ids /\ created[mine[d]] = 0
             /\ pc[d] = "committing" <=> rows[mine[d]] = "none"
      BY DEF UpsertInv, DrawnOnce
    <3>2. \A d \in Clients : Drawn(d)' =>
             /\ mine'[d] \in 1..nextId /\ mine'[d] \in Ids /\ created[mine'[d]] = 0
             /\ pc'[d] = "committing" <=> rows[mine'[d]] = "none"
      <4> SUFFICES ASSUME NEW d \in Clients, Drawn(d)'
                   PROVE  /\ mine'[d] \in 1..nextId /\ mine'[d] \in Ids
                          /\ created[mine'[d]] = 0
                          /\ pc'[d] = "committing" <=> rows[mine'[d]] = "none"
        OBVIOUS
      <4>1. CASE d = c
        BY <1>0, <2>1, <2>2, <2>3, <4>1
      <4>2. CASE d # c
        BY <1>0, <2>3, <3>1, <4>2
      <4> QED BY <4>1, <4>2
    <3>3. \A d, e \in Clients : d # e /\ Drawn(d)' /\ Drawn(e)' => mine'[d] # mine'[e]
      <4>1. \A d \in Clients : Drawn(d) => mine[d] # nextId
        BY <1>0, <3>1
      <4>2. \A d, e \in Clients : d # e /\ Drawn(d) /\ Drawn(e) => mine[d] # mine[e]
        BY DEF UpsertInv, DrawnOnce
      <4> QED BY <2>3, <4>1, <4>2
    <3> QED BY <1>0, <2>1, <3>2, <3>3 DEF DrawnOnce
  <2>6. Undrawn'
    BY <1>0, <2>1 DEF UpsertInv, Undrawn
  <2>7. NewRowHolds'
    BY <1>0, <2>3 DEF UpsertInv, NewRowHolds, Present
  <2> QED BY <1>1, <2>4, <2>5, <2>6, <2>7 DEF Facts
<1>3. CASE pc' = [pc EXCEPT ![c] = "selecting"]
  <2>1. UNCHANGED <<inserter, mine, nextId>>
    <3>1. pc'[c] = "selecting"
      BY <1>3 DEF UpsertInv, TypeOK
    <3>2. ~Goto(c, "committing")
      BY <3>1 DEF Goto, UpsertInv, TypeOK
    <3> QED BY <3>2 DEF Flush
  <2>2. pc'[c] = "selecting" /\ \A d \in Clients : d # c => pc'[d] = pc[d]
    BY <1>3 DEF UpsertInv, TypeOK
  <2> QED BY <1>0, <1>1, <2>1, <2>2 DEF Facts, UpsertInv, OneInserter, DrawnOnce, Drawn,
             Undrawn, NewRowHolds, Present
<1> QED BY <1>2, <1>3 DEF Flush, Goto

\* The commit, and a failed commit that happened or not: the new row has the
\* key nobody else holds.
LEMMA CommitStep ==
    ASSUME UpsertInv, TypeOK', NEW c \in Clients, Commit(c) \/ CommitFails(c)
    PROVE  Facts'
<1>0. /\ pc[c] = "committing" /\ inserter = c /\ holder = 0 /\ inserter' = NoClient
      /\ mine[c] \in 1..(nextId - 1) /\ mine[c] \in Ids /\ nextId \in Nat
      /\ rows[mine[c]] = "none" /\ NoClient \notin Clients
      /\ mine' = mine /\ nextId' = nextId /\ created' = created /\ moved' = moved
      /\ Ids = 1..MaxId /\ MaxId \in Nat
  BY UpsertAssumption DEF Commit, CommitFails, Store, table, UpsertInv, TypeOK, OneInserter,
     DrawnOnce, Drawn, Ids
<1>1. /\ pc'[c] \in {"refreshing", "idle"}
      /\ \A d \in Clients : d # c => pc'[d] = pc[d] /\ pc[d] # "committing"
  BY <1>0 DEF Commit, CommitFails, Reply, Goto, UpsertInv, TypeOK, OneInserter
<1>2. OneInserter'
  BY <1>0, <1>1 DEF OneInserter
<1>3. \A d \in Clients : d # c /\ Drawn(d) => mine[d] # mine[c]
  BY <1>0 DEF UpsertInv, DrawnOnce, Drawn
<1>4. CASE rows' = [rows EXCEPT ![mine[c]] = "active"] /\ holder' = mine[c]
  <2>1. /\ rows'[mine[c]] = "active"
        /\ \A i \in Ids : i # mine[c] => rows'[i] = rows[i]
    BY <1>0, <1>4 DEF UpsertInv, TypeOK
  <2>2. DrawnOnce'
    <3> SUFFICES ASSUME NEW d \in Clients, Drawn(d)'
                 PROVE  /\ Drawn(d)
                        /\ mine[d] \in 1..(nextId - 1) /\ mine[d] \in Ids
                        /\ created[mine[d]] = 0
                        /\ pc'[d] = "committing" <=> rows'[mine[d]] = "none"
      BY <1>0 DEF UpsertInv, DrawnOnce
    <3>1. CASE d = c
      BY <1>0, <1>1, <2>1, <3>1 DEF UpsertInv, DrawnOnce, Drawn
    <3>2. CASE d # c
      <4>1. Drawn(d)
        BY <1>1, <3>2 DEF Drawn
      <4>2. /\ mine[d] \in 1..(nextId - 1) /\ mine[d] \in Ids /\ created[mine[d]] = 0
            /\ pc[d] = "committing" <=> rows[mine[d]] = "none"
        BY <4>1 DEF UpsertInv, DrawnOnce
      <4> QED BY <1>1, <1>3, <2>1, <3>2, <4>1, <4>2
    <3> QED BY <3>1, <3>2
  <2>3. Undrawn'
    BY <1>0, <2>1 DEF UpsertInv, Undrawn
  <2>4. HolderPresent'
    BY <1>0, <1>4, <2>1 DEF HolderPresent, Present
  <2>5. NewRowHolds'
    <3> SUFFICES ASSUME NEW d \in Clients, pc'[d] = "refreshing", d # c, Present(mine[d])'
                 PROVE  mine[d] \in moved
      BY <1>0, <1>4 DEF NewRowHolds
    <3>1. pc[d] = "refreshing" /\ mine[d] # mine[c]
      BY <1>1, <1>3 DEF Drawn
    <3>2. Present(mine[d]) /\ mine[d] # 0
      BY <1>0, <2>1, <3>1 DEF Present
    <3> QED BY <1>0, <3>1, <3>2 DEF UpsertInv, NewRowHolds
  <2>6. CreatedOnce'
    BY <1>0, <2>1 DEF UpsertInv, CreatedOnce
  <2> QED BY <1>2, <2>2, <2>3, <2>4, <2>5, <2>6 DEF Facts
<1>5. CASE rows' = rows /\ holder' = holder /\ CommitFails(c)
  <2>1. pc'[c] = "idle"
    BY <1>5 DEF CommitFails, Reply, Goto, UpsertInv, TypeOK
  <2> QED BY <1>0, <1>1, <1>2, <1>5, <2>1 DEF Facts, UpsertInv, DrawnOnce, Drawn, Undrawn,
             HolderPresent, NewRowHolds, Present, CreatedOnce
<1> QED BY <1>4, <1>5 DEF Commit, CommitFails, Store, table

\* The answers; only that of the refresh reports a row as created.
LEMMA AnswerStep ==
    ASSUME UpsertInv, TypeOK', NEW c \in Clients,
           Refresh(c) \/ StatementFails(c) \/ SelectExisting(c)
    PROVE  Facts'
<1>0. /\ UNCHANGED <<rows, holder, moved, inserter, nextId, mine>>
      /\ pc[c] # "committing" /\ pc'[c] = "idle"
      /\ \A d \in Clients : d # c => pc'[d] = pc[d]
      /\ created \in [Ids -> Nat]
  BY DEF Refresh, StatementFails, SelectExisting, Reply, Goto, table, UpsertInv, TypeOK
<1>1. OneInserter'
  BY <1>0 DEF UpsertInv, OneInserter
<1>2. Undrawn' /\ HolderPresent' /\ NewRowHolds'
  BY <1>0 DEF UpsertInv, Undrawn, HolderPresent, NewRowHolds, Present
<1>3. CASE created' = created
  BY <1>0, <1>1, <1>2, <1>3 DEF Facts, UpsertInv, DrawnOnce, Drawn, CreatedOnce
<1>4. CASE created' # created
  <2>1. Refresh(c) /\ pc[c] = "refreshing" /\ Present(mine[c])
    BY <1>4 DEF Refresh, StatementFails, SelectExisting
  <2>2. /\ mine[c] \in Ids /\ created[mine[c]] = 0 /\ rows[mine[c]] # "none"
        /\ created' = [created EXCEPT ![mine[c]] = 1]
    BY <1>0, <1>4, <2>1 DEF Refresh, UpsertInv, DrawnOnce, Drawn, Present
  <2>3. DrawnOnce'
    <3>1. \A d \in Clients : Drawn(d)' => d # c /\ Drawn(d) /\ mine[d] # mine[c]
      BY <1>0, <2>1 DEF Drawn, UpsertInv, DrawnOnce
    <3>2. \A d \in Clients : Drawn(d)' =>
             /\ mine[d] \in 1..(nextId - 1) /\ mine[d] \in Ids /\ created[mine[d]] = 0
             /\ pc'[d] = "committing" <=> rows[mine[d]] = "none"
      BY <1>0, <3>1 DEF UpsertInv, DrawnOnce
    <3>3. \A d \in Clients : Drawn(d)' => created'[mine[d]] = 0
      BY <1>0, <2>2, <3>1, <3>2
    <3>4. \A d, e \in Clients : d # e /\ Drawn(d)' /\ Drawn(e)' => mine[d] # mine[e]
      BY <3>1 DEF UpsertInv, DrawnOnce
    <3> QED BY <1>0, <3>2, <3>3, <3>4 DEF DrawnOnce
  <2>4. CreatedOnce'
    BY <1>0, <2>2 DEF UpsertInv, CreatedOnce
  <2> QED BY <1>1, <1>2, <2>3, <2>4 DEF Facts
<1> QED BY <1>3, <1>4

\* Archives, deletes and PATCHes of a row by others.
LEMMA TableStep ==
    ASSUME UpsertInv, TypeOK', NEW i \in Ids,
           Archive(i) \/ Delete(i) \/ PatchAway(i) \/ PatchOnto(i)
    PROVE  Facts'
<1>0. UNCHANGED <<inserter, nextId, pc, mine, created>> /\ Present(i) /\ 0 \notin Ids
  BY UpsertAssumption DEF Archive, Delete, PatchAway, PatchOnto, Active, Present, requests, Ids
<1>1. /\ \A j \in Ids : j # i => rows'[j] = rows[j]
      /\ rows[i] # "none" /\ rows'[i] # "none"
      /\ moved \subseteq moved'
  BY <1>0 DEF Archive, Delete, PatchAway, PatchOnto, Present, UpsertInv, TypeOK
<1>2. /\ HolderPresent'
      /\ inserter # NoClient => holder' = 0
  <2>1. CASE Archive(i)
    BY <1>0, <1>1, <2>1 DEF Archive, Present, Active, UpsertInv, TypeOK, HolderPresent, OneInserter
  <2>2. CASE Delete(i)
    BY <1>0, <1>1, <2>2 DEF Delete, Present, UpsertInv, TypeOK, HolderPresent, OneInserter
  <2>3. CASE PatchAway(i)
    BY <2>3 DEF PatchAway, HolderPresent
  <2>4. CASE PatchOnto(i)
    BY <2>4 DEF PatchOnto, HolderPresent, Present
  <2> QED BY <2>1, <2>2, <2>3, <2>4
<1>3. \A j \in Ids :
         Present(j)' => Present(j) /\ (j = holder => j = holder' \/ j \in moved')
  BY <1>0, <1>1 DEF Archive, Delete, PatchAway, PatchOnto, Present, Active, UpsertInv, TypeOK
<1>4. OneInserter'
  BY <1>0, <1>2 DEF UpsertInv, OneInserter
<1>5. DrawnOnce' /\ Undrawn' /\ CreatedOnce'
  BY <1>0, <1>1 DEF UpsertInv, DrawnOnce, Drawn, Undrawn, CreatedOnce
<1>6. NewRowHolds'
  BY <1>0, <1>1, <1>3 DEF UpsertInv, NewRowHolds, Present
<1> QED BY <1>2, <1>4, <1>5, <1>6 DEF Facts

LEMMA UpsertInvHolds == Spec => []UpsertInv
<1>1. Init => UpsertInv
  BY UpsertAssumption DEF Init, UpsertInv, TypeOK, OneInserter, DrawnOnce, Drawn,
     Undrawn, HolderPresent, NewRowHolds, CreatedOnce, Ids, Modes
<1>2. UpsertInv /\ [Next]_vars => UpsertInv'
  <2> SUFFICES ASSUME UpsertInv, [Next]_vars PROVE UpsertInv'
    OBVIOUS
  <2>1. TypeOK'
    BY UpsertTypeInductive
  <2>2. ASSUME UNCHANGED vars PROVE Facts'
    <3>1. UNCHANGED <<rows, holder, moved, inserter, nextId, pc, mine, created>>
      BY <2>2 DEF vars, table
    <3>2. OneInserter' /\ DrawnOnce'
      BY <3>1 DEF UpsertInv, OneInserter, DrawnOnce, Drawn
    <3>3. Undrawn' /\ HolderPresent' /\ NewRowHolds' /\ CreatedOnce'
      BY <3>1 DEF UpsertInv, Undrawn, HolderPresent, NewRowHolds, Present, CreatedOnce
    <3> QED BY <3>2, <3>3 DEF Facts
  <2>3. Facts'
    BY <2>1, <2>2, FlushStep, CommitStep, AnswerStep, TableStep DEF Next, Proceed
  <2> QED BY <2>1, <2>3 DEF Facts, UpsertInv
<1> QED BY <1>1, <1>2, PTL DEF Spec

\* Type correctness of the upsert.
THEOREM UpsertTypeCorrect == Spec => []TypeOK
<1>1. UpsertInv => TypeOK
  BY DEF UpsertInv
<1> QED BY <1>1, UpsertInvHolds, PTL

\* Of all overlapping and repeated upserts of a key at most one is told that
\* it created a given row, and only of a row that was committed.
THEOREM RowsCreatedOnce == Spec => []CreatedOnce
<1>1. UpsertInv => CreatedOnce
  BY DEF UpsertInv
<1> QED BY <1>1, UpsertInvHolds, PTL

\* Every answer names a row that is in the table; 200 and 409 name the active
\* row of the key, and so does 201 unless a PATCH took the new row off it.
THEOREM AnswersNameTheRow == Spec => SameRow
<1> DEFINE Named(c) ==
        (pc[c] # "idle" /\ pc'[c] = "idle" /\ reply'[c].status \in {200, 201, 409})
          => LET i == reply'[c].id
             IN  /\ Present(i)
                 /\ i = holder \/ (reply'[c].status = 201 /\ i \in moved)
                 /\ reply'[c].status # 201 => Active(i)
<1>1. UpsertInv /\ [Next]_vars => [\A c \in Clients : Named(c)]_vars
  <2> SUFFICES ASSUME UpsertInv, Next, NEW c \in Clients, pc[c] # "idle", pc'[c] = "idle",
                      reply'[c].status \in {200, 201, 409}
               PROVE  /\ Present(reply'[c].id)
                      /\ \/ reply'[c].id = holder
                         \/ reply'[c].status = 201 /\ reply'[c].id \in moved
                      /\ reply'[c].status # 201 => Active(reply'[c].id)
    OBVIOUS
  <2>1. ASSUME NEW d \in Clients, d # c, NEW l, Goto(d, l)
        PROVE  FALSE
    BY <2>1 DEF Goto, UpsertInv, TypeOK
  <2>2. CASE Refresh(c)
    <3>1. Present(mine[c]) /\ reply'[c].status = 201 /\ reply'[c].id = mine[c]
      BY <2>2 DEF Refresh, Reply, UpsertInv, TypeOK
    <3> QED BY <2>2, <3>1 DEF Refresh, UpsertInv, NewRowHolds
  <2>3. CASE SelectExisting(c)
    <3>1. Active(holder) /\ reply'[c].status \in {200, 409} /\ reply'[c].id = holder
      BY <2>3 DEF SelectExisting, Reply, UpsertInv, TypeOK
    <3> QED BY <3>1 DEF Active, Present
  <2>4. CASE CommitFails(c) \/ StatementFails(c)
    BY <2>4 DEF CommitFails, StatementFails, Reply, UpsertInv, TypeOK
  <2>5. CASE Commit(c) \/ \E m \in Modes : Flush(c, m)
    BY <2>5 DEF Commit, Flush, Goto, UpsertInv, TypeOK
  <2>6. CASE \E i \in Ids : Archive(i) \/ Delete(i) \/ PatchAway(i) \/ PatchOnto(i)
    BY <2>6 DEF Archive, Delete, PatchAway, PatchOnto, requests
  <2> QED BY <2>1, <2>2, <2>3, <2>4, <2>5, <2>6 DEF Next, Proceed, Flush, Commit, Refresh,
             SelectExisting, CommitFails, StatementFails, Reply
<1> QED BY <1>1, UpsertInvHolds, PTL DEF Spec, SameRow
=============================================================================
