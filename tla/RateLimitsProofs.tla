-------------------------- MODULE RateLimitsProofs --------------------------
(***************************************************************************)
(* Proofs about RateLimits, for any rates, bursts, limits and bound on     *)
(* keys, and any number of addresses, users and requests.                  *)
(***************************************************************************)
EXTENDS RateLimits, FiniteSetTheorems, SequenceTheorems, WellFoundedInduction, TLAPS

-----------------------------------------------------------------------------
(***************************************************************************)
(* The token bucket.                                                       *)
(***************************************************************************)
BucketTypes ==
  /\ clock \in Time
  /\ tokens \in 0 .. Burst * Cost /\ lastRefill \in Time
  /\ stamp \in [Appliers -> Time \union {NoTime}]
  /\ grants \in Seq(Time)

\* What is left after the grants from the i-th on, if the bucket was full before it.
LeftSince(i) == Burst * Cost + (lastRefill - grants[i]) - (Len(grants) - i + 1) * Cost

\* The bucket holds no more than any past grant leaves: this bounds the next one.
TokensBelow == \A i \in 1 .. Len(grants) : tokens <= LeftSince(i)

BucketInv == BucketTypes /\ TokensBelow /\ BurstBound /\ NeverStingy

\* One more grant at time now takes a token from what every earlier grant leaves.
LEMMA OneMoreGrant ==
  ASSUME BucketTypes, NEW now \in Time, NEW i \in 1 .. Len(grants)
  PROVE  /\ (Len(grants) + 1 - i + 1) * Cost = (Len(grants) - i + 1) * Cost + Cost
         /\ (Len(grants) - i + 1) * Cost \in Int
         /\ Append(grants, now)[i] = grants[i]
         /\ grants[i] \in Int
<1>1. Len(grants) \in Nat /\ Cost \in Nat
  BY LimitsAssumption DEF BucketTypes
<1>2. \A a, b \in Int : (a + 1) * b = a * b + b /\ a * b \in Int
  OBVIOUS
<1>3. Len(grants) - i + 1 \in Int /\ Len(grants) + 1 - i + 1 = (Len(grants) - i + 1) + 1
  BY <1>1
<1> QED
  BY <1>1, <1>2, <1>3, LimitsAssumption DEF BucketTypes, Time

\* The refill adds at most the time that passed, stops at the burst, and takes nothing.
LEMMA RefilledFacts ==
  ASSUME BucketTypes, NEW now \in Time, now >= lastRefill
  PROVE  /\ Refilled(now) \in 0 .. Burst * Cost
         /\ Refilled(now) <= tokens + (now - lastRefill)
         /\ Refilled(now) = Burst * Cost \/ Refilled(now) = tokens + (now - lastRefill)
         /\ tokens = Burst * Cost => Refilled(now) = Burst * Cost
<1>1. Burst * Cost \in Int /\ tokens \in Int /\ now \in Int /\ lastRefill \in Int
  BY LimitsAssumption DEF BucketTypes, Time
<1> QED
  BY <1>1 DEF BucketTypes, Refilled

\* A refusal for want of tokens keeps the refill, so nothing is lost by asking.
LEMMA RefuseEmptyKeeps ==
  ASSUME BucketInv, NEW g \in Appliers, RefuseEmpty(g)
  PROVE  BucketInv'
<1> DEFINE now == stamp[g]
<1>1. now \in Time /\ now >= lastRefill
  BY DEF RefuseEmpty, BucketInv, BucketTypes
<1>2. /\ tokens' = Refilled(now) /\ lastRefill' = now /\ UNCHANGED <<clock, grants>>
      /\ stamp' \in [Appliers -> Time \union {NoTime}]
  BY DEF RefuseEmpty, Asked, BucketInv, BucketTypes
<1>3. BucketTypes'
  BY <1>1, <1>2, RefilledFacts DEF BucketInv, BucketTypes
<1>4. \A i \in 1 .. Len(grants) : LeftSince(i)' = LeftSince(i) + (now - lastRefill) /\ LeftSince(i) \in Int
  <2> TAKE i \in 1 .. Len(grants)
  <2>1. (Len(grants) - i + 1) * Cost \in Int /\ grants[i] \in Int
    BY <1>1, OneMoreGrant DEF BucketInv
  <2>2. Burst * Cost \in Int /\ now \in Int /\ lastRefill \in Int
    BY <1>1, LimitsAssumption DEF BucketInv, BucketTypes, Time
  <2>3. PICK b \in Int, d \in Int : b = Burst * Cost /\ d = (Len(grants) - i + 1) * Cost
    BY <2>1, <2>2
  <2>4. /\ LeftSince(i) = b + (lastRefill - grants[i]) - d
        /\ LeftSince(i)' = b + (now - grants[i]) - d
    BY <1>2, <2>3 DEF LeftSince
  <2>5. grants[i] \in Int /\ now \in Int /\ lastRefill \in Int
    BY <2>1, <2>2
  <2> QED
    BY <2>4, <2>5
<1>5. now \in Int /\ lastRefill \in Int /\ tokens \in Int /\ Burst * Cost \in Int /\ Refilled(now) \in Int
  BY <1>1, RefilledFacts, LimitsAssumption DEF BucketInv, BucketTypes, Time
<1>6. TokensBelow'
  <2> SUFFICES ASSUME NEW i \in 1 .. Len(grants) PROVE tokens' <= LeftSince(i)'
    BY <1>2 DEF TokensBelow
  <2>1. tokens <= LeftSince(i) /\ Refilled(now) <= tokens + (now - lastRefill)
    BY <1>1, RefilledFacts DEF BucketInv, TokensBelow
  <2> QED
    BY <1>2, <1>4, <1>5, <2>1
<1>7. NeverStingy'
  <2>1. CASE Refilled(now) = Burst * Cost
    BY <1>2, <2>1 DEF NeverStingy
  <2>2. CASE Refilled(now) = tokens + (now - lastRefill) /\ Refilled(now) # Burst * Cost
    <3>1. PICK i \in DOMAIN grants : tokens = LeftSince(i)
      BY <1>1, <2>2, RefilledFacts DEF BucketInv, NeverStingy, LeftSince
    <3>2. i \in 1 .. Len(grants)
      BY <3>1 DEF BucketInv, BucketTypes
    <3>3. tokens' = LeftSince(i)'
      BY <1>2, <1>4, <1>5, <2>2, <3>1, <3>2
    <3> QED
      BY <1>2, <3>1, <3>3 DEF NeverStingy, LeftSince
  <2> QED
    BY <1>1, <2>1, <2>2, RefilledFacts DEF BucketInv
<1> QED
  BY <1>2, <1>3, <1>6, <1>7 DEF BucketInv, BurstBound

\* A grant takes one token from what was left, and from what every earlier grant leaves.
LEMMA GrantKeeps ==
  ASSUME BucketInv, NEW g \in Appliers, Grant(g)
  PROVE  BucketInv'
<1> DEFINE now == stamp[g]
<1>0. PICK n \in Nat : n = Len(grants)
  BY DEF BucketInv, BucketTypes
<1>1. now \in Time /\ now >= lastRefill /\ Refilled(now) >= Cost
  BY DEF Grant, BucketInv, BucketTypes
<1>2. /\ tokens' = Refilled(now) - Cost /\ lastRefill' = now /\ clock' = clock
      /\ grants' = Append(grants, now)
      /\ stamp' \in [Appliers -> Time \union {NoTime}]
  BY DEF Grant, Asked, BucketInv, BucketTypes
<1>3. /\ now \in Int /\ lastRefill \in Int /\ tokens \in Int /\ Burst * Cost \in Int
      /\ Refilled(now) \in 0 .. Burst * Cost /\ Cost \in Nat \ {0} /\ n \in Nat
  BY <1>0, <1>1, RefilledFacts, LimitsAssumption DEF BucketInv, BucketTypes, Time
<1>4. /\ Len(grants') = n + 1 /\ grants' \in Seq(Time) /\ grants'[n + 1] = now
      /\ \A i \in 1 .. n : grants'[i] = grants[i]
  BY <1>0, <1>1, <1>2 DEF BucketInv, BucketTypes
<1>5. BucketTypes'
  BY <1>1, <1>2, <1>3, <1>4 DEF BucketInv, BucketTypes
<1>6. /\ \A i \in 1 .. n : /\ LeftSince(i)' = LeftSince(i) + (now - lastRefill) - Cost
                           /\ LeftSince(i) \in Int
                           /\ tokens <= LeftSince(i)
      /\ LeftSince(n + 1)' = Burst * Cost - Cost
  <2>1. ASSUME NEW i \in 1 .. n
        PROVE  /\ LeftSince(i)' = LeftSince(i) + (now - lastRefill) - Cost
               /\ LeftSince(i) \in Int
    <3>1. /\ (n + 1 - i + 1) * Cost = (n - i + 1) * Cost + Cost /\ (n - i + 1) * Cost \in Int
          /\ grants[i] \in Int
      BY <1>0, <1>1, OneMoreGrant DEF BucketInv
    <3>2. LeftSince(i) = Burst * Cost + (lastRefill - grants[i]) - (n - i + 1) * Cost
      BY <1>0 DEF LeftSince
    <3>3. LeftSince(i)' = Burst * Cost + (now - grants[i]) - (n + 1 - i + 1) * Cost
      BY <1>2, <1>4 DEF LeftSince
    <3>4. PICK b \in Int, d \in Int : b = Burst * Cost /\ d = (n - i + 1) * Cost
      BY <1>3, <3>1
    <3>5. /\ LeftSince(i) = b + (lastRefill - grants[i]) - d
          /\ LeftSince(i)' = b + (now - grants[i]) - (d + Cost)
      BY <3>1, <3>2, <3>3, <3>4
    <3>6. now \in Int /\ lastRefill \in Int /\ grants[i] \in Int /\ Cost \in Int
      BY <1>3, <3>1
    <3> QED
      BY <3>5, <3>6
  <2>2. LeftSince(n + 1)' = Burst * Cost + (now - now) - (n + 1 - (n + 1) + 1) * Cost
    BY <1>2, <1>4 DEF LeftSince
  <2>3. n + 1 - (n + 1) + 1 = 1 /\ 1 * Cost = Cost
    BY <1>3
  <2> QED
    BY <1>0, <1>3, <2>1, <2>2, <2>3 DEF BucketInv, TokensBelow
<1>7. Refilled(now) <= tokens + (now - lastRefill)
  BY <1>1, RefilledFacts DEF BucketInv
<1>8. TokensBelow'
  <2> SUFFICES ASSUME NEW i \in 1 .. n + 1 PROVE tokens' <= LeftSince(i)'
    BY <1>4 DEF TokensBelow
  <2>1. CASE i = n + 1
    BY <1>2, <1>3, <1>6, <2>1
  <2>2. CASE i \in 1 .. n
    <3>1. /\ LeftSince(i)' = LeftSince(i) + (now - lastRefill) - Cost
          /\ LeftSince(i) \in Int /\ tokens <= LeftSince(i)
      BY <1>6, <2>2
    <3>2. Refilled(now) - Cost <= LeftSince(i) + (now - lastRefill) - Cost
      BY <1>3, <1>7, <3>1
    <3> QED
      BY <1>2, <3>1, <3>2
  <2> QED
    BY <1>3, <2>1, <2>2
<1>9. BurstBound'
  <2> SUFFICES ASSUME NEW i \in 1 .. n + 1, NEW j \in 1 .. n + 1, i <= j
               PROVE  (j - i + 1) * Cost <= Burst * Cost + (grants'[j] - grants'[i])
    BY <1>4 DEF BurstBound
  <2>1. CASE j \in 1 .. n
    <3>1. i \in 1 .. n /\ DOMAIN grants = 1 .. n
      BY <1>0, <1>3, <2>1 DEF BucketInv, BucketTypes
    <3>2. (j - i + 1) * Cost <= Burst * Cost + (grants[j] - grants[i])
      BY <2>1, <3>1 DEF BucketInv, BurstBound
    <3> QED
      BY <1>4, <2>1, <3>1, <3>2
  <2>2. CASE j = n + 1 /\ i \in 1 .. n
    <3>1. Cost <= LeftSince(i) + (now - lastRefill)
      BY <1>1, <1>3, <1>6, <1>7, <2>2
    <3>2. /\ (n + 1 - i + 1) * Cost = (n - i + 1) * Cost + Cost /\ (n - i + 1) * Cost \in Int
          /\ grants[i] \in Int
      BY <1>0, <1>1, <2>2, OneMoreGrant DEF BucketInv
    <3>3. j - i + 1 = n + 1 - i + 1 /\ grants'[j] = now /\ grants'[i] = grants[i]
      BY <1>3, <1>4, <2>2
    <3>4. LeftSince(i) = Burst * Cost + (lastRefill - grants[i]) - (n - i + 1) * Cost
      BY <1>0 DEF LeftSince
    <3>5. (n - i + 1) * Cost + Cost <= Burst * Cost + (now - grants[i])
      BY <1>3, <3>1, <3>2, <3>4
    <3> QED
      BY <3>2, <3>3, <3>5
  <2>3. CASE j = n + 1 /\ i = n + 1
    <3>1. j - i + 1 = 1 /\ 1 * Cost = Cost /\ grants'[j] - grants'[i] = 0
      BY <1>3, <1>4, <2>3
    <3> QED
      BY <1>1, <1>3, <3>1
  <2> QED
    BY <1>3, <2>1, <2>2, <2>3
<1>10. NeverStingy'
  <2>0. DOMAIN grants' = 1 .. n + 1
    BY <1>4
  <2>1. CASE Refilled(now) = Burst * Cost
    <3>1. n + 1 \in DOMAIN grants' /\ tokens' = LeftSince(n + 1)'
      BY <1>2, <1>3, <1>6, <2>0, <2>1
    <3>2. \E i \in DOMAIN grants' : tokens' = LeftSince(i)'
      BY <3>1, Zenon
    <3> QED
      BY <3>2 DEF NeverStingy, LeftSince
  <2>2. CASE Refilled(now) = tokens + (now - lastRefill) /\ Refilled(now) # Burst * Cost
    <3>1. PICK i \in DOMAIN grants : tokens = LeftSince(i)
      BY <1>1, <2>2, RefilledFacts DEF BucketInv, NeverStingy, LeftSince
    <3>2. i \in 1 .. n
      BY <1>0, <3>1 DEF BucketInv, BucketTypes
    <3>3. tokens' = LeftSince(i)'
      <4>1. LeftSince(i)' = LeftSince(i) + (now - lastRefill) - Cost
        BY <1>6, <3>2
      <4>2. tokens' = Refilled(now) - Cost /\ Refilled(now) = tokens + (now - lastRefill)
        BY <1>2, <2>2
      <4>3. /\ tokens \in Int /\ now \in Int /\ lastRefill \in Int /\ Cost \in Int
            /\ Refilled(now) \in Int /\ tokens = LeftSince(i)
        BY <1>3, <3>1
      <4> QED
        BY <4>1, <4>2, <4>3
    <3> QED
      BY <1>3, <1>4, <2>0, <3>2, <3>3 DEF NeverStingy, LeftSince
  <2> QED
    BY <1>1, <2>1, <2>2, RefilledFacts DEF BucketInv
<1> QED
  BY <1>5, <1>8, <1>9, <1>10 DEF BucketInv

\* Steps that leave the tokens alone.
LEMMA ClockAndStampsKeep ==
  ASSUME BucketInv, clock' \in Time, stamp' \in [Appliers -> Time \union {NoTime}],
         UNCHANGED <<tokens, lastRefill, grants>>
  PROVE  BucketInv'
BY DEF BucketInv, BucketTypes, TokensBelow, LeftSince, BurstBound, NeverStingy

\* Every step of the bucket, the clock or a login keeps what is known of the bucket.
LEMMA BucketStepKeeps == BucketInv /\ [Next]_vars => BucketInv'
<1> SUFFICES ASSUME BucketInv, [Next]_vars PROVE BucketInv'
  OBVIOUS
<1> USE DEF BucketInv, BucketTypes
<1>1. ASSUME NEW g \in Appliers, ReadClock(g) \/ RefuseStale(g) PROVE BucketInv'
  <2>1. clock' = clock /\ UNCHANGED <<tokens, lastRefill, grants>>
    BY <1>1 DEF ReadClock, RefuseStale
  <2>2. stamp' \in [Appliers -> Time \union {NoTime}]
    BY <1>1 DEF ReadClock, RefuseStale, Asked
  <2> QED
    BY <2>1, <2>2, ClockAndStampsKeep
<1>2. CASE CloserEnds
  <2>1. clock' = clock /\ UNCHANGED <<tokens, lastRefill, grants>>
    BY <1>2 DEF CloserEnds
  <2>2. stamp' \in [Appliers -> Time \union {NoTime}]
    BY <1>2 DEF CloserEnds
  <2> QED
    BY <2>1, <2>2, ClockAndStampsKeep
<1>3. CASE Tick
  <2>1. clock' \in Time
    BY <1>3, LimitsAssumption DEF Tick, Time
  <2> QED
    BY <1>3, <2>1, ClockAndStampsKeep DEF Tick, bucketVars
<1>4. CASE LoginStep
  <2>1. UNCHANGED <<clock, bucketVars>>
    BY <1>4 DEF LoginStep, Begin, TryConsumeLoginLimit, Fails, Succeeds
  <2> QED
    BY <2>1, ClockAndStampsKeep DEF bucketVars
<1>5. CASE UNCHANGED vars
  BY <1>5, ClockAndStampsKeep DEF vars, bucketVars
<1> QED
  BY <1>1, <1>2, <1>3, <1>4, <1>5, RefuseEmptyKeeps, GrantKeeps DEF Next, BucketStep

\* A new bucket is full and has granted nothing.
LEMMA BucketInit == Init => BucketInv
<1> SUFFICES ASSUME Init PROVE BucketInv
  OBVIOUS
<1>1. Burst * Cost \in Nat
  BY LimitsAssumption
<1>2. BucketTypes
  BY <1>1, LimitsAssumption DEF Init, BucketTypes, Time
<1> QED
  BY <1>2 DEF Init, BucketInv, TokensBelow, BurstBound, NeverStingy

\* No interval of clips exceeds the burst and what was refilled in it, whatever times the
\* two goroutines that call TryAcquire pass and in whatever order.
THEOREM ClipsWithinBurst == Spec => []BurstBound
<1>1. BucketInv => BurstBound
  BY DEF BucketInv
<1> QED
  BY <1>1, BucketInit, BucketStepKeeps, PTL DEF Spec

\* TryAcquire loses no token: what the bucket holds is exactly what past grants leave.
THEOREM NoTokenLost == Spec => []NeverStingy
<1>1. BucketInv => NeverStingy
  BY DEF BucketInv
<1> QED
  BY <1>1, BucketInit, BucketStepKeeps, PTL DEF Spec

-----------------------------------------------------------------------------
(***************************************************************************)
(* The login limiter.                                                      *)
(***************************************************************************)
\* A window w of key k against the attempts c counted for it, at time t: the window is
\* the end of what was counted, and what it no longer has is a minute old.
WindowOf(w, c, k, t) ==
  /\ Len(w) <= Limit(k) /\ Len(w) <= Len(c)
  /\ \A i \in 1 .. Len(w) : w[i] = c[Len(c) - Len(w) + i]
  /\ \A i \in 1 .. Len(c) - Len(w) : c[i] <= t - Minute

Used(w) == {k \in Keys : w[k] # <<>>}

\* All windows w and counts c at time t.
WindowsGood(w, c, t) ==
  /\ w \in [Keys -> Seq(Time)] /\ c \in [Keys -> Seq(Time)]
  /\ \A k \in Keys : WindowOf(w[k], c[k], k, t)
  /\ IsFiniteSet(Used(w)) /\ Cardinality(Used(w)) <= MaxKeys

RequestsGood ==
  /\ request \in [Requests -> Asking \union {Idle}]
  /\ \A r \in Requests : request[r] # Idle => request[r].now <= clock

LimiterInv == clock \in Time /\ WindowsGood(windows, counted, clock) /\ RequestsGood

\* The loop of removeExpiredLocked stops: it takes expired times off the front.
LEMMA CutoffTakesFront ==
  ASSUME NEW times \in Seq(Time), NEW cutoff \in Int
  PROVE  \E n \in 0 .. Len(times) :
           /\ AfterCutoff(times, cutoff) = SubSeq(times, n + 1, Len(times))
           /\ \A i \in 1 .. n : times[i] <= cutoff
<1> DEFINE Stops(m) == m = Len(times) \/ times[m + 1] > cutoff
           T == {m \in 0 .. Len(times) : Stops(m)}
           Expired(m) == /\ \A i \in 1 .. m : times[i] <= cutoff
                         /\ m = Len(times) \/ times[m + 1] > cutoff
<1>0. Len(times) \in Nat /\ \A i \in 1 .. Len(times) : times[i] \in Int
  BY LimitsAssumption DEF Time
<1>1. T \subseteq Nat /\ T # {}
  BY <1>0
<1>2. PICK m \in T : \A y \in T : ~(<<y, m>> \in OpToRel(<, Nat))
  <2> HIDE DEF T
  <2> QED
    BY <1>1, NatLessThanWellFounded, WFMin
<1>3. \A y \in T : ~(y < m)
  BY <1>1, <1>2 DEF OpToRel
<1>4. \A i \in 1 .. m : times[i] <= cutoff
  <2> SUFFICES ASSUME NEW i \in 1 .. m, times[i] > cutoff PROVE FALSE
    BY <1>0
  <2>1. i - 1 \in 0 .. Len(times) /\ (i - 1) + 1 = i /\ i - 1 < m
    BY <1>0
  <2>2. i - 1 \in T
    BY <2>1
  <2> QED
    BY <1>3, <2>1, <2>2
<1>5. \E n \in 0 .. Len(times) : Expired(n)
  BY <1>4
<1>6. LET n == CHOOSE l \in 0 .. Len(times) : Expired(l)
      IN  n \in 0 .. Len(times) /\ Expired(n)
  <2> HIDE DEF Expired
  <2> QED
    BY <1>5
<1>7. AfterCutoff(times, cutoff) =
        LET n == CHOOSE l \in 0 .. Len(times) : Expired(l) IN SubSeq(times, n + 1, Len(times))
  BY DEF AfterCutoff
<1> QED
  BY <1>6, <1>7

\* Expiring a window up to a minute ago leaves it a window of what was counted.
LEMMA ExpiringKeeps ==
  ASSUME NEW w \in Seq(Time), NEW c \in Seq(Time), NEW k \in Keys, NEW t \in Int,
         WindowOf(w, c, k, t), NEW cutoff \in Int, cutoff <= t - Minute
  PROVE  /\ AfterCutoff(w, cutoff) \in Seq(Time)
         /\ WindowOf(AfterCutoff(w, cutoff), c, k, t)
         /\ w = <<>> => AfterCutoff(w, cutoff) = <<>>
<1>1. PICK n \in 0 .. Len(w) : /\ AfterCutoff(w, cutoff) = SubSeq(w, n + 1, Len(w))
                               /\ \A i \in 1 .. n : w[i] <= cutoff
  BY CutoffTakesFront
<1> DEFINE x == SubSeq(w, n + 1, Len(w))
<1>2. Len(w) \in Nat /\ Len(c) \in Nat /\ Limit(k) \in Nat /\ Minute \in Nat
  BY LimitsAssumption DEF Limit
<1>3. \A i \in 1 .. Len(w) : w[i] \in Time
  BY <1>2
<1>4. \A i \in 1 .. Len(c) : c[i] \in Int
  BY <1>2, LimitsAssumption DEF Time
<1>5. /\ x \in Seq(Time) /\ Len(x) = Len(w) - n
      /\ \A i \in 1 .. Len(w) - n : x[i] = w[n + i]
  <2>1. \A i \in n + 1 .. Len(w) : w[i] \in Time
    BY <1>2, <1>3
  <2>2. /\ x \in Seq(Time) /\ Len(x) = IF n + 1 <= Len(w) THEN Len(w) - (n + 1) + 1 ELSE 0
        /\ \A i \in 1 .. Len(w) - (n + 1) + 1 : x[i] = w[n + 1 + i - 1]
    BY <1>2, <2>1, SubSeqProperties
  <2> QED
    BY <1>2, <2>2
<1> HIDE DEF x
<1>6. \A i \in 1 .. Len(x) : x[i] = c[Len(c) - Len(x) + i]
  <2> TAKE i \in 1 .. Len(x)
  <2>0. Len(x) = Len(w) - n /\ n \in Int /\ i \in Int /\ Len(w) \in Int /\ Len(c) \in Int
    BY <1>2, <1>5
  <2>1. n + i \in 1 .. Len(w) /\ x[i] = w[n + i] /\ Len(c) - Len(w) + (n + i) = Len(c) - Len(x) + i
    BY <1>5, <2>0
  <2>2. w[n + i] = c[Len(c) - Len(w) + (n + i)]
    BY <2>1 DEF WindowOf
  <2> QED
    BY <2>1, <2>2
<1>7. \A i \in 1 .. Len(c) - Len(x) : c[i] <= t - Minute
  <2> TAKE i \in 1 .. Len(c) - Len(x)
  <2>1. CASE i <= Len(c) - Len(w)
    BY <1>2, <2>1 DEF WindowOf
  <2>2. CASE i > Len(c) - Len(w)
    <3> DEFINE l == i - (Len(c) - Len(w))
    <3>1. l \in 1 .. n /\ l \in 1 .. Len(w) /\ Len(c) - Len(w) + l = i
      BY <1>2, <1>5, <2>2
    <3>2. w[l] = c[i] /\ w[l] <= cutoff
      BY <1>1, <3>1 DEF WindowOf
    <3>3. c[i] \in Int
      BY <1>2, <1>4, <1>5
    <3> QED
      BY <1>2, <3>2, <3>3
  <2> QED
    BY <1>2, <1>5, <2>1, <2>2
<1>8. Len(x) <= Limit(k) /\ Len(x) <= Len(c)
  BY <1>2, <1>5 DEF WindowOf
<1>9. w = <<>> => x = <<>>
  BY <1>5
<1>10. AfterCutoff(w, cutoff) = x
  BY <1>1 DEF x
<1> QED
  BY <1>5, <1>6, <1>7, <1>8, <1>9, <1>10 DEF WindowOf

\* Counting an attempt in a window that is below its limit.
LEMMA CountingKeeps ==
  ASSUME NEW w \in Seq(Time), NEW c \in Seq(Time), NEW k \in Keys, NEW t \in Int,
         WindowOf(w, c, k, t), Len(w) < Limit(k), NEW now \in Time
  PROVE  WindowOf(Append(w, now), Append(c, now), k, t)
<1> DEFINE x == Append(w, now)
           y == Append(c, now)
<1>1. Len(w) \in Nat /\ Len(c) \in Nat /\ Limit(k) \in Nat
  BY LimitsAssumption DEF Limit
<1>2. /\ Len(x) = Len(w) + 1 /\ x[Len(w) + 1] = now /\ \A i \in 1 .. Len(w) : x[i] = w[i]
      /\ Len(y) = Len(c) + 1 /\ y[Len(c) + 1] = now /\ \A i \in 1 .. Len(c) : y[i] = c[i]
  OBVIOUS
<1>3. Len(w) <= Len(c) /\ Len(y) - Len(x) = Len(c) - Len(w)
  BY <1>1, <1>2 DEF WindowOf
<1> HIDE DEF x, y
<1>4. \A i \in 1 .. Len(x) : x[i] = y[Len(y) - Len(x) + i]
  <2> TAKE i \in 1 .. Len(x)
  <2>1. CASE i = Len(w) + 1
    <3>1. Len(y) - Len(x) + i = Len(c) + 1
      BY <1>1, <1>3, <2>1
    <3> QED
      BY <1>2, <2>1, <3>1
  <2>2. CASE i \in 1 .. Len(w)
    <3>1. Len(y) - Len(x) + i = Len(c) - Len(w) + i /\ Len(c) - Len(w) + i \in 1 .. Len(c)
      BY <1>1, <1>3, <2>2
    <3>2. w[i] = c[Len(c) - Len(w) + i]
      BY <2>2 DEF WindowOf
    <3> QED
      BY <1>2, <2>2, <3>1, <3>2
  <2> QED
    BY <1>1, <1>2, <2>1, <2>2
<1>5. \A i \in 1 .. Len(y) - Len(x) : y[i] <= t - Minute
  <2> TAKE i \in 1 .. Len(y) - Len(x)
  <2>1. i \in 1 .. Len(c) - Len(w) /\ i \in 1 .. Len(c)
    BY <1>1, <1>3
  <2> QED
    BY <1>2, <2>1 DEF WindowOf
<1>6. Len(x) <= Limit(k) /\ Len(x) <= Len(y)
  BY <1>1, <1>2, <1>3
<1> QED
  BY <1>4, <1>5, <1>6 DEF WindowOf, x, y

\* tryConsume for a key that is allowed: its window, its count and the bound on keys.
LEMMA ConsumeKeeps ==
  ASSUME NEW w, NEW c, NEW t \in Int, WindowsGood(w, c, t), NEW k \in Keys, Allowed(w, k),
         NEW now \in Time
  PROVE  WindowsGood(Count(w, k, now), Count(c, k, now), t)
<1> DEFINE x == Count(w, k, now)
           y == Count(c, k, now)
<1>1. /\ w \in [Keys -> Seq(Time)] /\ c \in [Keys -> Seq(Time)]
      /\ IsFiniteSet(Used(w)) /\ Cardinality(Used(w)) <= MaxKeys
  BY DEF WindowsGood
<1>2. /\ x \in [Keys -> Seq(Time)] /\ y \in [Keys -> Seq(Time)]
      /\ x[k] = Append(w[k], now) /\ y[k] = Append(c[k], now)
      /\ \A j \in Keys \ {k} : x[j] = w[j] /\ y[j] = c[j]
  BY <1>1 DEF Count
<1>3. \A j \in Keys : WindowOf(x[j], y[j], j, t)
  <2>1. WindowOf(x[k], y[k], k, t)
    BY <1>1, <1>2, CountingKeeps DEF WindowsGood, Allowed
  <2>2. \A j \in Keys \ {k} : WindowOf(x[j], y[j], j, t)
    BY <1>2 DEF WindowsGood
  <2> QED
    BY <2>1, <2>2
<1>4. Used(x) = Used(w) \union {k}
  <2>1. Len(x[k]) = Len(w[k]) + 1 /\ Len(w[k]) \in Nat /\ Len(<<>>) = 0
    BY <1>1, <1>2
  <2>2. x[k] # <<>>
    BY <2>1
  <2> QED
    BY <1>2, <2>2 DEF Used
<1>5. IsFiniteSet(Used(x)) /\ Cardinality(Used(x)) <= MaxKeys
  <2>1. /\ IsFiniteSet(Used(w) \union {k})
        /\ Cardinality(Used(w) \union {k}) =
             IF k \in Used(w) THEN Cardinality(Used(w)) ELSE Cardinality(Used(w)) + 1
    BY <1>1, FS_AddElement
  <2>2. k \notin Used(w) => Cardinality(Used(w)) < MaxKeys
    BY DEF Used, Allowed, HasRoom
  <2>3. Cardinality(Used(w)) \in Nat /\ MaxKeys \in Nat
    BY <1>1, FS_CardinalityType, LimitsAssumption
  <2> QED
    BY <1>1, <1>4, <2>1, <2>2, <2>3
<1> QED
  BY <1>2, <1>3, <1>5 DEF WindowsGood

\* removeExpiredLocked with a cutoff at least a minute ago.
LEMMA RemoveExpiredKeeps ==
  ASSUME LimiterInv, NEW cutoff \in Int, cutoff <= clock - Minute
  PROVE  WindowsGood(RemoveExpired(cutoff), counted, clock)
<1>1. /\ windows \in [Keys -> Seq(Time)] /\ counted \in [Keys -> Seq(Time)] /\ clock \in Int
      /\ \A k \in Keys : WindowOf(windows[k], counted[k], k, clock)
      /\ IsFiniteSet(Used(windows)) /\ Cardinality(Used(windows)) <= MaxKeys
  BY LimitsAssumption DEF LimiterInv, WindowsGood, Time
<1>2. PICK x : x = RemoveExpired(cutoff)
  OBVIOUS
<1>3. ASSUME NEW k \in Keys
      PROVE  /\ x[k] \in Seq(Time) /\ WindowOf(x[k], counted[k], k, clock)
             /\ windows[k] = <<>> => x[k] = <<>>
  <2>1. x[k] = AfterCutoff(windows[k], cutoff)
    BY <1>2 DEF RemoveExpired
  <2> QED
    BY <1>1, <2>1, ExpiringKeeps
<1>4. x \in [Keys -> Seq(Time)]
  <2>1. x = [k \in Keys |-> x[k]]
    BY <1>2 DEF RemoveExpired
  <2> QED
    BY <1>3, <2>1
<1>5. Used(x) \subseteq Used(windows)
  BY <1>3 DEF Used
<1>6. IsFiniteSet(Used(x)) /\ Cardinality(Used(x)) <= Cardinality(Used(windows))
  BY <1>1, <1>5, FS_Subset
<1>7. Cardinality(Used(x)) <= MaxKeys
  <2>1. /\ Cardinality(Used(x)) \in Nat /\ Cardinality(Used(windows)) \in Nat
        /\ MaxKeys \in Nat
    BY <1>1, <1>6, FS_CardinalityType, LimitsAssumption
  <2> QED
    BY <1>1, <1>6, <2>1
<1>8. WindowsGood(x, counted, clock)
  BY <1>1, <1>3, <1>4, <1>6, <1>7 DEF WindowsGood
<1> QED
  BY <1>2, <1>8

\* TryConsumeLoginLimit, with the time that HandleLogin read before.
LEMMA TryConsumeKeeps ==
  ASSUME LimiterInv, NEW r \in Requests, TryConsumeLoginLimit(r)
  PROVE  LimiterInv'
<1> DEFINE q == request[r]
           fresh == RemoveExpired(q.now - Minute)
           afterIp == Count(fresh, q.ip, q.now)
<1>1. request \in [Requests -> Asking \union {Idle}] /\ q.step = "asks"
  BY DEF LimiterInv, RequestsGood, TryConsumeLoginLimit
<1>2. q \in Asking /\ q # Idle
  BY <1>1 DEF Idle
<1>3. q.now \in Time /\ q.now <= clock /\ q.ip \in Keys /\ q.name \in Keys
  BY <1>2 DEF LimiterInv, RequestsGood, Asking, Keys
<1>4. clock \in Int /\ q.now \in Int /\ Minute \in Nat /\ q.now - Minute <= clock - Minute
  BY <1>3, LimitsAssumption DEF LimiterInv, Time
<1>5. WindowsGood(fresh, counted, clock)
  BY <1>4, RemoveExpiredKeeps
<1>6. clock' = clock
  BY DEF TryConsumeLoginLimit
<1>7. WindowsGood(windows', counted', clock)
  <2>1. CASE windows' = fresh /\ counted' = counted
    BY <1>5, <2>1
  <2>2. CASE /\ Allowed(fresh, q.ip) /\ windows' = afterIp
             /\ counted' = Count(counted, q.ip, q.now)
    BY <1>3, <1>4, <1>5, <2>2, ConsumeKeeps
  <2>3. CASE /\ Allowed(fresh, q.ip) /\ Allowed(afterIp, q.name)
             /\ windows' = Count(afterIp, q.name, q.now)
             /\ counted' = Count(Count(counted, q.ip, q.now), q.name, q.now)
    <3>1. WindowsGood(afterIp, Count(counted, q.ip, q.now), clock)
      BY <1>3, <1>4, <1>5, <2>3, ConsumeKeeps
    <3> HIDE DEF afterIp
    <3> QED
      BY <1>3, <1>4, <2>3, <3>1, ConsumeKeeps
  <2> QED
    BY <2>1, <2>2, <2>3 DEF TryConsumeLoginLimit
<1>8. RequestsGood'
  <2>1. \/ request' = [request EXCEPT ![r] = Idle]
        \/ request' = [request EXCEPT ![r].step = "verifies"]
    BY DEF TryConsumeLoginLimit
  <2>2. CASE request' = [request EXCEPT ![r] = Idle]
    BY <1>1, <1>6, <2>2 DEF LimiterInv, RequestsGood
  <2>3. CASE request' = [request EXCEPT ![r].step = "verifies"]
    <3>1. request'[r] \in Asking /\ request'[r].now = q.now
      BY <1>1, <1>2, <2>3 DEF Asking
    <3>2. \A p \in Requests \ {r} : request'[p] = request[p]
      BY <1>1, <2>3
    <3>3. request' \in [Requests -> Asking \union {Idle}]
      BY <1>1, <2>3, <3>1, <3>2
    <3> QED
      BY <1>3, <1>6, <3>1, <3>2, <3>3 DEF LimiterInv, RequestsGood
  <2> QED
    BY <2>1, <2>2, <2>3
<1> QED
  BY <1>6, <1>7, <1>8 DEF LimiterInv

\* A successful login forgets the attempts of its user.
LEMMA SucceedsKeeps ==
  ASSUME LimiterInv, NEW r \in Requests, Succeeds(r)
  PROVE  LimiterInv'
<1> DEFINE n == request[r].name
<1>1. request \in [Requests -> Asking \union {Idle}] /\ request[r].step = "verifies"
  BY DEF LimiterInv, RequestsGood, Succeeds
<1>2. n \in Keys
  BY <1>1 DEF Asking, Idle, Keys
<1>3. /\ windows \in [Keys -> Seq(Time)] /\ counted \in [Keys -> Seq(Time)]
      /\ \A k \in Keys : WindowOf(windows[k], counted[k], k, clock)
      /\ IsFiniteSet(Used(windows)) /\ Cardinality(Used(windows)) <= MaxKeys
  BY DEF LimiterInv, WindowsGood
<1>4. /\ windows' = [windows EXCEPT ![n] = <<>>] /\ counted' = [counted EXCEPT ![n] = <<>>]
      /\ request' = [request EXCEPT ![r] = Idle] /\ clock' = clock
  BY DEF Succeeds
<1>5. WindowOf(<<>>, <<>>, n, clock)
  BY LimitsAssumption DEF WindowOf, Limit
<1>6. windows' \in [Keys -> Seq(Time)] /\ counted' \in [Keys -> Seq(Time)]
  <2>1. <<>> \in Seq(Time)
    OBVIOUS
  <2> QED
    BY <1>3, <1>4, <2>1
<1>7. \A k \in Keys : WindowOf(windows'[k], counted'[k], k, clock)
  BY <1>3, <1>4, <1>5
<1>8. Used(windows') \subseteq Used(windows)
  BY <1>3, <1>4 DEF Used
<1>9. IsFiniteSet(Used(windows')) /\ Cardinality(Used(windows')) <= Cardinality(Used(windows))
  BY <1>3, <1>8, FS_Subset
<1>10. Cardinality(Used(windows')) <= MaxKeys
  <2>1. /\ Cardinality(Used(windows')) \in Nat /\ Cardinality(Used(windows)) \in Nat
        /\ MaxKeys \in Nat
    BY <1>3, <1>9, FS_CardinalityType, LimitsAssumption
  <2> QED
    BY <1>3, <1>9, <2>1
<1>11. RequestsGood'
  BY <1>1, <1>4 DEF LimiterInv, RequestsGood
<1> QED
  BY <1>4, <1>6, <1>7, <1>9, <1>10, <1>11 DEF LimiterInv, WindowsGood

\* Steps that leave the windows alone, while time goes on.
LEMMA TimeKeeps ==
  ASSUME LimiterInv, clock' \in Time, clock' >= clock, RequestsGood', UNCHANGED <<windows, counted>>
  PROVE  LimiterInv'
<1>1. clock \in Int /\ clock' \in Int /\ Minute \in Int
  BY LimitsAssumption DEF LimiterInv, Time
<1>2. ASSUME NEW k \in Keys PROVE WindowOf(windows[k], counted[k], k, clock')
  <2>1. WindowOf(windows[k], counted[k], k, clock) /\ counted[k] \in Seq(Time) /\ windows[k] \in Seq(Time)
    BY DEF LimiterInv, WindowsGood
  <2>2. ASSUME NEW i \in 1 .. Len(counted[k]) - Len(windows[k])
        PROVE  counted[k][i] <= clock' - Minute
    <3>1. Len(counted[k]) \in Nat /\ Len(windows[k]) \in Nat
      BY <2>1
    <3>2. i \in 1 .. Len(counted[k])
      BY <3>1
    <3>3. counted[k][i] \in Int
      BY <2>1, <3>2, LimitsAssumption DEF Time
    <3>4. counted[k][i] <= clock - Minute
      BY <2>1 DEF WindowOf
    <3> QED
      BY <1>1, <3>3, <3>4
  <2> QED
    BY <2>1, <2>2 DEF WindowOf
<1> QED
  BY <1>2 DEF LimiterInv, WindowsGood, Used

\* Every step keeps what is known of the limiter.
LEMMA LimiterStepKeeps == LimiterInv /\ [Next]_vars => LimiterInv'
<1> SUFFICES ASSUME LimiterInv, [Next]_vars PROVE LimiterInv'
  OBVIOUS
<1>0. clock \in Int /\ clock \in Time /\ clock >= clock
  BY LimitsAssumption DEF LimiterInv, Time
<1>1. ASSUME NEW r \in Requests, NEW ip \in Ips, NEW name \in Names, Begin(r, ip, name)
      PROVE  LimiterInv'
  <2>1. [step |-> "asks", ip |-> ip, name |-> name, now |-> clock] \in Asking
    BY <1>0 DEF Asking
  <2>2. RequestsGood'
    BY <1>0, <1>1, <2>1 DEF Begin, LimiterInv, RequestsGood
  <2> QED
    BY <1>0, <1>1, <2>2, TimeKeeps DEF Begin
<1>2. ASSUME NEW r \in Requests, Fails(r)
      PROVE  LimiterInv'
  <2>1. RequestsGood'
    BY <1>2 DEF Fails, LimiterInv, RequestsGood
  <2> QED
    BY <1>0, <1>2, <2>1, TimeKeeps DEF Fails
<1>3. CASE Tick
  <2>1. clock' \in Time /\ clock' >= clock /\ clock' \in Int
    BY <1>0, <1>3, LimitsAssumption DEF Tick, Time
  <2>2. \A r \in Requests : request[r] # Idle => request[r].now \in Int
    BY LimitsAssumption DEF LimiterInv, RequestsGood, Asking, Time
  <2>3. RequestsGood'
    BY <1>0, <1>3, <2>1, <2>2 DEF Tick, limiterVars, LimiterInv, RequestsGood
  <2> QED
    BY <1>3, <2>1, <2>3, TimeKeeps DEF Tick, limiterVars
<1>4. CASE BucketStep \/ UNCHANGED vars
  <2>1. UNCHANGED <<clock, limiterVars>>
    BY <1>4 DEF BucketStep, ReadClock, RefuseStale, RefuseEmpty, Grant, CloserEnds, vars
  <2>2. RequestsGood'
    BY <2>1 DEF limiterVars, LimiterInv, RequestsGood
  <2> QED
    BY <1>0, <2>1, <2>2, TimeKeeps DEF limiterVars
<1> QED
  BY <1>1, <1>2, <1>3, <1>4, TryConsumeKeeps, SucceedsKeeps DEF Next, LoginStep

\* A new limiter has no windows.
LEMMA LimiterInit == Init => LimiterInv
<1> SUFFICES ASSUME Init PROVE LimiterInv
  OBVIOUS
<1>1. \A k \in Keys : WindowOf(<<>>, <<>>, k, 0)
  BY LimitsAssumption DEF WindowOf, Limit
<1>2. Used(windows) = {}
  BY DEF Init, Used
<1>3. IsFiniteSet(Used(windows)) /\ Cardinality(Used(windows)) <= MaxKeys
  BY <1>2, FS_EmptySet, LimitsAssumption
<1>4. RequestsGood
  BY DEF Init, RequestsGood
<1> QED
  BY <1>1, <1>3, <1>4, LimitsAssumption DEF Init, LimiterInv, WindowsGood, Time

\* The bucket and the limiter keep their types: no bucket holds more than its burst.
THEOREM LimitsTypes == Spec => []TypeOK
<1>1. BucketInv /\ LimiterInv => TypeOK
  BY DEF BucketInv, BucketTypes, LimiterInv, WindowsGood, RequestsGood, TypeOK
<1> QED
  BY <1>1, BucketInit, BucketStepKeeps, LimiterInit, LimiterStepKeeps, PTL DEF Spec

\* No address and no user gets more than its limit of attempts a minute from
\* TryConsumeLoginLimit, although requests reach it out of the order of their times.
THEOREM AttemptsAreLimited == Spec => []AttemptsLimited
<1>1. LimiterInv => AttemptsLimited
  <2> SUFFICES ASSUME LimiterInv, NEW k \in Keys, NEW i \in 1 .. Len(counted[k]) - Limit(k)
               PROVE  counted[k][i] <= clock - Minute
    BY DEF AttemptsLimited
  <2>1. WindowOf(windows[k], counted[k], k, clock) /\ counted[k] \in Seq(Time) /\ windows[k] \in Seq(Time)
    BY DEF LimiterInv, WindowsGood
  <2>2. Len(counted[k]) \in Nat /\ Len(windows[k]) \in Nat /\ Limit(k) \in Nat
    BY <2>1, LimitsAssumption DEF Limit
  <2>3. i \in 1 .. Len(counted[k]) - Len(windows[k])
    BY <2>1, <2>2 DEF WindowOf
  <2> QED
    BY <2>1, <2>3 DEF WindowOf
<1> QED
  BY <1>1, LimiterInit, LimiterStepKeeps, PTL DEF Spec

\* The limiter's map never exceeds its bound, although a login may add two keys.
THEOREM MapStaysBounded == Spec => []KeysBounded
<1>1. LimiterInv => KeysBounded
  BY DEF LimiterInv, WindowsGood, Used, KeysBounded
<1> QED
  BY <1>1, LimiterInit, LimiterStepKeeps, PTL DEF Spec
=============================================================================
