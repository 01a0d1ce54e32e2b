----------------------------- MODULE RateLimits -----------------------------
(***************************************************************************)
(* internal/core/bucket.go and internal/core/limiter.go with their         *)
(* callers: the token bucket of a hub, asked by the user loop and by the   *)
(* goroutine that closes the recovery window, and the sliding windows of   *)
(* login attempts per address and per user.                                *)
(*                                                                         *)
(* Every caller reads the clock first and asks later, behind a lock and in *)
(* between behind other work, so requests arrive out of the order of their *)
(* times.  Time is counted in ticks.  Tokens are counted in what one tick  *)
(* refills: a token is Cost of them.  The code's floating-point tokens are *)
(* exact here.  Definitions named Bug_... are plausible errors in the      *)
(* definition that follows; no specification uses them.                    *)
(***************************************************************************)
EXTENDS Integers, Sequences, FiniteSets

CONSTANTS
  MaxTime,      \* bound on the clock
  Burst, Cost,  \* RateLimit.ClipBurst, and ticks per token
  MaxGrants,    \* bound on the clips the bucket is asked for
  Ips, Names,   \* addresses and usernames: the keys "ip:..." and "user:..."
  IpLimit,      \* RateLimit.LoginIpPerMinute
  NameLimit,    \* RateLimit.LoginUserPerMinute
  MaxKeys,      \* RateLimit.MaxKeys
  Minute,       \* ticks of the sliding window
  Requests,     \* login requests under way at a time
  MaxAttempts   \* bound on the login attempts

ASSUME LimitsAssumption ==
  /\ MaxTime \in Nat /\ Minute \in Nat \ {0}
  /\ Burst \in Nat \ {0} /\ Cost \in Nat \ {0} /\ MaxGrants \in Nat
  /\ IpLimit \in Nat \ {0} /\ NameLimit \in Nat \ {0} /\ MaxKeys \in Nat \ {0}
  /\ MaxAttempts \in Nat
  /\ Ips \intersect Names = {}

Time == 0 .. MaxTime
NoTime == -1
Keys == Ips \union Names
Limit(k) == IF k \in Ips THEN IpLimit ELSE NameLimit

VARIABLES
  clock,
  tokens, lastRefill,  \* Bucket
  stamp,        \* the time each goroutine that applies clips has read
  grants,       \* history: the times of the clips that got a token, in order
  windows,      \* Limiter.windows; a key without times is not in the map
  request,      \* each login request: its step, its keys and the time it has read
  counted       \* history: the times counted for each key since its last reset

bucketVars == <<tokens, lastRefill, stamp, grants>>
limiterVars == <<windows, request, counted>>
vars == <<clock, bucketVars, limiterVars>>

Appliers == {"loop", "closer"}
Idle == [step |-> "idle"]

Init ==
  /\ clock = 0
  /\ tokens = Burst * Cost /\ lastRefill = 0
  /\ stamp = [g \in Appliers |-> NoTime]
  /\ grants = <<>>
  /\ windows = [k \in Keys |-> <<>>]
  /\ request = [r \in Requests |-> Idle]
  /\ counted = [k \in Keys |-> <<>>]

Tick ==
  /\ clock < MaxTime
  /\ clock' = clock + 1
  /\ UNCHANGED <<bucketVars, limiterVars>>

-----------------------------------------------------------------------------
(***************************************************************************)
(* The token bucket.                                                       *)
(***************************************************************************)
\* The user loop reads the clock for every job, the scanner for every scan.
ReadClock(g) ==
  /\ stamp[g] = NoTime /\ Len(grants) < MaxGrants
  /\ stamp' = [stamp EXCEPT ![g] = clock]
  /\ UNCHANGED <<clock, tokens, lastRefill, grants, limiterVars>>

\* The loop's time is for one clip; the closer uses its time for clip after clip.
Asked(g) == stamp' = IF g = "loop" THEN [stamp EXCEPT ![g] = NoTime] ELSE stamp

Bug_NoCap(now) == tokens + (now - lastRefill)

Refilled(now) ==
  LET t == tokens + (now - lastRefill) IN IF t > Burst * Cost THEN Burst * Cost ELSE t

\* A time before the last refill is refused, whatever there is.
RefuseStale(g) ==
  /\ stamp[g] # NoTime /\ stamp[g] < lastRefill
  /\ Asked(g)
  /\ UNCHANGED <<clock, tokens, lastRefill, grants, limiterVars>>

Bug_LosesRefill(g) ==
  /\ stamp[g] # NoTime /\ stamp[g] >= lastRefill
  /\ Refilled(stamp[g]) < Cost
  /\ lastRefill' = stamp[g]
  /\ Asked(g)
  /\ UNCHANGED <<clock, tokens, grants, limiterVars>>

\* Too little in it: the refill counts all the same.
RefuseEmpty(g) ==
  /\ stamp[g] # NoTime /\ stamp[g] >= lastRefill
  /\ Refilled(stamp[g]) < Cost
  /\ tokens' = Refilled(stamp[g])
  /\ lastRefill' = stamp[g]
  /\ Asked(g)
  /\ UNCHANGED <<clock, grants, limiterVars>>

Grant(g) ==
  /\ stamp[g] # NoTime /\ stamp[g] >= lastRefill /\ Len(grants) < MaxGrants
  /\ Refilled(stamp[g]) >= Cost
  /\ tokens' = Refilled(stamp[g]) - Cost
  /\ lastRefill' = stamp[g]
  /\ grants' = Append(grants, stamp[g])
  /\ Asked(g)
  /\ UNCHANGED <<clock, limiterVars>>

\* The closer has applied the last clip of its queue.
CloserEnds ==
  /\ stamp["closer"] # NoTime
  /\ stamp' = [stamp EXCEPT !["closer"] = NoTime]
  /\ UNCHANGED <<clock, tokens, lastRefill, grants, limiterVars>>

-----------------------------------------------------------------------------
(***************************************************************************)
(* The login limiter.                                                      *)
(***************************************************************************)
\* The times of a window from the first one after the cutoff: expired times are only
\* taken off the front.
AfterCutoff(times, cutoff) ==
  LET n == CHOOSE m \in 0 .. Len(times) :
             /\ \A i \in 1 .. m : times[i] <= cutoff
             /\ m = Len(times) \/ times[m + 1] > cutoff
  IN  SubSeq(times, n + 1, Len(times))

\* removeExpiredLocked goes through all keys.
RemoveExpired(cutoff) == [k \in Keys |-> AfterCutoff(windows[k], cutoff)]

Bug_KeysOffByOne(w, k) ==
  w[k] = <<>> => Cardinality({j \in Keys : w[j] # <<>>}) <= MaxKeys

\* A new key needs room in the map.  (tryConsume expires once more with the same
\* cutoff before it refuses, which finds nothing.)
HasRoom(w, k) ==
  w[k] = <<>> => Cardinality({j \in Keys : w[j] # <<>>}) < MaxKeys

Bug_LimitOffByOne(w, k) == HasRoom(w, k) /\ Len(w[k]) <= Limit(k)

Allowed(w, k) == HasRoom(w, k) /\ Len(w[k]) < Limit(k)

\* HandleLogin reads the clock before it reads the request.
Begin(r, ip, name) ==
  /\ request[r] = Idle
  /\ request' = [request EXCEPT ![r] = [step |-> "asks", ip |-> ip, name |-> name, now |-> clock]]
  /\ UNCHANGED <<clock, bucketVars, windows, counted>>

Attempts == {a \in Keys \X (1 .. MaxAttempts) : a[2] <= Len(counted[a[1]])}

Count(w, k, now) == [w EXCEPT ![k] = Append(@, now)]

\* TryConsumeLoginLimit: the address first; it stays counted when the user is refused.
TryConsumeLoginLimit(r) ==
  LET q == request[r]
      fresh == RemoveExpired(q.now - Minute)
      afterIp == Count(fresh, q.ip, q.now)
  IN  /\ q.step = "asks" /\ Cardinality(Attempts) + 1 < MaxAttempts
      /\ \/ /\ ~Allowed(fresh, q.ip)
            /\ windows' = fresh
            /\ request' = [request EXCEPT ![r] = Idle]
            /\ UNCHANGED counted
         \/ /\ Allowed(fresh, q.ip) /\ ~Allowed(afterIp, q.name)
            /\ windows' = afterIp
            /\ counted' = Count(counted, q.ip, q.now)
            /\ request' = [request EXCEPT ![r] = Idle]
         \/ /\ Allowed(fresh, q.ip) /\ Allowed(afterIp, q.name)
            /\ windows' = Count(afterIp, q.name, q.now)
            /\ counted' = Count(Count(counted, q.ip, q.now), q.name, q.now)
            /\ request' = [request EXCEPT ![r].step = "verifies"]
      /\ UNCHANGED <<clock, bucketVars>>

\* A wrong password, or a request that is not well-formed.
Fails(r) ==
  /\ request[r] # Idle
  /\ request' = [request EXCEPT ![r] = Idle]
  /\ UNCHANGED <<clock, bucketVars, windows, counted>>

\* The password is right: ResetUserWindow.
Succeeds(r) ==
  /\ request[r].step = "verifies"
  /\ windows' = [windows EXCEPT ![request[r].name] = <<>>]
  /\ counted' = [counted EXCEPT ![request[r].name] = <<>>]
  /\ request' = [request EXCEPT ![r] = Idle]
  /\ UNCHANGED <<clock, bucketVars>>

-----------------------------------------------------------------------------
BucketStep ==
  \/ \E g \in Appliers : ReadClock(g) \/ RefuseStale(g) \/ RefuseEmpty(g) \/ Grant(g)
  \/ CloserEnds

LoginStep ==
  \E r \in Requests :
    \/ \E ip \in Ips, name \in Names : Begin(r, ip, name)
    \/ TryConsumeLoginLimit(r) \/ Fails(r) \/ Succeeds(r)

Next == Tick \/ BucketStep \/ LoginStep

Spec == Init /\ [][Next]_vars

-----------------------------------------------------------------------------
Asking == [step : {"asks", "verifies"}, ip : Ips, name : Names, now : Time]

TypeOK ==
  /\ clock \in Time
  /\ tokens \in 0 .. Burst * Cost /\ lastRefill \in Time
  /\ stamp \in [Appliers -> Time \union {NoTime}]
  /\ grants \in Seq(Time)
  /\ windows \in [Keys -> Seq(Time)]
  /\ request \in [Requests -> Asking \union {Idle}]
  /\ counted \in [Keys -> Seq(Time)]

(***************************************************************************)
(* Between any two clips that got a token no more did than the burst and   *)
(* what was refilled in that time, although the two goroutines ask with    *)
(* times out of order.                                                     *)
(***************************************************************************)
BurstBound ==
  \A i, j \in DOMAIN grants :
    i <= j => (j - i + 1) * Cost <= Burst * Cost + (grants[j] - grants[i])

(***************************************************************************)
(* The bucket is never stingier than it has to be: what it holds is what   *)
(* the tightest interval of past grants leaves, so neither a refusal nor a *)
(* stale time takes anything from it.                                      *)
(***************************************************************************)
NeverStingy ==
  \/ tokens = Burst * Cost
  \/ \E i \in DOMAIN grants :
       tokens = Burst * Cost + (lastRefill - grants[i]) - (Len(grants) - i + 1) * Cost

(***************************************************************************)
(* Of the attempts counted for an address or a user since its last reset,  *)
(* all but the last Limit are a minute old, whatever the order in which    *)
(* requests reach the limiter and whoever else is in the map.              *)
(***************************************************************************)
AttemptsLimited ==
  \A k \in Keys : \A i \in 1 .. Len(counted[k]) - Limit(k) :
    counted[k][i] <= clock - Minute

(***************************************************************************)
(* The map of windows stays within its bound on keys, which a single login *)
(* may fill by two.                                                        *)
(***************************************************************************)
KeysBounded == Cardinality({k \in Keys : windows[k] # <<>>}) <= MaxKeys
=============================================================================
