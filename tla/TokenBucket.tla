---------------------------- MODULE TokenBucket ----------------------------
(***************************************************************************)
(* core/router/tokenBucket.ts and core/router/concurrencyLimiter.ts: the   *)
(* two throttles every remote provider owns, as operators on their state.  *)
(*                                                                         *)
(* The code counts tokens in fractions: a bucket of Capacity tokens gains  *)
(* elapsed / Minute * Capacity of them.  Here tokens are counted in units  *)
(* of 1 / Minute of a token, so that a refill is elapsed * Capacity units, *)
(* a token is Minute units, and no fraction (nor its rounding) is left.    *)
(***************************************************************************)
EXTENDS Naturals

CONSTANTS
    Capacity,       \* requests per minute, capacityPerMinute
    Minute,         \* ticks of the clock in a minute, 60_000 in the code
    MaxConcurrent   \* requests in flight at once

ASSUME ThrottleAssumption ==
    /\ Capacity \in Nat \ {0}
    /\ Minute \in Nat \ {0}
    /\ MaxConcurrent \in Nat \ {0}

Full == Capacity * Minute

\* `lastRefill` is the latest reading of the wall clock the bucket has used.
Bucket == [tokens : 0 .. Full, lastRefill : Nat]

newBucket(now) == [tokens |-> Full, lastRefill |-> now]

\* Mutant: a pause refills past the capacity.
refillUncapped(b, now) ==
    IF now <= b.lastRefill THEN b
    ELSE [tokens |-> b.tokens + (now - b.lastRefill) * Capacity, lastRefill |-> now]

\* A clock that stepped back refills nothing and is not remembered.
refill(b, now) ==
    IF now <= b.lastRefill
    THEN b
    ELSE LET gained == b.tokens + (now - b.lastRefill) * Capacity
         IN  [tokens |-> IF gained < Full THEN gained ELSE Full, lastRefill |-> now]

canTake(b, now) == refill(b, now).tokens >= Minute

\* tryTake(): the refill happens whether or not a token is there.
tryTake(b, now) ==
    LET r == refill(b, now)
    IN  IF r.tokens >= Minute THEN [r EXCEPT !.tokens = @ - Minute] ELSE r

canAcquire(inFlight) == inFlight < MaxConcurrent

release(inFlight) == IF inFlight = 0 THEN 0 ELSE inFlight - 1

=============================================================================
