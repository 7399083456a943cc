---------------------------- MODULE RateLimiter ----------------------------
(***************************************************************************)
(* The token bucket in front of the webhook, SSO and credential routes: a  *)
(* map of buckets in insertion order, refilled from the wall clock, cut    *)
(* back when it has grown too large.  Tokens are counted in parts, so that *)
(* fractions are exact.                                                    *)
(***************************************************************************)
EXTENDS Naturals, Sequences, Functions, FiniteSets

CONSTANTS
    Keys,         \* addresses or tokens that send requests
    Capacity,     \* tokens in a full bucket
    Unit,         \* parts of a token
    Refill,       \* parts added per clock tick
    TicksPerSec,  \* Retry-After is in whole seconds
    LruCap,       \* LRU_CAP
    DropCount,    \* how many of the oldest are dropped, floor(LRU_CAP / 10)
    MaxWall,      \* bounds: the clock,
    MaxBacks,     \* how often it is set back,
    MaxAsked      \* and requests

ASSUME LimiterConstants ==
    /\ {Capacity, Unit, Refill, TicksPerSec, LruCap, DropCount} \subseteq Nat \ {0}
    /\ {MaxWall, MaxBacks, MaxAsked} \subseteq Nat
    /\ DropCount <= LruCap

VARIABLES
    wall,     \* Date.now()
    buckets,  \* the map: [key, parts, last] in insertion order
    asked,    \* requests so far
    backs,    \* how often the clock was set back
    forward,  \* history: ticks the clock went forward
    granted,  \* history: requests allowed, per key
    drops,    \* history: times the bucket of a key was dropped
    promise   \* history: when the last refusal said to come back, 0 if none stands

limiterVars == <<wall, buckets, asked, backs, forward, granted, drops, promise>>

LimiterTypeOK ==
    /\ \A i \in DOMAIN buckets :
           /\ buckets[i].key \in Keys
           /\ buckets[i].parts \in 0 .. Capacity * Unit
           /\ buckets[i].last \in 0 .. MaxWall
    /\ IsInjective([i \in DOMAIN buckets |-> buckets[i].key])

LimiterInit ==
    /\ wall = 0
    /\ buckets = <<>>
    /\ asked = 0 /\ backs = 0 /\ forward = 0
    /\ granted = [k \in Keys |-> 0]
    /\ drops = [k \in Keys |-> 0]
    /\ promise = [k \in Keys |-> 0]

\* The bucket of a key, a full one if there is none.
BucketOf(k) ==
    IF \E i \in DOMAIN buckets : buckets[i].key = k
    THEN buckets[CHOOSE i \in DOMAIN buckets : buckets[i].key = k]
    ELSE [key |-> k, parts |-> Capacity * Unit, last |-> wall]

AtMost(a, b) == IF a <= b THEN a ELSE b

\* Parts in a bucket at some time; a clock that was set back adds nothing.
Refilled(b, at) ==
    AtMost(Capacity * Unit, b.parts + (IF at > b.last THEN at - b.last ELSE 0) * Refill)

\* buckets.set: in its place if the key is there, else at the end.
Stored(b) ==
    IF \E i \in DOMAIN buckets : buckets[i].key = b.key
    THEN [i \in DOMAIN buckets |-> IF buckets[i].key = b.key THEN b ELSE buckets[i]]
    ELSE Append(buckets, b)

\* Over LRU_CAP the oldest are dropped, but never the key of this request.
Pruned(map, k) ==
    LET own == {i \in 1 .. DropCount : map[i].key = k}
    IN  IF Len(map) <= LruCap THEN map
        ELSE (IF own = {} THEN <<>> ELSE <<map[CHOOSE i \in own : TRUE]>>)
             \o SubSeq(map, DropCount + 1, Len(map))

CeilDiv(a, b) == (a + b - 1) \div b

\* consume: a whole token is there ...
Allow(k) ==
    /\ Refilled(BucketOf(k), wall) >= Unit
    /\ buckets' = Pruned(Stored([key |-> k, parts |-> Refilled(BucketOf(k), wall) - Unit,
                                 last |-> wall]), k)
    /\ granted' = [granted EXCEPT ![k] = @ + 1]
    /\ promise' = [promise EXCEPT ![k] = 0]
    /\ drops' = [j \in Keys |->
                    IF /\ \E i \in DOMAIN buckets : buckets[i].key = j
                       /\ \A i \in DOMAIN buckets' : buckets'[i].key # j
                    THEN drops[j] + 1 ELSE drops[j]]
    /\ UNCHANGED <<wall, backs, forward>>

\* ... or not: the refill is kept and the caller told when to come back.
Refuse(k) ==
    /\ Refilled(BucketOf(k), wall) < Unit
    /\ LET refilled   == Refilled(BucketOf(k), wall)
           retryAfter == CeilDiv(Unit - refilled, Refill * TicksPerSec)
       IN  /\ buckets' = Stored([key |-> k, parts |-> refilled, last |-> wall])
           /\ promise' = [promise EXCEPT ![k] = wall + retryAfter * TicksPerSec]
    /\ UNCHANGED <<wall, backs, forward, granted, drops>>

Consume(k) ==
    /\ asked < MaxAsked
    /\ asked' = asked + 1
    /\ Allow(k) \/ Refuse(k)

ClockForward ==
    /\ wall < MaxWall
    /\ wall' = wall + 1
    /\ forward' = forward + 1
    /\ UNCHANGED <<buckets, asked, backs, granted, drops, promise>>

\* The wall clock is adjusted.
ClockBack ==
    /\ backs < MaxBacks
    /\ wall > 0
    /\ backs' = backs + 1
    /\ wall' = wall - 1
    /\ UNCHANGED <<buckets, asked, forward, granted, drops, promise>>

LimiterNext == (\E k \in Keys : Consume(k)) \/ ClockForward \/ ClockBack

LimiterSpec == LimiterInit /\ [][LimiterNext]_limiterVars

-----------------------------------------------------------------------------
(* Properties                                                              *)

\* Nobody gets more than a full bucket and the refill of the time that passed,
\* counting a new full bucket for each time a key was dropped, which happens to
\* busy keys too (consume).
WithinBudget ==
    \A k \in Keys :
        granted[k] * Unit <= Capacity * Unit * (1 + drops[k]) + Refill * forward

\* Who comes back when told to, and has asked nothing in between, is let in.
RetryAfterHolds ==
    \A k \in Keys : promise[k] > 0 => Refilled(BucketOf(k), promise[k]) >= Unit

\* The map stays bounded, although only an allowed request prunes it.
MapBounded == Len(buckets) <= LruCap

LimiterSafe == LimiterTypeOK /\ WithinBudget /\ RetryAfterHolds /\ MapBounded
=============================================================================
