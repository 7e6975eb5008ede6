---------------------------- MODULE RateLimiter ----------------------------
(***************************************************************************)
(* The fixed-window limiter of src/internal/travel/rate_limiter.go, for    *)
(* one client key: keys share nothing.  The memory limiter keeps a bucket  *)
(* and its expiry under a mutex; the Redis limiter sends INCR and, for the *)
(* caller that got 1, EXPIRE as a second command, which may be late or     *)
(* lost.  An expiry of Never is a key without a time to live.  The service *)
(* lets a call through when the limiter answers an error (service.go:81),  *)
(* which it does when INCR fails: executed with its reply lost, or not.    *)
(***************************************************************************)
EXTENDS Integers, Sequences

CONSTANTS
    Limit,          \* calls admitted in a window
    Window,         \* length of the window, in ticks
    Stale,          \* ticks by which a clock read before the mutex is behind
    Never,          \* not a time
    MaxRateClock,   \* bound: the clock
    MaxCounted,     \* bound: calls counted in a bucket
    MaxAdmitted,    \* bound: admissions remembered
    MaxIncrFaults   \* bound: commands INCR that fail

ASSUME RateAssumption ==
    /\ Limit \in Nat \ {0} /\ Window \in Nat \ {0}
    /\ Stale \in Nat
    /\ MaxRateClock \in Nat /\ MaxCounted \in Nat /\ MaxAdmitted \in Nat
    /\ MaxIncrFaults \in Nat
    /\ Never \notin Nat

VARIABLES
    limiterKind,    \* "memory" or "redis", fixed at the start
    rateClock,      \* time
    count,          \* calls counted in the bucket
    expiresAt,      \* when the bucket ends; Never without an EXPIRE
    expiring,       \* a caller has counted 1 and not sent its EXPIRE
    expireTrouble,  \* history: the EXPIRE of this bucket was late, lost or not sent
    admitted,       \* history: when calls that were counted within the limit went on
    denied,         \* history: when the last call was denied; Never if it went on
    incrFaults      \* history: calls let through because their INCR failed

rateVars == <<limiterKind, rateClock, count, expiresAt, expiring, expireTrouble,
              admitted, denied, incrFaults>>

RateInit ==
    /\ limiterKind \in {"memory", "redis"}
    /\ rateClock = 1
    /\ count = 0
    /\ expiresAt = 0
    /\ expiring = FALSE
    /\ expireTrouble = FALSE
    /\ admitted = <<>>
    /\ denied = Never
    /\ incrFaults = 0

\* Faulty variants, for the sensitivity of the properties: a bucket that every
\* call prolongs; a limit compared before the call is counted.
Prolonged(now) == now + Window
BeforeCounting(n) == n <= Limit + 1

BucketEnded(now) == expiresAt < now
ExpiryKept(now) == IF BucketEnded(now) THEN now + Window ELSE expiresAt
Within(n) == n <= Limit

\* The call that makes the count n takes a place of the window, if one is left.
TakesPlace(n) ==
    /\ count' = n
    /\ admitted' = IF Within(n) THEN Append(admitted, rateClock) ELSE admitted
    /\ n <= MaxCounted /\ Len(admitted) < MaxAdmitted
    /\ UNCHANGED <<limiterKind, rateClock>>

\* It is admitted or denied.
Decide(n) ==
    /\ TakesPlace(n)
    /\ denied' = IF Within(n) THEN Never ELSE rateClock
    /\ UNCHANGED incrFaults

\* The clock is read before the mutex is taken.
MemoryAllow ==
    /\ limiterKind = "memory"
    /\ \E now \in rateClock - Stale .. rateClock :
           /\ now > 0
           /\ Decide(IF BucketEnded(now) THEN 1 ELSE count + 1)
           /\ expiresAt' = ExpiryKept(now)
    /\ UNCHANGED <<expiring, expireTrouble>>

\* Redis removes a key at its expiry; INCR of a missing key makes it 1.
Gone == expiresAt # Never /\ expiresAt <= rateClock
Incremented == IF Gone THEN 1 ELSE count + 1

RedisIncr ==
    /\ limiterKind = "redis"
    /\ Decide(Incremented)
    /\ expiresAt' = IF Gone THEN Never ELSE expiresAt
    /\ expiring' = (Gone \/ expiring)
    /\ expireTrouble' = (expireTrouble /\ ~Gone)

\* The command fails, after Redis executed it or before, and the call goes on.
\* Nobody sends an EXPIRE for it, also when it made the count 1.
RedisIncrFails ==
    /\ limiterKind = "redis"
    /\ incrFaults < MaxIncrFaults
    /\ incrFaults' = incrFaults + 1
    /\ denied' = Never
    /\ \/ /\ TakesPlace(Incremented)
          /\ expiresAt' = IF Gone THEN Never ELSE expiresAt
          /\ expireTrouble' = (expireTrouble \/ Gone)
       \/ UNCHANGED <<limiterKind, rateClock, count, expiresAt, expireTrouble, admitted>>
    /\ UNCHANGED expiring

RedisExpire ==
    /\ expiring
    /\ expiring' = FALSE
    /\ expiresAt' = rateClock + Window
    /\ UNCHANGED <<limiterKind, rateClock, count, expireTrouble, admitted, denied, incrFaults>>

\* The command fails, or the process ends before it sends it.
RedisExpireLost ==
    /\ expiring
    /\ expiring' = FALSE
    /\ expireTrouble' = TRUE
    /\ UNCHANGED <<limiterKind, rateClock, count, expiresAt, admitted, denied, incrFaults>>

RateTick ==
    /\ rateClock < MaxRateClock
    /\ rateClock' = rateClock + 1
    /\ expireTrouble' = (expireTrouble \/ expiring)
    /\ UNCHANGED <<limiterKind, count, expiresAt, expiring, admitted, denied, incrFaults>>

RateNext ==
    \/ MemoryAllow \/ RedisIncr \/ RedisIncrFails
    \/ RedisExpire \/ RedisExpireLost \/ RateTick

RateSpec == RateInit /\ [][RateNext]_rateVars

-----------------------------------------------------------------------------
(* Properties                                                              *)

RateTypeOK ==
    /\ limiterKind \in {"memory", "redis"} /\ rateClock \in Nat \ {0} /\ count \in Nat
    /\ expiresAt \in Nat \cup {Never} /\ denied \in Nat \cup {Never}
    /\ expiring \in BOOLEAN /\ expireTrouble \in BOOLEAN
    /\ admitted \in Seq(Nat) /\ incrFaults \in Nat

\* Windows do not slide, so two bursts may meet; but of any 2 * Limit + 1
\* calls in a row that went on with a place of their window (Allow said so, or
\* its INCR was counted and only the reply was lost) the first and the last are
\* a window apart, however late the EXPIRE.  A call that goes on without such a
\* place, because its INCR failed, adds to the burst (CreateTask fails open).
BurstBound ==
    \A i \in 1 .. Len(admitted) :
        i + 2 * Limit <= Len(admitted) =>
            admitted[i + 2 * Limit] + Stale >= admitted[i] + Window

\* A client is denied only while Limit calls of its own went on within the last
\* window, admitted by Allow or let through by CreateTask when the reply of
\* their INCR was lost: being denied and trying again does not prolong the
\* denial, and every place that is gone was some call's.  An EXPIRE that is late,
\* lost or never sent (the INCR that made the count 1 failed) breaks this, the
\* last two for good.
DeniedMeansBusy ==
    denied = Never \/ expireTrouble \/
        /\ Len(admitted) >= Limit
        /\ admitted[Len(admitted) - Limit + 1] + Window + Stale >= denied

=============================================================================
