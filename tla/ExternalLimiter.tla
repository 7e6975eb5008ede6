-------------------------- MODULE ExternalLimiter --------------------------
(***************************************************************************)
(* The limiter all tools share in front of the map provider, and the call  *)
(* made under it (src/internal/agent/eino/api_client.go).  A caller reads  *)
(* the clock, books the next free slot under the mutex, sleeps until the   *)
(* slot, takes one of the semaphore's places, sends its request and gives  *)
(* the place back.  Times are relative to now: a slot in the past is       *)
(* negative, and a clock read before the mutex is as old as its reading.   *)
(***************************************************************************)
EXTENDS Integers, FiniteSets

CONSTANTS
    Callers,        \* goroutines calling the provider
    Concurrency,    \* capacity of the semaphore
    Interval,       \* ticks between two slots: a second / QPS
    Timeout,        \* ticks after which the HTTP client gives a request up
    MaxDelay,       \* bound: ticks between reading the clock and the mutex
    MaxAhead        \* bound: how far ahead slots are booked

ASSUME LimiterAssumption ==
    /\ Concurrency \in Nat \ {0} /\ Interval \in Nat \ {0}
    /\ Timeout \in Nat \ {0}
    /\ MaxDelay \in Nat /\ MaxAhead \in Nat

VARIABLES
    stage,      \* stage[c]: where the call of c stands
    age,        \* age[c]: ticks since c read the clock, or since it was sent
    slot,       \* slot[c]: when the slot of c begins
    nextSlot,   \* externalAPILimiter.next
    places      \* places taken in the semaphore

limiterVars == <<stage, age, slot, nextSlot, places>>

LimiterInit ==
    /\ stage = [c \in Callers |-> "idle"]
    /\ age = [c \in Callers |-> 0]
    /\ slot = [c \in Callers |-> 0]
    /\ nextSlot = -MaxDelay
    /\ places = 0

Later(a, b) == IF a > b THEN a ELSE b
Step(c, from, to) ==
    /\ stage[c] = from
    /\ stage' = [stage EXCEPT ![c] = to]

\* A faulty variant, for the sensitivity of the properties: a call that fails
\* keeps its place.
KeptOnError(failed) == IF failed THEN places ELSE places - 1

PlacesAfter(failed) == places - 1

----------------------------------------------------------------------------
\* get enters wait, which reads the clock before it takes the mutex.
ReadClock(c) ==
    /\ nextSlot <= MaxAhead
    /\ Step(c, "idle", "booking")
    /\ age' = [age EXCEPT ![c] = 0]
    /\ UNCHANGED <<slot, nextSlot, places>>

\* Under the mutex: the slot is the next free one, or the clock that was read.
Book(c) ==
    LET sendAt == Later(-age[c], nextSlot) IN
    /\ Step(c, "booking", IF sendAt > 0 THEN "sleeping" ELSE "queueing")
    /\ slot' = [slot EXCEPT ![c] = Later(sendAt, 0)]
    /\ nextSlot' = sendAt + Interval
    /\ age' = [age EXCEPT ![c] = 0]
    /\ UNCHANGED <<places>>

\* The timer fires.
Wake(c) ==
    /\ slot[c] <= 0
    /\ Step(c, "sleeping", "queueing")
    /\ slot' = [slot EXCEPT ![c] = 0]
    /\ UNCHANGED <<age, nextSlot, places>>

\* The context ends, in the sleep or in the queue.  The slot stays booked.
GiveUp(c) ==
    /\ stage[c] \in {"sleeping", "queueing"}
    /\ Step(c, stage[c], "idle")
    /\ slot' = [slot EXCEPT ![c] = 0]
    /\ UNCHANGED <<age, nextSlot, places>>

\* A place in the semaphore, and the request is sent.
Send(c) ==
    /\ places < Concurrency
    /\ Step(c, "queueing", "sent")
    /\ places' = places + 1
    /\ age' = [age EXCEPT ![c] = 0]
    /\ UNCHANGED <<slot, nextSlot>>

\* The answer, an error, a status, a body that cannot be read or the timeout:
\* get returns, and its deferred release runs on every path.
Return(c, failed) ==
    /\ age[c] = Timeout => failed
    /\ Step(c, "sent", "idle")
    /\ places' = PlacesAfter(failed)
    /\ UNCHANGED <<age, slot, nextSlot>>

\* A tick.  Timers fire and requests time out before it; a caller holding an
\* unbooked clock is at most MaxDelay late.
LimiterTick ==
    /\ \A c \in Callers :
          CASE stage[c] = "booking"  -> age[c] < MaxDelay
            [] stage[c] = "sleeping" -> slot[c] > 0
            [] stage[c] = "sent"     -> age[c] < Timeout
            [] OTHER -> TRUE
    /\ age' = [c \in Callers |-> IF stage[c] \in {"booking", "sent"}
                                 THEN age[c] + 1 ELSE 0]
    /\ slot' = [c \in Callers |-> Later(slot[c] - 1, 0)]
    /\ nextSlot' = Later(nextSlot - 1, -MaxDelay)
    /\ UNCHANGED <<stage, places>>

CallerStep(c) ==
    \/ ReadClock(c) \/ Book(c) \/ Wake(c) \/ GiveUp(c) \/ Send(c)
    \/ \E failed \in BOOLEAN : Return(c, failed)

LimiterNext == LimiterTick \/ \E c \in Callers : CallerStep(c)

LimiterSpec == LimiterInit /\ [][LimiterNext]_limiterVars

\* Time passes, goroutines run and timers fire; requests end, by the client's
\* timeout if not before; the places of a channel go round its waiters.
LimiterFairness ==
    /\ WF_limiterVars(LimiterTick)
    /\ \A c \in Callers :
          /\ WF_limiterVars(Book(c)) /\ WF_limiterVars(Wake(c))
          /\ SF_limiterVars(Send(c))
          /\ WF_limiterVars(\E failed \in BOOLEAN : Return(c, failed))

----------------------------------------------------------------------------
Sent == {c \in Callers : stage[c] = "sent"}

\* Every variable has its type (the struct of externalAPILimiter).
LimiterTypeOK ==
    /\ stage \in [Callers -> {"idle", "booking", "sleeping", "queueing", "sent"}]
    /\ age \in [Callers -> Nat]
    /\ slot \in [Callers -> Nat]
    /\ nextSlot \in Int /\ places \in Int

\* A place of the semaphore is taken for each request on its way and for
\* nothing else, on every way out of get, so that the provider never sees more
\* than Concurrency requests at once and no place is lost (the deferred
\* release of amapClient.get).
PlacesAreCalls == places = Cardinality(Sent) /\ places <= Concurrency

\* Every call of the provider ends, however many callers wait for the places
\* and whichever of them fail (wait's select, the release on every path).
EveryCallEnds == \A c \in Callers : stage[c] # "idle" ~> stage[c] = "idle"
=============================================================================
