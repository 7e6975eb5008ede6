---------------------------- MODULE Limits_proofs ----------------------------
(***************************************************************************)
(* What keeps callers apart, for any number of callers: the Redis request  *)
(* lock, and the semaphore and the slots in front of the map provider; and *)
(* that the harness's workers find room for their results.                 *)
(***************************************************************************)
EXTENDS RequestLock, ExternalLimiter, HarnessRunner, FiniteSetTheorems, TLAPS

-----------------------------------------------------------------------------
(* The Redis request lock.  Whatever replies and releases are lost and      *)
(* however late an unlock is called, a caller within its lease owns the     *)
(* key, so no two callers of a hash are within theirs.  LeaseOwnsLock is    *)
(* inductive together with the typing.  The map of MemoryRequestLock has    *)
(* neither property: its unlock compares nothing.                           *)

LockInv == LockTypeOK /\ LeaseOwnsLock

\* Every operation keeps the typing, for both implementations: an entry is
\* stored under its owner's hash (KeyOf in Acquire).
LEMMA LockTypeStep ==
    ASSUME LockAssumption, LockTypeOK, [LockNext]_lockVars
    PROVE  LockTypeOK'
<1> USE DEF LockAssumption, LockTypeOK, KeyOf
<1>1. ASSUME NEW c \in Tasks, Acquire(c)
      PROVE  LockTypeOK'
  BY <1>1 DEF Acquire
<1>2. ASSUME NEW c \in Tasks, AcquireLost(c)
      PROVE  LockTypeOK'
  BY <1>2 DEF AcquireLost
<1>3. ASSUME NEW c \in Tasks, Release(c)
      PROVE  LockTypeOK'
  BY <1>3 DEF Release
<1>4. ASSUME NEW c \in Tasks, ReleaseLost(c)
      PROVE  LockTypeOK'
  BY <1>4 DEF ReleaseLost
<1>5. ASSUME NEW h \in Hashes, Expire(h)
      PROVE  LockTypeOK'
  BY <1>5 DEF Expire
<1>6. CASE UNCHANGED lockVars
  BY <1>6 DEF lockVars
<1> QED
  BY <1>1, <1>2, <1>3, <1>4, <1>5, <1>6 DEF LockNext

\* An operation of the Redis lock takes no running lease its key: an acquirer
\* needs the key absent, the unlock script compares the token.
LEMMA LeaseStep ==
    ASSUME LockAssumption, LockKind = "redis", LockInv, [LockNext]_lockVars
    PROVE  LeaseOwnsLock'
<1> USE DEF LockAssumption, LockInv, LockTypeOK, LeaseOwnsLock, KeyOf
<1>1. ASSUME NEW c \in Tasks, Acquire(c) \/ AcquireLost(c)
      PROVE  LeaseOwnsLock'
  <2>1. /\ lockOwner' = [lockOwner EXCEPT ![HashOf[c]] = c]
        /\ leased' = leased \cup {c}
        /\ lockOwner[HashOf[c]] = NoTask
    BY <1>1 DEF Acquire, AcquireLost, LockFree
  <2>2. ASSUME NEW d \in leased
        PROVE  HashOf[d] # HashOf[c]
    BY <2>1
  <2> QED
    BY <2>1, <2>2
<1>2. ASSUME NEW c \in Tasks, Release(c)
      PROVE  LeaseOwnsLock'
  <2>1. leased' = leased \ {c}
    BY <1>2 DEF Release
  <2>2. ASSUME NEW d \in leased \ {c}
        PROVE  lockOwner'[HashOf[d]] = d
    <3>1. lockOwner[HashOf[d]] = d
      OBVIOUS
    <3>2. CASE HashOf[d] = HashOf[c]
      BY <1>2, <3>1, <3>2 DEF Release, Removes
    <3>3. CASE HashOf[d] # HashOf[c]
      BY <1>2, <3>1, <3>3 DEF Release
    <3> QED
      BY <3>2, <3>3
  <2> QED
    BY <2>1, <2>2
<1>3. ASSUME NEW c \in Tasks, ReleaseLost(c)
      PROVE  LeaseOwnsLock'
  BY <1>3 DEF ReleaseLost
<1>4. ASSUME NEW h \in Hashes, Expire(h)
      PROVE  LeaseOwnsLock'
  <2>1. /\ lockOwner' = [lockOwner EXCEPT ![h] = NoTask]
        /\ leased' = leased \ {lockOwner[h]}
    BY <1>4 DEF Expire
  <2>2. ASSUME NEW d \in leased'
        PROVE  HashOf[d] # h
    BY <2>1
  <2> QED
    BY <2>1, <2>2
<1>5. CASE UNCHANGED lockVars
  BY <1>5 DEF lockVars
<1> QED
  BY <1>1, <1>2, <1>3, <1>4, <1>5 DEF LockNext

\* Type correctness of both implementations.
THEOREM LockTypeCorrect ==
    ASSUME LockAssumption
    PROVE  LockSpec => []LockTypeOK
<1>1. LockInit => LockTypeOK
  BY DEF LockInit, LockTypeOK
<1>2. LockTypeOK /\ [LockNext]_lockVars => LockTypeOK'
  BY LockTypeStep
<1> QED
  BY <1>1, <1>2, PTL DEF LockSpec

\* A caller of the Redis lock whose TTL still runs owns the key: an unlock
\* called after its own lease ran out removes nothing (redisUnlockScript).
THEOREM LeaseHolds ==
    ASSUME LockAssumption, LockKind = "redis"
    PROVE  LockSpec => []LeaseOwnsLock
<1>1. LockInit => LockInv
  BY DEF LockInit, LockInv, LockTypeOK, LeaseOwnsLock
<1>2. LockInv /\ [LockNext]_lockVars => LockInv'
  BY LockTypeStep, LeaseStep DEF LockInv
<1>3. LockInv => LeaseOwnsLock
  BY DEF LockInv
<1> QED
  BY <1>1, <1>2, <1>3, PTL DEF LockSpec

\* Mutual exclusion: no two callers of one request hash are within their
\* leases at the same time.
THEOREM Exclusion ==
    ASSUME LockAssumption, LockKind = "redis"
    PROVE  LockSpec => []LeaseExclusive
<1>1. LeaseOwnsLock => LeaseExclusive
  BY DEF LeaseOwnsLock, LeaseExclusive
<1> QED
  BY <1>1, LeaseHolds, PTL

-----------------------------------------------------------------------------
(* The limiter of the map provider                                         *)

LEMMA LimiterTypeStep ==
    ASSUME LimiterAssumption, LimiterTypeOK, [LimiterNext]_limiterVars
    PROVE  LimiterTypeOK'
<1> USE DEF LimiterAssumption, LimiterTypeOK, Later, Step
<1>1. ASSUME NEW c \in Callers, ReadClock(c) \/ GiveUp(c)
      PROVE  LimiterTypeOK'
  BY <1>1 DEF ReadClock, GiveUp
<1>2. ASSUME NEW c \in Callers, Book(c)
      PROVE  LimiterTypeOK'
  BY <1>2 DEF Book
<1>3. ASSUME NEW c \in Callers, Wake(c) \/ Send(c)
      PROVE  LimiterTypeOK'
  BY <1>3 DEF Wake, Send
<1>4. ASSUME NEW c \in Callers, NEW failed \in BOOLEAN, Return(c, failed)
      PROVE  LimiterTypeOK'
  BY <1>4 DEF Return, PlacesAfter
<1>5. CASE LimiterTick
  BY <1>5 DEF LimiterTick
<1>6. CASE UNCHANGED limiterVars
  BY <1>6 DEF limiterVars
<1> QED
  BY <1>1, <1>2, <1>3, <1>4, <1>5, <1>6 DEF LimiterNext, CallerStep

\* A place is taken by Send and given back by Return, whether it failed or not.
PlacesInv == LimiterTypeOK /\ IsFiniteSet(Sent) /\ PlacesAreCalls

LEMMA PlacesStep ==
    ASSUME LimiterAssumption, PlacesInv, [LimiterNext]_limiterVars
    PROVE  PlacesInv'
<1> USE DEF LimiterAssumption, PlacesInv
<1>1. LimiterTypeOK'
  BY LimiterTypeStep
<1>2. ASSUME Sent' = Sent, places' = places
      PROVE  PlacesInv'
  BY <1>1, <1>2 DEF PlacesAreCalls
<1>3. ASSUME NEW c \in Callers, Send(c)
      PROVE  PlacesInv'
  <2>1. Sent' = Sent \cup {c} /\ c \notin Sent
    BY <1>3 DEF Send, Step, Sent, LimiterTypeOK
  <2>2. IsFiniteSet(Sent') /\ Cardinality(Sent') = Cardinality(Sent) + 1
    BY <2>1, FS_AddElement
  <2>3. places' = places + 1 /\ places < Concurrency
    BY <1>3 DEF Send
  <2> QED
    BY <1>1, <2>2, <2>3 DEF PlacesAreCalls, LimiterTypeOK
<1>4. ASSUME NEW c \in Callers, NEW failed \in BOOLEAN, Return(c, failed)
      PROVE  PlacesInv'
  <2>1. Sent' = Sent \ {c} /\ c \in Sent
    BY <1>4 DEF Return, Step, Sent, LimiterTypeOK
  <2>2. IsFiniteSet(Sent') /\ Cardinality(Sent') = Cardinality(Sent) - 1
    BY <2>1, FS_RemoveElement
  <2>3. places' = places - 1
    BY <1>4 DEF Return, PlacesAfter
  <2> QED
    BY <1>1, <2>2, <2>3 DEF PlacesAreCalls, LimiterTypeOK
<1>5. ASSUME NEW c \in Callers, ReadClock(c) \/ Book(c) \/ Wake(c) \/ GiveUp(c)
      PROVE  PlacesInv'
  <2>1. Sent' = Sent /\ places' = places
    BY <1>5 DEF ReadClock, Book, Wake, GiveUp, Step, Sent, LimiterTypeOK
  <2> QED
    BY <1>2, <2>1
<1>6. CASE LimiterTick \/ UNCHANGED limiterVars
  BY <1>2, <1>6 DEF LimiterTick, limiterVars, Sent
<1> QED
  BY <1>3, <1>4, <1>5, <1>6 DEF LimiterNext, CallerStep

\* However many callers there are, and whatever fails or is given up, the
\* provider sees as many requests at once as places are taken, and never more
\* than Concurrency (the semaphore of externalAPILimiter).
THEOREM PlacesNeverLost == LimiterSpec => []PlacesAreCalls
<1>1. LimiterInit => PlacesInv
  <2> SUFFICES ASSUME LimiterInit PROVE PlacesInv
    OBVIOUS
  <2>1. Sent = {}
    BY DEF LimiterInit, Sent
  <2> QED
    BY <2>1, FS_EmptySet, LimiterAssumption
    DEF PlacesInv, LimiterTypeOK, PlacesAreCalls, LimiterInit, LimiterAssumption
<1>2. PlacesInv /\ [LimiterNext]_limiterVars => PlacesInv'
  BY PlacesStep, LimiterAssumption
<1>3. PlacesInv => PlacesAreCalls
  BY DEF PlacesInv
<1> QED
  BY <1>1, <1>2, <1>3, PTL DEF LimiterSpec

-----------------------------------------------------------------------------
(* The slots of the map provider.  Two history variables, which restrict no *)
(* step of the limiter, keep every slot that was ever booked, those long    *)
(* past and those of callers that gave up included, and whose it is.        *)

VARIABLES
    begins,     \* begins[i]: when the i-th slot that was booked begins
    mine        \* mine[c]: the number of the slot that c booked last

bookVars == <<limiterVars, begins, mine>>

BookInit ==
    LimiterInit /\ begins = <<>> /\ mine = [c \in Callers |-> 0]

BookSlot(c) ==
    /\ Book(c)
    /\ begins' = Append(begins, Later(-age[c], nextSlot))
    /\ mine' = [mine EXCEPT ![c] = Len(begins) + 1]

BookTick ==
    /\ LimiterTick
    /\ begins' = [i \in 1..Len(begins) |-> begins[i] - 1]
    /\ UNCHANGED mine

OtherStep(c) ==
    /\ \/ ReadClock(c) \/ Wake(c) \/ GiveUp(c) \/ Send(c)
       \/ \E failed \in BOOLEAN : Return(c, failed)
    /\ UNCHANGED <<begins, mine>>

BookNext == BookTick \/ \E c \in Callers : BookSlot(c) \/ OtherStep(c)

BookSpec == BookInit /\ [][BookNext]_bookVars

HasSlot == {c \in Callers : stage[c] \in {"sleeping", "queueing", "sent"}}

\* Of all slots ever booked each begins an interval or more after the one that
\* was booked before it, whatever clocks the callers read and in whatever order
\* they took the mutex; callers have slots of their own, and none waits for a
\* place or has sent its request before its slot began (externalAPILimiter.wait).
SlotsApart ==
    /\ \A i, j \in 1..Len(begins) : i < j => begins[j] >= begins[i] + Interval
    /\ \A c \in HasSlot : mine[c] \in 1..Len(begins)
    /\ \A c, d \in HasSlot : mine[c] = mine[d] => c = d
    /\ \A c \in HasSlot : stage[c] # "sleeping" => begins[mine[c]] <= 0

\* The next slot is an interval after all of them, and who sleeps wakes at his.
BookInv ==
    /\ LimiterTypeOK /\ SlotsApart
    /\ begins \in Seq(Int) /\ mine \in [Callers -> Nat]
    /\ \A i \in 1..Len(begins) : nextSlot >= begins[i] + Interval
    /\ \A c \in HasSlot : stage[c] = "sleeping" => slot[c] = begins[mine[c]]

LEMMA BookSlotStep ==
    ASSUME LimiterAssumption, BookInv, LimiterTypeOK', NEW c \in Callers, BookSlot(c)
    PROVE  BookInv'
<1> DEFINE sendAt == Later(-age[c], nextSlot)
           n == Len(begins)
<1>1. /\ stage[c] = "booking" /\ \A d \in Callers \ {c} : stage'[d] = stage[d]
      /\ stage'[c] = IF sendAt > 0 THEN "sleeping" ELSE "queueing"
      /\ \A d \in Callers \ {c} : slot'[d] = slot[d]
      /\ stage'[c] = "sleeping" => slot'[c] = sendAt
      /\ stage'[c] = "queueing" => sendAt <= 0
  BY DEF BookSlot, Book, Step, Later, BookInv, LimiterTypeOK
<1>2. sendAt \in Int /\ sendAt >= nextSlot /\ nextSlot' = sendAt + Interval /\ nextSlot \in Int
      /\ Interval \in Nat
  BY DEF BookSlot, Book, Later, BookInv, LimiterTypeOK, LimiterAssumption
<1>3. begins \in Seq(Int) /\ mine \in [Callers -> Nat] /\ n \in Nat
  BY DEF BookInv
<1>4. begins' = Append(begins, sendAt) /\ mine' = [mine EXCEPT ![c] = n + 1]
  BY DEF BookSlot
<1> HIDE DEF sendAt
<1>5. /\ begins' \in Seq(Int) /\ Len(begins') = n + 1 /\ begins'[n + 1] = sendAt
      /\ \A i \in 1..n : begins'[i] = begins[i] /\ begins[i] \in Int
  BY <1>2, <1>3, <1>4
<1> HIDE DEF n
<1>6. /\ mine' \in [Callers -> Nat] /\ mine'[c] = n + 1
      /\ \A d \in Callers \ {c} : mine'[d] = mine[d]
  BY <1>3, <1>4
<1>7. HasSlot' = HasSlot \cup {c} /\ c \notin HasSlot
  BY <1>1 DEF HasSlot
<1>8. \A d \in HasSlot : d \in Callers /\ d # c /\ mine[d] \in 1..n
  BY <1>7 DEF BookInv, SlotsApart, HasSlot, n
<1>9. \A i \in 1..n : sendAt >= begins[i] + Interval
  BY <1>2, <1>5 DEF BookInv, n
<1>10. SlotsApart'
  <2>1. \A i, j \in 1..n + 1 : i < j => begins'[j] >= begins'[i] + Interval
    <3>1. \A i, j \in 1..n : i < j => begins[j] >= begins[i] + Interval
      BY DEF BookInv, SlotsApart, n
    <3>2. \A i, j \in 1..n + 1 : i < j => i \in 1..n /\ (j \in 1..n \/ j = n + 1)
      BY <1>3 DEF n
    <3> QED BY <1>5, <1>9, <3>1, <3>2
  <2>2. \A d \in HasSlot' : mine'[d] \in 1..n + 1
    BY <1>3, <1>6, <1>7, <1>8
  <2>3. \A d, e \in HasSlot' : mine'[d] = mine'[e] => d = e
    <3>1. \A d, e \in HasSlot : mine[d] = mine[e] => d = e
      BY DEF BookInv, SlotsApart
    <3>2. \A d \in HasSlot : mine'[d] = mine[d] /\ mine[d] # n + 1
      BY <1>3, <1>6, <1>8
    <3> QED BY <1>6, <1>7, <3>1, <3>2
  <2>4. \A d \in HasSlot' : stage'[d] # "sleeping" => begins'[mine'[d]] <= 0
    <3>1. \A d \in HasSlot : stage[d] # "sleeping" => begins[mine[d]] <= 0
      BY DEF BookInv, SlotsApart
    <3> QED BY <1>1, <1>5, <1>6, <1>7, <1>8, <3>1
  <2> QED BY <1>5, <2>1, <2>2, <2>3, <2>4 DEF SlotsApart
<1>11. \A i \in 1..n + 1 : nextSlot' >= begins'[i] + Interval
  <2>1. \A i \in 1..n + 1 : i \in 1..n \/ i = n + 1
    BY <1>3 DEF n
  <2> QED BY <1>2, <1>5, <1>9, <2>1
<1>12. \A d \in HasSlot' : stage'[d] = "sleeping" => slot'[d] = begins'[mine'[d]]
  <2>1. \A d \in HasSlot : stage[d] = "sleeping" => slot[d] = begins[mine[d]]
    BY DEF BookInv
  <2> QED BY <1>1, <1>5, <1>6, <1>7, <1>8, <2>1
<1> QED BY <1>5, <1>6, <1>10, <1>11, <1>12 DEF BookInv

LEMMA BookTickStep ==
    ASSUME LimiterAssumption, BookInv, LimiterTypeOK', BookTick
    PROVE  BookInv'
<1> DEFINE n == Len(begins)
<1>1. begins \in Seq(Int) /\ n \in Nat /\ mine' = mine /\ stage' = stage
      /\ mine \in [Callers -> Nat] /\ begins' = [i \in 1..n |-> begins[i] - 1]
  BY DEF BookTick, LimiterTick, BookInv
<1>2. \A i \in 1..n : begins[i] \in Int
  BY <1>1
<1> HIDE DEF n
<1>3. begins' \in Seq(Int) /\ Len(begins') = n /\ \A i \in 1..n : begins'[i] = begins[i] - 1
  BY <1>1, <1>2
<1>4. nextSlot \in Int /\ nextSlot' \in Int /\ nextSlot' >= nextSlot - 1 /\ Interval \in Nat
  BY DEF BookTick, LimiterTick, Later, BookInv, LimiterTypeOK, LimiterAssumption
<1>5. ASSUME NEW c \in Callers, stage[c] = "sleeping" PROVE slot'[c] = slot[c] - 1
  <2>1. slot[c] \in Nat /\ slot[c] > 0 /\ slot'[c] = Later(slot[c] - 1, 0)
    BY <1>5 DEF BookTick, LimiterTick, BookInv, LimiterTypeOK
  <2> QED BY <2>1 DEF Later
<1>6. HasSlot' = HasSlot /\ \A c \in HasSlot : c \in Callers /\ mine[c] \in 1..n
  BY <1>1 DEF HasSlot, BookInv, SlotsApart, n
<1>7. SlotsApart'
  <2>1. \A i, j \in 1..n : i < j => begins[j] >= begins[i] + Interval
    BY DEF BookInv, SlotsApart, n
  <2>2. ASSUME NEW i \in 1..n, NEW j \in 1..n, i < j
        PROVE  begins'[j] >= begins'[i] + Interval
    <3>1. begins[j] >= begins[i] + Interval /\ begins[i] \in Int /\ begins[j] \in Int
      BY <1>2, <2>1, <2>2
    <3>2. begins'[i] = begins[i] - 1 /\ begins'[j] = begins[j] - 1
      BY <1>3
    <3> QED BY <1>4, <3>1, <3>2
  <2>3. \A c \in HasSlot : stage[c] # "sleeping" => begins'[mine[c]] <= 0
    BY <1>2, <1>3, <1>6 DEF BookInv, SlotsApart
  <2>4. \A c, d \in HasSlot : mine[c] = mine[d] => c = d
    BY DEF BookInv, SlotsApart
  <2> QED BY <1>1, <1>3, <1>6, <2>2, <2>3, <2>4 DEF SlotsApart
<1>8. ASSUME NEW i \in 1..n PROVE nextSlot' >= begins'[i] + Interval
  <2>1. nextSlot >= begins[i] + Interval /\ begins[i] \in Int
    BY <1>2 DEF BookInv, n
  <2>2. begins'[i] = begins[i] - 1
    BY <1>3
  <2> QED BY <1>4, <2>1, <2>2
<1>9. \A c \in HasSlot : stage[c] = "sleeping" => slot'[c] = begins'[mine[c]]
  BY <1>3, <1>5, <1>6 DEF BookInv
<1> QED BY <1>1, <1>3, <1>6, <1>7, <1>8, <1>9 DEF BookInv

LEMMA OtherStepKeeps ==
    ASSUME LimiterAssumption, BookInv, LimiterTypeOK', NEW c \in Callers, OtherStep(c)
    PROVE  BookInv'
<1>1. UNCHANGED <<begins, mine, nextSlot>>
  BY DEF OtherStep, ReadClock, Wake, GiveUp, Send, Return
<1>2. \A d \in Callers \ {c} : stage'[d] = stage[d] /\ slot'[d] = slot[d]
  BY DEF OtherStep, ReadClock, Wake, GiveUp, Send, Return, Step, BookInv, LimiterTypeOK
<1>3. /\ c \in HasSlot' => c \in HasSlot
      /\ c \in HasSlot' => stage'[c] # "sleeping" /\ (stage[c] = "sleeping" => slot[c] <= 0)
  BY DEF OtherStep, ReadClock, Wake, GiveUp, Send, Return, Step, BookInv, LimiterTypeOK, HasSlot
<1>4. HasSlot' \subseteq HasSlot
  BY <1>2, <1>3 DEF HasSlot
<1>5. SlotsApart'
  <2>1. \A d \in HasSlot' : stage'[d] # "sleeping" => begins[mine[d]] <= 0
    <3>1. c \in HasSlot' => begins[mine[c]] <= 0
      BY <1>3 DEF BookInv, SlotsApart
    <3>2. \A d \in HasSlot : stage[d] # "sleeping" => begins[mine[d]] <= 0
      BY DEF BookInv, SlotsApart
    <3> QED BY <1>2, <1>4, <3>1, <3>2 DEF HasSlot
  <2> QED BY <1>1, <1>4, <2>1 DEF BookInv, SlotsApart
<1>6. \A d \in HasSlot' : stage'[d] = "sleeping" => slot'[d] = begins[mine[d]]
  BY <1>2, <1>3, <1>4 DEF BookInv, HasSlot
<1> QED BY <1>1, <1>5, <1>6 DEF BookInv

\* For any number of callers, whatever clocks they read before they took the
\* mutex, whoever gave up or is long gone: the slots lie an interval apart, all
\* of them, and nobody is ahead of his (externalAPILimiter.wait).
THEOREM SlotsKeepTheirDistance == BookSpec => []SlotsApart
<1>1. BookInit => BookInv
  <2> SUFFICES ASSUME BookInit PROVE BookInv
    OBVIOUS
  <2>1. LimiterTypeOK
    BY LimiterAssumption DEF BookInit, LimiterInit, LimiterTypeOK, LimiterAssumption
  <2>2. HasSlot = {} /\ begins = <<>> /\ mine = [c \in Callers |-> 0]
    BY DEF BookInit, LimiterInit, HasSlot
  <2> QED BY <2>1, <2>2 DEF BookInv, SlotsApart
<1>2. BookInv /\ [BookNext]_bookVars => BookInv'
  <2> SUFFICES ASSUME BookInv, [BookNext]_bookVars PROVE BookInv'
    OBVIOUS
  <2>1. [LimiterNext]_limiterVars
    BY DEF BookNext, BookTick, BookSlot, OtherStep, LimiterNext, CallerStep, bookVars
  <2>2. LimiterTypeOK'
    BY <2>1, LimiterTypeStep, LimiterAssumption DEF BookInv
  <2>3. CASE UNCHANGED bookVars
    BY <2>2, <2>3 DEF bookVars, limiterVars, BookInv, SlotsApart, HasSlot
  <2> QED BY <2>2, <2>3, BookTickStep, BookSlotStep, OtherStepKeeps, LimiterAssumption DEF BookNext
<1>3. BookInv => SlotsApart
  BY DEF BookInv
<1> QED BY <1>1, <1>2, <1>3, PTL DEF BookSpec

-----------------------------------------------------------------------------
(* The harness.  A case that was handed out is with one worker or has one   *)
(* result (Handed), so a worker that has one finds room in a channel made   *)
(* for all of them, and when nobody has one the results are complete.       *)

\* No case is with two workers, has two results, or a result and a worker.
Apart ==
    /\ \A v, w \in Workers : job[v] \in 1..Jobs /\ job[v] = job[w] => v = w
    /\ \A i, k \in DOMAIN results : results[i] = results[k] => i = k
    /\ \A i \in DOMAIN results, w \in Workers : results[i] # job[w]
OnlySent ==
    /\ \A w \in Workers : job[w] \in 1..Jobs => job[w] <= sent
    /\ \A i \in DOMAIN results : results[i] <= sent
NoneLost ==
    \A n \in 1..sent : \/ \E w \in Workers : job[w] = n
                       \/ \E i \in DOMAIN results : results[i] = n

Handed == Apart /\ OnlySent /\ NoneLost

Closed ==
    /\ runner \in {"checking", "sending"} =>
          sent < Jobs /\ \A w \in Workers : job[w] # Stopped
    /\ runner \in {"waiting", "ended"} => sent = Jobs \/ cancelled
    /\ runner = "ended" =>
          /\ \A w \in Workers : job[w] = Stopped
          /\ report = IF sent = Jobs THEN results ELSE <<>>

HarnessInv == HarnessTypeOK /\ Handed /\ Closed

\* A worker that finished a case finds room for its result (resultCh).
RoomForResults == \A w \in Workers : job[w] \in 1..Jobs => Len(results) < ResultRoom

\* The report of a run that ended has one result for each case, or the run was
\* cancelled before all were handed out (Runner.Run).
ReportComplete ==
    runner = "ended" =>
        \/ cancelled /\ report = <<>>
        \/ \A n \in 1..Jobs : Cardinality({i \in DOMAIN report : report[i] = n}) = 1

LEMMA HarnessStep ==
    ASSUME HarnessAssumption, HarnessInv, [HarnessNext]_harnessVars
    PROVE  HarnessInv'
<1> DEFINE l == Len(results)
<1>0. /\ HarnessTypeOK /\ Apart /\ OnlySent /\ NoneLost /\ Closed
      /\ Jobs \in Nat /\ sent \in 0..Jobs /\ Stopped = Jobs + 1 /\ Stopped \notin 0..Jobs
      /\ job \in [Workers -> 0 .. Jobs + 1]
      /\ l \in Nat /\ DOMAIN results = 1..l /\ \A i \in 1..l : results[i] \in 1..Jobs
  BY DEF HarnessAssumption, HarnessInv, HarnessTypeOK, Handed, Stopped
<1> HIDE DEF l
<1>1. CASE CheckContext
  <2>1. /\ runner = "checking" /\ runner' = IF cancelled THEN "waiting" ELSE "sending"
        /\ UNCHANGED <<sent, job, results, report, cancelled>>
    BY <1>1 DEF CheckContext
  <2>2. HarnessTypeOK' /\ Closed'
    BY <1>0, <2>1 DEF HarnessTypeOK, Closed, Stopped
  <2> QED
    BY <1>0, <2>1, <2>2 DEF HarnessInv, Handed, Apart, OnlySent, NoneLost
<1>2. ASSUME NEW w \in Workers, HandOut(w)
      PROVE  HarnessInv'
  <2>1. /\ runner = "sending" /\ job[w] = 0 /\ sent < Jobs
        /\ sent' = sent + 1 /\ sent + 1 \in 1..Jobs
        /\ job' = [job EXCEPT ![w] = sent + 1]
        /\ runner' = IF sent + 1 = Jobs THEN "waiting" ELSE "checking"
        /\ UNCHANGED <<results, report, cancelled>>
    BY <1>0, <1>2 DEF HandOut, Closed
  <2>2. /\ job'[w] = sent + 1 /\ job'[w] # Stopped
        /\ \A v \in Workers : v # w => job'[v] = job[v]
    BY <1>0, <2>1
  <2>3. \A v \in Workers : job[v] # sent + 1
    BY <1>0, <2>1 DEF OnlySent
  <2>4. \A i \in 1..l : results[i] # sent + 1
    BY <1>0, <2>1 DEF OnlySent
  <2>5. HarnessTypeOK' /\ Closed'
    BY <1>0, <2>1, <2>2 DEF HarnessTypeOK, Closed, Stopped
  <2>6. Apart'
    <3>1. ASSUME NEW v \in Workers, NEW u \in Workers, job'[v] \in 1..Jobs, job'[v] = job'[u]
          PROVE  v = u
      BY <1>0, <2>2, <2>3, <3>1 DEF Apart
    <3>2. ASSUME NEW i \in 1..l, NEW v \in Workers
          PROVE  results[i] # job'[v]
      BY <1>0, <2>2, <2>4, <3>2 DEF Apart
    <3> QED
      BY <1>0, <2>1, <3>1, <3>2 DEF Apart
  <2>7. OnlySent'
    BY <1>0, <2>1, <2>2 DEF OnlySent
  <2>8. ASSUME NEW n \in 1..sent'
        PROVE  \/ \E v \in Workers : job'[v] = n
               \/ \E i \in DOMAIN results : results[i] = n
    <3>1. CASE n = sent + 1
      BY <2>2, <3>1
    <3>2. CASE n \in 1..sent
      <4>1. ASSUME NEW v \in Workers, job[v] = n
            PROVE  job'[v] = n
        BY <1>0, <2>1, <2>2, <3>2, <4>1
      <4> QED
        BY <1>0, <3>2, <4>1 DEF NoneLost
    <3> QED
      BY <1>0, <2>1, <3>1, <3>2
  <2> QED
    BY <2>1, <2>5, <2>6, <2>7, <2>8 DEF HarnessInv, Handed, NoneLost
<1>3. ASSUME NEW w \in Workers, FinishCase(w)
      PROVE  HarnessInv'
  <2>1. /\ job[w] \in 1..Jobs
        /\ results' = Append(results, job[w])
        /\ job' = [job EXCEPT ![w] = 0]
        /\ UNCHANGED <<runner, sent, report, cancelled>>
    BY <1>3 DEF FinishCase
  <2>2. results \in Seq(1..Jobs) /\ l = Len(results)
    BY <1>0 DEF HarnessTypeOK, l
  <2>3. /\ DOMAIN results' = 1..(l + 1) /\ results'[l + 1] = job[w]
        /\ \A i \in 1..l : results'[i] = results[i]
        /\ results' \in Seq(1..Jobs)
    BY <2>1, <2>2
  <2>4. job'[w] = 0 /\ \A v \in Workers : v # w => job'[v] = job[v]
    BY <1>0, <2>1
  <2>5. HarnessTypeOK' /\ Closed'
    BY <1>0, <2>1, <2>3, <2>4 DEF HarnessTypeOK, Closed, Stopped
  <2>6. Apart'
    <3>1. ASSUME NEW v \in Workers, NEW u \in Workers, job'[v] \in 1..Jobs, job'[v] = job'[u]
          PROVE  v = u
      BY <1>0, <2>4, <3>1 DEF Apart
    <3>2. ASSUME NEW i \in 1..(l + 1), NEW k \in 1..(l + 1), results'[i] = results'[k]
          PROVE  i = k
      <4>1. \A j \in 1..l : results'[j] # job[w]
        BY <1>0, <2>3 DEF Apart
      <4>2. CASE i \in 1..l /\ k \in 1..l
        BY <1>0, <2>3, <3>2, <4>2 DEF Apart
      <4> QED
        BY <1>0, <2>3, <3>2, <4>1, <4>2
    <3>3. ASSUME NEW i \in 1..(l + 1), NEW v \in Workers
          PROVE  results'[i] # job'[v]
      <4>1. CASE i = l + 1
        BY <1>0, <2>1, <2>3, <2>4, <4>1 DEF Apart
      <4>2. CASE i \in 1..l
        <5>1. results'[i] = results[i] /\ results[i] \in 1..Jobs /\ results[i] # job[v]
          BY <1>0, <2>3, <4>2 DEF Apart
        <5> QED
          BY <1>0, <2>4, <5>1
      <4> QED
        BY <1>0, <4>1, <4>2
    <3> QED
      BY <2>3, <3>1, <3>2, <3>3 DEF Apart
  <2>7. OnlySent'
    BY <1>0, <2>1, <2>3, <2>4 DEF OnlySent
  <2>8. ASSUME NEW n \in 1..sent
        PROVE  \/ \E v \in Workers : job'[v] = n
               \/ \E i \in DOMAIN results' : results'[i] = n
    <3>1. CASE n = job[w]
      BY <1>0, <2>3, <3>1
    <3>2. ASSUME NEW v \in Workers, job[v] = n, n # job[w]
          PROVE  job'[v] = n
      BY <2>4, <3>2
    <3>3. ASSUME NEW i \in 1..l, results[i] = n
          PROVE  i \in DOMAIN results' /\ results'[i] = n
      BY <1>0, <2>3, <3>3
    <3> QED
      BY <1>0, <3>1, <3>2, <3>3 DEF NoneLost
  <2> QED
    BY <2>1, <2>5, <2>6, <2>7, <2>8 DEF HarnessInv, Handed, NoneLost
<1>4. ASSUME NEW w \in Workers, StopWorker(w)
      PROVE  HarnessInv'
  <2>1. /\ runner = "waiting" /\ job[w] = 0
        /\ job' = [job EXCEPT ![w] = Stopped]
        /\ UNCHANGED <<runner, sent, results, report, cancelled>>
    BY <1>4 DEF StopWorker
  <2>2. job'[w] = Stopped /\ \A v \in Workers : v # w => job'[v] = job[v]
    BY <1>0, <2>1
  <2>3. HarnessTypeOK' /\ Closed'
    BY <1>0, <2>1, <2>2 DEF HarnessTypeOK, Closed
  <2>4. Apart'
    BY <1>0, <2>1, <2>2 DEF Apart
  <2>5. OnlySent'
    BY <1>0, <2>1, <2>2 DEF OnlySent
  <2>6. ASSUME NEW n \in 1..sent, NEW v \in Workers, job[v] = n
        PROVE  job'[v] = n
    BY <1>0, <2>1, <2>2, <2>6
  <2> QED
    BY <1>0, <2>1, <2>3, <2>4, <2>5, <2>6 DEF HarnessInv, Handed, NoneLost
<1>5. CASE EndRun
  <2>1. /\ runner = "waiting" /\ runner' = "ended" /\ \A w \in Workers : job[w] = Stopped
        /\ report' = IF sent = Jobs THEN results ELSE <<>>
        /\ UNCHANGED <<sent, job, results, cancelled>>
    BY <1>5 DEF EndRun
  <2>2. sent = Jobs \/ cancelled
    BY <1>0, <2>1 DEF Closed
  <2>3. report' \in Seq(1..Jobs)
    <3>1. results \in Seq(1..Jobs) /\ <<>> \in Seq(1..Jobs)
      BY <1>0 DEF HarnessTypeOK
    <3> QED
      BY <2>1, <3>1
  <2>4. HarnessTypeOK'
    <3>1. /\ sent' \in 0..Jobs /\ job' \in [Workers -> 0..Stopped] /\ results' \in Seq(1..Jobs)
          /\ cancelled' \in BOOLEAN
      BY <1>0, <2>1, Zenon DEF HarnessTypeOK
    <3> QED
      BY <2>1, <2>3, <3>1, Zenon DEF HarnessTypeOK, Stopped
  <2>5. Closed'
    BY <2>1, <2>2 DEF Closed, Stopped
  <2> QED
    BY <1>0, <2>1, <2>4, <2>5 DEF HarnessInv, Handed, Apart, OnlySent, NoneLost
<1>6. CASE CancelRun
  <2>1. /\ runner # "ended" /\ cancelled' = TRUE
        /\ UNCHANGED <<runner, sent, job, results, report>>
    BY <1>6 DEF CancelRun
  <2>2. HarnessTypeOK' /\ Closed'
    BY <1>0, <2>1 DEF HarnessTypeOK, Closed, Stopped
  <2> QED
    BY <1>0, <2>1, <2>2 DEF HarnessInv, Handed, Apart, OnlySent, NoneLost
<1>7. CASE UNCHANGED harnessVars
  BY <1>0, <1>7 DEF harnessVars, HarnessInv, HarnessTypeOK, Handed, Apart, OnlySent, NoneLost, Closed,
     Stopped
<1> QED
  BY <1>1, <1>2, <1>3, <1>4, <1>5, <1>6, <1>7 DEF HarnessNext

LEMMA HarnessInvariant == HarnessSpec => []HarnessInv
<1>1. HarnessInit => HarnessInv
  <2> SUFFICES ASSUME HarnessInit
               PROVE  HarnessInv
    OBVIOUS
  <2>1. Jobs \in Nat /\ Stopped = Jobs + 1
    BY HarnessAssumption DEF HarnessAssumption, Stopped
  <2>2. /\ runner = IF Jobs = 0 THEN "waiting" ELSE "checking"
        /\ sent = 0 /\ job = [w \in Workers |-> 0] /\ cancelled = FALSE
        /\ results = <<>> /\ report = <<>> /\ DOMAIN results = {}
    BY DEF HarnessInit
  <2>3. HarnessTypeOK
    <3>1. job \in [Workers -> 0..Stopped]
      BY <2>1, <2>2
    <3>2. results \in Seq(1..Jobs) /\ report \in Seq(1..Jobs)
      BY <2>2
    <3>3. runner \in {"checking", "sending", "waiting", "ended"} /\ sent \in 0..Jobs
      BY <2>1, <2>2
    <3>4. cancelled \in BOOLEAN
      BY <2>2, Zenon
    <3> QED
      BY <3>1, <3>2, <3>3, <3>4, Zenon DEF HarnessTypeOK
  <2>4. Handed
    BY <2>1, <2>2 DEF Handed, Apart, OnlySent, NoneLost
  <2>5. Closed
    BY <2>1, <2>2 DEF Closed
  <2> QED
    BY <2>3, <2>4, <2>5 DEF HarnessInv
<1>2. HarnessInv /\ [HarnessNext]_harnessVars => HarnessInv'
  BY HarnessStep, HarnessAssumption
<1> QED
  BY <1>1, <1>2, PTL DEF HarnessSpec

\* Theorem: however many cases and workers there are and whenever the run is
\* cancelled, no worker waits for room in the channel that is read only when all
\* have stopped (the buffered resultCh of Runner.Run).
THEOREM ResultsHaveRoom == HarnessSpec => []RoomForResults
<1>1. HarnessInv => RoomForResults
  <2> SUFFICES ASSUME HarnessInv, NEW w \in Workers, job[w] \in 1..Jobs
               PROVE  Len(results) < Jobs
    BY DEF RoomForResults, ResultRoom
  <2>1. /\ results \in Seq(1..Jobs) /\ Jobs \in Nat /\ Len(results) \in Nat
        /\ DOMAIN results = 1 .. Len(results) /\ \A i \in DOMAIN results : results[i] \in 1..Jobs
    BY HarnessAssumption DEF HarnessInv, HarnessTypeOK, HarnessAssumption
  <2> DEFINE S == 1 .. Len(results)
             T == (1..Jobs) \ {job[w]}
  <2>2. /\ IsFiniteSet(S) /\ Cardinality(S) = Len(results)
        /\ IsFiniteSet(1..Jobs) /\ Cardinality(1..Jobs) = Jobs
    <3>1. 1 \in Int /\ Len(results) \in Int /\ Jobs \in Int
      BY <2>1
    <3>2. /\ IsFiniteSet(1 .. Len(results))
          /\ Cardinality(1 .. Len(results)) =
                IF 1 > Len(results) THEN 0 ELSE Len(results) - 1 + 1
      BY <3>1, FS_Interval, Zenon
    <3>3. IsFiniteSet(1..Jobs) /\ Cardinality(1..Jobs) = IF 1 > Jobs THEN 0 ELSE Jobs - 1 + 1
      BY <3>1, FS_Interval, Zenon
    <3> QED
      BY <2>1, <3>2, <3>3
  <2>3. IsFiniteSet(T) /\ Cardinality(T) = Jobs - 1
    BY <2>2, FS_RemoveElement
  <2>4. \A i \in S : results[i] \in T
    BY <2>1 DEF HarnessInv, Handed, Apart
  <2>5. \A i, k \in S : results[i] = results[k] => i = k
    BY <2>1 DEF HarnessInv, Handed, Apart
  <2>6. [i \in S |-> results[i]] \in Injection(S, T)
    BY <2>4, <2>5 DEF Injection, IsInjective
  <2>7. Cardinality(S) <= Cardinality(T)
    BY <2>2, <2>3, <2>6, FS_Injection
  <2> QED
    BY <2>1, <2>2, <2>3, <2>7
<1> QED
  BY <1>1, HarnessInvariant, PTL

\* Theorem: the report of a run that ended has exactly one result for each case,
\* or the run was cancelled and has none (the loop over resultCh in Runner.Run).
THEOREM ReportsAreComplete == HarnessSpec => []ReportComplete
<1>1. HarnessInv => ReportComplete
  <2> SUFFICES ASSUME HarnessInv, runner = "ended", ~(cancelled /\ report = <<>>),
                      NEW n \in 1..Jobs
               PROVE  Cardinality({i \in DOMAIN report : report[i] = n}) = 1
    BY DEF ReportComplete
  <2>1. sent = Jobs /\ report = results /\ \A w \in Workers : job[w] = Stopped
    BY DEF HarnessInv, Closed
  <2>2. \A w \in Workers : job[w] # n
    BY <2>1, HarnessAssumption DEF Stopped, HarnessAssumption
  <2>3. PICK i \in DOMAIN results : results[i] = n
    BY <2>1, <2>2 DEF HarnessInv, Handed, NoneLost
  <2>4. {k \in DOMAIN report : report[k] = n} = {i}
    BY <2>1, <2>3 DEF HarnessInv, Handed, Apart
  <2> QED
    BY <2>4, FS_Singleton
<1> QED
  BY <1>1, HarnessInvariant, PTL
=============================================================================
