---------------------------- MODULE RequestLock ----------------------------
(***************************************************************************)
(* The request-hash lock of src/internal/travel/locks.go, which serialises *)
(* the CreateTask calls of one request hash.  Two implementations share    *)
(* the interface: a map from hash to expiry time guarded by a mutex, and a *)
(* Redis key set with SETNX, a random token and a TTL.                     *)
(*                                                                         *)
(* Both hand the caller an unlock function and forget the owner when the   *)
(* TTL elapses.  They differ in what an unlock called after that does: the *)
(* Redis script compares the token, the map deletes whatever is there.     *)
(***************************************************************************)
EXTENDS Naturals

CONSTANTS
    Tasks,          \* the callers, one CreateTask call each
    Hashes,         \* request hashes
    HashOf,         \* HashOf[c]: the request hash of call c
    LockKind,       \* "memory" or "redis"
    NoTask          \* not a call: the lock is free

\* What the constants are; TaskService assumes it of its own.
LockAssumption ==
    /\ HashOf \in [Tasks -> Hashes]
    /\ LockKind \in {"memory", "redis"}
    /\ NoTask \notin Tasks

VARIABLES
    lockOwner,      \* lockOwner[h]: whose entry is stored and not expired
    holds,          \* the calls whose unlock function is not the no-op
    leased          \* the calls whose TTL runs since a successful Acquire

lockVars == <<lockOwner, holds, leased>>

LockInit ==
    /\ lockOwner = [h \in Hashes |-> NoTask]
    /\ holds = {}
    /\ leased = {}

-----------------------------------------------------------------------------

\* Faulty variants, for the sensitivity of the properties: an unlock
\* script that does not compare the token; an Acquire that ignores the entry
\* it finds.
RemovesAny(c) == TRUE
AlwaysFree(c) == TRUE

\* The key of a call's lock: one per request hash.
KeyOf(c) == HashOf[c]

LockFree(c) == lockOwner[KeyOf(c)] = NoTask

\* Acquire finds no entry, or an expired one.
Acquire(c) ==
    /\ c \notin holds \cup leased
    /\ LockFree(c)
    /\ lockOwner' = [lockOwner EXCEPT ![KeyOf(c)] = c]
    /\ holds' = holds \cup {c}
    /\ leased' = leased \cup {c}

\* SETNX is executed but its reply is lost: the caller sees an error and gets
\* the no-op unlock, the key stays until its TTL.
AcquireLost(c) ==
    /\ LockKind = "redis"
    /\ c \notin holds \cup leased
    /\ LockFree(c)
    /\ lockOwner' = [lockOwner EXCEPT ![KeyOf(c)] = c]
    /\ leased' = leased \cup {c}
    /\ UNCHANGED holds

\* Does the unlock function of c remove the entry that is stored now?
Removes(c) == LockKind = "memory" \/ lockOwner[KeyOf(c)] = c

\* The unlock function returned by a successful Acquire.
Release(c) ==
    /\ c \in holds
    /\ lockOwner' = IF Removes(c)
                    THEN [lockOwner EXCEPT ![KeyOf(c)] = NoTask]
                    ELSE lockOwner
    /\ holds' = holds \ {c}
    /\ leased' = leased \ {c}

\* The unlock script does not reach Redis (cancelled request, outage): the
\* error is logged and the key stays until its TTL.
ReleaseLost(c) ==
    /\ LockKind = "redis"
    /\ c \in holds
    /\ holds' = holds \ {c}
    /\ UNCHANGED <<lockOwner, leased>>

\* The TTL elapses while the entry is stored.
Expire(h) ==
    /\ lockOwner[h] # NoTask
    /\ lockOwner' = [lockOwner EXCEPT ![h] = NoTask]
    /\ leased' = leased \ {lockOwner[h]}
    /\ UNCHANGED holds

LockNext ==
    \/ \E c \in Tasks :
          Acquire(c) \/ AcquireLost(c) \/ Release(c) \/ ReleaseLost(c)
    \/ \E h \in Hashes : Expire(h)

LockSpec == LockInit /\ [][LockNext]_lockVars

-----------------------------------------------------------------------------

\* Type invariant; an entry is only ever stored under its owner's own hash.
LockTypeOK ==
    /\ lockOwner \in [Hashes -> Tasks \cup {NoTask}]
    /\ holds \subseteq Tasks
    /\ leased \subseteq Tasks
    /\ \A h \in Hashes :
          lockOwner[h] # NoTask => HashOf[lockOwner[h]] = h

\* A call whose lease has not run out owns its entry: no unlock of a call that
\* overstayed its own lease has freed the lock under it (the Lua script of
\* RedisRequestLock; the map of MemoryRequestLock has no such comparison).
LeaseOwnsLock == \A c \in leased : lockOwner[HashOf[c]] = c

\* Two calls of the same hash never hold the lock under running leases.
LeaseExclusive ==
    \A c, d \in leased : HashOf[c] = HashOf[d] => c = d
=============================================================================
