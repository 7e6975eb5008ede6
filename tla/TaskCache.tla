------------------------------ MODULE TaskCache ------------------------------
(***************************************************************************)
(* CachedTaskStore of src/internal/travel/task_cache.go: a task store (the *)
(* authority, MySQL) behind a cache with a TTL (Redis).                    *)
(*                                                                         *)
(* Every call on the authority or on the cache is a step of its own, and   *)
(* any of them may fail, entries may expire and callers may die between    *)
(* any two.  The cache keeps two kinds of entries: the task last seen for  *)
(* a request hash, which is only a hint, and finished tasks, which Get     *)
(* returns without asking the authority.                                   *)
(*                                                                         *)
(* The keys are those of RedisTaskStore, the store of a deployment without *)
(* MySQL: the cache may hold that deployment's tasks, finished or not.     *)
(***************************************************************************)
EXTENDS Naturals

CONSTANTS
    Tasks, Hashes, HashOf, NoTask,
    Readers,        \* callers of Get and FindByHash
    Legacy          \* tasks of an earlier deployment, not in the authority

ASSUME CacheAssumption ==
    /\ HashOf \in [Tasks -> Hashes]
    /\ NoTask \notin Tasks
    /\ Legacy \subseteq Tasks
    /\ Readers \cap Tasks = {}

VARIABLES
    tasks, hashToID,    \* the authority
    cachedTask,         \* cachedTask[t]: cached status of t, "absent" if none
    cachedID,           \* cachedID[h]: cached task of h, NoTask if none
    query,              \* query[r]: the read r is in
    phase,              \* phase[p]: where reader or writer p is
    held                \* held[p]: the task p has read or written

authorityVars == <<tasks, hashToID>>
cacheVars == <<cachedTask, cachedID>>
callerVars == <<query, phase, held>>
cachedVars == <<authorityVars, cacheVars, callerVars>>

\* A task is written by one goroutine: the CreateTask call, then its runTask.
Writers == Tasks \ Legacy
Callers == Readers \cup Writers

Authority == INSTANCE TaskStore WITH UniqueHash <- TRUE

\* What the abstract store has answered: what a reader brings home.
answered == [r \in Readers |->
                IF phase[r] \in {"hash", "task", "done"}
                THEN held[r]
                ELSE [task |-> NoTask, status |-> "unanswered"]]

Atomic == INSTANCE AtomicTaskStore WITH UniqueHash <- TRUE, answer <- answered

CacheInit ==
    /\ Authority!StoreInit
    /\ cachedTask \in {c \in [Tasks -> Authority!Status] :
                          \A t \in Writers : c[t] = "absent"}
    /\ cachedID \in {c \in [Hashes -> Legacy \cup {NoTask}] :
                        \A h \in Hashes : c[h] # NoTask => HashOf[c[h]] = h}
    /\ query = [r \in Readers |-> Atomic!NoQuery]
    /\ phase = [p \in Callers |-> "idle"]
    /\ held = [p \in Callers |-> Atomic!Unanswered]

-----------------------------------------------------------------------------

PhaseMoves(p, from, to) == phase[p] = from /\ phase' = [phase EXCEPT ![p] = to]
Hold(p, answer) == held' = [held EXCEPT ![p] = answer]

\* Faulty variants, for the sensitivity of the properties: every status may be
\* cached and served; the cached task of a hash is taken for granted; a write
\* the authority refused is cached all the same.
AnyStatus(status) == status # "absent"
TrustPointed(r) ==
    /\ PhaseMoves(r, "pointed", "hash")
    /\ Hold(r, Atomic!Answer(cachedID[HashOf[query[r].of]], "pending"))
    /\ UNCHANGED <<authorityVars, cacheVars, query>>

WriteUnchecked(t) ==
    /\ PhaseMoves(t, "idle", "hash")
    /\ \E status \in Authority!Status \ {"absent"} :
          /\ Authority!Create(t) \/ Authority!Update(t, status) \/ UNCHANGED authorityVars
          /\ Hold(t, Atomic!Answer(t, status))
    /\ UNCHANGED <<cacheVars, query>>

IsTerminal(status) == status \in Authority!TerminalStatus

\* The service creates a task once and updates it until it has an outcome.  A
\* write the authority refuses changes nothing; one whose confirmation is lost
\* is followed by Leave.
WriteTask(t) ==
    /\ PhaseMoves(t, "idle", "hash")
    /\ \E status \in Authority!Status :
          /\ \/ tasks[t] = "absent" /\ status = "pending" /\ Authority!Create(t)
             \/ /\ ~IsTerminal(tasks[t]) /\ status \notin {"absent", "pending"}
                /\ Authority!Update(t, status)
          /\ Hold(t, Atomic!Answer(t, status))
    /\ UNCHANGED <<cacheVars, query>>

Ask(r, q) ==
    /\ PhaseMoves(r, "idle", IF q.kind = "get" THEN "cachedTask" ELSE "cachedID")
    /\ query' = [query EXCEPT ![r] = q]
    /\ UNCHANGED <<authorityVars, cacheVars, held>>

\* Get finds a finished task in the cache and returns it.
ServeCached(r) ==
    LET t == query[r].of
    IN /\ PhaseMoves(r, "cachedTask", "done")
       /\ IsTerminal(cachedTask[t])
       /\ Hold(r, Atomic!Answer(t, cachedTask[t]))
       /\ UNCHANGED <<authorityVars, cacheVars, query>>

\* FindByHash finds a task id in the cache.
FollowCached(r) ==
    /\ PhaseMoves(r, "cachedID", "pointed")
    /\ cachedID[HashOf[query[r].of]] # NoTask
    /\ Hold(r, Atomic!Answer(cachedID[HashOf[query[r].of]], "pointed"))
    /\ UNCHANGED <<authorityVars, cacheVars, query>>

\* The cache has nothing to serve, or fails.
MissCached(r) ==
    /\ \/ PhaseMoves(r, "cachedTask", "authority")
       \/ PhaseMoves(r, "cachedID", "authority")
    /\ UNCHANGED <<authorityVars, cacheVars, query, held>>

\* The authority answers; a failure is returned as it is.
ReadFails(r) ==
    /\ \/ PhaseMoves(r, "authority", "done")
       \/ PhaseMoves(r, "pointed", "done")
    /\ Hold(r, Atomic!Failed)
    /\ UNCHANGED <<authorityVars, cacheVars, query>>

\* FindByHash asks for the task the cache named; one the authority does not
\* have is passed over.
ReadPointed(r) ==
    LET t == held[r].task
    IN /\ \/ /\ PhaseMoves(r, "pointed", "hash")
             /\ tasks[t] # "absent"
             /\ Hold(r, Atomic!Answer(t, tasks[t]))
          \/ /\ PhaseMoves(r, "pointed", "authority")
             /\ tasks[t] = "absent"
             /\ Hold(r, Atomic!Unanswered)
       /\ UNCHANGED <<authorityVars, cacheVars, query>>

\* Get or FindByHash of the authority; what is found is cached next.
ReadAuthority(r) ==
    LET found == Atomic!Current(query[r])
    IN /\ \/ PhaseMoves(r, "authority", "done") /\ found = Atomic!Missing
          \/ PhaseMoves(r, "authority", "hash") /\ found # Atomic!Missing
       /\ Hold(r, found)
       /\ UNCHANGED <<authorityVars, cacheVars, query>>

\* cacheTask: the hint first; it may fail, which is only logged.
CacheHash(p) ==
    LET t == held[p].task
    IN /\ PhaseMoves(p, "hash", IF IsTerminal(held[p].status) THEN "task" ELSE "done")
       /\ \/ cachedID' = [cachedID EXCEPT ![HashOf[t]] = t]
          \/ UNCHANGED cachedID
       /\ UNCHANGED <<authorityVars, cachedTask, query, held>>

\* ... then, of a finished task, the task itself.
CacheResult(p) ==
    LET t == held[p].task
    IN /\ PhaseMoves(p, "task", "done")
       /\ \/ cachedTask' = [cachedTask EXCEPT ![t] = held[p].status]
          \/ UNCHANGED cachedTask
       /\ UNCHANGED <<authorityVars, cachedID, query, held>>

\* The call returns, or its caller dies wherever it is.
Leave(p) ==
    /\ phase[p] # "idle"
    /\ phase' = [phase EXCEPT ![p] = "idle"]
    /\ Hold(p, Atomic!Unanswered)
    /\ query' = IF p \in Readers THEN [query EXCEPT ![p] = Atomic!NoQuery] ELSE query
    /\ UNCHANGED <<authorityVars, cacheVars>>

\* The TTL of an entry elapses, or Redis evicts it.
ForgetTask(t) ==
    /\ cachedTask[t] # "absent"
    /\ cachedTask' = [cachedTask EXCEPT ![t] = "absent"]
    /\ UNCHANGED <<authorityVars, cachedID, callerVars>>
ForgetHash(h) ==
    /\ cachedID[h] # NoTask
    /\ cachedID' = [cachedID EXCEPT ![h] = NoTask]
    /\ UNCHANGED <<authorityVars, cachedTask, callerVars>>

ReadStep(r) ==
    \/ ServeCached(r) \/ FollowCached(r) \/ MissCached(r)
    \/ ReadPointed(r) \/ ReadAuthority(r) \/ ReadFails(r)

CacheNext ==
    \/ \E r \in Readers : ReadStep(r) \/ \E q \in Atomic!Query : Ask(r, q)
    \/ \E t \in Writers : WriteTask(t)
    \/ \E p \in Callers : CacheHash(p) \/ CacheResult(p) \/ Leave(p)
    \/ \E t \in Tasks : ForgetTask(t)
    \/ \E h \in Hashes : ForgetHash(h)

CacheSpec == CacheInit /\ [][CacheNext]_cachedVars

-----------------------------------------------------------------------------

Phases == {"idle", "cachedTask", "cachedID", "pointed", "authority", "hash",
           "task", "done"}

\* Type invariant; of this deployment's tasks only outcomes are cached.
CacheTypeOK ==
    /\ Authority!StoreTypeOK
    /\ cachedTask \in [Tasks -> Authority!Status]
    /\ \A t \in Writers : cachedTask[t] \in Authority!TerminalStatus \cup {"absent"}
    /\ cachedID \in [Hashes -> Tasks \cup {NoTask}]
    /\ query \in [Readers -> Atomic!Query \cup {Atomic!NoQuery}]
    /\ phase \in [Callers -> Phases]
    /\ held \in [Callers -> [task : Tasks \cup {NoTask},
                             status : Authority!Status
                                      \cup {"unanswered", "pointed", "failure"}]]

\* A cached outcome of a task of this deployment is the outcome the authority
\* has: whichever reads are slow, a snapshot taken before the task ended never
\* overwrites it (cacheTask keeps finished tasks only).
CacheAgrees ==
    \A t \in Writers : cachedTask[t] # "absent" => cachedTask[t] = tasks[t]

\* The cached task of a hash is the one the authority has for it, unless it is
\* one of an earlier deployment.
HintsAgree ==
    \A h \in Hashes : cachedID[h] \in Writers => cachedID[h] = hashToID[h]

\* Behind the cache the store still answers every read with what was stored at
\* one instant of that read.
Linearizable == Atomic!AtomicSpec
=============================================================================
