---------------------------- MODULE Stores_proofs ----------------------------
(***************************************************************************)
(* The two stores, for any tasks, plans, hashes, readers and calls.        *)
(*                                                                         *)
(* The cached task store implements the atomic one, whatever entries an    *)
(* earlier deployment left behind.  Neither CacheAgrees nor HintsAgree is  *)
(* inductive alone: a caller that has a task in hand will cache it some    *)
(* steps later.  What it has in hand must still be true then: a task once  *)
(* stored stays stored, as the only one of its hash, and an outcome stays  *)
(* the outcome (InHand).  What a reader is answered matches its question   *)
(* (Asked).                                                                *)
(*                                                                         *)
(* In the plan library no counted view or save is lost, the private plan   *)
(* and its public copy agree unless calls on them overlapped or failed     *)
(* (all for either store), and with MySQL a task has one plan and a        *)
(* deleted plan stays deleted.                                             *)
(***************************************************************************)
EXTENDS MCStores, FiniteSetTheorems, TLAPS

-----------------------------------------------------------------------------
(* The cached task store                                                   *)

\* The index leads to every stored task: it is the only one of its hash.
Indexed ==
    \A t \in Tasks : tasks[t] # "absent" => hashToID[HashOf[t]] = t

\* What may be cached: a task that is stored, with its outcome if it has one.
Cacheable(a) ==
    /\ a.task \in Tasks
    /\ a.status \in Authority!Status
    /\ a.task \in Writers =>
          /\ tasks[a.task] # "absent"
          /\ IsTerminal(a.status) => tasks[a.task] = a.status

InHand ==
    \A p \in Callers :
        /\ phase[p] \in {"hash", "task"} => Cacheable(held[p])
        /\ phase[p] = "task" => IsTerminal(held[p].status)

\* A reader is in a read unless it is idle; where it is tells which read.
Asked ==
    \A r \in Readers :
        /\ phase[r] = "idle" <=> query[r] = Atomic!NoQuery
        /\ phase[r] = "cachedTask" => query[r].kind = "get"
        /\ phase[r] \in {"cachedID", "pointed"} => query[r].kind = "find"
        /\ phase[r] = "pointed" =>
              /\ held[r].task \in Tasks
              /\ HashOf[held[r].task] = HashOf[query[r].of]

\* A hint is for the hash it is stored under.
HintsFit ==
    \A h \in Hashes : cachedID[h] # NoTask => HashOf[cachedID[h]] = h

CacheInv ==
    /\ CacheTypeOK /\ Indexed /\ InHand /\ Asked /\ HintsFit
    /\ CacheAgrees /\ HintsAgree

-----------------------------------------------------------------------------

Kept == [task : Tasks \cup {NoTask},
         status : Authority!Status \cup {"unanswered", "pointed", "failure"}]

USE CacheAssumption DEF Callers, Writers, IsTerminal, Authority!TerminalStatus,
                        Authority!Status, Authority!StoreTypeOK

LEMMA CacheStart == CacheInit => CacheInv
<1> SUFFICES ASSUME CacheInit  PROVE CacheInv
  OBVIOUS
<1> USE DEF CacheInit, Authority!StoreInit, Atomic!NoQuery, Atomic!Unanswered,
            Atomic!Answer
<1>1. CacheTypeOK
  BY DEF CacheTypeOK, Phases
<1>2. Indexed /\ InHand /\ Asked /\ HintsFit
  BY DEF Indexed, InHand, Asked, HintsFit
<1>3. CacheAgrees /\ HintsAgree
  BY DEF CacheAgrees, HintsAgree
<1> QED
  BY <1>1, <1>2, <1>3 DEF CacheInv

\* A reader within its read goes on, with what it has in hand.
LEMMA ReaderMoves ==
    ASSUME CacheInv, NEW r \in Readers, NEW to \in Phases \ {"idle", "task"},
           NEW a \in Kept,
           phase[r] # "idle",
           phase' = [phase EXCEPT ![r] = to],
           held' = [held EXCEPT ![r] = a],
           UNCHANGED <<authorityVars, cacheVars, query>>,
           to \notin {"cachedTask", "cachedID"},
           to = "hash" => Cacheable(a),
           to = "pointed" => /\ query[r].kind = "find"
                             /\ a.task \in Tasks
                             /\ HashOf[a.task] = HashOf[query[r].of]
    PROVE  CacheInv'
<1> USE DEF CacheInv, authorityVars, cacheVars
<1>1. CacheTypeOK'
  BY DEF CacheTypeOK, Kept
<1>2. phase \in [Callers -> Phases] /\ held \in [Callers -> Kept]
  BY DEF CacheTypeOK, Kept
<1>3. InHand'
  BY <1>2 DEF InHand, Cacheable, Phases
<1>4. Asked'
  BY <1>2 DEF Asked, Phases
<1>5. Indexed' /\ HintsFit' /\ CacheAgrees' /\ HintsAgree'
  BY DEF Indexed, HintsFit, CacheAgrees, HintsAgree
<1> QED
  BY <1>1, <1>3, <1>4, <1>5

LEMMA WriteStep ==
    ASSUME CacheInv, NEW t \in Writers, WriteTask(t)
    PROVE  CacheInv'
<1> USE DEF CacheInv
<1>1. PICK status \in Authority!Status :
          /\ \/ tasks[t] = "absent" /\ status = "pending" /\ Authority!Create(t)
             \/ /\ ~IsTerminal(tasks[t]) /\ status \notin {"absent", "pending"}
                /\ Authority!Update(t, status)
          /\ held' = [held EXCEPT ![t] = Atomic!Answer(t, status)]
  BY DEF WriteTask, Hold
<1>2. /\ phase' = [phase EXCEPT ![t] = "hash"]
      /\ UNCHANGED <<cachedTask, cachedID, query>>
  BY DEF WriteTask, PhaseMoves, cacheVars
<1>3. /\ tasks' = [tasks EXCEPT ![t] = status]
      /\ hashToID' = [hashToID EXCEPT ![HashOf[t]] = t]
      /\ ~IsTerminal(tasks[t])
      /\ status # "absent"
      /\ hashToID[HashOf[t]] \in {NoTask, t}
  BY <1>1 DEF Authority!Create, Authority!Update, Authority!CreateAllowed,
              Authority!FindByHash, Indexed
<1>4. /\ phase \in [Callers -> Phases] /\ held \in [Callers -> Kept]
      /\ tasks \in [Tasks -> Authority!Status]
      /\ hashToID \in [Hashes -> Tasks \cup {NoTask}]
  BY DEF CacheTypeOK, Kept
<1>5. held'[t] = [task |-> t, status |-> status] /\ held'[t] \in Kept
  BY <1>1, <1>4 DEF Atomic!Answer, Kept
<1>6. CacheTypeOK'
  BY <1>1, <1>2, <1>3, <1>4, <1>5 DEF CacheTypeOK, Phases, Kept
<1>7. Indexed'
  BY <1>3, <1>4 DEF Indexed
<1>8. InHand'
  BY <1>1, <1>2, <1>3, <1>4, <1>5 DEF InHand, Cacheable
<1>9. Asked' /\ HintsFit'
  BY <1>1, <1>2, <1>4 DEF Asked, HintsFit
<1>10. CacheAgrees'
  BY <1>2, <1>3, <1>4 DEF CacheAgrees, CacheTypeOK
<1>11. HintsAgree'
  BY <1>2, <1>3, <1>4 DEF HintsAgree
<1> QED
  BY <1>6, <1>7, <1>8, <1>9, <1>10, <1>11

LEMMA AskStep ==
    ASSUME CacheInv, NEW r \in Readers, NEW q \in Atomic!Query, Ask(r, q)
    PROVE  CacheInv'
<1> USE DEF CacheInv, Ask, PhaseMoves, authorityVars, cacheVars
<1>1. phase \in [Callers -> Phases] /\ query \in [Readers -> Atomic!Query \cup {Atomic!NoQuery}]
  BY DEF CacheTypeOK
<1>2. q.kind \in {"get", "find"} /\ q # Atomic!NoQuery
  BY DEF Atomic!Query, Atomic!NoQuery
<1>3. CacheTypeOK'
  BY DEF CacheTypeOK, Phases
<1>4. InHand'
  BY <1>1 DEF InHand, Cacheable
<1>5. Asked'
  BY <1>1, <1>2 DEF Asked
<1>6. Indexed' /\ HintsFit' /\ CacheAgrees' /\ HintsAgree'
  BY DEF Indexed, HintsFit, CacheAgrees, HintsAgree
<1> QED
  BY <1>3, <1>4, <1>5, <1>6

\* What the authority answers, to a Get or to a FindByHash.
LEMMA CurrentAnswers ==
    ASSUME CacheInv, NEW q \in Atomic!Query
    PROVE  /\ Atomic!Current(q) \in Kept
           /\ Atomic!Current(q) # Atomic!Missing => Cacheable(Atomic!Current(q))
           /\ Atomic!Current(q) # Atomic!Unanswered
<1> USE DEF CacheInv, Atomic!Query
<1>1. /\ tasks \in [Tasks -> Authority!Status]
      /\ hashToID \in [Hashes -> Tasks \cup {NoTask}]
  BY DEF CacheTypeOK
<1>2. \A t \in Tasks \cup {NoTask} :
         /\ Atomic!Found(t) \in Kept
         /\ Atomic!Found(t) # Atomic!Missing => Cacheable(Atomic!Found(t))
         /\ Atomic!Found(t) # Atomic!Unanswered
  BY <1>1 DEF Atomic!Found, Atomic!Missing, Atomic!Answer, Atomic!Unanswered,
              Kept, Cacheable
<1>3. Atomic!FindByHash(q.of) \in Tasks \cup {NoTask}
  BY <1>1 DEF Atomic!FindByHash
<1> QED
  BY <1>2, <1>3 DEF Atomic!Current

LEMMA ReadStepInv ==
    ASSUME CacheInv, NEW r \in Readers, ReadStep(r)
    PROVE  CacheInv'
<1> USE DEF PhaseMoves, Hold
<1>0. CacheTypeOK /\ Asked /\ HintsFit
  BY DEF CacheInv
<1>1. /\ phase \in [Callers -> Phases] /\ held \in [Callers -> Kept]
      /\ query \in [Readers -> Atomic!Query \cup {Atomic!NoQuery}]
      /\ tasks \in [Tasks -> Authority!Status]
      /\ cachedTask \in [Tasks -> Authority!Status]
      /\ cachedID \in [Hashes -> Tasks \cup {NoTask}]
  BY <1>0 DEF CacheTypeOK, Kept
<1>2. phase[r] # "idle" => /\ query[r] \in Atomic!Query
                           /\ query[r].of \in Tasks
                           /\ HashOf[query[r].of] \in Hashes
  BY <1>0, <1>1 DEF Asked, Atomic!Query
<1>9. {"hash", "done", "pointed", "authority"} \subseteq Phases \ {"idle", "task"}
  BY DEF Phases
<1>3. CASE ServeCached(r)
  <2> DEFINE a == Atomic!Answer(query[r].of, cachedTask[query[r].of])
  <2>1. a \in Kept
    BY <1>1, <1>2, <1>3 DEF ServeCached, Atomic!Answer, Kept
  <2>2. /\ phase[r] = "cachedTask" /\ phase' = [phase EXCEPT ![r] = "done"]
        /\ held' = [held EXCEPT ![r] = a]
        /\ UNCHANGED <<authorityVars, cacheVars, query>>
    BY <1>3 DEF ServeCached
  <2> HIDE DEF a
  <2> QED
    BY <1>9, <2>1, <2>2, ReaderMoves
<1>4. CASE FollowCached(r)
  <2> DEFINE t == cachedID[HashOf[query[r].of]]
             a == Atomic!Answer(t, "pointed")
  <2>1. t \in Tasks /\ HashOf[t] = HashOf[query[r].of]
    BY <1>0, <1>1, <1>2, <1>4 DEF FollowCached, HintsFit
  <2>2. a \in Kept /\ a.task = t
    BY <2>1 DEF Atomic!Answer, Kept
  <2>3. query[r].kind = "find"
    BY <1>0, <1>4 DEF FollowCached, Asked
  <2>4. /\ phase[r] = "cachedID" /\ phase' = [phase EXCEPT ![r] = "pointed"]
        /\ held' = [held EXCEPT ![r] = a]
        /\ UNCHANGED <<authorityVars, cacheVars, query>>
    BY <1>4 DEF FollowCached
  <2> HIDE DEF a, t
  <2> QED
    BY <2>1, <2>2, <2>3, <2>4, <1>9, ReaderMoves
<1>5. CASE MissCached(r)
  <2>1. /\ phase[r] # "idle" /\ phase' = [phase EXCEPT ![r] = "authority"]
        /\ held' = [held EXCEPT ![r] = held[r]] /\ held[r] \in Kept
        /\ UNCHANGED <<authorityVars, cacheVars, query>>
    BY <1>1, <1>5 DEF MissCached
  <2> QED
    BY <1>9, <2>1, ReaderMoves
<1>6. CASE ReadPointed(r)
  <2> DEFINE t == held[r].task
             a == Atomic!Answer(t, tasks[t])
  <2>1. t \in Tasks /\ phase[r] # "idle"
    BY <1>0, <1>6 DEF ReadPointed, Asked
  <2>2. UNCHANGED <<authorityVars, cacheVars, query>>
    BY <1>6 DEF ReadPointed
  <2>3. CASE /\ tasks[t] # "absent"
             /\ phase' = [phase EXCEPT ![r] = "hash"]
             /\ held' = [held EXCEPT ![r] = a]
    <3>1. a \in Kept /\ Cacheable(a)
      BY <1>1, <2>1, <2>3 DEF Atomic!Answer, Kept, Cacheable
    <3> HIDE DEF a, t
    <3> QED
      BY <1>9, <2>1, <2>2, <2>3, <3>1, ReaderMoves
  <2>4. CASE /\ phase' = [phase EXCEPT ![r] = "authority"]
             /\ held' = [held EXCEPT ![r] = Atomic!Unanswered]
    <3>1. Atomic!Unanswered \in Kept
      BY DEF Atomic!Unanswered, Atomic!Answer, Kept
    <3> HIDE DEF a, t
    <3> QED
      BY <1>9, <2>1, <2>2, <2>4, <3>1, ReaderMoves
  <2> QED
    BY <1>6, <2>3, <2>4 DEF ReadPointed
<1>7. CASE ReadAuthority(r)
  <2> DEFINE a == Atomic!Current(query[r])
  <2>1. /\ phase[r] # "idle" /\ query[r] \in Atomic!Query
        /\ held' = [held EXCEPT ![r] = a]
        /\ UNCHANGED <<authorityVars, cacheVars, query>>
        /\ \/ phase' = [phase EXCEPT ![r] = "done"]
           \/ phase' = [phase EXCEPT ![r] = "hash"] /\ a # Atomic!Missing
    BY <1>2, <1>7 DEF ReadAuthority
  <2>2. a \in Kept /\ (a # Atomic!Missing => Cacheable(a))
    BY <2>1, CurrentAnswers
  <2> HIDE DEF a
  <2>3. CASE phase' = [phase EXCEPT ![r] = "done"]
    BY <1>9, <2>1, <2>2, <2>3, ReaderMoves
  <2>4. CASE phase' = [phase EXCEPT ![r] = "hash"] /\ a # Atomic!Missing
    BY <1>9, <2>1, <2>2, <2>4, ReaderMoves
  <2> QED
    BY <2>1, <2>3, <2>4
<1>8. CASE ReadFails(r)
  <2>1. Atomic!Failed \in Kept
    BY DEF Atomic!Failed, Atomic!Answer, Kept
  <2>2. /\ phase[r] # "idle" /\ phase' = [phase EXCEPT ![r] = "done"]
        /\ held' = [held EXCEPT ![r] = Atomic!Failed]
        /\ UNCHANGED <<authorityVars, cacheVars, query>>
    BY <1>8 DEF ReadFails
  <2> QED
    BY <1>9, <2>1, <2>2, ReaderMoves
<1> QED
  BY <1>3, <1>4, <1>5, <1>6, <1>7, <1>8 DEF ReadStep

LEMMA CacheHashStep ==
    ASSUME CacheInv, NEW p \in Callers, CacheHash(p)
    PROVE  CacheInv'
<1> USE DEF CacheInv, CacheHash, PhaseMoves, authorityVars
<1> DEFINE t == held[p].task
<1>1. /\ phase \in [Callers -> Phases] /\ held \in [Callers -> Kept]
      /\ cachedID \in [Hashes -> Tasks \cup {NoTask}]
  BY DEF CacheTypeOK, Kept
<1>2. /\ t \in Tasks /\ HashOf[t] \in Hashes
      /\ t \in Writers => tasks[t] # "absent"
  BY DEF InHand, Cacheable
<1>3. /\ phase[p] = "hash"
      /\ \/ phase' = [phase EXCEPT ![p] = "task"] /\ IsTerminal(held[p].status)
         \/ phase' = [phase EXCEPT ![p] = "done"]
      /\ \/ cachedID' = [cachedID EXCEPT ![HashOf[t]] = t]
         \/ cachedID' = cachedID
      /\ UNCHANGED <<authorityVars, cachedTask, query, held>>
  OBVIOUS
<1>4. CacheTypeOK'
  BY <1>1, <1>2, <1>3 DEF CacheTypeOK, Phases
<1>5. InHand'
  BY <1>1, <1>3 DEF InHand, Cacheable
<1>6. Asked'
  BY <1>1, <1>3 DEF Asked
<1>7. HintsFit'
  BY <1>1, <1>2, <1>3 DEF HintsFit
<1>8. HintsAgree'
  BY <1>1, <1>2, <1>3 DEF HintsAgree, Indexed
<1>9. Indexed' /\ CacheAgrees'
  BY <1>3 DEF Indexed, CacheAgrees
<1> QED
  BY <1>4, <1>5, <1>6, <1>7, <1>8, <1>9

LEMMA CacheResultStep ==
    ASSUME CacheInv, NEW p \in Callers, CacheResult(p)
    PROVE  CacheInv'
<1> USE DEF CacheInv, CacheResult, PhaseMoves, authorityVars
<1> DEFINE t == held[p].task
<1>1. /\ phase \in [Callers -> Phases] /\ held \in [Callers -> Kept]
      /\ cachedTask \in [Tasks -> Authority!Status]
  BY DEF CacheTypeOK, Kept
<1>2. /\ t \in Tasks
      /\ held[p].status \in Authority!TerminalStatus
      /\ t \in Writers => tasks[t] = held[p].status
  BY DEF InHand, Cacheable
<1>3. /\ phase' = [phase EXCEPT ![p] = "done"]
      /\ \/ cachedTask' = [cachedTask EXCEPT ![t] = held[p].status]
         \/ cachedTask' = cachedTask
      /\ UNCHANGED <<authorityVars, cachedID, query, held>>
      /\ phase[p] = "task"
  OBVIOUS
<1>4. CacheTypeOK'
  BY <1>1, <1>2, <1>3 DEF CacheTypeOK, Phases
<1>5. InHand'
  BY <1>1, <1>3 DEF InHand, Cacheable
<1>6. Asked'
  BY <1>1, <1>3 DEF Asked
<1>7. CacheAgrees'
  BY <1>1, <1>2, <1>3 DEF CacheAgrees
<1>8. Indexed' /\ HintsFit' /\ HintsAgree'
  BY <1>3 DEF Indexed, HintsFit, HintsAgree
<1> QED
  BY <1>4, <1>5, <1>6, <1>7, <1>8

LEMMA LeaveStep ==
    ASSUME CacheInv, NEW p \in Callers, Leave(p)
    PROVE  CacheInv'
<1> USE DEF CacheInv, Leave, Hold, authorityVars, cacheVars
<1>1. /\ phase \in [Callers -> Phases] /\ held \in [Callers -> Kept]
      /\ query \in [Readers -> Atomic!Query \cup {Atomic!NoQuery}]
  BY DEF CacheTypeOK, Kept
<1>2. Atomic!Unanswered \in Kept
  BY DEF Atomic!Unanswered, Atomic!Answer, Kept
<1>3. CacheTypeOK'
  BY <1>1, <1>2 DEF CacheTypeOK, Phases, Kept
<1>4. InHand'
  BY <1>1 DEF InHand, Cacheable
<1>5. Asked'
  BY <1>1 DEF Asked
<1>6. Indexed' /\ HintsFit' /\ CacheAgrees' /\ HintsAgree'
  BY DEF Indexed, HintsFit, CacheAgrees, HintsAgree
<1> QED
  BY <1>3, <1>4, <1>5, <1>6

LEMMA ForgetStep ==
    ASSUME CacheInv,
           \/ \E t \in Tasks : ForgetTask(t)
           \/ \E h \in Hashes : ForgetHash(h)
    PROVE  CacheInv'
<1> USE DEF CacheInv, authorityVars, callerVars
<1>1. ASSUME NEW t \in Tasks, ForgetTask(t)  PROVE CacheInv'
  <2>1. CacheTypeOK' /\ CacheAgrees'
    BY <1>1 DEF ForgetTask, CacheTypeOK, CacheAgrees
  <2> QED
    BY <1>1, <2>1 DEF ForgetTask, Indexed, InHand, Cacheable, Asked, HintsFit,
                      HintsAgree
<1>2. ASSUME NEW h \in Hashes, ForgetHash(h)  PROVE CacheInv'
  <2>1. CacheTypeOK' /\ HintsFit' /\ HintsAgree'
    BY <1>2 DEF ForgetHash, CacheTypeOK, HintsFit, HintsAgree
  <2> QED
    BY <1>2, <2>1 DEF ForgetHash, Indexed, InHand, Cacheable, Asked, CacheAgrees
<1> QED
  BY <1>1, <1>2

LEMMA StutterInv ==
    ASSUME CacheInv, UNCHANGED cachedVars
    PROVE  CacheInv'
BY DEF CacheInv, cachedVars, authorityVars, cacheVars, callerVars, CacheTypeOK,
       Indexed, InHand, Cacheable, Asked, HintsFit, CacheAgrees, HintsAgree

\* The cache stays right whatever fails, expires or dies: typing, one stored
\* task per hash, and what every caller of CachedTaskStore has in hand.
LEMMA CacheStep == CacheInv /\ [CacheNext]_cachedVars => CacheInv'
BY WriteStep, AskStep, ReadStepInv, CacheHashStep, CacheResultStep, LeaveStep,
   ForgetStep, StutterInv DEF CacheNext

THEOREM CacheInvariant == CacheSpec => []CacheInv
BY CacheStart, CacheStep, PTL DEF CacheSpec

\* A cached outcome is the outcome stored (cacheTask of a slow reader never
\* writes an older snapshot over it).
THEOREM CachedOutcomesAgree == CacheSpec => []CacheAgrees
BY CacheInvariant, PTL DEF CacheInv

\* The task a cached hash names is the one the authority has for it.
THEOREM CachedHintsAgree == CacheSpec => []HintsAgree
BY CacheInvariant, PTL DEF CacheInv

-----------------------------------------------------------------------------
(* Refinement                                                              *)

Answering == {"hash", "task", "done"}

\* How a reader's move shows in what it has been answered.
LEMMA AnswerMoves ==
    ASSUME CacheTypeOK, NEW r \in Readers, NEW to, NEW a,
           phase' = [phase EXCEPT ![r] = to],
           held' = [held EXCEPT ![r] = a]
    PROVE  /\ to \in Answering => answered' = [answered EXCEPT ![r] = a]
           /\ to \notin Answering =>
                 answered' = [answered EXCEPT ![r] = Atomic!Unanswered]
<1> USE DEF CacheTypeOK, Kept
<1>1. \A s \in Readers : /\ phase'[s] = IF s = r THEN to ELSE phase[s]
                         /\ held'[s] = IF s = r THEN a ELSE held[s]
  OBVIOUS
<1> QED
  BY <1>1 DEF answered, Answering, Atomic!Unanswered, Atomic!Answer

\* As long as it has nothing in hand it is unanswered.
LEMMA NotAnswered ==
    ASSUME NEW r \in Readers, phase[r] \notin Answering
    PROVE  /\ answered[r] = Atomic!Unanswered
           /\ [answered EXCEPT ![r] = Atomic!Unanswered] = answered
BY DEF answered, Answering, Atomic!Unanswered, Atomic!Answer

LEMMA InitMaps == CacheInit => Atomic!AtomicInit
BY DEF CacheInit, Authority!StoreInit, Atomic!AtomicInit, Atomic!StoreInit, answered,
       Atomic!Unanswered, Atomic!Answer

LEMMA WriteMaps ==
    ASSUME CacheInv, NEW t \in Writers, WriteTask(t)
    PROVE  Atomic!Write(t)
<1>1. answered' = answered
  <2>1. /\ phase' = [phase EXCEPT ![t] = "hash"]
        /\ \A r \in Readers : r # t
    BY DEF WriteTask, PhaseMoves
  <2>2. PICK a : held' = [held EXCEPT ![t] = a]
    BY DEF WriteTask, Hold
  <2>3. \A r \in Readers : phase'[r] = phase[r] /\ held'[r] = held[r]
    BY <2>1, <2>2 DEF CacheInv, CacheTypeOK
  <2> QED
    BY <2>3 DEF answered
<1>2. UNCHANGED query
  BY DEF WriteTask
<1>3. Atomic!Create(t) \/ \E status \in Atomic!Status \ {"absent"} : Atomic!Update(t, status)
  BY DEF WriteTask, Authority!Create, Authority!Update, Authority!CreateAllowed,
         Authority!FindByHash, Atomic!Create, Atomic!Update, Atomic!CreateAllowed,
         Atomic!FindByHash, Atomic!Status
<1> QED
  BY <1>1, <1>2, <1>3 DEF Atomic!Write

LEMMA AskMaps ==
    ASSUME CacheInv, NEW r \in Readers, NEW q \in Atomic!Query, Ask(r, q)
    PROVE  Atomic!Ask(r, q)
<1>1. query[r] = Atomic!NoQuery
  BY DEF Ask, PhaseMoves, CacheInv, Asked
<1>2. answered' = answered
  BY DEF Ask, PhaseMoves, CacheInv, CacheTypeOK, answered
<1> QED
  BY <1>1, <1>2 DEF Ask, Atomic!Ask, authorityVars, Atomic!storeVars

LEMMA ReadMaps ==
    ASSUME CacheInv, NEW r \in Readers, ReadStep(r)
    PROVE  Atomic!Take(r) \/ UNCHANGED Atomic!atomicVars
<1> USE DEF PhaseMoves, Hold
<1>1. CacheTypeOK /\ Asked /\ Indexed /\ CacheAgrees
  BY DEF CacheInv
<1>2. /\ UNCHANGED Atomic!storeVars /\ UNCHANGED query
      /\ phase[r] \notin Answering
      /\ phase[r] # "idle"
  BY DEF ReadStep, ServeCached, FollowCached, MissCached, ReadPointed,
         ReadAuthority, ReadFails, authorityVars, Atomic!storeVars, Answering
<1>3. /\ query[r] # Atomic!NoQuery /\ query[r] \in Atomic!Query
      /\ query[r].of \in Tasks
  BY <1>1, <1>2 DEF Asked, CacheTypeOK, Atomic!Query
<1>4. /\ answered[r] = Atomic!Unanswered
      /\ [answered EXCEPT ![r] = Atomic!Unanswered] = answered
  BY <1>2, NotAnswered
\* A step that leaves the reader without an answer does not show ...
<1>5. ASSUME NEW to, NEW a, to \notin Answering,
             phase' = [phase EXCEPT ![r] = to], held' = [held EXCEPT ![r] = a]
      PROVE  UNCHANGED Atomic!atomicVars
  BY <1>1, <1>2, <1>4, <1>5, AnswerMoves DEF Atomic!atomicVars
\* ... the step that answers it is the instant of the read.
<1>6. ASSUME NEW a, held' = [held EXCEPT ![r] = a],
             \E to \in Answering : phase' = [phase EXCEPT ![r] = to],
             \/ a = Atomic!Current(query[r])
             \/ a = Atomic!Failed
             \/ /\ query[r].kind = "get" /\ query[r].of \in Legacy
                /\ \E status \in Authority!TerminalStatus :
                      a = Atomic!Answer(query[r].of, status)
      PROVE  Atomic!Take(r)
  <2>1. answered' = [answered EXCEPT ![r] = a]
    BY <1>1, <1>6, AnswerMoves
  <2> QED
    BY <1>2, <1>3, <1>4, <1>6, <2>1 DEF Atomic!Take, Atomic!TerminalStatus
<1>7. CASE ServeCached(r)
  <2> DEFINE t == query[r].of
             a == Atomic!Answer(t, cachedTask[t])
  <2>1. /\ \E to \in Answering : phase' = [phase EXCEPT ![r] = to]
        /\ held' = [held EXCEPT ![r] = a]
        /\ query[r].kind = "get" /\ cachedTask[t] \in Authority!TerminalStatus
    BY <1>1, <1>7 DEF ServeCached, Asked, Answering
  <2>2. t \in Writers => a = Atomic!Current(query[r])
    BY <1>1, <1>3, <2>1 DEF CacheAgrees, Atomic!Current, Atomic!Found
  <2>3. t \in Writers \/ t \in Legacy
    BY <1>3
  <2> HIDE DEF a
  <2>4. a = Atomic!Answer(t, cachedTask[t])
    BY DEF a
  <2> QED
    BY <1>6, <2>1, <2>2, <2>3, <2>4
<1>8. CASE FollowCached(r)
  BY <1>5, <1>8 DEF FollowCached, Answering
<1>9. CASE MissCached(r)
  <2>1. held' = [held EXCEPT ![r] = held[r]]
    BY <1>1, <1>9 DEF MissCached, CacheTypeOK
  <2> QED
    BY <1>5, <1>9, <2>1 DEF MissCached, Answering
<1>10. CASE ReadPointed(r)
  <2> DEFINE t == held[r].task
             a == Atomic!Answer(t, tasks[t])
  <2>1. /\ t \in Tasks /\ query[r].kind = "find"
        /\ HashOf[t] = HashOf[query[r].of]
    BY <1>1, <1>10 DEF ReadPointed, Asked
  <2>2. CASE /\ tasks[t] # "absent"
             /\ phase' = [phase EXCEPT ![r] = "hash"]
             /\ held' = [held EXCEPT ![r] = a]
    <3>1. a = Atomic!Current(query[r])
      BY <1>1, <2>1, <2>2 DEF Indexed, Atomic!Current, Atomic!Found,
                              Atomic!FindByHash
    <3>2. \E to \in Answering : phase' = [phase EXCEPT ![r] = to]
      BY <2>2 DEF Answering
    <3> HIDE DEF a
    <3> QED
      BY <1>6, <2>2, <3>1, <3>2
  <2>3. CASE /\ phase' = [phase EXCEPT ![r] = "authority"]
             /\ held' = [held EXCEPT ![r] = Atomic!Unanswered]
    BY <1>5, <2>3 DEF Answering
  <2> QED
    BY <1>10, <2>2, <2>3 DEF ReadPointed
<1>11. CASE ReadAuthority(r)
  <2> DEFINE a == Atomic!Current(query[r])
  <2>1. /\ held' = [held EXCEPT ![r] = a]
        /\ \E to \in Answering : phase' = [phase EXCEPT ![r] = to]
    BY <1>11 DEF ReadAuthority, Answering
  <2> HIDE DEF a
  <2>2. a = Atomic!Current(query[r])
    BY DEF a
  <2> QED
    BY <1>6, <2>1, <2>2
<1>12. CASE ReadFails(r)
  <2>1. /\ held' = [held EXCEPT ![r] = Atomic!Failed]
        /\ \E to \in Answering : phase' = [phase EXCEPT ![r] = to]
    BY <1>12 DEF ReadFails, Answering
  <2> QED
    BY <1>6, <2>1
<1> QED
  BY <1>7, <1>8, <1>9, <1>10, <1>11, <1>12 DEF ReadStep

\* Caching what was read or written does not show.
LEMMA CachingStutters ==
    ASSUME CacheInv, NEW p \in Callers, CacheHash(p) \/ CacheResult(p)
    PROVE  UNCHANGED Atomic!atomicVars
<1>1. /\ UNCHANGED <<Atomic!storeVars, query, held>>
      /\ phase[p] \in Answering
      /\ \E to \in Answering : phase' = [phase EXCEPT ![p] = to]
  BY DEF CacheHash, CacheResult, PhaseMoves, authorityVars, Atomic!storeVars, Answering
<1>2. \A r \in Readers : phase'[r] \in Answering <=> phase[r] \in Answering
  BY <1>1 DEF CacheInv, CacheTypeOK
<1>3. answered' = answered
  BY <1>1, <1>2 DEF answered, Answering
<1> QED
  BY <1>1, <1>3 DEF Atomic!atomicVars

LEMMA LeaveMaps ==
    ASSUME CacheInv, NEW p \in Callers, Leave(p)
    PROVE  \/ p \in Readers /\ Atomic!Return(p)
           \/ UNCHANGED Atomic!atomicVars
<1>1. /\ phase[p] # "idle"
      /\ phase' = [phase EXCEPT ![p] = "idle"]
      /\ held' = [held EXCEPT ![p] = Atomic!Unanswered]
      /\ UNCHANGED Atomic!storeVars
      /\ query' = IF p \in Readers THEN [query EXCEPT ![p] = Atomic!NoQuery] ELSE query
  BY DEF Leave, Hold, authorityVars, Atomic!storeVars
<1>2. CASE p \in Readers
  <2>1. answered' = [answered EXCEPT ![p] = Atomic!Unanswered]
    BY <1>1, <1>2, AnswerMoves DEF CacheInv, Answering
  <2>2. query[p] # Atomic!NoQuery
    BY <1>1, <1>2 DEF CacheInv, Asked
  <2> QED
    BY <1>1, <1>2, <2>1, <2>2 DEF Atomic!Return
<1>3. CASE p \notin Readers
  <2>1. \A r \in Readers : phase'[r] = phase[r] /\ held'[r] = held[r]
    BY <1>1, <1>3 DEF CacheInv, CacheTypeOK
  <2>2. answered' = answered
    BY <2>1 DEF answered
  <2> QED
    BY <1>1, <1>3, <2>2 DEF Atomic!atomicVars
<1> QED
  BY <1>2, <1>3

\* CachedTaskStore keeps the promise of the TaskStore interface: every read is
\* answered with what the authority held at one instant of the read, or with an
\* error, or with an outcome of the earlier deployment.
THEOREM Implementation == CacheSpec => Linearizable
<1>1. CacheInv /\ [CacheNext]_cachedVars => [Atomic!AtomicNext]_Atomic!atomicVars
  <2> SUFFICES ASSUME CacheInv, [CacheNext]_cachedVars
               PROVE  Atomic!AtomicNext \/ UNCHANGED Atomic!atomicVars
    OBVIOUS
  <2>1. ASSUME NEW r \in Readers, ReadStep(r)
        PROVE  Atomic!AtomicNext \/ UNCHANGED Atomic!atomicVars
    BY <2>1, ReadMaps DEF Atomic!AtomicNext
  <2>2. ASSUME NEW r \in Readers, NEW q \in Atomic!Query, Ask(r, q)
        PROVE  Atomic!AtomicNext
    BY <2>2, AskMaps DEF Atomic!AtomicNext
  <2>3. ASSUME NEW t \in Writers, WriteTask(t)
        PROVE  Atomic!AtomicNext
    BY <2>3, WriteMaps DEF Atomic!AtomicNext
  <2>4. ASSUME NEW p \in Callers, CacheHash(p) \/ CacheResult(p) \/ Leave(p)
        PROVE  Atomic!AtomicNext \/ UNCHANGED Atomic!atomicVars
    BY <2>4, CachingStutters, LeaveMaps DEF Atomic!AtomicNext
  <2>5. CASE \/ \E t \in Tasks : ForgetTask(t)
             \/ \E h \in Hashes : ForgetHash(h)
             \/ UNCHANGED cachedVars
    BY <2>5 DEF ForgetTask, ForgetHash, cachedVars, authorityVars, callerVars,
                Atomic!atomicVars, Atomic!storeVars, answered
  <2> QED
    BY <2>1, <2>2, <2>3, <2>4, <2>5 DEF CacheNext
<1> QED
  BY <1>1, InitMaps, CacheInvariant, PTL DEF CacheSpec, Linearizable, Atomic!AtomicSpec

-----------------------------------------------------------------------------
(* The inductive invariant                                                 *)

Known == [op : OwnerOps \cup {"none", "save", "count"},
          at : Places, on : Plans \cup {NoPlan},
          seen : PlanStatus, found : PublicStatus]

StoredPlans == Plans \ Fresh

OwnerPlaces == {"update", "softDelete", "findPublic", "upsert", "setStatus"}

\* What a call has read: an owner's call a status of a stored plan, and no call
\* but a Save that did not create its plan works on a plan that is not stored.
Consistent(k, stored) ==
    /\ k.at \in OwnerPlaces => k.op \in OwnerOps
    /\ k.op \in OwnerOps => k.seen # "none"
    /\ k.at \notin {"idle", "create"} => k.on \in stored

CallsConsistent == \A c \in Calls : Consistent(call[c], StoredPlans)

LibInv == LibTypeOK /\ CallsConsistent /\ CountersSurvive

-----------------------------------------------------------------------------
(* Calls                                                                   *)

LEMMA IdleKnown == Idle \in Known /\ \A stored : Consistent(Idle, stored)
BY DEF Idle, Known, Consistent, OwnerPlaces, OwnerOps, Places, PlanStatus, PublicStatus

\* A step of one call that knows what it may keeps all calls consistent, as
\* long as no plan vanishes.
LEMMA CallsStep ==
    ASSUME LibInv, StoredPlans \subseteq StoredPlans', NEW c \in Calls,
           NEW next \in Known, Consistent(next, StoredPlans'),
           call' = [call EXCEPT ![c] = next]
    PROVE  call' \in [Calls -> Known] /\ CallsConsistent'
<1>1. call \in [Calls -> Known]
  BY DEF LibInv, LibTypeOK, Known
<1>2. call' \in [Calls -> Known]
  BY <1>1
<1>3. ASSUME NEW d \in Calls PROVE Consistent(call'[d], StoredPlans')
  <2>1. CASE d = c
    BY <1>1, <2>1
  <2>2. CASE d # c
    <3>1. call'[d] = call[d] /\ Consistent(call[d], StoredPlans)
      BY <1>1, <2>2 DEF LibInv, CallsConsistent
    <3> QED BY <3>1 DEF Consistent
  <2> QED BY <2>1, <2>2
<1> QED BY <1>2, <1>3 DEF CallsConsistent

\* The same of a call that goes on or returns.
LEMMA ContinuesStep ==
    ASSUME LibInv, StoredPlans \subseteq StoredPlans', NEW c \in Calls,
           NEW known \in Known, NEW to \in Places, Continues(c, known, to),
           to # "idle" => Consistent([known EXCEPT !.at = to], StoredPlans')
    PROVE  call' \in [Calls -> Known] /\ CallsConsistent'
<1> DEFINE next == IF to = "idle" THEN Idle ELSE [known EXCEPT !.at = to]
<1>1. next \in Known /\ Consistent(next, StoredPlans')
  BY IdleKnown DEF Known
<1>2. call' = [call EXCEPT ![c] = next]
  BY DEF Continues
<1> HIDE DEF next
<1> QED BY <1>1, <1>2, CallsStep

-----------------------------------------------------------------------------
(* Stores                                                                  *)

StoresOK ==
    /\ plans \in [Plans -> [status : PlanStatus, deleted : BOOLEAN]]
    /\ publics \in [Plans -> [status : PublicStatus, count : 0 .. MaxCount]]
    /\ archived \subseteq StoredPlans
    /\ \A p \in Plans \ StoredPlans : publics[p].status = "none" /\ ~plans[p].deleted
    /\ counted \in [Plans -> 0 .. MaxCount]
    /\ CountersSurvive

HistoryOK == faults \in 0 .. MaxFaults /\ disturbed \subseteq Plans \cup {NoPlan}

LEMMA InvParts ==
    /\ LibInv <=> StoresOK /\ HistoryOK /\ call \in [Calls -> Known] /\ CallsConsistent
    /\ (LibInv <=> StoresOK /\ HistoryOK /\ call \in [Calls -> Known] /\ CallsConsistent)'
BY DEF LibInv, LibTypeOK, StoresOK, HistoryOK, Known, StoredPlans, Fresh

LEMMA StoredIsStored == StoredPlans = {p \in Plans : plans[p].status # "none"}
BY DEF StoredPlans, Fresh, Stored

LEMMA StoresUntouched ==
    ASSUME LibInv, UNCHANGED <<storeVars, counted>>
    PROVE  StoresOK' /\ StoredPlans' = StoredPlans
BY InvParts DEF StoresOK, storeVars, StoredPlans, Fresh, Stored, CountersSurvive

\* Writing the private plan of a stored id.
LEMMA PlanWritten ==
    ASSUME LibInv, NEW p \in StoredPlans, NEW r \in [status : PlanStatus, deleted : BOOLEAN],
           r.status # "none", plans' = [plans EXCEPT ![p] = r],
           UNCHANGED <<archived, publics, counted>>
    PROVE  StoresOK' /\ StoredPlans' = StoredPlans
<1>1. StoresOK
  BY InvParts
<1>2. StoredPlans' = StoredPlans
  BY <1>1, StoredIsStored DEF StoresOK, StoredPlans, Fresh, Stored
<1> QED BY <1>1, <1>2 DEF StoresOK, CountersSurvive, StoredPlans

\* Writing the public copy of a stored plan.
LEMMA PublicWritten ==
    ASSUME LibInv, NEW p \in StoredPlans, NEW s \in PublicStatus, NEW n \in 0 .. MaxCount,
           publics' = [publics EXCEPT ![p] = [status |-> s, count |-> n]],
           counted' = [counted EXCEPT ![p] = n],
           UNCHANGED <<plans, archived>>
    PROVE  StoresOK' /\ StoredPlans' = StoredPlans
<1>1. StoresOK
  BY InvParts
<1>2. StoredPlans' = StoredPlans
  BY DEF StoredPlans, Fresh, Stored
<1> QED BY <1>1, <1>2 DEF StoresOK, CountersSurvive, StoredPlans

-----------------------------------------------------------------------------
(* Steps                                                                   *)

LEMMA LibraryStart == LibInit => LibInv
<1> SUFFICES ASSUME LibInit PROVE LibInv
  OBVIOUS
<1>1. \A p \in Plans : plans[p] = [status |-> "none", deleted |-> FALSE]
  BY DEF LibInit
<1>2. StoredPlans = {}
  BY <1>1, StoredIsStored
<1>3. StoresOK /\ HistoryOK
  BY <1>2, LibraryAssumption
  DEF LibInit, StoresOK, HistoryOK, PlanStatus, PublicStatus, CountersSurvive
<1>4. call \in [Calls -> Known] /\ CallsConsistent
  BY IdleKnown DEF LibInit, CallsConsistent
<1> QED BY <1>3, <1>4, InvParts

\* The first read of an owner's call.
LEMMA OpenInv ==
    ASSUME LibInv, NEW c \in Calls, NEW p \in Plans, NEW o \in OwnerOps,
           NEW to \in OwnerPlaces, Open(c, o, p, to)
    PROVE  LibInv'
<1> DEFINE next == [op |-> o, at |-> to, on |-> p, seen |-> plans[p].status,
                    found |-> "none"]
<1>1. StoresOK' /\ StoredPlans' = StoredPlans
  BY StoresUntouched DEF Open
<1>2. StoresOK /\ HistoryOK
  BY InvParts
<1>3. call' = [call EXCEPT ![c] = next]
  BY DEF Open, Begins
<1>4. plans[p].status \in PlanStatus /\ plans[p].status # "none" /\ p \in StoredPlans
  BY <1>2, StoredIsStored DEF Open, Live, Stored, StoresOK
<1>5. next \in Known /\ Consistent(next, StoredPlans')
  BY <1>1, <1>4 DEF Known, Consistent, Places, PublicStatus, OwnerOps, OwnerPlaces
<1> HIDE DEF next
<1>6. call' \in [Calls -> Known] /\ CallsConsistent'
  BY <1>1, <1>3, <1>5, CallsStep
<1>7. HistoryOK'
  BY <1>2 DEF HistoryOK, Open
<1> QED BY <1>1, <1>6, <1>7, InvParts

-----------------------------------------------------------------------------
(* One lemma for each of the other actions                                 *)

LEMMA SaveInv == ASSUME LibInv, NEW c \in Calls, Save(c) PROVE LibInv'
<1> DEFINE next == [op |-> "save", at |-> "create", on |-> NoPlan,
                    seen |-> "none", found |-> "none"]
<1>1. StoresOK' /\ StoredPlans' = StoredPlans
  BY StoresUntouched DEF Save
<1>2. next \in Known /\ Consistent(next, StoredPlans')
  BY DEF Known, Consistent, Places, PlanStatus, PublicStatus, OwnerOps, OwnerPlaces
<1>3. call' = [call EXCEPT ![c] = next]
  BY DEF Save, Begins
<1> HIDE DEF next
<1>4. call' \in [Calls -> Known] /\ CallsConsistent'
  BY <1>1, <1>2, <1>3, CallsStep
<1>5. HistoryOK'
  BY InvParts DEF HistoryOK, Save
<1> QED BY <1>1, <1>4, <1>5, InvParts

LEMMA ReadPublicInv ==
    ASSUME LibInv, NEW c \in Calls, NEW p \in Plans, ReadPublic(c, p) PROVE LibInv'
<1> DEFINE next == [op |-> "count", at |-> "count", on |-> p,
                    seen |-> "none", found |-> "none"]
<1>1. StoresOK' /\ StoredPlans' = StoredPlans
  BY StoresUntouched DEF ReadPublic
<1>2. p \in StoredPlans
  BY InvParts DEF ReadPublic, StoresOK
<1>3. next \in Known /\ Consistent(next, StoredPlans')
  BY <1>1, <1>2
  DEF Known, Consistent, Places, PlanStatus, PublicStatus, OwnerOps, OwnerPlaces
<1>4. call' = [call EXCEPT ![c] = next]
  BY DEF ReadPublic, Begins
<1> HIDE DEF next
<1>5. call' \in [Calls -> Known] /\ CallsConsistent'
  BY <1>1, <1>3, <1>4, CallsStep
<1>6. HistoryOK'
  BY InvParts DEF HistoryOK, ReadPublic
<1> QED BY <1>1, <1>5, <1>6, InvParts

\* A call past its first store call works on a stored plan and stays consistent
\* wherever an owner's call, and only one, goes on to an owner's place.
LEMMA GoesStep ==
    ASSUME LibInv, StoredPlans \subseteq StoredPlans', NEW c \in Calls,
           NEW from \in Places \ {"idle", "create"},
           NEW to \in OwnerPlaces \cup {"idle"},
           to \in OwnerPlaces => from \in OwnerPlaces, Goes(c, from, to)
    PROVE  /\ call' \in [Calls -> Known] /\ CallsConsistent'
           /\ call[c] \in Known /\ call[c].on \in StoredPlans
<1>1. call[c] \in Known /\ Consistent(call[c], StoredPlans) /\ call[c].at = from
  BY InvParts DEF CallsConsistent, Goes
<1>2. call[c].on \in StoredPlans
  BY <1>1 DEF Consistent
<1>3. to \in Places /\ Continues(c, call[c], to)
  BY DEF Goes, OwnerPlaces, Places
<1>4. to # "idle" => Consistent([call[c] EXCEPT !.at = to], StoredPlans')
  BY <1>1, <1>2 DEF Consistent, Known
<1> QED BY <1>1, <1>2, <1>3, <1>4, ContinuesStep

LEMMA CreatePlanInv == ASSUME LibInv, NEW c \in Calls, CreatePlan(c) PROVE LibInv'
<1>1. PICK p \in Fresh : /\ plans' = [plans EXCEPT ![p].status = "draft"]
                         /\ Continues(c, [call[c] EXCEPT !.on = p], "archive")
  BY DEF CreatePlan
<1>2. StoresOK /\ p \in Plans \ StoredPlans
  BY <1>1, InvParts DEF StoredPlans, Fresh
<1>3. StoredPlans' = StoredPlans \cup {p}
  BY <1>1, <1>2, StoredIsStored DEF StoresOK, StoredPlans, Fresh, Stored
<1>4. StoresOK'
  <2>1. plans' \in [Plans -> [status : PlanStatus, deleted : BOOLEAN]]
    <3> "draft" \in PlanStatus
      BY DEF PlanStatus
    <3> QED BY <1>1, <1>2 DEF StoresOK
  <2>2. \A q \in Plans \ StoredPlans' : plans'[q] = plans[q]
    BY <1>1, <1>2, <1>3 DEF StoresOK
  <2> QED BY <1>2, <1>3, <2>1, <2>2 DEF StoresOK, CreatePlan, CountersSurvive
<1>5. call[c] \in Known /\ Consistent(call[c], StoredPlans) /\ call[c].at = "create"
  BY InvParts DEF CallsConsistent, CreatePlan
<1> DEFINE known == [call[c] EXCEPT !.on = p]
<1>6. known \in Known /\ Consistent([known EXCEPT !.at = "archive"], StoredPlans')
  BY <1>2, <1>3, <1>5 DEF Known, Consistent, OwnerPlaces
<1>7. call' \in [Calls -> Known] /\ CallsConsistent'
  <2> Continues(c, known, "archive") /\ "archive" \in Places
    BY <1>1 DEF Places
  <2> HIDE DEF known
  <2> QED BY <1>3, <1>6, ContinuesStep
<1>8. HistoryOK'
  BY InvParts DEF HistoryOK, CreatePlan
<1> QED BY <1>4, <1>7, <1>8, InvParts

LEMMA CreateArchiveInv ==
    ASSUME LibInv, NEW c \in Calls, CreateArchive(c) PROVE LibInv'
<1>1. StoredPlans' = StoredPlans
  BY DEF CreateArchive, StoredPlans, Fresh, Stored
<1>2. call' \in [Calls -> Known] /\ CallsConsistent' /\ call[c].on \in StoredPlans
  BY <1>1, GoesStep DEF CreateArchive, Places, OwnerPlaces
<1>3. StoresOK' /\ HistoryOK'
  BY <1>1, <1>2, InvParts DEF StoresOK, HistoryOK, CreateArchive, CountersSurvive
<1> QED BY <1>2, <1>3, InvParts

LEMMA UpdatePlanInv == ASSUME LibInv, NEW c \in Calls, UpdatePlan(c) PROVE LibInv'
<1>1. AfterWrite(c) \in {"findPublic", "idle"}
  BY DEF AfterWrite
<1>2. call[c] \in Known /\ call[c].at = "update" /\ Consistent(call[c], StoredPlans)
  BY InvParts DEF CallsConsistent, UpdatePlan, Goes
<1>3. call[c].on \in StoredPlans /\ StatusWritten(c) \in PlanStatus \ {"none"}
  BY <1>2 DEF Consistent, OwnerPlaces, StatusWritten, PlanStatus, Known
<1>4. StoresOK' /\ StoredPlans' = StoredPlans
  <2>1. CASE UNCHANGED plans
    BY <2>1, StoresUntouched DEF UpdatePlan, storeVars
  <2>2. CASE plans' = [plans EXCEPT ![call[c].on] =
                          [status |-> StatusWritten(c), deleted |-> FALSE]]
    <3> DEFINE r == [status |-> StatusWritten(c), deleted |-> FALSE]
    <3>1. r \in [status : PlanStatus, deleted : BOOLEAN] /\ r.status # "none"
      BY <1>3
    <3>2. plans' = [plans EXCEPT ![call[c].on] = r]
      BY <2>2
    <3> HIDE DEF r
    <3> QED BY <1>3, <3>1, <3>2, PlanWritten DEF UpdatePlan
  <2> QED BY <2>1, <2>2 DEF UpdatePlan
<1>5. call' \in [Calls -> Known] /\ CallsConsistent'
  BY <1>1, <1>4, GoesStep DEF UpdatePlan, Places, OwnerPlaces
<1>6. HistoryOK'
  BY InvParts DEF HistoryOK, UpdatePlan
<1> QED BY <1>4, <1>5, <1>6, InvParts

LEMMA SoftDeleteInv == ASSUME LibInv, NEW c \in Calls, SoftDelete(c) PROVE LibInv'
<1>1. AfterWrite(c) \in {"findPublic", "idle"}
  BY DEF AfterWrite
<1>2. call[c] \in Known /\ call[c].on \in StoredPlans
  BY InvParts DEF CallsConsistent, SoftDelete, Goes, Consistent
<1>3. StoresOK' /\ StoredPlans' = StoredPlans
  <2>1. CASE UNCHANGED plans
    BY <2>1, StoresUntouched DEF SoftDelete, storeVars
  <2>2. CASE plans' = [plans EXCEPT ![call[c].on].deleted = TRUE]
    <3> DEFINE r == [plans[call[c].on] EXCEPT !.deleted = TRUE]
    <3>1. r \in [status : PlanStatus, deleted : BOOLEAN] /\ r.status # "none"
      <4> plans[call[c].on] \in [status : PlanStatus, deleted : BOOLEAN]
        BY <1>2, InvParts DEF StoresOK, StoredPlans
      <4> plans[call[c].on].status # "none"
        BY <1>2, StoredIsStored
      <4> QED OBVIOUS
    <3>2. plans' = [plans EXCEPT ![call[c].on] = r]
      BY <2>2
    <3> HIDE DEF r
    <3> QED BY <1>2, <3>1, <3>2, PlanWritten DEF SoftDelete
  <2> QED BY <2>1, <2>2 DEF SoftDelete
<1>4. call' \in [Calls -> Known] /\ CallsConsistent'
  BY <1>1, <1>3, GoesStep DEF SoftDelete, Places, OwnerPlaces
<1>5. HistoryOK'
  BY InvParts DEF HistoryOK, SoftDelete
<1> QED BY <1>3, <1>4, <1>5, InvParts

LEMMA FindsInv ==
    ASSUME LibInv, NEW c \in Calls, NEW s \in PublicStatus,
           call[c].at = "findPublic", Finds(c, s), UNCHANGED <<storeVars, counted>>,
           HistoryOK'
    PROVE  LibInv'
<1>1. StoresOK' /\ StoredPlans' = StoredPlans
  BY StoresUntouched
<1>2. call[c] \in Known /\ Consistent(call[c], StoredPlans)
  BY InvParts DEF CallsConsistent
<1>3. AfterFind(c, s) \in OwnerPlaces \cup {"idle"}
  BY DEF AfterFind, OwnerPlaces
<1> DEFINE known == [call[c] EXCEPT !.found = s]
           to == AfterFind(c, s)
<1>4. known \in Known /\ Consistent([known EXCEPT !.at = to], StoredPlans')
  BY <1>1, <1>2, <1>3 DEF Known, Consistent, OwnerPlaces
<1>5. Continues(c, known, to) /\ to \in Places
  BY <1>3 DEF Finds, Places, OwnerPlaces
<1> HIDE DEF known, to
<1>6. call' \in [Calls -> Known] /\ CallsConsistent'
  BY <1>1, <1>4, <1>5, ContinuesStep
<1> QED BY <1>1, <1>6, InvParts

LEMMA FindPublicInv == ASSUME LibInv, NEW c \in Calls, FindPublic(c) PROVE LibInv'
<1>1. call[c].on \in Plans
  BY InvParts DEF CallsConsistent, Consistent, FindPublic, StoredPlans
<1>2. publics[call[c].on].status \in PublicStatus
  BY <1>1, InvParts DEF StoresOK
<1>3. HistoryOK'
  BY InvParts DEF HistoryOK, FindPublic
<1> QED BY <1>2, <1>3, FindsInv DEF FindPublic

LEMMA UpsertInv == ASSUME LibInv, NEW c \in Calls, Upsert(c) PROVE LibInv'
<1> DEFINE to == IF call[c].op = "publish" THEN "update" ELSE "idle"
           p == call[c].on
           s == IF call[c].op = "publish" THEN "published" ELSE call[c].found
           n == publics[p].count
<1>1. to \in OwnerPlaces \cup {"idle"} /\ Goes(c, "upsert", to)
  BY DEF Upsert, OwnerPlaces
<1>2. call[c] \in Known /\ p \in StoredPlans
  BY InvParts DEF CallsConsistent, Consistent, Upsert, Goes
<1>3. s \in PublicStatus /\ n \in 0 .. MaxCount /\ counted' = [counted EXCEPT ![p] = n]
  BY <1>2, InvParts
  DEF Known, PublicStatus, StoresOK, StoredPlans, CountersSurvive, Upsert
<1>4. publics' = [publics EXCEPT ![p] = [status |-> s, count |-> n]]
  BY DEF Upsert, CountKept
<1>5. UNCHANGED <<plans, archived>> /\ HistoryOK'
  BY InvParts DEF Upsert, HistoryOK
<1> HIDE DEF to, p, s, n
<1>6. StoresOK' /\ StoredPlans' = StoredPlans
  BY <1>2, <1>3, <1>4, <1>5, PublicWritten
<1>7. call' \in [Calls -> Known] /\ CallsConsistent'
  BY <1>1, <1>6, GoesStep DEF Places, OwnerPlaces
<1> QED BY <1>5, <1>6, <1>7, InvParts

LEMMA SetStatusInv == ASSUME LibInv, NEW c \in Calls, SetStatus(c) PROVE LibInv'
<1> DEFINE to == IF call[c].op = "unpublish" THEN "update" ELSE "idle"
           p == call[c].on
           n == publics[p].count
<1>1. to \in OwnerPlaces \cup {"idle"} /\ Goes(c, "setStatus", to)
  BY DEF SetStatus, OwnerPlaces
<1>2. p \in StoredPlans
  BY InvParts DEF CallsConsistent, Consistent, SetStatus, Goes
<1>3. n \in 0 .. MaxCount /\ counted' = [counted EXCEPT ![p] = n]
  BY <1>2, InvParts DEF StoresOK, StoredPlans, CountersSurvive, SetStatus
<1>4. publics' = [publics EXCEPT ![p] = [status |-> "unpublished", count |-> n]]
  <2>1. publics' = [publics EXCEPT ![p] = [@ EXCEPT !.status = "unpublished"]]
    BY DEF SetStatus
  <2>2. publics[p] \in [status : PublicStatus, count : 0 .. MaxCount]
    BY <1>2, InvParts DEF StoresOK, StoredPlans
  <2>3. [publics[p] EXCEPT !.status = "unpublished"]
          = [status |-> "unpublished", count |-> n]
    BY <2>2
  <2> QED BY <2>1, <2>3
<1>5. UNCHANGED <<plans, archived>> /\ HistoryOK' /\ "unpublished" \in PublicStatus
  BY InvParts DEF SetStatus, HistoryOK, PublicStatus
<1> HIDE DEF to, p, n
<1>6. StoresOK' /\ StoredPlans' = StoredPlans
  BY <1>2, <1>3, <1>4, <1>5, PublicWritten
<1>7. call' \in [Calls -> Known] /\ CallsConsistent'
  BY <1>1, <1>6, GoesStep DEF Places, OwnerPlaces
<1> QED BY <1>5, <1>6, <1>7, InvParts

LEMMA CountInv == ASSUME LibInv, NEW c \in Calls, Count(c) PROVE LibInv'
<1> DEFINE p == call[c].on
           n == publics[p].count + 1
           s == publics[p].status
<1>1. p \in StoredPlans
  BY InvParts DEF CallsConsistent, Consistent, Count, Goes
<1>2. publics[p] \in [status : PublicStatus, count : 0 .. MaxCount]
  BY <1>1, InvParts DEF StoresOK, StoredPlans
<1>3. n \in 0 .. MaxCount /\ s \in PublicStatus
  BY <1>2, LibraryAssumption DEF Count
<1>4. publics' = [publics EXCEPT ![p] = [status |-> s, count |-> n]]
  <2>1. publics' = [publics EXCEPT ![p] = [@ EXCEPT !.count = n]]
    BY DEF Count
  <2>2. [publics[p] EXCEPT !.count = n] = [status |-> s, count |-> n]
    BY <1>2
  <2> QED BY <2>1, <2>2
<1>5. counted' = [counted EXCEPT ![p] = n]
  BY <1>1, InvParts DEF Count, StoresOK, StoredPlans, CountersSurvive
<1>6. UNCHANGED <<plans, archived>> /\ HistoryOK' /\ Goes(c, "count", "idle")
  BY InvParts DEF Count, HistoryOK
<1> HIDE DEF p, n, s
<1>7. StoresOK' /\ StoredPlans' = StoredPlans
  BY <1>1, <1>3, <1>4, <1>5, <1>6, PublicWritten
<1>8. call' \in [Calls -> Known] /\ CallsConsistent'
  BY <1>6, <1>7, GoesStep DEF Places, OwnerPlaces
<1> QED BY <1>6, <1>7, <1>8, InvParts

LEMMA StoreFailsInv == ASSUME LibInv, NEW c \in Calls, StoreFails(c) PROVE LibInv'
<1>1. StoresOK' /\ StoredPlans' = StoredPlans
  BY StoresUntouched DEF StoreFails
<1>2. call[c] \in Known /\ HistoryOK
  BY InvParts
<1>3. HistoryOK'
  <2>1. faults' \in 0 .. MaxFaults
    BY <1>2, LibraryAssumption DEF HistoryOK, StoreFails
  <2>2. disturbed' \subseteq Plans \cup {NoPlan}
    BY <1>2 DEF HistoryOK, StoreFails, Known
  <2> QED BY <2>1, <2>2 DEF HistoryOK
<1>4. CASE Continues(c, Idle, "idle")
  <2>1. call' \in [Calls -> Known] /\ CallsConsistent'
    BY <1>1, <1>4, IdleKnown, ContinuesStep DEF Places
  <2> QED BY <1>1, <1>3, <2>1, InvParts
<1>5. CASE call[c].at = "findPublic" /\ Finds(c, "none")
  BY <1>3, <1>5, FindsInv DEF StoreFails, PublicStatus
<1> QED BY <1>4, <1>5 DEF StoreFails

-----------------------------------------------------------------------------
(* The two tables of a plan on which no calls overlapped or failed         *)

Agrees(p) ==
    publics[p].status = "published" <=> Live(p) /\ plans[p].status = "published"

\* The store calls of an operation.
PlacesOf ==
    [rename |-> {"update", "findPublic", "upsert"},
     delete |-> {"softDelete", "findPublic", "setStatus"},
     publish |-> {"findPublic", "upsert", "update"},
     unpublish |-> {"findPublic", "setStatus", "update"}]

OnItsWay(k) ==
    /\ k.op \in OwnerOps => k.at \in PlacesOf[k.op]
    /\ k.at \in {"create", "archive"} => k.op = "save"
    /\ k.at = "count" => k.op = "count"

\* What the only call on plan p relies on: a Rename that what it read is still
\* so, a Delete the same until it has deleted, and Publish and Unpublish, which
\* write the public copy first, that this is done when they write the plan.
Alone(k, p) ==
    /\ k.op = "rename" =>
          /\ Agrees(p) /\ Live(p) /\ k.seen = plans[p].status
          /\ k.at = "upsert" => k.found = publics[p].status
    /\ k.op = "delete" =>
          IF k.at = "softDelete" THEN Agrees(p) /\ Live(p) /\ k.seen = plans[p].status
          ELSE plans[p].deleted
    /\ k.op = "publish" =>
          Live(p) /\ (k.at = "update" => publics[p].status = "published")
    /\ k.op = "unpublish" =>
          Live(p) /\ (k.at = "update" => publics[p].status # "published")

Undisturbed(p) ==
    /\ \A c, d \in Busy(p) : c = d
    /\ Busy(p) = {} => Agrees(p)
    /\ \A c \in Busy(p) : Alone(call[c], p)

SerialInv ==
    /\ \A c \in Calls : OnItsWay(call[c])
    /\ \A p \in Plans \ disturbed : Undisturbed(p)

\* A step of one call on one plan leaves all other plans as they are.
LEMMA OtherPlans ==
    ASSUME LibInv, SerialInv, NEW c \in Calls, NEW next \in Known, OnItsWay(next),
           call' = [call EXCEPT ![c] = next], NEW p,
           \A q \in Plans \ {p} :
              /\ plans'[q] = plans[q] /\ publics'[q].status = publics[q].status
              /\ q \in disturbed => q \in disturbed',
           call[c].op \in OwnerOps => call[c].on = p,
           next.op \in OwnerOps => next.on = p,
           p \in Plans \ disturbed' => Undisturbed(p)'
    PROVE  SerialInv'
<1>1. call \in [Calls -> Known]
  BY DEF LibInv, LibTypeOK, Known
<1>2. \A d \in Calls : OnItsWay(call'[d])
  BY <1>1 DEF SerialInv
<1>3. ASSUME NEW q \in Plans \ disturbed', q # p PROVE Undisturbed(q)'
  <2>1. Undisturbed(q) /\ plans'[q] = plans[q] /\ publics'[q].status = publics[q].status
    BY <1>3 DEF SerialInv
  <2>2. Busy(q)' = Busy(q) /\ \A d \in Busy(q) : call'[d] = call[d]
    BY <1>1, <1>3 DEF Busy
  <2>3. Agrees(q)' <=> Agrees(q)
    BY <2>1 DEF Agrees, Live, Stored
  <2>4. ASSUME NEW d \in Busy(q) PROVE Alone(call[d], q)'
    <3>1. Alone(call[d], q) /\ call'[d] = call[d]
      BY <2>1, <2>2 DEF Undisturbed
    <3> QED BY <2>1, <2>3, <3>1 DEF Alone, Live, Stored
  <2> QED BY <2>1, <2>2, <2>3, <2>4 DEF Undisturbed
<1> QED BY <1>2, <1>3 DEF SerialInv

\* A step of the only call on a plan: it returns, and the tables agree, or it
\* goes on, and may rely on what it has done.
LEMMA OwnPlan ==
    ASSUME LibInv, SerialInv, NEW c \in Calls, NEW next \in Known, OnItsWay(next),
           call' = [call EXCEPT ![c] = next], call[c].op \in OwnerOps,
           disturbed' = disturbed, NEW p, p = call[c].on,
           \A q \in Plans \ {p} :
              plans'[q] = plans[q] /\ publics'[q].status = publics[q].status,
           next = Idle \/ (next.op = call[c].op /\ next.on = p),
           p \in Plans \ disturbed /\ Alone(call[c], p) /\ next = Idle => Agrees(p)',
           p \in Plans \ disturbed /\ Alone(call[c], p) /\ next # Idle
              => Alone(next, p)'
    PROVE  SerialInv'
<1>1. call \in [Calls -> Known]
  BY DEF LibInv, LibTypeOK, Known
<1>2. Idle.op \notin OwnerOps
  BY DEF Idle, OwnerOps
<1>3. ASSUME p \in Plans \ disturbed PROVE Undisturbed(p)'
  <2>1. Busy(p) = {c} /\ Alone(call[c], p)
    BY <1>3 DEF SerialInv, Undisturbed, Busy
  <2>2. CASE next = Idle
    <3>1. Busy(p)' = {}
      BY <1>1, <1>2, <2>1, <2>2 DEF Busy
    <3> QED BY <1>3, <2>1, <2>2, <3>1 DEF Undisturbed
  <2>3. CASE next # Idle
    <3>1. Busy(p)' = {c} /\ call'[c] = next
      BY <1>1, <2>1, <2>3 DEF Busy
    <3> QED BY <1>3, <2>1, <2>3, <3>1 DEF Undisturbed
  <2> QED BY <2>2, <2>3
<1>4. next.op \in OwnerOps => next.on = p
  BY <1>2
<1>5. p \in Plans \ disturbed' => Undisturbed(p)'
  BY <1>3
<1>6. \A q \in Plans \ {p} :
         /\ plans'[q] = plans[q] /\ publics'[q].status = publics[q].status
         /\ q \in disturbed => q \in disturbed'
  OBVIOUS
<1>7. call[c].op \in OwnerOps => call[c].on = p
  OBVIOUS
<1> QED BY <1>4, <1>5, <1>6, <1>7, OtherPlans, ZenonT(60)

\* What a call that is at one of its owner's places is known to be.
LEMMA OwnerCall ==
    ASSUME LibInv, SerialInv, NEW c \in Calls, call[c].at \in OwnerPlaces
    PROVE  /\ call[c] \in Known /\ call[c].op \in OwnerOps
           /\ call[c].at \in PlacesOf[call[c].op]
           /\ call[c].on \in StoredPlans /\ call[c].on \in Plans
           /\ call[c].seen # "none"
<1>1. call[c] \in Known /\ Consistent(call[c], StoredPlans) /\ OnItsWay(call[c])
  BY InvParts DEF CallsConsistent, SerialInv
<1>2. call[c].at \notin {"idle", "create"}
  BY DEF OwnerPlaces
<1> QED BY <1>1, <1>2 DEF Consistent, OnItsWay, StoredPlans

\* Such a call after its step, having found s.
After(k, to, s) == IF to = "idle" THEN Idle ELSE [k EXCEPT !.at = to, !.found = s]

LEMMA NextOf ==
    ASSUME NEW k \in Known, k.op \in OwnerOps, NEW to \in PlacesOf[k.op] \cup {"idle"},
           NEW s \in PublicStatus, NEW next, next = After(k, to, s)
    PROVE  /\ next \in Known /\ OnItsWay(next)
           /\ next = Idle \/ (next.op = k.op /\ next.on = k.on)
           /\ next # Idle <=> to # "idle"
           /\ next # Idle => /\ next.at = to /\ next.found = s
                             /\ next.seen = k.seen
<1>1. CASE to = "idle"
  BY <1>1, IdleKnown DEF After, OnItsWay, Idle, OwnerOps
<1>2. CASE to # "idle"
  <2>1. to \in Places /\ to \notin {"create", "archive", "count", "idle"}
    BY <1>2 DEF PlacesOf, OwnerOps, Places
  <2>2. next \in Known /\ next.op = k.op /\ next.on = k.on /\ next.at = to
          /\ next.found = s /\ next.seen = k.seen
    BY <1>2, <2>1 DEF After, Known
  <2>3. next # Idle
    BY <2>1, <2>2 DEF Idle
  <2> QED BY <1>2, <2>1, <2>2, <2>3 DEF OnItsWay
<1> QED BY <1>1, <1>2

LEMMA UpdatePlanSerial ==
    ASSUME LibInv, SerialInv, NEW c \in Calls, UpdatePlan(c) PROVE SerialInv'
<1> PICK k : k = call[c]
  OBVIOUS
<1> PICK p : p = k.on
  OBVIOUS
<1>1. PICK to : /\ Goes(c, "update", to)
                /\ \/ /\ to = AfterWrite(c) /\ Updatable(p)
                      /\ plans' = [plans EXCEPT ![p] =
                                      [status |-> StatusWritten(c), deleted |-> FALSE]]
                   \/ to = "idle" /\ ~Updatable(p) /\ plans' = plans
  BY DEF UpdatePlan
<1>2. /\ k \in Known /\ k.op \in {"rename", "publish", "unpublish"}
      /\ p \in Plans /\ k.at = "update" /\ k.seen # "none"
  BY <1>1, OwnerCall DEF Goes, OwnerPlaces, OwnerOps, PlacesOf
<1>3. to \in PlacesOf[k.op] \cup {"idle"} /\ k.op \in OwnerOps
  BY <1>1, <1>2 DEF AfterWrite, PlacesOf, OwnerOps
<1>4. PICK next : next = IF to = "idle" THEN Idle ELSE [k EXCEPT !.at = to]
  OBVIOUS
<1>5. PICK s \in PublicStatus :
         next = After(k, to, s)
  <2>1. k.found \in PublicStatus /\ k = [k EXCEPT !.found = k.found]
    BY <1>2 DEF Known
  <2>2. [k EXCEPT !.at = to] = [k EXCEPT !.at = to, !.found = k.found]
    BY <1>2 DEF Known
  <2> QED BY <1>4, <2>1, <2>2 DEF After
<1>6. /\ next \in Known /\ OnItsWay(next)
      /\ next = Idle \/ (next.op = k.op /\ next.on = p)
      /\ next # Idle <=> to # "idle"
      /\ next # Idle => next.at = to /\ next.seen = k.seen
  BY <1>2, <1>3, <1>5, NextOf
<1>7. call' = [call EXCEPT ![c] = next]
  BY <1>1, <1>4 DEF Goes, Continues
<1>8. UNCHANGED <<publics, disturbed>>
  BY DEF UpdatePlan
<1>9. plans \in [Plans -> [status : PlanStatus, deleted : BOOLEAN]]
  BY InvParts DEF StoresOK
<1>10. ASSUME Alone(k, p)
       PROVE  /\ to = "idle" => Agrees(p)'
              /\ to # "idle" => Alone(next, p)'
  <2>1. Live(p)
    BY <1>2, <1>10 DEF Alone
  <2>2. /\ to = AfterWrite(c)
        /\ plans'[p] = [status |-> StatusWritten(c), deleted |-> FALSE]
    BY <1>1, <1>2, <1>9, <2>1 DEF Updatable, Live
  <2>3. StatusWritten(c) = CASE k.op = "publish" -> "published"
                             [] k.op = "unpublish" -> "unpublished"
                             [] k.op = "rename" -> k.seen
    BY <1>2 DEF StatusWritten
  <2>4. CASE k.op = "publish"
    BY <1>2, <1>6, <1>8, <1>10, <2>2, <2>3, <2>4
    DEF Alone, Agrees, Live, Stored, AfterWrite
  <2>5. CASE k.op = "unpublish"
    BY <1>2, <1>6, <1>8, <1>10, <2>2, <2>3, <2>5
    DEF Alone, Agrees, Live, Stored, AfterWrite
  <2>6. CASE k.op = "rename"
    <3>1. Agrees(p) /\ k.seen = plans[p].status /\ plans'[p].status = plans[p].status
          /\ ~plans'[p].deleted
      BY <1>10, <2>2, <2>3, <2>6 DEF Alone
    <3>2. Live(p)' /\ Agrees(p)'
      BY <1>8, <2>1, <3>1 DEF Agrees, Live, Stored
    <3>3. to # "idle" => to = "findPublic"
      BY <2>2 DEF AfterWrite
    <3> QED BY <1>6, <2>6, <3>1, <3>2, <3>3 DEF Alone
  <2> QED BY <1>2, <2>4, <2>5, <2>6
<1>11. \A q \in Plans \ {p} :
          plans'[q] = plans[q] /\ publics'[q].status = publics[q].status
  BY <1>1, <1>8, <1>9
<1>12. /\ call[c].op \in OwnerOps /\ disturbed' = disturbed /\ p = call[c].on
       /\ p \in Plans \ disturbed /\ Alone(call[c], p) /\ next = Idle => Agrees(p)'
       /\ p \in Plans \ disturbed /\ Alone(call[c], p) /\ next # Idle => Alone(next, p)'
       /\ next = Idle \/ (next.op = call[c].op /\ next.on = p)
  BY <1>3, <1>6, <1>8, <1>10
<1> QED BY <1>2, <1>6, <1>7, <1>11, <1>12, OwnPlan

LEMMA SoftDeleteSerial ==
    ASSUME LibInv, SerialInv, NEW c \in Calls, SoftDelete(c) PROVE SerialInv'
<1> PICK k : k = call[c]
  OBVIOUS
<1> PICK p : p = k.on
  OBVIOUS
<1>1. PICK to : /\ Goes(c, "softDelete", to)
                /\ \/ /\ to = AfterWrite(c)
                      /\ plans' = [plans EXCEPT ![p].deleted = TRUE]
                   \/ to = "idle" /\ plans[p].deleted /\ plans' = plans
  BY DEF SoftDelete
<1>2. k \in Known /\ k.op = "delete" /\ p \in Plans /\ k.at = "softDelete"
  BY <1>1, OwnerCall DEF Goes, OwnerPlaces, OwnerOps, PlacesOf
<1>3. to \in PlacesOf[k.op] \cup {"idle"} /\ k.op \in OwnerOps
  BY <1>1, <1>2 DEF AfterWrite, PlacesOf, OwnerOps
<1>4. PICK next : next = IF to = "idle" THEN Idle ELSE [k EXCEPT !.at = to]
  OBVIOUS
<1>5. PICK s \in PublicStatus :
         next = After(k, to, s)
  <2>1. k.found \in PublicStatus /\ k = [k EXCEPT !.found = k.found]
    BY <1>2 DEF Known
  <2>2. [k EXCEPT !.at = to] = [k EXCEPT !.at = to, !.found = k.found]
    BY <1>2 DEF Known
  <2> QED BY <1>4, <2>1, <2>2 DEF After
<1>6. /\ next \in Known /\ OnItsWay(next)
      /\ next = Idle \/ (next.op = k.op /\ next.on = p)
      /\ next # Idle <=> to # "idle"
      /\ next # Idle => next.at = to /\ next.seen = k.seen
  BY <1>2, <1>3, <1>5, NextOf
<1>7. call' = [call EXCEPT ![c] = next]
  BY <1>1, <1>4 DEF Goes, Continues
<1>8. UNCHANGED <<publics, disturbed>>
  BY DEF SoftDelete
<1>9. plans \in [Plans -> [status : PlanStatus, deleted : BOOLEAN]]
  BY InvParts DEF StoresOK
<1>10. ASSUME Alone(k, p)
       PROVE  /\ to = "idle" => Agrees(p)'
              /\ to # "idle" => Alone(next, p)'
  <2>1. Live(p) /\ Agrees(p) /\ k.seen = plans[p].status
    BY <1>2, <1>10 DEF Alone
  <2>2. to = AfterWrite(c) /\ plans'[p].deleted
    BY <1>1, <1>2, <1>9, <2>1 DEF Live
  <2>3. CASE to = "idle"
    <3>1. publics[p].status # "published"
      BY <1>2, <2>1, <2>2, <2>3 DEF AfterWrite, Agrees
    <3> QED BY <1>8, <2>2, <2>3, <3>1 DEF Agrees, Live
  <2>4. CASE to # "idle"
    <3>1. to = "findPublic"
      BY <2>2, <2>4 DEF AfterWrite
    <3> QED BY <1>2, <1>6, <2>2, <2>4, <3>1 DEF Alone
  <2> QED BY <2>3, <2>4
<1>11. \A q \in Plans \ {p} :
          plans'[q] = plans[q] /\ publics'[q].status = publics[q].status
  BY <1>1, <1>8, <1>9
<1> QED BY <1>2, <1>3, <1>6, <1>7, <1>8, <1>10, <1>11, OwnPlan

LEMMA FindPublicSerial ==
    ASSUME LibInv, SerialInv, NEW c \in Calls, FindPublic(c) PROVE SerialInv'
<1> PICK k : k = call[c]
  OBVIOUS
<1> PICK p : p = k.on
  OBVIOUS
<1> PICK s : s = publics[p].status
  OBVIOUS
<1> PICK to : to = AfterFind(c, s)
  OBVIOUS
<1>1. k \in Known /\ k.op \in OwnerOps /\ p \in Plans /\ k.at = "findPublic"
  BY OwnerCall DEF FindPublic, OwnerPlaces
<1>2. s \in PublicStatus
  BY <1>1, InvParts DEF StoresOK
<1>3. to \in PlacesOf[k.op] \cup {"idle"}
  BY <1>1 DEF AfterFind, PlacesOf, OwnerOps
<1>4. PICK next : next = After(k, to, s)
  OBVIOUS
<1>5. /\ next \in Known /\ OnItsWay(next)
      /\ next = Idle \/ (next.op = k.op /\ next.on = p)
      /\ next # Idle <=> to # "idle"
      /\ next # Idle => next.at = to /\ next.seen = k.seen /\ next.found = s
  BY <1>1, <1>2, <1>3, <1>4, NextOf
<1>6. call' = [call EXCEPT ![c] = next]
  <2>1. call' = [call EXCEPT ![c] = IF to = "idle" THEN Idle
                                    ELSE [[k EXCEPT !.found = s] EXCEPT !.at = to]]
    BY DEF FindPublic, Finds, Continues
  <2>2. [[k EXCEPT !.found = s] EXCEPT !.at = to] = [k EXCEPT !.at = to, !.found = s]
    BY <1>1 DEF Known
  <2> QED BY <1>4, <2>1, <2>2 DEF After
<1>7. UNCHANGED <<plans, publics, disturbed>>
  BY DEF FindPublic, storeVars
<1>8. ASSUME Alone(k, p)
      PROVE  /\ to = "idle" => Agrees(p)'
             /\ to # "idle" => Alone(next, p)'
  <2>1. (Agrees(p)' <=> Agrees(p)) /\ (Live(p)' <=> Live(p))
    BY <1>7 DEF Agrees, Live, Stored
  <2>2. CASE k.op = "rename"
    <3>1. Agrees(p) /\ Live(p) /\ k.seen = plans[p].status
      BY <1>8, <2>2 DEF Alone
    <3> QED BY <1>5, <1>7, <2>1, <2>2, <3>1 DEF Alone
  <2>3. CASE k.op = "delete"
    <3>1. plans[p].deleted
      BY <1>1, <1>8, <2>3 DEF Alone
    <3>2. to = IF s # "none" THEN "setStatus" ELSE "idle"
      BY <2>3 DEF AfterFind
    <3> QED BY <1>5, <1>7, <2>1, <2>3, <3>1, <3>2 DEF Alone, Agrees, Live
  <2>4. CASE k.op = "publish"
    <3>1. Live(p) /\ to = "upsert"
      BY <1>8, <2>4 DEF Alone, AfterFind
    <3> QED BY <1>5, <2>1, <2>4, <3>1 DEF Alone
  <2>5. CASE k.op = "unpublish"
    <3>1. Live(p) /\ to = IF s # "none" THEN "setStatus" ELSE "update"
      BY <1>8, <2>5 DEF Alone, AfterFind
    <3> QED BY <1>5, <1>7, <2>1, <2>5, <3>1 DEF Alone
  <2> QED BY <1>1, <2>2, <2>3, <2>4, <2>5 DEF OwnerOps
<1> QED BY <1>1, <1>5, <1>6, <1>7, <1>8, OwnPlan

LEMMA UpsertSerial ==
    ASSUME LibInv, SerialInv, NEW c \in Calls, Upsert(c) PROVE SerialInv'
<1> PICK k : k = call[c]
  OBVIOUS
<1> PICK p : p = k.on
  OBVIOUS
<1> PICK to : to = IF k.op = "publish" THEN "update" ELSE "idle"
  OBVIOUS
<1>1. /\ k \in Known /\ k.op \in {"rename", "publish"} /\ k.op \in OwnerOps
      /\ p \in Plans /\ k.at = "upsert"
  BY OwnerCall DEF Upsert, Goes, OwnerPlaces, OwnerOps, PlacesOf
<1>2. to \in PlacesOf[k.op] \cup {"idle"}
  BY <1>1 DEF PlacesOf
<1>3. PICK next : next = IF to = "idle" THEN Idle ELSE [k EXCEPT !.at = to]
  OBVIOUS
<1>4. PICK s \in PublicStatus : next = After(k, to, s)
  <2>1. k.found \in PublicStatus /\ k = [k EXCEPT !.found = k.found]
    BY <1>1 DEF Known
  <2>2. [k EXCEPT !.at = to] = [k EXCEPT !.at = to, !.found = k.found]
    BY <1>1 DEF Known
  <2> QED BY <1>3, <2>1, <2>2 DEF After
<1>5. /\ next \in Known /\ OnItsWay(next)
      /\ next = Idle \/ (next.op = k.op /\ next.on = p)
      /\ next # Idle <=> to # "idle"
      /\ next # Idle => next.at = to
  BY <1>1, <1>2, <1>4, NextOf
<1>6. call' = [call EXCEPT ![c] = next]
  BY <1>3 DEF Upsert, Goes, Continues
<1>7. UNCHANGED <<plans, disturbed>>
  BY DEF Upsert
<1>8. publics \in [Plans -> [status : PublicStatus, count : 0 .. MaxCount]]
  BY InvParts DEF StoresOK
<1>9. /\ publics'[p].status = IF k.op = "publish" THEN "published" ELSE k.found
      /\ \A q \in Plans \ {p} : publics'[q].status = publics[q].status
  BY <1>1, <1>8 DEF Upsert
<1>10. ASSUME Alone(k, p)
       PROVE  /\ to = "idle" => Agrees(p)'
              /\ to # "idle" => Alone(next, p)'
  <2>1. Live(p)' <=> Live(p)
    BY <1>7 DEF Live, Stored
  <2>2. CASE k.op = "rename"
    <3>1. Agrees(p) /\ k.found = publics[p].status /\ to = "idle"
      BY <1>1, <1>10, <2>2 DEF Alone
    <3> QED BY <1>7, <1>9, <2>1, <2>2, <3>1 DEF Agrees
  <2>3. CASE k.op = "publish"
    <3>1. Live(p) /\ to = "update"
      BY <1>10, <2>3 DEF Alone
    <3> QED BY <1>5, <1>9, <2>1, <2>3, <3>1 DEF Alone
  <2> QED BY <1>1, <2>2, <2>3
<1> QED BY <1>1, <1>5, <1>6, <1>7, <1>9, <1>10, OwnPlan

LEMMA SetStatusSerial ==
    ASSUME LibInv, SerialInv, NEW c \in Calls, SetStatus(c) PROVE SerialInv'
<1> PICK k : k = call[c]
  OBVIOUS
<1> PICK p : p = k.on
  OBVIOUS
<1> PICK to : to = IF k.op = "unpublish" THEN "update" ELSE "idle"
  OBVIOUS
<1>1. /\ k \in Known /\ k.op \in {"delete", "unpublish"} /\ k.op \in OwnerOps
      /\ p \in Plans /\ k.at = "setStatus"
  BY OwnerCall DEF SetStatus, Goes, OwnerPlaces, OwnerOps, PlacesOf
<1>2. to \in PlacesOf[k.op] \cup {"idle"}
  BY <1>1 DEF PlacesOf
<1>3. PICK next : next = IF to = "idle" THEN Idle ELSE [k EXCEPT !.at = to]
  OBVIOUS
<1>4. PICK s \in PublicStatus : next = After(k, to, s)
  <2>1. k.found \in PublicStatus /\ k = [k EXCEPT !.found = k.found]
    BY <1>1 DEF Known
  <2>2. [k EXCEPT !.at = to] = [k EXCEPT !.at = to, !.found = k.found]
    BY <1>1 DEF Known
  <2> QED BY <1>3, <2>1, <2>2 DEF After
<1>5. /\ next \in Known /\ OnItsWay(next)
      /\ next = Idle \/ (next.op = k.op /\ next.on = p)
      /\ next # Idle <=> to # "idle"
      /\ next # Idle => next.at = to
  BY <1>1, <1>2, <1>4, NextOf, SMTT(30)
<1>6. call' = [call EXCEPT ![c] = next]
  BY <1>3 DEF SetStatus, Goes, Continues
<1>7. UNCHANGED <<plans, disturbed>>
  BY DEF SetStatus
<1>8. publics \in [Plans -> [status : PublicStatus, count : 0 .. MaxCount]]
  BY InvParts DEF StoresOK
<1>9. /\ publics'[p].status = "unpublished"
      /\ \A q \in Plans \ {p} : publics'[q].status = publics[q].status
  BY <1>1, <1>8 DEF SetStatus
<1>10. ASSUME Alone(k, p)
       PROVE  /\ to = "idle" => Agrees(p)'
              /\ to # "idle" => Alone(next, p)'
  <2>1. Live(p)' <=> Live(p)
    BY <1>7 DEF Live, Stored
  <2>2. CASE k.op = "delete"
    <3>1. plans[p].deleted /\ to = "idle"
      BY <1>1, <1>10, <2>2 DEF Alone
    <3> QED BY <1>7, <1>9, <3>1 DEF Agrees, Live
  <2>3. CASE k.op = "unpublish"
    <3>1. Live(p) /\ to = "update"
      BY <1>10, <2>3 DEF Alone
    <3> QED BY <1>5, <1>9, <2>1, <2>3, <3>1 DEF Alone
  <2> QED BY <1>1, <2>2, <2>3
<1> QED BY <1>1, <1>5, <1>6, <1>7, <1>9, <1>10, OwnPlan

\* The first read of an owner's call finds the tables in agreement if no other
\* call is under way; a Publish then has the plan to itself again.
LEMMA OpenSerial ==
    ASSUME LibInv, SerialInv, NEW c \in Calls, NEW p \in Plans, NEW o \in OwnerOps,
           NEW to \in PlacesOf[o], to # "upsert", to # "setStatus",
           o # "rename" => to # "update",
           o = "delete" => to = "softDelete", o = "rename" => to = "update",
           Open(c, o, p, to)
    PROVE  SerialInv'
<1> PICK next : next = [op |-> o, at |-> to, on |-> p, seen |-> plans[p].status,
                        found |-> "none"]
  OBVIOUS
<1>1. Live(p) /\ call[c] = Idle /\ call' = [call EXCEPT ![c] = next]
  BY DEF Open, Begins
<1>2. call \in [Calls -> Known] /\ plans[p].status \in PlanStatus
  BY InvParts DEF StoresOK
<1>3. next \in Known /\ OnItsWay(next)
  BY <1>2 DEF Known, OnItsWay, PlacesOf, OwnerOps, Places, PublicStatus
<1>4. UNCHANGED <<plans, publics>>
  BY DEF Open, storeVars
<1>5. ASSUME p \notin disturbed' PROVE Undisturbed(p)'
  <2>1. Busy(p) = {} /\ (o = "publish" \/ p \notin disturbed)
    BY <1>5 DEF Open
  <2>2. Busy(p)' = {c} /\ call'[c] = next
    BY <1>1, <1>2, <2>1 DEF Busy
  <2>3. o # "publish" => Agrees(p)
    BY <2>1 DEF SerialInv, Undisturbed
  <2>4. (Agrees(p)' <=> Agrees(p)) /\ Live(p)'
    BY <1>1, <1>4 DEF Agrees, Live, Stored
  <2>5. Alone(next, p)'
    <3>1. o # "unpublish" \/ to # "update"
      OBVIOUS
    <3> QED BY <1>4, <2>3, <2>4, <3>1 DEF Alone
  <2> QED BY <2>2, <2>5 DEF Undisturbed
<1>6. \A q \in Plans \ {p} : q \in disturbed => q \in disturbed'
  BY DEF Open
<1>7. call[c].op \notin OwnerOps
  BY <1>1 DEF Idle, OwnerOps
<1> QED BY <1>1, <1>3, <1>4, <1>5, <1>6, <1>7, OtherPlans

\* A step of a call that is no owner's writes nothing the tables agree about.
LEMMA StrangerSerial ==
    ASSUME LibInv, SerialInv, NEW c \in Calls, NEW next \in Known, OnItsWay(next),
           call' = [call EXCEPT ![c] = next],
           call[c].op \notin OwnerOps, next.op \notin OwnerOps,
           \A q \in Plans : q \in disturbed => q \in disturbed',
           \A q \in Plans :
              \/ plans'[q] = plans[q] /\ publics'[q].status = publics[q].status
              \/ q \notin disturbed' => Undisturbed(q)'
    PROVE  SerialInv'
<1>1. call \in [Calls -> Known]
  BY InvParts
<1>2. \A d \in Calls : OnItsWay(call'[d])
  BY <1>1 DEF SerialInv
<1>3. ASSUME NEW q \in Plans \ disturbed',
             plans'[q] = plans[q] /\ publics'[q].status = publics[q].status
      PROVE  Undisturbed(q)'
  <2>1. Undisturbed(q)
    BY <1>3 DEF SerialInv
  <2>2. Busy(q)' = Busy(q) /\ \A d \in Busy(q) : call'[d] = call[d]
    BY <1>1, <1>3 DEF Busy
  <2>3. Agrees(q)' <=> Agrees(q)
    BY <1>3 DEF Agrees, Live, Stored
  <2>4. ASSUME NEW d \in Busy(q) PROVE Alone(call[d], q)'
    <3>1. Alone(call[d], q) /\ call'[d] = call[d]
      BY <2>1, <2>2 DEF Undisturbed
    <3> QED BY <1>3, <2>3, <3>1 DEF Alone, Live, Stored
  <2> QED BY <2>1, <2>2, <2>3, <2>4 DEF Undisturbed
<1> QED BY <1>2, <1>3 DEF SerialInv

LEMMA SaveSerial ==
    ASSUME LibInv, SerialInv, NEW c \in Calls, Save(c) PROVE SerialInv'
<1> PICK next : next = [op |-> "save", at |-> "create", on |-> NoPlan,
                        seen |-> "none", found |-> "none"]
  OBVIOUS
<1>1. call[c].op \notin OwnerOps /\ call' = [call EXCEPT ![c] = next]
  BY DEF Save, Begins, Idle, OwnerOps
<1>2. next \in Known /\ OnItsWay(next) /\ next.op \notin OwnerOps
  BY DEF Known, OnItsWay, Places, PlanStatus, PublicStatus, OwnerOps
<1>3. \A q \in Plans : q \in disturbed => q \in disturbed'
  BY LibraryAssumption DEF Save
<1> QED BY <1>1, <1>2, <1>3, StrangerSerial DEF Save, storeVars

LEMMA ReadPublicSerial ==
    ASSUME LibInv, SerialInv, NEW c \in Calls, NEW p \in Plans, ReadPublic(c, p)
    PROVE  SerialInv'
<1> PICK next : next = [op |-> "count", at |-> "count", on |-> p,
                        seen |-> "none", found |-> "none"]
  OBVIOUS
<1>1. call[c].op \notin OwnerOps /\ call' = [call EXCEPT ![c] = next]
  BY DEF ReadPublic, Begins, Idle, OwnerOps
<1>2. next \in Known /\ OnItsWay(next) /\ next.op \notin OwnerOps
  BY DEF Known, OnItsWay, Places, PlanStatus, PublicStatus, OwnerOps
<1> QED BY <1>1, <1>2, StrangerSerial DEF ReadPublic, storeVars

\* A new plan is a draft without a public copy, and no call works on it yet.
LEMMA CreatePlanSerial ==
    ASSUME LibInv, SerialInv, NEW c \in Calls, CreatePlan(c) PROVE SerialInv'
<1>1. PICK p \in Fresh : /\ plans' = [plans EXCEPT ![p].status = "draft"]
                         /\ Continues(c, [call[c] EXCEPT !.on = p], "archive")
  BY DEF CreatePlan
<1>2. call \in [Calls -> Known] /\ StoresOK
  BY InvParts
<1>3. call[c] \in Known /\ call[c].op = "save"
  BY <1>2 DEF SerialInv, OnItsWay, CreatePlan
<1> PICK next : next = [call[c] EXCEPT !.on = p, !.at = "archive"]
  OBVIOUS
<1>4. call' = [call EXCEPT ![c] = next]
  <2>1. [[call[c] EXCEPT !.on = p] EXCEPT !.at = "archive"] = next
    BY <1>3 DEF Known
  <2> QED BY <1>1, <2>1 DEF Continues
<1>5. next \in Known /\ OnItsWay(next) /\ next.op \notin OwnerOps
  BY <1>3 DEF Known, OnItsWay, OwnerOps, Places, Fresh
<1>6. \A q \in Plans \ {p} : plans'[q] = plans[q] /\ publics'[q] = publics[q]
  BY <1>1, <1>2 DEF StoresOK, CreatePlan
<1>7. Undisturbed(p)'
  <2>1. p \in Plans \ StoredPlans
    BY DEF StoredPlans, Fresh
  <2>2. \A d \in Calls : call'[d].op \in OwnerOps => call'[d].on # p
    <3> SUFFICES ASSUME NEW d \in Calls, d # c, call[d].op \in OwnerOps
                 PROVE  call[d].on # p
      BY <1>2, <1>4, <1>5
    <3>1. call[d].at \in PlacesOf[call[d].op] /\ Consistent(call[d], StoredPlans)
      BY InvParts DEF SerialInv, OnItsWay, CallsConsistent
    <3>2. call[d].at \notin {"idle", "create"}
      BY <3>1 DEF PlacesOf, OwnerOps
    <3> QED BY <2>1, <3>1, <3>2 DEF Consistent
  <2>3. publics'[p].status = "none" /\ plans'[p].status = "draft"
    BY <1>1, <1>2, <2>1 DEF StoresOK, CreatePlan
  <2> QED BY <2>2, <2>3 DEF Undisturbed, Busy, Agrees
<1>8. disturbed' = disturbed /\ call[c].op \notin OwnerOps
  BY <1>3 DEF CreatePlan, OwnerOps
<1> QED BY <1>4, <1>5, <1>6, <1>7, <1>8, StrangerSerial

LEMMA CreateArchiveSerial ==
    ASSUME LibInv, SerialInv, NEW c \in Calls, CreateArchive(c) PROVE SerialInv'
<1>1. call[c].op = "save" /\ call' = [call EXCEPT ![c] = Idle]
  BY DEF SerialInv, OnItsWay, CreateArchive, Goes, Continues
<1>2. Idle \in Known /\ OnItsWay(Idle) /\ Idle.op \notin OwnerOps
      /\ call[c].op \notin OwnerOps
  BY <1>1, IdleKnown DEF Idle, OnItsWay, OwnerOps
<1> PICK next : next = Idle
  OBVIOUS
<1> QED BY <1>1, <1>2, StrangerSerial DEF CreateArchive

LEMMA CountSerial ==
    ASSUME LibInv, SerialInv, NEW c \in Calls, Count(c) PROVE SerialInv'
<1>1. call[c].op = "count" /\ call' = [call EXCEPT ![c] = Idle]
  BY DEF SerialInv, OnItsWay, Count, Goes, Continues
<1>2. Idle \in Known /\ OnItsWay(Idle) /\ Idle.op \notin OwnerOps
      /\ call[c].op \notin OwnerOps
  BY <1>1, IdleKnown DEF Idle, OnItsWay, OwnerOps
<1>3. \A q \in Plans : plans'[q] = plans[q] /\ publics'[q].status = publics[q].status
  BY InvParts DEF StoresOK, Count
<1> PICK next : next = Idle
  OBVIOUS
<1> QED BY <1>1, <1>2, <1>3, StrangerSerial DEF Count

\* A failing call leaves its plan disturbed.
LEMMA StoreFailsSerial ==
    ASSUME LibInv, SerialInv, NEW c \in Calls, StoreFails(c) PROVE SerialInv'
<1> PICK k : k = call[c]
  OBVIOUS
<1> PICK p : p = k.on
  OBVIOUS
<1>1. k \in Known /\ UNCHANGED <<plans, publics>> /\ disturbed \subseteq disturbed'
      /\ (k.op \in OwnerOps => p \in disturbed')
  BY InvParts DEF StoreFails, storeVars, OwnerOps
<1>2. CASE Continues(c, Idle, "idle")
  <2> PICK next : next = Idle
    OBVIOUS
  <2>1. next \in Known /\ OnItsWay(next) /\ next.op \notin OwnerOps
    BY IdleKnown DEF Idle, OnItsWay, OwnerOps
  <2>2. call' = [call EXCEPT ![c] = next]
    BY <1>2 DEF Continues
  <2>3. CASE k.op \in OwnerOps
    BY <1>1, <2>1, <2>2, <2>3, OtherPlans
  <2>4. CASE k.op \notin OwnerOps
    BY <1>1, <2>1, <2>2, <2>4, StrangerSerial
  <2> QED BY <2>3, <2>4
<1>3. CASE k.at = "findPublic" /\ Finds(c, "none")
  <2> PICK to : to = AfterFind(c, "none")
    OBVIOUS
  <2>1. k.op \in OwnerOps /\ to \in PlacesOf[k.op] \cup {"idle"}
    <3>1. k.op \in OwnerOps
      BY <1>3, OwnerCall DEF OwnerPlaces
    <3> QED BY <3>1 DEF AfterFind, PlacesOf, OwnerOps
  <2>2. PICK next : next = After(k, to, "none")
    OBVIOUS
  <2>3. /\ next \in Known /\ OnItsWay(next)
        /\ next = Idle \/ (next.op = k.op /\ next.on = p)
    BY <1>1, <2>1, <2>2, NextOf DEF PublicStatus
  <2>4. call' = [call EXCEPT ![c] = next]
    <3>1. call' = [call EXCEPT ![c] = IF to = "idle" THEN Idle
                       ELSE [[k EXCEPT !.found = "none"] EXCEPT !.at = to]]
      BY <1>3 DEF Finds, Continues
    <3>2. [[k EXCEPT !.found = "none"] EXCEPT !.at = to]
            = [k EXCEPT !.at = to, !.found = "none"]
      BY <1>1 DEF Known
    <3> QED BY <2>2, <3>1, <3>2 DEF After
  <2>5. next.op \in OwnerOps => next.on = p
    BY <2>3 DEF Idle, OwnerOps
  <2> QED BY <1>1, <2>1, <2>3, <2>4, <2>5, OtherPlans
<1> QED BY <1>2, <1>3 DEF StoreFails

LEMMA SerialInit == LibInit => SerialInv
<1> SUFFICES ASSUME LibInit PROVE SerialInv
  OBVIOUS
<1>1. \A c \in Calls : OnItsWay(call[c]) /\ call[c].op \notin OwnerOps
  BY DEF LibInit, Idle, OnItsWay, OwnerOps
<1>2. \A p \in Plans : Agrees(p) /\ Busy(p) = {}
  BY <1>1 DEF LibInit, Agrees, Live, Stored, Busy
<1> QED BY <1>1, <1>2 DEF SerialInv, Undisturbed

LEMMA SerialStep == LibInv /\ SerialInv /\ [LibNext]_libVars => SerialInv'
<1> SUFFICES ASSUME LibInv, SerialInv, [LibNext]_libVars PROVE SerialInv'
  OBVIOUS
<1>1. CASE UNCHANGED libVars
  BY <1>1 DEF libVars, storeVars, SerialInv, Undisturbed, Alone, Agrees, Live, Stored, Busy
<1>2. CASE LibNext
  <2> PICK c \in Calls :
        \/ Save(c)
        \/ \E p \in Plans :
              \/ Rename(c, p) \/ Delete(c, p) \/ Publish(c, p) \/ Unpublish(c, p)
              \/ ReadPublic(c, p)
        \/ CreatePlan(c) \/ CreateArchive(c)
        \/ UpdatePlan(c) \/ SoftDelete(c)
        \/ FindPublic(c) \/ Upsert(c) \/ SetStatus(c)
        \/ Count(c)
        \/ StoreFails(c)
    BY <1>2 DEF LibNext
  <2>1. ASSUME NEW p \in Plans,
               Rename(c, p) \/ Delete(c, p) \/ Publish(c, p) \/ Unpublish(c, p)
        PROVE  SerialInv'
    BY <2>1, OpenSerial DEF Rename, Delete, Publish, Unpublish, OwnerOps, PlacesOf
  <2> QED BY <2>1, SaveSerial, ReadPublicSerial, CreatePlanSerial, CreateArchiveSerial,
             UpdatePlanSerial, SoftDeleteSerial, FindPublicSerial, UpsertSerial,
             SetStatusSerial, CountSerial, StoreFailsSerial
<1> QED BY <1>1, <1>2

-----------------------------------------------------------------------------
(* One plan and one archive per task                                       *)

Archiving(p) == \E c \in Calls : call[c].at = "archive" /\ call[c].on = p

\* Unless Saves overlapped one Save at most is about to create a plan, and only
\* while none is saved.
OneSave ==
    NoPlan \notin disturbed =>
        /\ \A c, d \in Saving : c = d
        /\ Saving # {} => SavedFromTask = {}
        /\ \A p, q \in SavedFromTask : p = q

\* As many plans are without an archive as store calls failed, at most.
FewUnarchived == IsFiniteSet(Unarchived) /\ Cardinality(Unarchived) <= faults

LEMMA UnarchivedIs ==
    /\ Unarchived = {p \in StoredPlans \ archived : ~Archiving(p)}
    /\ Unarchived' = {p \in StoredPlans' \ archived' : ~Archiving(p)'}
BY DEF Unarchived, StoredPlans, Archiving

\* A step that creates and revives no plan and begins no Save.
LEMMA NoSaveStep ==
    ASSUME OneSave, NoPlan \notin disturbed' => NoPlan \notin disturbed,
           SavedFromTask' \subseteq SavedFromTask,
           \A d \in Calls : call'[d].at = "create" => call[d].at = "create"
    PROVE  OneSave'
<1>1. Saving' \subseteq Saving
  BY DEF Saving
<1> QED BY <1>1 DEF OneSave

\* One that stores and archives no plan and ends no Save before its archive.
LEMMA NoneLeft ==
    ASSUME StoredPlans' = StoredPlans, archived' = archived,
           \A d \in Calls : call[d].at = "archive" => call'[d] = call[d]
    PROVE  Unarchived' \subseteq Unarchived
<1>1. \A p \in StoredPlans : Archiving(p) => Archiving(p)'
  BY DEF Archiving
<1> QED BY <1>1, UnarchivedIs

\* A call that goes on, from no Save's place to no Save's place.
LEMMA CallOnItsWay ==
    ASSUME LibInv, NEW c \in Calls, NEW known \in Known, NEW to \in Places,
           Continues(c, known, to), to # "create", call[c].at # "archive"
    PROVE  \A d \in Calls : /\ call'[d].at = "create" => call[d].at = "create"
                            /\ call[d].at = "archive" => call'[d] = call[d]
<1> PICK next : next = IF to = "idle" THEN Idle ELSE [known EXCEPT !.at = to]
  OBVIOUS
<1>1. next.at = to
  BY DEF Idle, Known
<1>2. call \in [Calls -> Known] /\ call' = [call EXCEPT ![c] = next]
  BY InvParts DEF Continues
<1> QED BY <1>1, <1>2

LEMMA OpenOneSave ==
    ASSUME LibInv, OneSave, NEW c \in Calls, NEW p \in Plans, NEW o, NEW to,
           to # "create", Open(c, o, p, to)
    PROVE  OneSave' /\ Unarchived' \subseteq Unarchived
<1> PICK next : next = [op |-> o, at |-> to, on |-> p, seen |-> plans[p].status,
                        found |-> "none"]
  OBVIOUS
<1>1. call \in [Calls -> Known] /\ call[c] = Idle /\ call' = [call EXCEPT ![c] = next]
  BY InvParts DEF Open, Begins
<1>2. \A d \in Calls : /\ call'[d].at = "create" => call[d].at = "create"
                       /\ call[d].at = "archive" => call'[d] = call[d]
  BY <1>1 DEF Idle
<1>3. NoPlan \notin disturbed' => NoPlan \notin disturbed
  BY LibraryAssumption DEF Open
<1>4. UNCHANGED <<plans, archived>>
  BY DEF Open, storeVars
<1>5. SavedFromTask' = SavedFromTask /\ StoredPlans' = StoredPlans
  BY <1>4 DEF SavedFromTask, StoredPlans, Fresh, Live, Stored
<1> QED BY <1>2, <1>3, <1>4, <1>5, NoSaveStep, NoneLeft

LEMMA SaveOneSave ==
    ASSUME LibInv, OneSave, NEW c \in Calls, Save(c) PROVE OneSave' /\ Unarchived' \subseteq Unarchived
<1> PICK next : next = [op |-> "save", at |-> "create", on |-> NoPlan,
                        seen |-> "none", found |-> "none"]
  OBVIOUS
<1>1. /\ call \in [Calls -> Known] /\ call[c] = Idle
      /\ call' = [call EXCEPT ![c] = next]
  BY InvParts DEF Save, Begins
<1>2. UNCHANGED <<plans, archived>> /\ SavedFromTask = {}
  BY DEF Save, storeVars
<1>3. SavedFromTask' = {} /\ StoredPlans' = StoredPlans
  BY <1>2 DEF SavedFromTask, StoredPlans, Fresh, Live, Stored
<1>4. NoPlan \notin disturbed' => Saving = {}
  BY DEF Save
<1>5. Saving = {} => \A d, e \in Saving' : d = e
  BY <1>1 DEF Saving
<1>6. \A d \in Calls : call[d].at = "archive" => call'[d] = call[d]
  BY <1>1 DEF Idle
<1> QED BY <1>2, <1>3, <1>4, <1>5, <1>6, NoneLeft DEF OneSave

LEMMA CreatePlanOneSave ==
    ASSUME LibInv, OneSave, NEW c \in Calls, CreatePlan(c) PROVE OneSave' /\ Unarchived' \subseteq Unarchived
<1>1. PICK p \in Fresh : /\ plans' = [plans EXCEPT ![p].status = "draft"]
                         /\ Continues(c, [call[c] EXCEPT !.on = p], "archive")
  BY DEF CreatePlan
<1>2. call \in [Calls -> Known] /\ StoresOK /\ call[c] \in Known /\ c \in Saving
  BY InvParts DEF CreatePlan, Saving
<1> PICK next : next = [call[c] EXCEPT !.on = p, !.at = "archive"]
  OBVIOUS
<1>3. call' = [call EXCEPT ![c] = next] /\ next.at = "archive" /\ next.on = p
  <2>1. [[call[c] EXCEPT !.on = p] EXCEPT !.at = "archive"] = next
    BY <1>2 DEF Known
  <2> QED BY <1>1, <1>2, <2>1 DEF Continues, Known
<1>4. UNCHANGED <<archived, disturbed>>
  BY DEF CreatePlan
<1>5. ASSUME NoPlan \notin disturbed
      PROVE  Saving' = {} /\ \A q, r \in SavedFromTask' : q = r
  <2>1. Saving = {c} /\ SavedFromTask = {}
    BY <1>2, <1>5 DEF OneSave
  <2>2. Saving' = {}
    BY <1>2, <1>3, <2>1 DEF Saving
  <2>3. SavedFromTask' \subseteq {p}
    BY <1>1, <1>2, <2>1 DEF SavedFromTask, StoresOK, Live, Stored
  <2> QED BY <2>2, <2>3
<1>6. ASSUME NEW q \in StoredPlans', q \notin StoredPlans PROVE Archiving(q)'
  <2>1. q = p
    BY <1>1, <1>2, <1>6, StoredIsStored DEF StoresOK, StoredPlans, Fresh, Stored
  <2> QED BY <1>2, <1>3, <2>1 DEF Archiving
<1>7. \A q \in StoredPlans : Archiving(q) => Archiving(q)'
  BY <1>2, <1>3 DEF Archiving, CreatePlan
<1>8. Unarchived' \subseteq Unarchived
  BY <1>4, <1>6, <1>7, UnarchivedIs
<1> QED BY <1>4, <1>5, <1>8 DEF OneSave

LEMMA CreateArchiveOneSave ==
    ASSUME LibInv, OneSave, NEW c \in Calls, CreateArchive(c)
    PROVE  OneSave' /\ Unarchived' \subseteq Unarchived
<1>1. call \in [Calls -> Known] /\ call' = [call EXCEPT ![c] = Idle]
  BY InvParts DEF CreateArchive, Goes, Continues
<1>2. SavedFromTask' = SavedFromTask /\ StoredPlans' = StoredPlans
        /\ disturbed' = disturbed /\ archived' = archived \cup {call[c].on}
  BY DEF CreateArchive, SavedFromTask, StoredPlans, Fresh, Live, Stored
<1>3. \A d \in Calls : call'[d].at = "create" => call[d].at = "create"
  BY <1>1 DEF Idle
<1>4. \A p \in StoredPlans : Archiving(p) => Archiving(p)' \/ p \in archived'
  BY <1>1, <1>2 DEF Archiving
<1>5. Unarchived' \subseteq Unarchived
  BY <1>2, <1>4, UnarchivedIs
<1> QED BY <1>2, <1>3, <1>5, NoSaveStep

\* The steps of an owner's call; with MySQL no Update revives a plan.
LEMMA OwnersOneSave ==
    ASSUME LibInv, SerialInv, OneSave, StoreKind = "mysql", NEW c \in Calls,
           \/ UpdatePlan(c) \/ SoftDelete(c) \/ FindPublic(c) \/ Upsert(c)
           \/ SetStatus(c) \/ Count(c)
    PROVE  OneSave' /\ Unarchived' \subseteq Unarchived
<1>1. plans \in [Plans -> [status : PlanStatus, deleted : BOOLEAN]]
      /\ call[c] \in Known /\ Consistent(call[c], StoredPlans)
  BY InvParts DEF StoresOK, CallsConsistent
<1>2. call[c].at \in OwnerPlaces \cup {"count"}
  BY DEF UpdatePlan, SoftDelete, FindPublic, Upsert, SetStatus, Count, Goes, OwnerPlaces
<1>3. call[c].on \in StoredPlans
  BY <1>1, <1>2 DEF Consistent, OwnerPlaces
<1>4. UNCHANGED <<archived, disturbed>>
  BY DEF UpdatePlan, SoftDelete, FindPublic, Upsert, SetStatus, Count, storeVars
<1>5. SavedFromTask' \subseteq SavedFromTask /\ StoredPlans' = StoredPlans
  <2>1. CASE UNCHANGED plans
    BY <2>1 DEF SavedFromTask, StoredPlans, Fresh, Live, Stored
  <2>2. CASE UpdatePlan(c) /\ Updatable(call[c].on)
             /\ plans' = [plans EXCEPT ![call[c].on] =
                             [status |-> StatusWritten(c), deleted |-> FALSE]]
    <3>1. StatusWritten(c) # "none" /\ Live(call[c].on)
      BY <1>1, <1>2, <2>2
      DEF StatusWritten, Consistent, UpdatePlan, Goes, OwnerPlaces, Updatable, Live
    <3> QED BY <1>1, <1>3, <2>2, <3>1, StoredIsStored
            DEF SavedFromTask, StoredPlans, Fresh, Live, Stored
  <2>3. CASE plans' = [plans EXCEPT ![call[c].on].deleted = TRUE]
    BY <1>1, <2>3 DEF SavedFromTask, StoredPlans, Fresh, Live, Stored
  <2> QED BY <2>1, <2>2, <2>3
          DEF UpdatePlan, SoftDelete, FindPublic, Upsert, SetStatus, Count, storeVars
<1>6. \E known \in Known, to \in Places \ {"create"} : Continues(c, known, to)
  <2>1. CASE FindPublic(c)
    <3>1. call[c].on \in Plans /\ publics[call[c].on].status \in PublicStatus
      BY <1>3, InvParts DEF StoresOK, StoredPlans
    <3> PICK s \in PublicStatus : s = publics[call[c].on].status
      BY <3>1
    <3>2. [call[c] EXCEPT !.found = s] \in Known
      BY <1>1 DEF Known
    <3>3. AfterFind(c, s) \in Places \ {"create"}
      BY DEF AfterFind, Places
    <3> QED BY <2>1, <3>2, <3>3 DEF FindPublic, Finds
  <2>2. AfterWrite(c) \in Places \ {"create"}
        /\ {"idle", "update"} \subseteq Places \ {"create"}
    BY DEF AfterWrite, Places
  <2>3. CASE UpdatePlan(c)
    BY <1>1, <2>2, <2>3 DEF UpdatePlan, Goes
  <2>4. CASE SoftDelete(c)
    BY <1>1, <2>2, <2>4 DEF SoftDelete, Goes
  <2>5. CASE Upsert(c)
    BY <1>1, <2>2, <2>5 DEF Upsert, Goes
  <2>6. CASE SetStatus(c)
    BY <1>1, <2>2, <2>6 DEF SetStatus, Goes
  <2>7. CASE Count(c)
    BY <1>1, <2>2, <2>7 DEF Count, Goes
  <2> QED BY <2>1, <2>3, <2>4, <2>5, <2>6, <2>7
<1>7. call[c].at # "archive"
  BY <1>2 DEF OwnerPlaces
<1> QED BY <1>4, <1>5, <1>6, <1>7, CallOnItsWay, NoSaveStep, NoneLeft

LEMMA StoreFailsOneSave ==
    ASSUME LibInv, SerialInv, OneSave, NEW c \in Calls, StoreFails(c)
    PROVE  OneSave' /\ Unarchived' \subseteq Unarchived \cup {call[c].on}
<1>1. UNCHANGED <<plans, archived>> /\ (NoPlan \notin disturbed' => NoPlan \notin disturbed)
  BY DEF StoreFails, storeVars
<1>2. SavedFromTask' = SavedFromTask /\ StoredPlans' = StoredPlans
  BY <1>1 DEF SavedFromTask, StoredPlans, Fresh, Live, Stored
<1>3. call[c] \in Known /\ OnItsWay(call[c])
  BY InvParts DEF SerialInv
<1>4. \E known \in Known, to \in Places \ {"create"} : Continues(c, known, to)
  <2>1. CASE Continues(c, Idle, "idle")
    BY <2>1, IdleKnown DEF Places
  <2>2. CASE Finds(c, "none")
    <3>1. [call[c] EXCEPT !.found = "none"] \in Known
      BY <1>3 DEF Known, PublicStatus
    <3>2. AfterFind(c, "none") \in Places \ {"create"}
      BY DEF AfterFind, Places
    <3> QED BY <2>2, <3>1, <3>2 DEF Finds
  <2> QED BY <2>1, <2>2 DEF StoreFails
<1>5. \A d \in Calls \ {c} : call'[d] = call[d]
  BY <1>4, InvParts DEF Continues
<1>6. \A d \in Calls : call'[d].at = "create" => call[d].at = "create"
  <2> PICK known \in Known, to \in Places \ {"create"} : Continues(c, known, to)
    BY <1>4
  <2> PICK next : next = IF to = "idle" THEN Idle ELSE [known EXCEPT !.at = to]
    OBVIOUS
  <2>1. next.at = to
    BY DEF Idle, Known
  <2>2. call' = [call EXCEPT ![c] = next]
    BY DEF Continues
  <2> QED BY <2>1, <2>2, InvParts
<1>7. \A p \in StoredPlans \ {call[c].on} : Archiving(p) => Archiving(p)'
  BY <1>5 DEF Archiving
<1>8. Unarchived' \subseteq Unarchived \cup {call[c].on}
  BY <1>1, <1>2, <1>7, UnarchivedIs
<1> QED BY <1>1, <1>2, <1>6, <1>8, NoSaveStep

\* What a step leaves without an archive, and how many store calls it fails.
LEMMA FewStep ==
    ASSUME LibInv, FewUnarchived,
           \/ Unarchived' \subseteq Unarchived /\ faults' = faults
           \/ \E x : Unarchived' \subseteq Unarchived \cup {x} /\ faults' = faults + 1
    PROVE  FewUnarchived'
<1>1. IsFiniteSet(Unarchived) /\ Cardinality(Unarchived) \in Nat
  BY FS_CardinalityType DEF FewUnarchived
<1>2. faults \in Nat /\ Cardinality(Unarchived) <= faults
  BY InvParts, LibraryAssumption DEF HistoryOK, FewUnarchived
<1>3. CASE Unarchived' \subseteq Unarchived /\ faults' = faults
  <2>1. /\ IsFiniteSet(Unarchived') /\ Cardinality(Unarchived') \in Nat
        /\ Cardinality(Unarchived') <= Cardinality(Unarchived)
    <3>1. Unarchived' \in SUBSET Unarchived
      BY <1>3
    <3> QED BY <1>1, <3>1, FS_Subset, FS_CardinalityType
  <2>2. Cardinality(Unarchived') <= faults'
    BY <1>1, <1>2, <1>3, <2>1
  <2> QED BY <2>1, <2>2 DEF FewUnarchived
<1>4. CASE \E x : Unarchived' \subseteq Unarchived \cup {x} /\ faults' = faults + 1
  <2>1. PICK x : Unarchived' \subseteq Unarchived \cup {x} /\ faults' = faults + 1
    BY <1>4
  <2> DEFINE more == Unarchived \cup {x}
  <2>2. /\ IsFiniteSet(more) /\ Cardinality(more) \in Nat
        /\ Cardinality(more) <= Cardinality(Unarchived) + 1
    BY <1>1, FS_AddElement, FS_CardinalityType
  <2>3. Unarchived' \in SUBSET more
    BY <2>1
  <2> HIDE DEF more
  <2>4. /\ IsFiniteSet(Unarchived') /\ Cardinality(Unarchived') \in Nat
        /\ Cardinality(Unarchived') <= Cardinality(more)
    BY <2>2, <2>3, FS_Subset, FS_CardinalityType
  <2>5. Cardinality(Unarchived') <= faults'
    BY <1>1, <1>2, <2>1, <2>2, <2>4
  <2> QED BY <2>4, <2>5 DEF FewUnarchived
<1> QED BY <1>3, <1>4

LEMMA OneSaveStep ==
    ASSUME StoreKind = "mysql"
    PROVE  LibInv /\ SerialInv /\ OneSave /\ FewUnarchived /\ [LibNext]_libVars
              => OneSave' /\ FewUnarchived'
<1> SUFFICES ASSUME LibInv, SerialInv, OneSave, FewUnarchived, [LibNext]_libVars
             PROVE  OneSave' /\ FewUnarchived'
  OBVIOUS
<1>1. CASE UNCHANGED libVars
  <2>1. UNCHANGED <<plans, archived, call, faults, disturbed>>
    BY <1>1 DEF libVars, storeVars
  <2>2. UNCHANGED <<Saving, SavedFromTask, Unarchived>>
    BY <2>1 DEF Saving, SavedFromTask, Unarchived, Fresh, Live, Stored
  <2> QED BY <2>1, <2>2 DEF OneSave, FewUnarchived
<1>2. CASE LibNext
  <2> PICK c \in Calls :
        \/ Save(c)
        \/ \E p \in Plans :
              \/ Rename(c, p) \/ Delete(c, p) \/ Publish(c, p) \/ Unpublish(c, p)
              \/ ReadPublic(c, p)
        \/ CreatePlan(c) \/ CreateArchive(c)
        \/ UpdatePlan(c) \/ SoftDelete(c)
        \/ FindPublic(c) \/ Upsert(c) \/ SetStatus(c)
        \/ Count(c)
        \/ StoreFails(c)
    BY <1>2 DEF LibNext
  <2>1. ASSUME NEW p \in Plans,
               Rename(c, p) \/ Delete(c, p) \/ Publish(c, p) \/ Unpublish(c, p)
        PROVE  OneSave' /\ FewUnarchived'
    <3>1. \E o, to : to # "create" /\ Open(c, o, p, to)
      BY <2>1 DEF Rename, Delete, Publish, Unpublish
    <3>2. faults' = faults
      BY <3>1 DEF Open
    <3> QED BY <3>1, <3>2, OpenOneSave, FewStep
  <2>2. ASSUME NEW p \in Plans, ReadPublic(c, p)
        PROVE  OneSave' /\ FewUnarchived'
    <3> PICK next : next = [op |-> "count", at |-> "count", on |-> p,
                            seen |-> "none", found |-> "none"]
      OBVIOUS
    <3>1. call \in [Calls -> Known] /\ call[c] = Idle /\ call' = [call EXCEPT ![c] = next]
      BY <2>2, InvParts DEF ReadPublic, Begins
    <3>2. \A d \in Calls : /\ call'[d].at = "create" => call[d].at = "create"
                           /\ call[d].at = "archive" => call'[d] = call[d]
      BY <3>1 DEF Idle
    <3>3. UNCHANGED <<plans, archived, disturbed, faults>>
      BY <2>2 DEF ReadPublic, storeVars
    <3>4. SavedFromTask' = SavedFromTask /\ StoredPlans' = StoredPlans
      BY <3>3 DEF SavedFromTask, StoredPlans, Fresh, Live, Stored
    <3> QED BY <3>2, <3>3, <3>4, NoSaveStep, NoneLeft, FewStep
  <2>3. CASE Save(c) \/ CreatePlan(c) \/ CreateArchive(c)
    <3>1. faults' = faults
      BY <2>3 DEF Save, CreatePlan, CreateArchive
    <3>2. OneSave' /\ Unarchived' \subseteq Unarchived
      BY <2>3, SaveOneSave, CreatePlanOneSave, CreateArchiveOneSave
    <3> QED BY <3>1, <3>2, FewStep
  <2>4. CASE \/ UpdatePlan(c) \/ SoftDelete(c) \/ FindPublic(c) \/ Upsert(c)
             \/ SetStatus(c) \/ Count(c)
    <3>1. faults' = faults
      BY <2>4 DEF UpdatePlan, SoftDelete, FindPublic, Upsert, SetStatus, Count
    <3>2. OneSave' /\ Unarchived' \subseteq Unarchived
      BY <2>4, OwnersOneSave
    <3> QED BY <3>1, <3>2, FewStep
  <2>5. CASE StoreFails(c)
    <3>1. faults' = faults + 1
      BY <2>5 DEF StoreFails
    <3>2. OneSave' /\ Unarchived' \subseteq Unarchived \cup {call[c].on}
      BY <2>5, StoreFailsOneSave
    <3> QED BY <3>1, <3>2, FewStep
  <2> QED BY <2>1, <2>2, <2>3, <2>4, <2>5
<1> QED BY <1>1, <1>2

-----------------------------------------------------------------------------
(* The theorems                                                            *)

LEMMA StepInv == LibInv /\ [LibNext]_libVars => LibInv'
<1> SUFFICES ASSUME LibInv, [LibNext]_libVars PROVE LibInv'
  OBVIOUS
<1>1. CASE UNCHANGED libVars
  <2>1. call' = call /\ HistoryOK' /\ StoresOK' /\ StoredPlans' = StoredPlans
    BY <1>1, InvParts, StoresUntouched DEF libVars, HistoryOK, storeVars
  <2> QED BY <2>1, InvParts DEF CallsConsistent
<1>2. CASE LibNext
  <2> PICK c \in Calls :
        \/ Save(c)
        \/ \E p \in Plans :
              \/ Rename(c, p) \/ Delete(c, p) \/ Publish(c, p) \/ Unpublish(c, p)
              \/ ReadPublic(c, p)
        \/ CreatePlan(c) \/ CreateArchive(c)
        \/ UpdatePlan(c) \/ SoftDelete(c)
        \/ FindPublic(c) \/ Upsert(c) \/ SetStatus(c)
        \/ Count(c)
        \/ StoreFails(c)
    BY <1>2 DEF LibNext
  <2>1. ASSUME NEW p \in Plans,
               Rename(c, p) \/ Delete(c, p) \/ Publish(c, p) \/ Unpublish(c, p)
        PROVE  LibInv'
    BY <2>1, OpenInv DEF Rename, Delete, Publish, Unpublish, OwnerOps, OwnerPlaces
  <2> QED BY <2>1, SaveInv, ReadPublicInv, CreatePlanInv, CreateArchiveInv,
             UpdatePlanInv, SoftDeleteInv, FindPublicInv, UpsertInv, SetStatusInv,
             CountInv, StoreFailsInv
<1> QED BY <1>1, <1>2

\* The inductive invariant: what calls know of the plans they work on stays true
\* whatever other calls, and failing store calls, do in between.
THEOREM LibraryInvariant == LibSpec => []LibInv
<1> QED BY LibraryStart, StepInv, PTL DEF LibSpec

\* Type correctness; only stored plans are archived, published or deleted.
THEOREM LibraryTypeCorrect == LibSpec => []LibTypeOK
<1>1. LibInv => LibTypeOK
  BY DEF LibInv
<1> QED BY <1>1, LibraryInvariant, PTL

\* Publish, Rename and Edit write back public copies they read earlier; no view
\* or save counted in between is lost, with either store.
THEOREM NoCountLost == LibSpec => []CountersSurvive
<1>1. LibInv => CountersSurvive
  BY DEF LibInv
<1> QED BY <1>1, LibraryInvariant, PTL

\* The public copy of a plan is visible exactly while the plan is published and
\* not deleted, though no transaction spans the two tables: unless two calls on
\* the plan overlapped or one failed, and again after the next Publish.
THEOREM TablesAgree == LibSpec => []PublishedAgrees
<1>1. SerialInv => PublishedAgrees
  BY DEF SerialInv, Undisturbed, Agrees, PublishedAgrees
<1> QED BY <1>1, SerialInit, SerialStep, LibraryInvariant, PTL DEF LibSpec

\* With MySQL a finished task has one plan unless Saves overlapped, also when
\* they fail half-way or the plan is deleted and saved again; and no more plans
\* lack their archive than store calls failed.
THEOREM SavedOncePerTask ==
    ASSUME StoreKind = "mysql" PROVE LibSpec => []SavedOnce
<1>1. LibInit => OneSave /\ FewUnarchived
  <2> SUFFICES ASSUME LibInit PROVE OneSave /\ FewUnarchived
    OBVIOUS
  <2>1. \A p \in Plans : plans[p].status = "none"
    BY DEF LibInit
  <2>2. StoredPlans = {} /\ SavedFromTask = {} /\ Saving = {}
    BY <2>1, StoredIsStored DEF LibInit, SavedFromTask, Live, Stored, Saving, Idle
  <2>3. Unarchived = {}
    BY <2>2, UnarchivedIs
  <2>4. FewUnarchived
    BY <2>3, FS_EmptySet DEF FewUnarchived, LibInit
  <2> QED BY <2>2, <2>4 DEF OneSave
<1>2. OneSave /\ FewUnarchived => SavedOnce
  BY DEF OneSave, FewUnarchived, SavedOnce, SavedFromTask
<1> QED BY <1>1, <1>2, OneSaveStep, SerialInit, SerialStep, LibraryInvariant, PTL
        DEF LibSpec

\* With MySQL no write of an outdated plan brings back a deleted one: the Update
\* statement does not apply to deleted plans.
THEOREM DeletionIsFinal ==
    ASSUME StoreKind = "mysql" PROVE LibSpec => DeletedStaysDeleted
<1>1. ASSUME LibInv, [LibNext]_libVars, NEW p \in Plans, plans[p].deleted
      PROVE  plans'[p].deleted
  <2>1. plans \in [Plans -> [status : PlanStatus, deleted : BOOLEAN]]
    BY <1>1 DEF LibInv, LibTypeOK
  <2>2. CASE UNCHANGED plans
    BY <1>1, <2>2
  <2>3. ASSUME NEW c \in Calls, CreatePlan(c) PROVE plans'[p].deleted
    BY <1>1, <2>1, <2>3 DEF CreatePlan
  <2>4. ASSUME NEW c \in Calls, UpdatePlan(c) PROVE plans'[p].deleted
    BY <1>1, <2>1, <2>4 DEF UpdatePlan, Updatable
  <2>5. ASSUME NEW c \in Calls, SoftDelete(c) PROVE plans'[p].deleted
    BY <1>1, <2>1, <2>5 DEF SoftDelete
  <2> QED
    BY <1>1, <2>2, <2>3, <2>4, <2>5
    DEF LibNext, libVars, storeVars, Save, Rename, Delete, Publish, Unpublish, Open,
        ReadPublic, CreateArchive, FindPublic, Upsert, SetStatus, Count, StoreFails
<1>2. LibInv /\ [LibNext]_libVars
        => [\A p \in Plans : plans[p].deleted => plans'[p].deleted]_libVars
  BY <1>1
<1> QED BY <1>2, LibraryInvariant, PTL DEF LibSpec, DeletedStaysDeleted

-----------------------------------------------------------------------------
(* Both parts at once                                                      *)

\* Whichever of the stores is at work, every variable of both has its type.
THEOREM StoresTypeCorrect == StoresSpec => []StoresTypeOK
<1>1. StoresInit => CacheInv /\ LibInv
  BY CacheStart, LibraryStart DEF StoresInit
<1>2. CacheInv /\ LibInv /\ [StoresNext]_<<part, cachedVars, libVars>> => CacheInv' /\ LibInv'
  <2> SUFFICES ASSUME CacheInv, LibInv, [StoresNext]_<<part, cachedVars, libVars>>
               PROVE  CacheInv' /\ LibInv'
    OBVIOUS
  <2>1. [CacheNext]_cachedVars /\ [LibNext]_libVars
    BY DEF StoresNext
  <2> QED BY <2>1, CacheStep, StepInv
<1>3. CacheInv /\ LibInv => StoresTypeOK
  BY DEF CacheInv, LibInv, StoresTypeOK
<1> QED BY <1>1, <1>2, <1>3, PTL DEF StoresSpec
=============================================================================
