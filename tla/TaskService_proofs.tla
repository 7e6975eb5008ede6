------------------------- MODULE TaskService_proofs -------------------------
(***************************************************************************)
(* The task service, for any number of calls, tasks, streams and hazards:  *)
(* one task per request hash and one answer for all who ask, where the     *)
(* index is unique or where the lock of memory is timely; at most one      *)
(* lease per hash with Redis; outcomes that are final, and agree with what *)
(* was published; and streams that tell one outcome, the stored one.       *)
(***************************************************************************)
EXTENDS TaskService, Lists_proofs, TLAPS

-----------------------------------------------------------------------------
(* Which actions leave the store, the lock and the calls alone             *)

\* The steps that write none of the parts of this section.
Elsewhere(s) ==
    \/ Replay(s) \/ SubscribeStream(s) \/ Read(s) \/ CloseStream(s) \/ Disconnect(s)
    \/ \E t \in Tasks : Connect(s, t)
Sends(t) == \E s \in Streams : SendNext(t, s) \/ RunPanics(t, s) \/ PlannerPanics(t, s)
Dies == ProcessDies /\ (Spend("crashes") \/ NoHazard)

\* The steps by what they change.
LEMMA StepKinds ==
    ASSUME [Next]_vars
    PROVE  \/ \E c \in Tasks : CallStep(c) \/ RunStep(c) \/ Sends(c)
           \/ \E c \in Tasks, s \in Streams : AnnouncePanics(c, s)
           \/ \E s \in Streams : Elsewhere(s)
           \/ \E h \in Hashes : LockExpires(h)
           \/ Dies
           \/ UNCHANGED vars
<1>1. ASSUME NEW t \in Tasks, NEW s \in Streams, RecoveryPanics(t, s)
      PROVE  Dies
  BY <1>1 DEF RecoveryPanics, Dies
<1>2. Crash => Dies
  BY DEF Crash, Dies
<1> QED
  BY <1>1, <1>2 DEF Next, SendStep, StreamStep, Elsewhere, Sends

LEMMA ElsewhereLeaves ==
    ASSUME NEW s \in Streams, Elsewhere(s)
    PROVE  UNCHANGED <<storeVars, lockVars, callVars, runVars>>
  BY DEF Elsewhere, Replay, SubscribeStream, Read, CloseStream, Disconnect, Connect

LEMMA SendsLeave ==
    ASSUME NEW t \in Tasks, Sends(t)
    PROVE  UNCHANGED <<storeVars, lockVars, callVars, history>>
  BY DEF Sends, SendNext, RunPanics, PlannerPanics, Bus!Deliver, Bus!Drop, Bus!SendOnClosed

-----------------------------------------------------------------------------
(* The lease of the Redis lock                                             *)

LeaseInv == Lock!LockTypeOK /\ LeaseOwnsLock

LEMMA LeaseInvStep ==
    ASSUME ServiceAssumption, LockKind = "redis", LeaseInv, [Next]_vars
    PROVE  LeaseInv'
<1> USE DEF ServiceAssumption, LeaseInv, LeaseOwnsLock, Lock!LeaseOwnsLock, Lock!LockTypeOK
<1>1. CASE UNCHANGED lockVars
  BY <1>1 DEF lockVars
<1>2. ASSUME NEW c \in Tasks, Lock!Acquire(c) \/ Lock!AcquireLost(c)
      PROVE  LeaseInv'
  BY <1>2 DEF Lock!Acquire, Lock!AcquireLost, Lock!LockFree, Lock!KeyOf
<1>3. ASSUME NEW c \in Tasks, Lock!Release(c) \/ Lock!ReleaseLost(c)
      PROVE  LeaseInv'
  BY <1>3 DEF Lock!Release, Lock!ReleaseLost, Lock!Removes, Lock!KeyOf
<1>4. ASSUME NEW h \in Hashes, Lock!Expire(h)
      PROVE  LeaseInv'
  BY <1>4 DEF Lock!Expire
<1>5. CASE Dies
  BY <1>5 DEF Dies, ProcessDies
<1>6. ASSUME NEW c \in Tasks, CallStep(c)
      PROVE  LeaseInv'
  <2>1. \/ Lock!Acquire(c) \/ Lock!AcquireLost(c)
        \/ Lock!Release(c) \/ Lock!ReleaseLost(c)
        \/ UNCHANGED lockVars
    BY <1>6 DEF CallStep, Admit, Deny, LockAcquired, LockBusy, LockFails, WaitFinds, WaitGivesUp,
         LookupFinds, LookupMisses, CreateStores, CreateFails, Recheck, Announce, StartRun, Unlock
  <2> QED
    BY <1>1, <1>2, <1>3, <2>1
<1>7. ASSUME NEW t \in Tasks, RunStep(t)
      PROVE  UNCHANGED lockVars
  BY <1>7 DEF RunStep, MarkRunning, AnnounceRunning, PlannerReports, PlannerReturns, SaveResult,
              RecoverSave, RecoverPublish, RecoverReturns
<1>8. ASSUME NEW c \in Tasks, NEW s \in Streams, AnnouncePanics(c, s)
      PROVE  UNCHANGED lockVars
  BY <1>8 DEF AnnouncePanics
<1>9. ASSUME NEW h \in Hashes, LockExpires(h)
      PROVE  LeaseInv'
  BY <1>4, <1>9 DEF LockExpires
<1>10. UNCHANGED vars => UNCHANGED lockVars
  BY DEF vars
<1> QED
  BY <1>1, <1>5, <1>6, <1>7, <1>8, <1>9, <1>10, StepKinds, ElsewhereLeaves, SendsLeave

LEMMA LeaseInvariant == LockKind = "redis" => (Spec => []LeaseInv)
<1> SUFFICES ASSUME LockKind = "redis" PROVE Spec => []LeaseInv
  OBVIOUS
<1>1. Init => LeaseInv
  BY ServiceAssumption DEF ServiceAssumption, Init, Lock!LockInit, LeaseInv, Lock!LockTypeOK,
     LeaseOwnsLock, Lock!LeaseOwnsLock
<1>2. LeaseInv /\ [Next]_vars => LeaseInv'
  BY LeaseInvStep, ServiceAssumption
<1> QED
  BY <1>1, <1>2, PTL DEF Spec

\* With Redis, whatever calls and crashes surround it, a call within its lease
\* owns the key (RedisRequestLock).
THEOREM LeasesOwnTheLock == LockKind = "redis" => (Spec => []LeaseOwnsLock)
<1>1. LeaseInv => LeaseOwnsLock
  BY DEF LeaseInv
<1> QED
  BY <1>1, LeaseInvariant, PTL

\* With Redis at most one of the calls for a request is within its lease,
\* however late the others release (defer release in CreateTask).
THEOREM LeasesExclude == LockKind = "redis" => (Spec => []LeaseExclusive)
<1>1. LeaseInv => LeaseExclusive
  BY DEF LeaseInv, LeaseOwnsLock, Lock!LeaseOwnsLock, LeaseExclusive, Lock!LeaseExclusive
<1> QED
  BY <1>1, LeaseInvariant, PTL

-----------------------------------------------------------------------------
(* The stored tasks and the answers                                        *)

\* A call before its Create has no task yet, one that announces its task has.
Before == {"start", "denied", "lock", "wait", "lookup", "create"}

\* The index leads to a stored task of the hash, and answers come from it.
IndexInv ==
    /\ Store!StoreTypeOK
    /\ call \in [Tasks -> CallStates] /\ reply \in [Tasks -> Tasks \cup {NoTask}]
    /\ \A c \in Tasks :
          /\ call[c] \in Before => tasks[c] = "absent"
          /\ call[c] \in {"announce", "announcing"} => tasks[c] # "absent"
          /\ tasks[c] # "absent" => hashToID[HashOf[c]] = c
          /\ reply[c] # NoTask => HashOf[reply[c]] = HashOf[c] /\ tasks[reply[c]] # "absent"
    /\ \A h \in Hashes :
          hashToID[h] # NoTask => HashOf[hashToID[h]] = h /\ tasks[hashToID[h]] # "absent"

\* What a write of one task keeps of the parts about the store.
LEMMA CreateKeepsIndex ==
    ASSUME ServiceAssumption, StoreKind = "mysql", IndexInv, NEW c \in Tasks, Store!Create(c)
    PROVE  /\ Store!StoreTypeOK'
           /\ tasks'[c] = "pending"
           /\ \A t \in Tasks \ {c} : tasks'[t] = tasks[t]
           /\ \A t \in Tasks : tasks'[t] # "absent" => hashToID'[HashOf[t]] = t
           /\ \A h \in Hashes : hashToID'[h] # NoTask =>
                  HashOf[hashToID'[h]] = h /\ tasks'[hashToID'[h]] # "absent"
<1> USE DEF ServiceAssumption, IndexInv, Store!StoreTypeOK
<1>1. /\ hashToID[HashOf[c]] = NoTask
      /\ tasks' = [tasks EXCEPT ![c] = "pending"]
      /\ hashToID' = [hashToID EXCEPT ![HashOf[c]] = c]
  BY DEF Store!Create, Store!CreateAllowed, Store!FindByHash
<1> QED
  BY <1>1 DEF Store!Status

LEMMA UpdateKeepsIndex ==
    ASSUME ServiceAssumption, IndexInv, NEW t \in Tasks,
           NEW status \in Store!Status \ {"absent"}, Store!Update(t, status)
    PROVE  /\ tasks[t] # "absent" /\ tasks' = [tasks EXCEPT ![t] = status]
           /\ hashToID' = hashToID
<1>1. tasks[t] # "absent" /\ hashToID[HashOf[t]] = t
  BY DEF IndexInv, Store!Update
<1> QED
  BY <1>1 DEF ServiceAssumption, IndexInv, Store!StoreTypeOK, Store!Update

\* The goroutine's own copy of its task.
ResultOK == result \in [Tasks -> {"pending", "succeeded", "failed"}]

LEMMA ResultStep ==
    ASSUME ResultOK, [Next]_vars
    PROVE  ResultOK'
<1> USE DEF ResultOK
<1>1. CASE result' = result
  BY <1>1
<1>2. ASSUME NEW t \in Tasks, NEW status \in Store!TerminalStatus, PlannerReturns(t, status)
      PROVE  ResultOK'
  BY <1>2 DEF PlannerReturns, Store!TerminalStatus
<1>3. ASSUME NEW t \in Tasks, NEW s \in Streams, PlannerPanics(t, s)
      PROVE  ResultOK'
  BY <1>3 DEF PlannerPanics
<1>4. ASSUME NEW c \in Tasks, CallStep(c)
      PROVE  result' = result
  BY <1>4 DEF CallStep, Admit, Deny, LockAcquired, LockBusy, LockFails, WaitFinds, WaitGivesUp,
       LookupFinds, LookupMisses, CreateStores, CreateFails, Recheck, Announce, StartRun, Unlock,
       runVars
<1>5. ASSUME NEW t \in Tasks, RunStep(t),
             ~(\E status \in Store!TerminalStatus : PlannerReturns(t, status))
      PROVE  result' = result
  BY <1>5 DEF RunStep, MarkRunning, AnnounceRunning, PlannerReports, SaveResult,
              RecoverSave, RecoverPublish, RecoverReturns, runVars
<1>6. ASSUME NEW t \in Tasks, Sends(t), ~(\E s \in Streams : PlannerPanics(t, s))
      PROVE  result' = result
  BY <1>6 DEF Sends, SendNext, RunPanics, runVars
<1>7. ASSUME NEW c \in Tasks, NEW s \in Streams, AnnouncePanics(c, s)
      PROVE  result' = result
  BY <1>7 DEF AnnouncePanics, runVars
<1>8. ASSUME NEW h \in Hashes, LockExpires(h)
      PROVE  result' = result
  BY <1>8 DEF LockExpires, runVars
<1>9. Dies \/ UNCHANGED vars => result' = result
  BY DEF Dies, ProcessDies, vars, runVars
<1> QED
  BY <1>1, <1>2, <1>3, <1>4, <1>5, <1>6, <1>7, <1>8, <1>9, StepKinds, ElsewhereLeaves DEF runVars

LEMMA IndexInvStep ==
    ASSUME ServiceAssumption, StoreKind = "mysql", IndexInv, ResultOK, [Next]_vars
    PROVE  IndexInv'
<1> USE DEF ServiceAssumption, IndexInv
<1>1. CASE UNCHANGED <<storeVars, callVars>>
  BY <1>1 DEF storeVars, callVars, Store!StoreTypeOK
<1>2. ASSUME NEW c \in Tasks, NEW from \in CallStates, NEW to \in CallStates,
             CallMoves(c, from, to), UNCHANGED storeVars,
             to \in Before => from \in Before,
             to \notin {"announce", "announcing"} \/ from \in {"announce", "announcing"},
             \/ NoAnswer \/ Answer(c, Store!FindByHash(c))
             \/ Answer(c, c) /\ from \in {"announce", "announcing"}
      PROVE  IndexInv'
  <2>1. call' = [call EXCEPT ![c] = to] /\ call[c] = from
    BY <1>2 DEF CallMoves
  <2>2. \/ reply' = reply
        \/ reply' = [reply EXCEPT ![c] = hashToID[HashOf[c]]]
        \/ reply' = [reply EXCEPT ![c] = c] /\ tasks[c] # "absent"
    BY <1>2, <2>1 DEF NoAnswer, Answer, Store!FindByHash
  <2>3. tasks' = tasks /\ hashToID' = hashToID /\ Store!StoreTypeOK'
    BY <1>2 DEF storeVars, Store!StoreTypeOK
  <2>4. hashToID[HashOf[c]] \in Tasks \cup {NoTask}
    BY DEF Store!StoreTypeOK
  <2>5. /\ reply' \in [Tasks -> Tasks \cup {NoTask}]
        /\ \A d \in Tasks : reply'[d] # NoTask =>
               HashOf[reply'[d]] = HashOf[d] /\ tasks[reply'[d]] # "absent"
    BY <2>2, <2>4
  <2>6. /\ call' \in [Tasks -> CallStates]
        /\ \A d \in Tasks :
              /\ call'[d] \in Before => tasks[d] = "absent"
              /\ call'[d] \in {"announce", "announcing"} => tasks[d] # "absent"
    BY <1>2, <2>1
  <2> QED
    BY <2>3, <2>5, <2>6
<1>3. ASSUME NEW c \in Tasks, NEW to \in {"announce", "recheck"},
             CallMoves(c, "create", to), Store!Create(c), NoAnswer
      PROVE  IndexInv'
  <2>1. call' = [call EXCEPT ![c] = to] /\ reply' = reply
    BY <1>3 DEF CallMoves, NoAnswer
  <2>2. call' \in [Tasks -> CallStates]
    BY <2>1 DEF CallStates
  <2> QED
    BY <1>3, <2>1, <2>2, CreateKeepsIndex DEF Before
<1>4. ASSUME NEW c \in Tasks, CallStep(c)
      PROVE  IndexInv'
  <2> USE DEF CallStates, Before
  <2>1. CASE Admit(c) \/ Deny(c) \/ LockAcquired(c) \/ LockBusy(c) \/ LockFails(c)
    BY <1>2, <2>1 DEF Admit, Deny, LockAcquired, LockBusy, LockFails
  <2>2. CASE WaitFinds(c) \/ WaitGivesUp(c) \/ LookupFinds(c) \/ LookupMisses(c) \/ Recheck(c)
    BY <1>2, <2>2 DEF WaitFinds, WaitGivesUp, LookupFinds, LookupMisses, Recheck
  <2>3. CASE Announce(c) \/ StartRun(c) \/ Unlock(c)
    BY <1>2, <2>3 DEF Announce, StartRun, Unlock
  <2>4. CASE CreateStores(c) \/ CreateFails(c)
    BY <1>2, <1>3, <2>4 DEF CreateStores, CreateFails
  <2> QED
    BY <1>4, <2>1, <2>2, <2>3, <2>4 DEF CallStep
<1>5. ASSUME NEW t \in Tasks, NEW status \in Store!Status \ {"absent"},
             Store!Update(t, status), UNCHANGED callVars
      PROVE  IndexInv'
  <2>1. /\ tasks[t] # "absent" /\ tasks' = [tasks EXCEPT ![t] = status]
        /\ hashToID' = hashToID /\ call' = call /\ reply' = reply
    BY <1>5, UpdateKeepsIndex DEF callVars
  <2> QED
    BY <2>1 DEF Store!StoreTypeOK
<1>6. ASSUME NEW t \in Tasks, RunStep(t)
      PROVE  IndexInv'
  <2>1. /\ UNCHANGED callVars
        /\ \/ UNCHANGED storeVars
           \/ \E status \in {"running", "failed"} : Store!Update(t, status)
           \/ Store!Update(t, result[t]) /\ run[t] = "finishing"
    BY <1>6 DEF RunStep, MarkRunning, AnnounceRunning, PlannerReports, PlannerReturns, SaveResult,
              RecoverSave, RecoverPublish, RecoverReturns, RunMoves
  <2> QED
    BY <1>1, <1>5, <2>1 DEF Store!Status, ResultOK
<1>7. ASSUME NEW c \in Tasks, NEW s \in Streams, AnnouncePanics(c, s)
      PROVE  IndexInv'
  BY <1>2, <1>7 DEF AnnouncePanics, CallStates, Before
<1>8. CASE Dies
  <2>1. /\ call' = [c \in Tasks |-> IF call[c] \in {"start", "answered", "denied"}
                                    THEN call[c] ELSE "aborted"]
        /\ UNCHANGED storeVars /\ reply' = reply
    BY <1>8 DEF Dies, ProcessDies, Durable
  <2> QED
    BY <2>1 DEF storeVars, Store!StoreTypeOK, CallStates, Before
<1>9. ASSUME NEW h \in Hashes, LockExpires(h)
      PROVE  UNCHANGED <<storeVars, callVars>>
  BY <1>9 DEF LockExpires
<1>10. UNCHANGED vars => UNCHANGED <<storeVars, callVars>>
  BY DEF vars
<1> QED
  BY <1>1, <1>4, <1>6, <1>7, <1>8, <1>9, <1>10, StepKinds, ElsewhereLeaves, SendsLeave

LEMMA IndexInvariant == StoreKind = "mysql" => (Spec => [](IndexInv /\ ResultOK))
<1> SUFFICES ASSUME StoreKind = "mysql" PROVE Spec => [](IndexInv /\ ResultOK)
  OBVIOUS
<1>1. Init => IndexInv /\ ResultOK
  BY ServiceAssumption DEF ServiceAssumption, Init, Store!StoreInit, IndexInv, ResultOK,
     Store!StoreTypeOK, Store!Status, CallStates, Before
<1>2. (IndexInv /\ ResultOK) /\ [Next]_vars => (IndexInv /\ ResultOK)'
  BY IndexInvStep, ResultStep, ServiceAssumption
<1> QED
  BY <1>1, <1>2, PTL DEF Spec

\* With the unique index no two tasks of a hash are ever stored, whatever
\* locks, lookups, writes and processes fail (MySQLTaskStore.Create).
THEOREM UniqueIndexSuffices == StoreKind = "mysql" => (Spec => []OneTaskPerHash)
<1>1. IndexInv /\ ResultOK => OneTaskPerHash
  BY DEF IndexInv, OneTaskPerHash, Store!Stored
<1> QED
  BY <1>1, IndexInvariant, PTL

\* And all who asked for the same are answered the same, across crashes and
\* lost confirmations (CreateTask).
THEOREM AnswersNeverDiffer == StoreKind = "mysql" => (Spec => []AnswersAgree)
<1>1. IndexInv /\ ResultOK => AnswersAgree
  <2> SUFFICES ASSUME IndexInv, NEW c \in Tasks, NEW d \in Tasks, HashOf[c] = HashOf[d],
                      reply[c] # NoTask, reply[d] # NoTask
               PROVE  reply[c] = reply[d]
    BY DEF AnswersAgree
  <2> QED
    BY DEF IndexInv
<1> QED
  BY <1>1, IndexInvariant, PTL

-----------------------------------------------------------------------------
(* The lock of memory, when nothing is late and no store fails             *)

\* No holder is slower than the wait, no entry expires, no call fails; clients
\* may leave at any time, and the process may end.
Timely ==
    /\ LockKind = "memory"
    /\ Budget["faults"] = 0 /\ Budget["slowHolders"] = 0 /\ Budget["expiries"] = 0

BudgetOK ==
    /\ budget \in [Hazards -> Nat]
    /\ \A k \in Hazards : budget[k] <= Budget[k]

LEMMA BudgetStep ==
    ASSUME BudgetOK, [Next]_vars
    PROVE  BudgetOK' /\ \A k \in Hazards : budget'[k] <= budget[k]
<1> USE DEF BudgetOK
<1>1. CASE UNCHANGED budget
  BY <1>1
<1>2. ASSUME NEW k \in Hazards, Spend(k)
      PROVE  BudgetOK' /\ \A j \in Hazards : budget'[j] <= budget[j]
  <2>1. budget[k] \in Nat /\ budget[k] > 0 /\ budget' = [budget EXCEPT ![k] = budget[k] - 1]
    BY <1>2 DEF Spend
  <2>2. budget[k] - 1 \in Nat /\ budget[k] - 1 <= budget[k]
    BY <2>1
  <2>3. \A j \in Hazards : budget'[j] = IF j = k THEN budget[k] - 1 ELSE budget[j]
    BY <2>1
  <2>4. budget' \in [Hazards -> Nat]
    BY <2>1, <2>2
  <2>5. \A j \in Hazards : budget[j] \in Nat /\ Budget[j] \in Nat
    BY ServiceAssumption DEF ServiceAssumption
  <2> QED
    BY <2>1, <2>2, <2>3, <2>4, <2>5
<1>3. {"faults", "slowHolders", "expiries", "disconnects", "crashes"} = Hazards
  BY DEF Hazards
<1>4. ASSUME NEW c \in Tasks, CallStep(c)
      PROVE  UNCHANGED budget \/ \E k \in Hazards : Spend(k)
  BY <1>3, <1>4 DEF CallStep, Admit, Deny, LockAcquired, LockBusy, LockFails, WaitFinds, WaitGivesUp,
       LookupFinds, LookupMisses, CreateStores, CreateFails, Recheck, Announce, StartRun, Unlock,
       NoHazard
<1>5. ASSUME NEW t \in Tasks, RunStep(t)
      PROVE  UNCHANGED budget \/ \E k \in Hazards : Spend(k)
  BY <1>3, <1>5 DEF RunStep, MarkRunning, AnnounceRunning, PlannerReports, PlannerReturns,
       SaveResult, RecoverSave, RecoverPublish, RecoverReturns, NoHazard
<1>6. ASSUME NEW t \in Tasks, Sends(t) \/ \E s \in Streams : AnnouncePanics(t, s)
      PROVE  UNCHANGED budget
  BY <1>6 DEF Sends, SendNext, RunPanics, PlannerPanics, AnnouncePanics, NoHazard
<1>7. ASSUME NEW s \in Streams, Elsewhere(s)
      PROVE  UNCHANGED budget \/ \E k \in Hazards : Spend(k)
  BY <1>3, <1>7 DEF Elsewhere, Replay, SubscribeStream, Read, CloseStream, Disconnect, Connect,
       NoHazard
<1>8. ASSUME NEW h \in Hashes, LockExpires(h)
      PROVE  UNCHANGED budget \/ \E k \in Hazards : Spend(k)
  BY <1>3, <1>8 DEF LockExpires
<1>9. Dies \/ UNCHANGED vars => UNCHANGED budget \/ \E k \in Hazards : Spend(k)
  BY <1>3 DEF Dies, NoHazard, vars
<1> QED
  BY <1>1, <1>2, <1>4, <1>5, <1>6, <1>7, <1>8, <1>9, StepKinds

\* A call between its Acquire and its unlock.
Inside == {"lookup", "create", "recheck", "announce", "announcing", "release"}

TimelyInv ==
    /\ BudgetOK /\ Store!StoreTypeOK
    /\ lockOwner \in [Hashes -> Tasks \cup {NoTask}] /\ holds \subseteq Tasks
    /\ call \in [Tasks -> CallStates] /\ reply \in [Tasks -> Tasks \cup {NoTask}]
    /\ \A c \in Tasks :
          /\ call[c] \in Inside <=> c \in holds
          /\ c \in holds => lockOwner[HashOf[c]] = c
          /\ call[c] \in Before => tasks[c] = "absent"
          /\ call[c] = "create" => hashToID[HashOf[c]] = NoTask
          /\ call[c] \in {"announce", "announcing"} => tasks[c] # "absent"
          /\ call[c] = "release" => hashToID[HashOf[c]] # NoTask
          /\ call[c] = "wait" =>
                lockOwner[HashOf[c]] \in holds \/ hashToID[HashOf[c]] # NoTask
          /\ call[c] # "recheck"
          /\ tasks[c] # "absent" => hashToID[HashOf[c]] = c
          /\ reply[c] # NoTask =>
                HashOf[reply[c]] = HashOf[c] /\ (Durable => tasks[reply[c]] # "absent")
    /\ \A h \in Hashes :
          /\ lockOwner[h] # NoTask => lockOwner[h] \in holds /\ HashOf[lockOwner[h]] = h
          /\ hashToID[h] # NoTask => HashOf[hashToID[h]] = h /\ tasks[hashToID[h]] # "absent"

LEMMA NothingStrikes ==
    ASSUME ServiceAssumption, Timely, BudgetOK
    PROVE  ~Spend("faults") /\ ~Spend("slowHolders") /\ ~Spend("expiries")
  BY DEF ServiceAssumption, Timely, BudgetOK, Spend, Hazards

\* A step of a call that takes or drops no lock and writes no task.
LEMMA TimelyMove ==
    ASSUME ServiceAssumption, Timely, TimelyInv, BudgetOK', NEW c \in Tasks,
           NEW from \in CallStates, NEW to \in CallStates,
           CallMoves(c, from, to), UNCHANGED <<storeVars, lockVars>>,
           to \in Inside <=> from \in Inside,
           to \in Before => from \in Before,
           to = "create" => hashToID[HashOf[c]] = NoTask,
           to \in {"announce", "announcing"} => from \in {"announce", "announcing"},
           to = "release" => hashToID[HashOf[c]] # NoTask,
           to = "wait" => lockOwner[HashOf[c]] # NoTask,
           to # "recheck",
           \/ NoAnswer \/ Answer(c, Store!FindByHash(c))
           \/ Answer(c, c) /\ from \in {"announce", "announcing"}
    PROVE  TimelyInv'
<1> USE DEF ServiceAssumption, TimelyInv
<1>1. /\ call' = [call EXCEPT ![c] = to] /\ call[c] = from
      /\ tasks' = tasks /\ hashToID' = hashToID /\ lockOwner' = lockOwner /\ holds' = holds
      /\ Store!StoreTypeOK'
  BY DEF CallMoves, storeVars, lockVars, Store!StoreTypeOK
<1>2. \/ reply' = reply
      \/ reply' = [reply EXCEPT ![c] = hashToID[HashOf[c]]]
      \/ reply' = [reply EXCEPT ![c] = c] /\ tasks[c] # "absent"
  BY <1>1 DEF NoAnswer, Answer, Store!FindByHash
<1>3. hashToID[HashOf[c]] \in Tasks \cup {NoTask}
  BY DEF Store!StoreTypeOK
<1>4. /\ reply' \in [Tasks -> Tasks \cup {NoTask}]
      /\ \A d \in Tasks : reply'[d] # NoTask =>
             HashOf[reply'[d]] = HashOf[d] /\ (Durable => tasks[reply'[d]] # "absent")
  BY <1>2, <1>3
<1>5. call' \in [Tasks -> CallStates]
  BY <1>1
<1>6. ASSUME NEW d \in Tasks
      PROVE  /\ call'[d] \in Inside <=> d \in holds
             /\ call'[d] \in Before => tasks[d] = "absent"
             /\ call'[d] = "create" => hashToID[HashOf[d]] = NoTask
             /\ call'[d] \in {"announce", "announcing"} => tasks[d] # "absent"
             /\ call'[d] = "release" => hashToID[HashOf[d]] # NoTask
             /\ call'[d] = "wait" =>
                   lockOwner[HashOf[d]] \in holds \/ hashToID[HashOf[d]] # NoTask
             /\ call'[d] # "recheck"
  <2>1. CASE d = c
    BY <1>1, <2>1
  <2>2. CASE d # c
    <3>1. call'[d] = call[d]
      BY <1>1, <2>2
    <3> QED
      BY <3>1
  <2> QED
    BY <2>1, <2>2
<1> QED
  BY <1>1, <1>4, <1>5, <1>6 DEF Durable

LEMMA TimelyCall ==
    ASSUME ServiceAssumption, Timely, TimelyInv, BudgetOK', NEW c \in Tasks, CallStep(c)
    PROVE  TimelyInv'
<1> USE DEF ServiceAssumption, TimelyInv
<1>1. ~Spend("faults") /\ ~Spend("slowHolders") /\ ~Spend("expiries")
  BY NothingStrikes
<1>2. CASE Admit(c) \/ Deny(c) \/ LockBusy(c)
  BY <1>2, TimelyMove DEF Admit, Deny, LockBusy, CallStates, Inside, Before,
     Lock!LockFree, Lock!KeyOf
<1>3. CASE WaitFinds(c) \/ LookupFinds(c) \/ LookupMisses(c)
  BY <1>1, <1>3, TimelyMove DEF WaitFinds, LookupFinds, LookupMisses, CallStates, Inside, Before,
     Store!FindByHash
<1>4. ~LockFails(c) /\ ~WaitGivesUp(c) /\ ~Recheck(c)
  BY <1>1 DEF LockFails, WaitGivesUp, Recheck, CallMoves, Store!FindByHash, HolderAtWork
<1>5. ~CreateFails(c)
  <2> SUFFICES ASSUME CreateFails(c) PROVE FALSE
    OBVIOUS
  <2>1. call[c] = "create" /\ ~Store!CreateAllowed(c)
    BY <1>1 DEF CreateFails, CallMoves
  <2>2. hashToID[HashOf[c]] = NoTask
    BY <2>1
  <2> QED
    BY <2>1, <2>2 DEF Store!CreateAllowed, Store!FindByHash
<1>6. CASE Announce(c) \/ StartRun(c)
  <2>1. hashToID[HashOf[c]] # NoTask
    BY <1>6 DEF Announce, StartRun, CallMoves
  <2> QED
    BY <1>6, <2>1, TimelyMove DEF Announce, StartRun, CallStates, Inside, Before
<1>7. CASE LockAcquired(c)
  <2>1. /\ call' = [call EXCEPT ![c] = "lookup"] /\ call[c] = "lock"
        /\ lockOwner[HashOf[c]] = NoTask
        /\ lockOwner' = [lockOwner EXCEPT ![HashOf[c]] = c] /\ holds' = holds \cup {c}
        /\ tasks' = tasks /\ hashToID' = hashToID /\ reply' = reply /\ Store!StoreTypeOK'
    BY <1>7 DEF LockAcquired, CallMoves, Lock!Acquire, Lock!LockFree, Lock!KeyOf, storeVars,
       NoAnswer, Store!StoreTypeOK
  <2> QED
    BY <2>1 DEF CallStates, Inside, Before, Durable
<1>8. CASE CreateStores(c)
  <2>1. /\ call' = [call EXCEPT ![c] = "announce"] /\ call[c] = "create"
        /\ tasks' = [tasks EXCEPT ![c] = "pending"]
        /\ hashToID' = [hashToID EXCEPT ![HashOf[c]] = c]
        /\ lockOwner' = lockOwner /\ holds' = holds /\ reply' = reply
    BY <1>8 DEF CreateStores, CallMoves, Store!Create, lockVars, NoAnswer
  <2>2. hashToID[HashOf[c]] = NoTask /\ c \in holds /\ lockOwner[HashOf[c]] = c
    BY <2>1 DEF Inside
  <2>3. \A d \in Tasks : call[d] = "create" /\ HashOf[d] = HashOf[c] => d = c
    BY <2>2 DEF Inside
  <2>4. Store!StoreTypeOK' /\ call' \in [Tasks -> CallStates]
    BY <2>1 DEF Store!StoreTypeOK, Store!Status, CallStates
  <2>5. \A t \in Tasks : tasks[t] # "absent" => HashOf[t] # HashOf[c]
    BY <2>2
  <2>6. ASSUME NEW d \in Tasks
        PROVE  /\ call'[d] \in Inside <=> d \in holds
               /\ call'[d] \in Before => tasks'[d] = "absent"
               /\ call'[d] = "create" => hashToID'[HashOf[d]] = NoTask
               /\ call'[d] \in {"announce", "announcing"} => tasks'[d] # "absent"
               /\ call'[d] = "release" => hashToID'[HashOf[d]] # NoTask
               /\ call'[d] = "wait" =>
                     lockOwner[HashOf[d]] \in holds \/ hashToID'[HashOf[d]] # NoTask
               /\ call'[d] # "recheck"
               /\ tasks'[d] # "absent" => hashToID'[HashOf[d]] = d
    BY <2>1, <2>2, <2>3, <2>5 DEF Inside, Before, Store!StoreTypeOK
  <2>7. \A h \in Hashes :
            hashToID'[h] # NoTask => HashOf[hashToID'[h]] = h /\ tasks'[hashToID'[h]] # "absent"
    BY <2>1 DEF Store!StoreTypeOK
  <2>8. \A t \in Tasks : tasks[t] # "absent" => tasks'[t] # "absent"
    BY <2>1 DEF Store!StoreTypeOK
  <2> QED
    BY <2>1, <2>4, <2>6, <2>7, <2>8 DEF Durable
<1>9. CASE Unlock(c)
  <2>1. c \in holds /\ call[c] = "release"
    BY <1>9 DEF Unlock, CallMoves, Inside
  <2>2. /\ call' = [call EXCEPT ![c] = "answered"]
        /\ lockOwner' = [lockOwner EXCEPT ![HashOf[c]] = NoTask] /\ holds' = holds \ {c}
        /\ tasks' = tasks /\ hashToID' = hashToID /\ reply' = reply /\ Store!StoreTypeOK'
    BY <1>1, <1>9, <2>1 DEF Unlock, CallMoves, Lock!Release, Lock!Removes, Lock!KeyOf, Timely,
       storeVars, NoAnswer, Store!StoreTypeOK
  <2>3. hashToID[HashOf[c]] # NoTask /\ lockOwner[HashOf[c]] = c
    BY <2>1
  <2> QED
    BY <2>1, <2>2, <2>3 DEF CallStates, Inside, Before, Durable
<1> QED
  BY <1>2, <1>3, <1>4, <1>5, <1>6, <1>7, <1>8, <1>9 DEF CallStep

LEMMA TimelyStep ==
    ASSUME ServiceAssumption, Timely, TimelyInv, ResultOK, [Next]_vars
    PROVE  TimelyInv'
<1> USE DEF ServiceAssumption, TimelyInv
<1>1. BudgetOK'
  BY BudgetStep
<1>2. ~Spend("faults") /\ ~Spend("slowHolders") /\ ~Spend("expiries")
  BY NothingStrikes
<1>3. CASE UNCHANGED <<storeVars, lockVars, callVars>>
  BY <1>1, <1>3 DEF storeVars, lockVars, callVars, Store!StoreTypeOK, Durable
<1>4. ASSUME NEW t \in Tasks, NEW status \in Store!Status \ {"absent"},
             Store!Update(t, status), UNCHANGED <<lockVars, callVars>>
      PROVE  TimelyInv'
  <2>1. /\ tasks[t] # "absent" /\ hashToID[HashOf[t]] = t
        /\ tasks' = [tasks EXCEPT ![t] = status]
        /\ hashToID' = [hashToID EXCEPT ![HashOf[t]] = t]
        /\ lockOwner' = lockOwner /\ holds' = holds /\ call' = call /\ reply' = reply
    BY <1>4 DEF Store!Update, lockVars, callVars
  <2>2. hashToID' = hashToID
    BY <2>1 DEF Store!StoreTypeOK
  <2> HIDE <1>4
  <2> QED
    BY <1>1, <2>1, <2>2 DEF Store!StoreTypeOK, Durable
<1>5. ASSUME NEW t \in Tasks, RunStep(t)
      PROVE  TimelyInv'
  <2>1. /\ UNCHANGED <<lockVars, callVars>>
        /\ \/ UNCHANGED storeVars
           \/ \E status \in {"running", "failed"} : Store!Update(t, status)
           \/ Store!Update(t, result[t])
    BY <1>5 DEF RunStep, MarkRunning, AnnounceRunning, PlannerReports, PlannerReturns, SaveResult,
              RecoverSave, RecoverPublish, RecoverReturns, RunMoves
  <2> QED
    BY <1>3, <1>4, <1>5, <2>1 DEF Store!Status, ResultOK
<1>6. ASSUME NEW c \in Tasks, NEW s \in Streams, AnnouncePanics(c, s)
      PROVE  TimelyInv'
  <2>1. hashToID[HashOf[c]] # NoTask
    BY <1>6 DEF AnnouncePanics, CallMoves
  <2> QED
    BY <1>1, <1>6, <2>1, TimelyMove DEF AnnouncePanics, CallStates, Inside, Before
<1>7. CASE Dies
  <2>1. /\ call' = [c \in Tasks |-> IF call[c] \in {"start", "answered", "denied"}
                                    THEN call[c] ELSE "aborted"]
        /\ lockOwner' = [h \in Hashes |-> NoTask] /\ holds' = {} /\ reply' = reply
    BY <1>7 DEF Dies, ProcessDies, Timely
  <2>2. CASE Durable
    <3>1. UNCHANGED storeVars
      BY <1>7, <2>2 DEF Dies, ProcessDies
    <3> QED
      BY <1>1, <2>1, <3>1 DEF storeVars, Store!StoreTypeOK, CallStates, Inside, Before, Durable
  <2>3. CASE ~Durable
    <3>1. /\ tasks' = [t \in Tasks |-> "absent"]
          /\ hashToID' = [h \in Hashes |-> NoTask]
      BY <1>7, <2>3 DEF Dies, ProcessDies
    <3> QED
      BY <1>1, <2>1, <2>3, <3>1 DEF Store!StoreTypeOK, Store!Status, CallStates, Inside, Before,
         Durable
  <2> QED
    BY <2>2, <2>3
<1>8. \A h \in Hashes : ~LockExpires(h)
  BY <1>2 DEF LockExpires
<1>9. UNCHANGED vars => UNCHANGED <<storeVars, lockVars, callVars>>
  BY DEF vars
<1> QED
  BY <1>3, <1>5, <1>6, <1>7, <1>8, <1>9, StepKinds, ElsewhereLeaves, SendsLeave, TimelyCall, <1>1

LEMMA TimelyInvariant == Timely => (Spec => [](TimelyInv /\ ResultOK))
<1> SUFFICES ASSUME Timely PROVE Spec => [](TimelyInv /\ ResultOK)
  OBVIOUS
<1>1. Init => TimelyInv /\ ResultOK
  <2> SUFFICES ASSUME Init PROVE TimelyInv /\ ResultOK
    OBVIOUS
  <2>1. BudgetOK
    BY ServiceAssumption DEF ServiceAssumption, Init, BudgetOK
  <2> QED
    BY <2>1, ServiceAssumption DEF ServiceAssumption, Init, Store!StoreInit, Lock!LockInit,
       TimelyInv, ResultOK, Store!StoreTypeOK, Store!Status, CallStates, Inside, Before
<1>2. (TimelyInv /\ ResultOK) /\ [Next]_vars => (TimelyInv /\ ResultOK)'
  BY TimelyStep, ResultStep, ServiceAssumption
<1> QED
  BY <1>1, <1>2, PTL DEF Spec

\* Without any unique index the lock of memory alone keeps a hash to one task,
\* however many ask, leave or crash the process, as long as no holder is slower
\* than the wait, no entry expires and no call fails (CreateTask).
THEOREM TimelyLockSuffices == Timely => (Spec => []OneTaskPerHash)
<1>1. TimelyInv /\ ResultOK => OneTaskPerHash
  BY DEF TimelyInv, OneTaskPerHash, Store!Stored
<1> QED
  BY <1>1, TimelyInvariant, PTL

-----------------------------------------------------------------------------
(* Outcomes                                                                *)

\* The goroutine of a task only runs after its call is past the announcement,
\* and has written an outcome only when it says so.
Announced == {"release", "answered", "aborted"}

PhaseInv ==
    /\ ResultOK
    /\ call \in [Tasks -> CallStates] /\ run \in [Tasks -> RunStates]
    /\ tasks \in [Tasks -> Store!Status]
    /\ \A t \in Tasks :
          /\ run[t] # "none" => call[t] \in Announced
          /\ run[t] \in {"none", "start"} => tasks[t] \in {"absent", "pending"}
          /\ run[t] \in {"announce", "planning", "finishing", "recovering"} =>
                tasks[t] \notin Store!TerminalStatus
          /\ run[t] = "finishing" => result[t] \in Store!TerminalStatus

\* Of a step and a task: nothing changes that is about it, or the store ends
\* with the process.
LEMMA CallPhase ==
    ASSUME ServiceAssumption, PhaseInv, NEW c \in Tasks,
           CallStep(c) \/ \E s \in Streams : AnnouncePanics(c, s)
    PROVE  /\ PhaseInv'
           /\ \A t \in Tasks : tasks[t] \in Store!TerminalStatus => tasks'[t] = tasks[t]
<1> USE DEF PhaseInv, ServiceAssumption
<1>1. \A t \in Tasks \ {c} : call'[t] = call[t]
  BY DEF CallStep, Admit, Deny, LockAcquired, LockBusy, LockFails, WaitFinds, WaitGivesUp,
       LookupFinds, LookupMisses, CreateStores, CreateFails, Recheck, Announce, StartRun, Unlock,
       AnnouncePanics, CallMoves
<1>2. /\ call' \in [Tasks -> CallStates] /\ result' = result
      /\ call[c] \in Announced => call'[c] \in Announced
  BY DEF CallStep, Admit, Deny, LockAcquired, LockBusy, LockFails, WaitFinds, WaitGivesUp,
       LookupFinds, LookupMisses, CreateStores, CreateFails, Recheck, Announce, StartRun, Unlock,
       AnnouncePanics, CallMoves, CallStates, Announced, runVars
<1>3. \/ run' = run
      \/ /\ run' = [run EXCEPT ![c] = "start"] /\ call[c] \notin Announced
         /\ call'[c] \in Announced /\ tasks' = tasks
  BY DEF CallStep, Admit, Deny, LockAcquired, LockBusy, LockFails, WaitFinds, WaitGivesUp,
       LookupFinds, LookupMisses, CreateStores, CreateFails, Recheck, Announce, StartRun, Unlock,
       AnnouncePanics, CallMoves, Announced, runVars, storeVars
<1>4. \/ tasks' = tasks
      \/ /\ tasks' = [tasks EXCEPT ![c] = "pending"] /\ call[c] \notin Announced /\ run' = run
  BY DEF CallStep, Admit, Deny, LockAcquired, LockBusy, LockFails, WaitFinds, WaitGivesUp,
       LookupFinds, LookupMisses, CreateStores, CreateFails, Recheck, Announce, StartRun, Unlock,
       AnnouncePanics, CallMoves, Announced, runVars, storeVars, Store!Create
<1>5. tasks' \in [Tasks -> Store!Status] /\ run' \in [Tasks -> RunStates] /\ ResultOK'
  BY <1>2, <1>3, <1>4 DEF Store!Status, RunStates, ResultOK
<1>6. ASSUME NEW t \in Tasks
      PROVE  /\ run'[t] # "none" => call'[t] \in Announced
             /\ run'[t] \in {"none", "start"} => tasks'[t] \in {"absent", "pending"}
             /\ run'[t] \in {"announce", "planning", "finishing", "recovering"} =>
                   tasks'[t] \notin Store!TerminalStatus
             /\ run'[t] = "finishing" => result[t] \in Store!TerminalStatus
             /\ tasks[t] \in Store!TerminalStatus => tasks'[t] = tasks[t]
  <2>1. CASE t # c
    BY <1>1, <1>3, <1>4, <2>1 DEF Store!TerminalStatus
  <2>2. CASE t = c
    BY <1>2, <1>3, <1>4, <2>2 DEF Store!TerminalStatus
  <2> QED
    BY <2>1, <2>2
<1> QED
  BY <1>2, <1>5, <1>6

LEMMA RunPhase ==
    ASSUME ServiceAssumption, PhaseInv, ResultOK', NEW t \in Tasks,
           RunStep(t) \/ \E s \in Streams : RunPanics(t, s) \/ PlannerPanics(t, s)
    PROVE  /\ PhaseInv'
           /\ \A u \in Tasks : tasks[u] \in Store!TerminalStatus => tasks'[u] = tasks[u]
<1> USE DEF PhaseInv, ServiceAssumption
<1>1. call' = call
  BY DEF RunStep, MarkRunning, AnnounceRunning, PlannerReports, PlannerReturns, SaveResult,
         RecoverSave, RecoverPublish, RecoverReturns, RunPanics, PlannerPanics, callVars
<1> USE DEF RunStates, Store!Status, Store!TerminalStatus, ResultOK
\* It is enough to follow run, tasks and result of t.
<1>2. ASSUME NEW to \in RunStates, NEW status \in Store!Status,
             NEW outcome \in {"pending", "succeeded", "failed"},
             run[t] # "none",
             run' = [run EXCEPT ![t] = to], tasks' = [tasks EXCEPT ![t] = status],
             result' = [result EXCEPT ![t] = outcome],
             to \notin {"none", "start"},
             to \in {"announce", "planning", "finishing", "recovering"} =>
                 status \notin Store!TerminalStatus,
             to = "finishing" => outcome \in Store!TerminalStatus,
             tasks[t] \in Store!TerminalStatus => status = tasks[t]
      PROVE  /\ PhaseInv'
             /\ \A u \in Tasks : tasks[u] \in Store!TerminalStatus => tasks'[u] = tasks[u]
  <2>1. \A u \in Tasks \ {t} : /\ run'[u] = run[u] /\ tasks'[u] = tasks[u]
                               /\ result'[u] = result[u]
    BY <1>2
  <2>2. run'[t] = to /\ tasks'[t] = status /\ result'[t] = outcome
    BY <1>2
  <2>3. run' \in [Tasks -> RunStates] /\ tasks' \in [Tasks -> Store!Status]
    BY <1>2
  <2>4. \A u \in Tasks :
          /\ run'[u] # "none" => call'[u] \in Announced
          /\ run'[u] \in {"none", "start"} => tasks'[u] \in {"absent", "pending"}
          /\ run'[u] \in {"announce", "planning", "finishing", "recovering"} =>
                tasks'[u] \notin Store!TerminalStatus
          /\ run'[u] = "finishing" => result'[u] \in Store!TerminalStatus
          /\ tasks[u] \in Store!TerminalStatus => tasks'[u] = tasks[u]
    BY <1>1, <1>2, <2>1, <2>2
  <2> QED
    BY <1>1, <2>3, <2>4
<1>3. /\ tasks = [tasks EXCEPT ![t] = tasks[t]] /\ tasks[t] \in Store!Status
      /\ result = [result EXCEPT ![t] = result[t]]
      /\ result[t] \in {"pending", "succeeded", "failed"}
      /\ run = [run EXCEPT ![t] = run[t]]
  OBVIOUS
<1>4. CASE MarkRunning(t)
  <2>1. /\ run[t] = "start" /\ result' = result
        /\ \E to \in {"announce", "over"} : run' = [run EXCEPT ![t] = to]
        /\ tasks' = tasks \/ tasks' = [tasks EXCEPT ![t] = "running"]
    BY <1>4 DEF MarkRunning, RunMoves, Store!Update, storeVars
  <2> QED
    BY <1>2, <1>3, <2>1
<1>5. CASE AnnounceRunning(t) \/ PlannerReports(t) \/ RecoverPublish(t) \/ RecoverReturns(t)
  <2>1. /\ \/ run[t] = "announce" /\ run' = [run EXCEPT ![t] = "planning"]
           \/ run[t] = "planning" /\ run' = run
           \/ run[t] = "recovered" /\ run' = [run EXCEPT ![t] = "closing"]
           \/ run[t] = "closing" /\ run' = [run EXCEPT ![t] = "over"]
        /\ tasks' = tasks /\ result' = result
    BY <1>5 DEF AnnounceRunning, PlannerReports, RecoverPublish, RecoverReturns, RunMoves,
       storeVars, runVars
  <2> QED
    BY <1>2, <1>3, <2>1
<1>6. ASSUME NEW status \in Store!TerminalStatus, PlannerReturns(t, status)
      PROVE  /\ PhaseInv'
             /\ \A u \in Tasks : tasks[u] \in Store!TerminalStatus => tasks'[u] = tasks[u]
  <2>1. /\ run[t] = "planning" /\ run' = [run EXCEPT ![t] = "finishing"]
        /\ tasks' = tasks /\ result' = [result EXCEPT ![t] = status]
    BY <1>6 DEF PlannerReturns, RunMoves, storeVars
  <2> QED
    BY <1>2, <1>3, <2>1
<1>7. CASE SaveResult(t)
  <2>1. /\ run[t] = "finishing" /\ run' = [run EXCEPT ![t] = "over"] /\ result' = result
        /\ tasks' = tasks \/ tasks' = [tasks EXCEPT ![t] = result[t]]
    BY <1>7 DEF SaveResult, RunMoves, Store!Update, storeVars
  <2> QED
    BY <1>2, <1>3, <2>1
<1>8. CASE RecoverSave(t)
  <2>1. /\ run[t] = "recovering" /\ run' = [run EXCEPT ![t] = "recovered"] /\ result' = result
        /\ tasks' = tasks \/ tasks' = [tasks EXCEPT ![t] = "failed"]
    BY <1>8 DEF RecoverSave, RunMoves, Store!Update, storeVars
  <2> QED
    BY <1>2, <1>3, <2>1
<1>9. ASSUME NEW s \in Streams, RunPanics(t, s) \/ PlannerPanics(t, s)
      PROVE  /\ PhaseInv'
             /\ \A u \in Tasks : tasks[u] \in Store!TerminalStatus => tasks'[u] = tasks[u]
  <2>1. /\ tasks' = tasks
        /\ \/ /\ run[t] \in {"planning", "finishing"}
              /\ run' = [run EXCEPT ![t] = "recovering"] /\ result' = result
           \/ /\ run[t] = "planning" /\ run' = run
              /\ result' = [result EXCEPT ![t] = "failed"]
    BY <1>9 DEF RunPanics, PlannerPanics, RunMoves, storeVars
  <2> QED
    BY <1>2, <1>3, <2>1
<1> QED
  BY <1>4, <1>5, <1>6, <1>7, <1>8, <1>9 DEF RunStep

LEMMA PhaseStep ==
    ASSUME ServiceAssumption, PhaseInv, [Next]_vars
    PROVE  /\ PhaseInv'
           /\ Durable => \A t \in Tasks :
                  tasks[t] \in Store!TerminalStatus => tasks'[t] = tasks[t]
<1> USE DEF PhaseInv, ServiceAssumption
<1>1. ResultOK'
  BY ResultStep
<1>2. CASE UNCHANGED <<storeVars, callVars, runVars>>
  BY <1>1, <1>2 DEF storeVars, callVars, runVars
<1>3. ASSUME NEW t \in Tasks, Sends(t)
      PROVE  \/ UNCHANGED <<storeVars, callVars, runVars>>
             \/ \E s \in Streams : RunPanics(t, s) \/ PlannerPanics(t, s)
  BY <1>3 DEF Sends, SendNext
<1>4. CASE Dies
  <2>1. /\ call' = [c \in Tasks |-> IF call[c] \in {"start", "answered", "denied"}
                                    THEN call[c] ELSE "aborted"]
        /\ run' = [t \in Tasks |-> IF run[t] = "none" THEN "none" ELSE "killed"]
        /\ result' = result
        /\ tasks' = tasks \/ (~Durable /\ tasks' = [t \in Tasks |-> "absent"])
    BY <1>4 DEF Dies, ProcessDies, storeVars
  <2> QED
    BY <1>1, <2>1 DEF CallStates, RunStates, Announced, Store!Status, Store!TerminalStatus
<1>5. ASSUME NEW h \in Hashes, LockExpires(h)
      PROVE  UNCHANGED <<storeVars, callVars, runVars>>
  BY <1>5 DEF LockExpires
<1>6. UNCHANGED vars => UNCHANGED <<storeVars, callVars, runVars>>
  BY DEF vars
<1> QED
  BY <1>1, <1>2, <1>3, <1>4, <1>5, <1>6, CallPhase, RunPhase, StepKinds, ElsewhereLeaves

LEMMA PhaseInvariant == Spec => []PhaseInv
<1>1. Init => PhaseInv
  BY DEF Init, Store!StoreInit, PhaseInv, ResultOK, CallStates, RunStates, Announced,
     Store!Status, Store!TerminalStatus
<1>2. PhaseInv /\ [Next]_vars => PhaseInv'
  BY PhaseStep, ServiceAssumption
<1> QED
  BY <1>1, <1>2, PTL DEF Spec

\* A store that survives the process keeps the outcome of a task for good,
\* whatever panics, crashes and failures there are: runTask and its recovery
\* together write one.
THEOREM OutcomesAreFinal == Durable => (Spec => TerminalIsFinal)
<1> SUFFICES ASSUME Durable PROVE Spec => TerminalIsFinal
  OBVIOUS
<1>1. PhaseInv /\ [Next]_vars =>
          [\A t \in Tasks : tasks[t] \in Store!TerminalStatus => tasks'[t] = tasks[t]]_vars
  BY PhaseStep, ServiceAssumption
<1> QED
  BY <1>1, PhaseInvariant, PTL DEF Spec, TerminalIsFinal

-----------------------------------------------------------------------------
(* What was published last, and what was stored                            *)

HistoryOK ==
    /\ sequences \in [Tasks -> Nat]
    /\ history \in [Tasks -> Seq(Bus!Event)]

\* A trimmed history ends in the event appended, and all before it are old.
LEMMA LastOfTrim ==
    ASSUME ServiceAssumption, NEW h \in Seq(Bus!Event), NEW e \in Bus!Event
    PROVE  LET r == Bus!Trim(Append(h, e)) IN
           /\ r \in Seq(Bus!Event) /\ r[Len(r)] = e /\ Len(r) \in 1 .. Len(h) + 1
           /\ \A i \in 1 .. Len(r) : i # Len(r) => \E k \in 1 .. Len(h) : r[i] = h[k]
<1> DEFINE a == Append(h, e)
           r == Bus!Trim(a)
<1>1. /\ a \in Seq(Bus!Event) /\ Len(a) \in Nat \ {0} /\ a[Len(a)] = e
      /\ Len(a) = Len(h) + 1 /\ Len(h) \in Nat /\ \A i \in 1 .. Len(h) : a[i] = h[i]
  OBVIOUS
<1>2. HistoryLimit \in Nat \ {0}
  BY DEF ServiceAssumption
<1>3. CASE Len(a) > HistoryLimit
  <2> DEFINE m == Len(a) - HistoryLimit + 1
  <2>1. r = SubSeq(a, m, Len(a))
    BY <1>3 DEF Bus!Trim
  <2>2. m \in 1 .. Len(a) /\ Len(a) - m + 1 = HistoryLimit
    BY <1>1, <1>2, <1>3
  <2>0. HistoryLimit <= Len(h)
    BY <1>1, <1>2, <1>3
  <2> HIDE DEF a, m
  <2>3. /\ SubSeq(a, m, Len(a)) \in Seq(Bus!Event)
        /\ Len(SubSeq(a, m, Len(a))) = Len(a) - m + 1
        /\ \A i \in 1 .. Len(a) - m + 1 : SubSeq(a, m, Len(a))[i] = a[m + i - 1]
    BY <1>1, <2>2
  <2> HIDE DEF r
  <2>4. Len(r) = HistoryLimit /\ m + HistoryLimit - 1 = Len(a)
    BY <1>1, <1>2, <2>1, <2>2, <2>3
  <2>5. \A i \in 1 .. HistoryLimit : r[i] = a[m + i - 1]
    BY <1>2, <2>1, <2>2, <2>3
  <2>6. r[HistoryLimit] = e
    BY <1>1, <1>2, <2>4, <2>5
  <2>7. ASSUME NEW i \in 1 .. Len(r), i # Len(r)
        PROVE  \E k \in 1 .. Len(h) : r[i] = h[k]
    <3>1. m + i - 1 \in 1 .. Len(h) /\ i \in 1 .. HistoryLimit
      BY <1>1, <1>2, <2>2, <2>4, <2>7
    <3> QED
      BY <1>1, <2>5, <3>1
  <2>8. Len(r) \in 1 .. Len(h) + 1
    BY <1>1, <1>2, <2>0, <2>4
  <2> QED
    BY <2>1, <2>3, <2>4, <2>6, <2>7, <2>8 DEF a, r
<1>4. CASE ~(Len(a) > HistoryLimit)
  <2>1. r = a
    BY <1>4 DEF Bus!Trim
  <2> HIDE DEF a, r
  <2>2. \A i \in 1 .. Len(r) : i # Len(r) => i \in 1 .. Len(h)
    BY <1>1, <2>1
  <2> QED
    BY <1>1, <2>1, <2>2 DEF a, r
<1> QED
  BY <1>3, <1>4

LEMMA PublishTells ==
    ASSUME ServiceAssumption, HistoryOK, NEW t \in Tasks,
           NEW type \in {"progress", "done", "error"}, Bus!Publish(t, type)
    PROVE  /\ HistoryOK' /\ Bus!InFlight(t)'.type = type
           /\ \A u \in Tasks \ {t} : history'[u] = history[u]
<1> DEFINE e == [type |-> type, seq |-> sequences[t] + 1]
           r == Bus!Trim(Append(history[t], e))
<1>1. sequences[t] + 1 \in Nat \ {0} /\ history[t] \in Seq(Bus!Event)
  BY DEF HistoryOK
<1>2. e \in Bus!Event
  BY <1>1 DEF Bus!Event
<1>3. r \in Seq(Bus!Event) /\ r[Len(r)] = e
  BY <1>1, <1>2, LastOfTrim
<1>4. /\ history' = [history EXCEPT ![t] = r]
      /\ sequences' = [sequences EXCEPT ![t] = sequences[t] + 1]
  BY DEF Bus!Publish
<1> HIDE DEF r
<1>5. history'[t] = r /\ HistoryOK'
  BY <1>1, <1>3, <1>4 DEF HistoryOK
<1>6. \A u \in Tasks \ {t} : history'[u] = history[u]
  BY <1>4 DEF HistoryOK
<1> QED
  BY <1>3, <1>5, <1>6 DEF Bus!InFlight

\* What goroutine t stored and published agree, where it has done both.
Agrees(t) ==
    /\ run[t] = "finishing" => Bus!InFlight(t).type = OutcomeOf(result[t])
    /\ ~Struck("faults") =>
         /\ run[t] \in {"recovered", "closing"} => tasks[t] = "failed"
         /\ run[t] = "closing" => Bus!InFlight(t).type = "error"
         /\ run[t] = "over" => /\ tasks[t] \in Store!TerminalStatus
                               /\ Bus!InFlight(t).type = OutcomeOf(tasks[t])

AgreeInv == PhaseInv /\ BudgetOK /\ HistoryOK /\ \A t \in Tasks : Agrees(t)

LEMMA AgreesStays ==
    ASSUME BudgetOK, ServiceAssumption, [Next]_vars, NEW t \in Tasks, Agrees(t),
           run'[t] = run[t], result'[t] = result[t], tasks'[t] = tasks[t], history'[t] = history[t]
    PROVE  Agrees(t)'
<1>1. Struck("faults") => Struck("faults")'
  BY BudgetStep DEF Struck, BudgetOK, Hazards, ServiceAssumption
<1> QED
  BY <1>1 DEF Agrees, Bus!InFlight

LEMMA FaultStrikes ==
    ASSUME ServiceAssumption, BudgetOK, Spend("faults")
    PROVE  Struck("faults")'
  BY DEF ServiceAssumption, BudgetOK, Spend, Struck, Hazards

\* A step of the call of t comes before its goroutine has anything to agree on.
LEMMA CallAgrees ==
    ASSUME ServiceAssumption, AgreeInv, [Next]_vars, PhaseInv', NEW c \in Tasks,
           CallStep(c) \/ \E s \in Streams : AnnouncePanics(c, s)
    PROVE  HistoryOK' /\ \A t \in Tasks : Agrees(t)'
<1> USE DEF AgreeInv
<1>1. /\ result' = result
      /\ \A t \in Tasks \ {c} : tasks'[t] = tasks[t] /\ run'[t] = run[t]
  BY DEF CallStep, Admit, Deny, LockAcquired, LockBusy, LockFails, WaitFinds, WaitGivesUp,
       LookupFinds, LookupMisses, CreateStores, CreateFails, Recheck, Announce, StartRun, Unlock,
       AnnouncePanics, runVars, storeVars, Store!Create, PhaseInv
<1>2. \/ UNCHANGED <<run, tasks, history, sequences>>
      \/ run'[c] \in {"none", "start"} /\ UNCHANGED <<history, sequences>>
      \/ run'[c] = "none" /\ Bus!Publish(c, "progress")
  <2>1. call[c] \notin Announced => run[c] = "none"
    BY DEF PhaseInv
  <2>2. CASE CreateStores(c) \/ CreateFails(c)
    BY <2>1, <2>2 DEF CreateStores, CreateFails, CallMoves, Announced, runVars, busVars
  <2>3. CASE Announce(c)
    BY <2>1, <2>3 DEF Announce, CallMoves, Announced, runVars
  <2>4. CASE StartRun(c)
    BY <2>4 DEF StartRun, PhaseInv, busVars
  <2>5. CASE \E s \in Streams : AnnouncePanics(c, s)
    BY <2>5 DEF AnnouncePanics, runVars, storeVars, Bus!SendOnClosed
  <2> QED
    BY <2>2, <2>3, <2>4, <2>5 DEF CallStep, Admit, Deny, LockAcquired, LockBusy, LockFails,
       WaitFinds, WaitGivesUp, LookupFinds, LookupMisses, Recheck, Unlock, runVars, storeVars,
       busVars
<1>3. HistoryOK' /\ \A t \in Tasks \ {c} : history'[t] = history[t]
  BY <1>2, PublishTells DEF HistoryOK
<1>4. \A t \in Tasks \ {c} : Agrees(t)'
  BY <1>1, <1>3, AgreesStays
<1>5. Agrees(c)'
  <2>1. CASE run'[c] \in {"none", "start"}
    BY <2>1 DEF Agrees
  <2>2. CASE UNCHANGED <<run, tasks, history, sequences>>
    BY <1>1, <2>2, AgreesStays
  <2> QED
    BY <1>2, <2>1, <2>2
<1> QED
  BY <1>3, <1>4, <1>5

LEMMA RunAgrees ==
    ASSUME ServiceAssumption, AgreeInv, [Next]_vars, PhaseInv', NEW t \in Tasks,
           RunStep(t) \/ \E s \in Streams : RunPanics(t, s) \/ PlannerPanics(t, s)
    PROVE  HistoryOK' /\ \A u \in Tasks : Agrees(u)'
<1> USE DEF AgreeInv
<1>1. \A u \in Tasks \ {t} : /\ tasks'[u] = tasks[u] /\ run'[u] = run[u]
                             /\ result'[u] = result[u]
  BY DEF RunStep, MarkRunning, AnnounceRunning, PlannerReports, PlannerReturns, SaveResult,
         RecoverSave, RecoverPublish, RecoverReturns, RunPanics, PlannerPanics, RunMoves,
         Store!Update, storeVars, runVars, PhaseInv, ResultOK
<1>2. \/ UNCHANGED <<history, sequences>>
      \/ \E type \in {"progress", "done", "error"} : Bus!Publish(t, type)
  BY DEF RunStep, MarkRunning, AnnounceRunning, PlannerReports, PlannerReturns, SaveResult,
         RecoverSave, RecoverPublish, RecoverReturns, RunPanics, PlannerPanics, busVars,
         Bus!SendOnClosed
<1>3. HistoryOK' /\ \A u \in Tasks \ {t} : history'[u] = history[u]
  BY <1>2, PublishTells DEF HistoryOK
<1>4. \A u \in Tasks \ {t} : Agrees(u)'
  BY <1>1, <1>3, AgreesStays
<1>5. Struck("faults") => Struck("faults")'
  BY BudgetStep DEF Struck, BudgetOK, Hazards, ServiceAssumption
<1>6. Agrees(t)'
  <2>1. CASE MarkRunning(t)
    <3>1. run'[t] = "announce" \/ (run'[t] = "over" /\ Spend("faults"))
      BY <2>1 DEF MarkRunning, RunMoves, PhaseInv
    <3> QED
      BY <3>1, FaultStrikes DEF Agrees
  <2>2. CASE AnnounceRunning(t) \/ PlannerReports(t) \/ \E s \in Streams : RunPanics(t, s) \/ PlannerPanics(t, s)
    <3>1. run'[t] \in {"planning", "recovering"}
      BY <2>2 DEF AnnounceRunning, PlannerReports, RunPanics, PlannerPanics, RunMoves, PhaseInv,
         runVars
    <3> QED
      BY <3>1 DEF Agrees
  <2>3. ASSUME NEW status \in Store!TerminalStatus, PlannerReturns(t, status)
        PROVE  Agrees(t)'
    <3>1. /\ run'[t] = "finishing" /\ result'[t] = status
          /\ Bus!Publish(t, OutcomeOf(status))
      BY <2>3 DEF PlannerReturns, RunMoves, PhaseInv, ResultOK, OutcomeOf
    <3>2. Bus!InFlight(t)'.type = OutcomeOf(status)
      BY <3>1, PublishTells DEF OutcomeOf
    <3> QED
      BY <3>1, <3>2 DEF Agrees, OutcomeOf
  <2>4. CASE SaveResult(t)
    <3>1. /\ run[t] = "finishing" /\ run'[t] = "over" /\ history' = history
          /\ Store!Update(t, result[t]) \/ Spend("faults")
      BY <2>4 DEF SaveResult, RunMoves, PhaseInv, busVars
    <3>2. CASE Store!Update(t, result[t])
      <4>1. tasks'[t] = result[t] /\ result[t] \in Store!TerminalStatus
        BY <3>1, <3>2 DEF Store!Update, PhaseInv
      <4> QED
        BY <3>1, <4>1 DEF Agrees, Bus!InFlight, OutcomeOf
    <3>3. CASE Spend("faults")
      BY <3>1, <3>3, FaultStrikes DEF Agrees
    <3> QED
      BY <3>1, <3>2, <3>3
  <2>5. CASE RecoverSave(t)
    <3>1. /\ run'[t] = "recovered"
          /\ Store!Update(t, "failed") \/ Spend("faults")
      BY <2>5 DEF RecoverSave, RunMoves, PhaseInv
    <3>2. Store!Update(t, "failed") => tasks'[t] = "failed"
      BY DEF Store!Update, PhaseInv
    <3> QED
      BY <3>1, <3>2, FaultStrikes DEF Agrees
  <2>6. CASE RecoverPublish(t)
    <3>1. /\ run[t] = "recovered" /\ run'[t] = "closing" /\ tasks' = tasks
          /\ Bus!Publish(t, "error")
      BY <2>6 DEF RecoverPublish, RunMoves, PhaseInv, storeVars
    <3>2. Bus!InFlight(t)'.type = "error"
      BY <3>1, PublishTells
    <3> QED
      BY <1>5, <3>1, <3>2 DEF Agrees
  <2>7. CASE RecoverReturns(t)
    <3>1. run[t] = "closing" /\ run'[t] = "over" /\ tasks' = tasks /\ history' = history
      BY <2>7 DEF RecoverReturns, RunMoves, PhaseInv, storeVars, busVars
    <3> QED
      BY <1>5, <3>1 DEF Agrees, Bus!InFlight, OutcomeOf, Store!TerminalStatus
  <2> QED
    BY <2>1, <2>2, <2>3, <2>4, <2>5, <2>6, <2>7 DEF RunStep
<1> QED
  BY <1>3, <1>4, <1>6

LEMMA AgreeStep ==
    ASSUME ServiceAssumption, AgreeInv, [Next]_vars
    PROVE  AgreeInv'
<1> USE DEF AgreeInv
<1>1. PhaseInv' /\ BudgetOK'
  BY PhaseStep, BudgetStep
<1>2. CASE UNCHANGED <<run, result, tasks, history, sequences>>
  BY <1>1, <1>2, AgreesStays DEF HistoryOK
<1>3. ASSUME NEW t \in Tasks, Sends(t)
      PROVE  \/ UNCHANGED <<run, result, tasks, history, sequences>>
             \/ \E s \in Streams : RunPanics(t, s) \/ PlannerPanics(t, s)
  BY <1>3 DEF Sends, SendNext, Bus!Deliver, Bus!Drop, runVars, storeVars
<1>4. CASE Dies
  <2>1. /\ run' = [t \in Tasks |-> IF run[t] = "none" THEN "none" ELSE "killed"]
        /\ sequences' = [t \in Tasks |-> 0] /\ history' = [t \in Tasks |-> <<>>]
    BY <1>4 DEF Dies, ProcessDies
  <2>2. HistoryOK'
    BY <2>1 DEF HistoryOK
  <2>3. \A t \in Tasks : Agrees(t)'
    BY <2>1 DEF Agrees
  <2> QED
    BY <1>1, <2>2, <2>3
<1>5. ASSUME NEW s \in Streams, Elsewhere(s)
      PROVE  UNCHANGED <<run, result, tasks, history, sequences>>
  BY <1>5 DEF Elsewhere, Replay, SubscribeStream, Read, CloseStream, Disconnect, Connect,
     Bus!Subscribe, Bus!Unsubscribe, Bus!Receive, runVars, storeVars, busVars
<1>6. ASSUME NEW h \in Hashes, LockExpires(h)
      PROVE  UNCHANGED <<run, result, tasks, history, sequences>>
  BY <1>6 DEF LockExpires, runVars, storeVars, busVars
<1>7. UNCHANGED vars => UNCHANGED <<run, result, tasks, history, sequences>>
  BY DEF vars, runVars, storeVars, busVars
<1> QED
  BY <1>1, <1>2, <1>3, <1>4, <1>5, <1>6, <1>7, CallAgrees, RunAgrees, StepKinds

\* When runTask has returned, by its end or by its recovery, what it stored and
\* what it published last are one outcome, unless the store failed, however many
\* clients left during whichever sends.
THEOREM FinishedRunsTellTheTruth == Spec => []FinishedRunsAgree
<1>1. Init => AgreeInv
  <2> SUFFICES ASSUME Init PROVE AgreeInv
    OBVIOUS
  <2>1. PhaseInv
    BY DEF Init, Store!StoreInit, PhaseInv, ResultOK, CallStates, RunStates, Announced,
       Store!Status, Store!TerminalStatus
  <2>2. BudgetOK
    BY ServiceAssumption DEF ServiceAssumption, Init, BudgetOK
  <2>3. HistoryOK
    BY DEF Init, Bus!BusInit, HistoryOK
  <2>4. \A t \in Tasks : Agrees(t)
    BY DEF Init, Agrees
  <2> QED
    BY <2>1, <2>2, <2>3, <2>4 DEF AgreeInv
<1>2. AgreeInv /\ [Next]_vars => AgreeInv'
  BY AgreeStep, ServiceAssumption
<1>3. AgreeInv => FinishedRunsAgree
  BY DEF AgreeInv, Agrees, FinishedRunsAgree
<1> QED
  BY <1>1, <1>2, <1>3, PTL DEF Spec

-----------------------------------------------------------------------------
(* Types of the service and of the parts it drives                         *)

\* What each step does to the bus.
BusKinds ==
    \/ UNCHANGED busVars
    \/ \E t \in Tasks, type \in {"progress", "done", "error"} : Bus!Publish(t, type)
    \/ \E t \in Tasks, s \in Streams :
          Bus!Deliver(t, s) \/ Bus!Drop(t, s) \/ Bus!SendOnClosed(t, s)
    \/ \E s \in Streams :
          \/ stream[s] = "subscribe" /\ Bus!Subscribe(s, target[s])
          \/ stream[s] \in {"closing", "leaving"} /\ Bus!Unsubscribe(s, target[s])
          \/ stream[s] = "reading" /\ Bus!Receive(s)
    \/ Dies

LEMMA StepsOfTheBus ==
    ASSUME [Next]_vars
    PROVE  BusKinds
<1>1. ASSUME NEW c \in Tasks, CallStep(c)
      PROVE  BusKinds
  <2>1. UNCHANGED busVars \/ Bus!Publish(c, "progress")
    BY <1>1 DEF CallStep, Admit, Deny, LockAcquired, LockBusy, LockFails, WaitFinds, WaitGivesUp,
       LookupFinds, LookupMisses, CreateStores, CreateFails, Recheck, Announce, StartRun, Unlock
  <2> QED
    BY <2>1 DEF BusKinds
<1>2. ASSUME NEW t \in Tasks, RunStep(t)
      PROVE  BusKinds
  <2>1. \/ UNCHANGED busVars
        \/ \E type \in {"progress", "done", "error"} : Bus!Publish(t, type)
    BY <1>2 DEF RunStep, MarkRunning, AnnounceRunning, PlannerReports, PlannerReturns, SaveResult,
       RecoverSave, RecoverPublish, RecoverReturns
  <2> QED
    BY <2>1 DEF BusKinds
<1>3. ASSUME NEW t \in Tasks, Sends(t) \/ \E s \in Streams : AnnouncePanics(t, s)
      PROVE  BusKinds
  BY <1>3 DEF BusKinds, Sends, SendNext, RunPanics, PlannerPanics, AnnouncePanics
<1>4. ASSUME NEW s \in Streams, Elsewhere(s)
      PROVE  BusKinds
  BY <1>4 DEF BusKinds, Elsewhere, Replay, SubscribeStream, Read, CloseStream, Disconnect, Connect,
     StreamMoves
<1>5. ASSUME NEW h \in Hashes, LockExpires(h)
      PROVE  BusKinds
  BY <1>5 DEF BusKinds, LockExpires
<1>6. Dies \/ UNCHANGED vars => BusKinds
  BY DEF BusKinds, vars
<1> QED
  BY <1>1, <1>2, <1>3, <1>4, <1>5, <1>6, StepKinds

\* A history is no longer than the number of events, and there is one to send
\* while there are sends.
BusOK ==
    /\ Bus!BusTypeOK
    /\ \A t \in Tasks : /\ Len(history[t]) <= sequences[t]
                        /\ sending[t] # {} => history[t] # <<>>

\* A connection that is past GetTask has its task.
TargetOK ==
    /\ stream \in [Streams -> StreamStates]
    /\ target \in [Streams -> Tasks \cup {NoTask}]
    /\ \A s \in Streams : stream[s] # "idle" => target[s] \in Tasks

LEMMA BusOKPublish ==
    ASSUME ServiceAssumption, BusOK, NEW t \in Tasks,
           NEW type \in {"progress", "done", "error"}, Bus!Publish(t, type)
    PROVE  BusOK'
<1> DEFINE e == [type |-> type, seq |-> sequences[t] + 1]
           r == Bus!Trim(Append(history[t], e))
<1>1. sequences[t] \in Nat /\ sequences[t] + 1 \in Nat \ {0} /\ history[t] \in Seq(Bus!Event)
  BY DEF BusOK, Bus!BusTypeOK
<1>2. e \in Bus!Event
  BY <1>1 DEF Bus!Event
<1>3. r \in Seq(Bus!Event) /\ Len(r) \in 1 .. Len(history[t]) + 1
  BY <1>1, <1>2, LastOfTrim
<1>4. /\ history' = [history EXCEPT ![t] = r]
      /\ sequences' = [sequences EXCEPT ![t] = sequences[t] + 1]
      /\ sending' = [sending EXCEPT ![t] = subscribers[t]]
      /\ UNCHANGED <<subscribers, channel, capacity, closed, lastRead, missed>>
  BY DEF Bus!Publish
<1> HIDE DEF r, e
<1>5. Bus!BusTypeOK'
  BY <1>1, <1>3, <1>4 DEF BusOK, Bus!BusTypeOK
<1>6. Len(r) <= sequences[t] + 1 /\ r # <<>>
  <2>1. Len(history[t]) \in Nat /\ Len(history[t]) <= sequences[t]
    BY <1>1 DEF BusOK
  <2> QED
    BY <1>1, <1>3, <2>1
<1>7. \A u \in Tasks : /\ Len(history'[u]) <= sequences'[u]
                       /\ sending'[u] # {} => history'[u] # <<>>
  BY <1>4, <1>6 DEF BusOK, Bus!BusTypeOK
<1> QED
  BY <1>5, <1>7 DEF BusOK

LEMMA BusOKStep ==
    ASSUME ServiceAssumption, BusOK, TargetOK, [Next]_vars
    PROVE  BusOK'
<1> USE DEF BusOK, Bus!BusTypeOK
<1>1. CASE UNCHANGED busVars
  BY <1>1 DEF busVars
<1>2. ASSUME NEW t \in Tasks, NEW s \in Streams, Bus!Deliver(t, s)
      PROVE  BusOK'
  <2>1. /\ s \in sending[t] /\ Len(channel[s]) < capacity[s]
        /\ channel' = [channel EXCEPT ![s] = Append(channel[s], Bus!InFlight(t))]
        /\ sending' = [sending EXCEPT ![t] = sending[t] \ {s}]
        /\ UNCHANGED <<sequences, history, subscribers, capacity, closed, lastRead, missed>>
    BY <1>2 DEF Bus!Deliver
  <2>2. Bus!InFlight(t) \in Bus!Event
    <3>1. history[t] \in Seq(Bus!Event) /\ history[t] # <<>>
      BY <2>1
    <3>2. Len(history[t]) \in 1 .. Len(history[t])
      BY <3>1
    <3> QED
      BY <3>1, <3>2 DEF Bus!InFlight
  <2>3. /\ Append(channel[s], Bus!InFlight(t)) \in Seq(Bus!Event)
        /\ Len(Append(channel[s], Bus!InFlight(t))) <= capacity[s]
    BY <2>1, <2>2
  <2> QED
    BY <2>1, <2>3
<1>3. ASSUME NEW t \in Tasks, NEW s \in Streams, Bus!Drop(t, s) \/ Bus!SendOnClosed(t, s)
      PROVE  BusOK'
  <2>1. /\ \E S \in SUBSET sending[t] : sending' = [sending EXCEPT ![t] = S]
        /\ missed' \subseteq Streams
        /\ UNCHANGED <<sequences, history, subscribers, channel, capacity, closed, lastRead>>
    BY <1>3 DEF Bus!Drop, Bus!SendOnClosed
  <2> QED
    BY <2>1
<1>4. ASSUME NEW s \in Streams, stream[s] = "subscribe", Bus!Subscribe(s, target[s])
      PROVE  BusOK'
  <2>1. target[s] \in Tasks
    BY <1>4 DEF TargetOK
  <2>2. /\ channel' = [channel EXCEPT ![s] = history[target[s]]]
        /\ capacity' = [capacity EXCEPT ![s] = Len(history[target[s]]) + ChannelSlack]
        /\ subscribers' = [subscribers EXCEPT ![target[s]] = subscribers[target[s]] \cup {s}]
        /\ lastRead' = [lastRead EXCEPT ![s] = sequences[target[s]] - Len(history[target[s]])]
        /\ UNCHANGED <<sequences, history, closed, sending, missed>>
    BY <1>4 DEF Bus!Subscribe, Bus!Preload, Bus!InitialCapacity
  <2>3. /\ history[target[s]] \in Seq(Bus!Event) /\ Len(history[target[s]]) \in Nat
        /\ Len(history[target[s]]) + ChannelSlack \in Nat
        /\ Len(history[target[s]]) <= Len(history[target[s]]) + ChannelSlack
        /\ sequences[target[s]] - Len(history[target[s]]) \in Nat
    BY <2>1 DEF ServiceAssumption
  <2> QED
    BY <2>1, <2>2, <2>3
<1>5. ASSUME NEW s \in Streams, stream[s] \in {"closing", "leaving"}, Bus!Unsubscribe(s, target[s])
      PROVE  BusOK'
  <2>1. target[s] \in Tasks
    BY <1>5 DEF TargetOK
  <2> QED
    BY <1>5, <2>1 DEF Bus!Unsubscribe
<1>6. ASSUME NEW s \in Streams, Bus!Receive(s)
      PROVE  BusOK'
  <2>1. channel[s] \in Seq(Bus!Event) /\ channel[s] # <<>>
    BY <1>6 DEF Bus!Receive
  <2>2. /\ Tail(channel[s]) \in Seq(Bus!Event) /\ Head(channel[s]) \in Bus!Event
        /\ Len(Tail(channel[s])) <= Len(channel[s])
    BY <2>1
  <2>3. Head(channel[s]).seq \in Nat
    BY <2>2 DEF Bus!Event
  <2>4. Len(Tail(channel[s])) \in Nat /\ Len(channel[s]) \in Nat
    BY <2>1, <2>2
  <2> QED
    BY <1>6, <2>2, <2>3, <2>4 DEF Bus!Receive
<1>7. CASE Dies
  BY <1>7 DEF Dies, ProcessDies
<1>8. ASSUME NEW t \in Tasks, NEW type \in {"progress", "done", "error"}, Bus!Publish(t, type)
      PROVE  BusOK'
  BY <1>8, BusOKPublish
<1> QED
  BY <1>1, <1>2, <1>3, <1>4, <1>5, <1>6, <1>7, <1>8, StepsOfTheBus DEF BusKinds
LEMMA TargetStep ==
    ASSUME TargetOK, [Next]_vars
    PROVE  TargetOK'
<1> USE DEF TargetOK, StreamStates
<1>1. CASE UNCHANGED <<stream, target>>
  BY <1>1
<1>2. ASSUME NEW s \in Streams, Elsewhere(s)
      PROVE  TargetOK'
  <2>1. CASE \E t \in Tasks : Connect(s, t)
    BY <2>1 DEF Connect, StreamMoves
  <2>2. CASE ~ \E t \in Tasks : Connect(s, t)
    <3>1. /\ target' = target
          /\ \/ stream' = stream
             \/ /\ stream[s] # "idle"
                /\ \E to \in StreamStates : stream' = [stream EXCEPT ![s] = to]
      BY <1>2, <2>2 DEF Elsewhere, Replay, SubscribeStream, Read, CloseStream, Disconnect,
         StreamMoves
    <3> QED
      BY <3>1
  <2> QED
    BY <2>1, <2>2
<1>3. CASE Dies
  BY <1>3 DEF Dies, ProcessDies
<1>4. ASSUME NEW c \in Tasks,
             CallStep(c) \/ RunStep(c) \/ Sends(c) \/ \E s \in Streams : AnnouncePanics(c, s)
      PROVE  UNCHANGED streamVars
  BY <1>4 DEF CallStep, Admit, Deny, LockAcquired, LockBusy, LockFails, WaitFinds, WaitGivesUp,
     LookupFinds, LookupMisses, CreateStores, CreateFails, Recheck, Announce, StartRun, Unlock,
     RunStep, MarkRunning, AnnounceRunning, PlannerReports, PlannerReturns, SaveResult,
     RecoverSave, RecoverPublish, RecoverReturns, Sends, SendNext, RunPanics, PlannerPanics,
     AnnouncePanics
<1>5. ASSUME NEW h \in Hashes, LockExpires(h)
      PROVE  UNCHANGED streamVars
  BY <1>5 DEF LockExpires
<1> QED
  BY <1>1, <1>2, <1>3, <1>4, <1>5, StepKinds DEF vars, streamVars

\* The outcomes of a history are outcomes, and types of its events.
LEMMA OutcomesTyped ==
    ASSUME NEW events \in Seq(Bus!Event)
    PROVE  /\ Outcomes(events) \in Seq({"done", "error"})
           /\ \E p : Picks(p, Outcomes(events), [i \in DOMAIN events |-> events[i].type],
                           {i \in DOMAIN events : events[i].type \in {"done", "error"}})
<1> DEFINE types == [i \in DOMAIN events |-> events[i].type]
           E == {"progress", "done", "error"}
           S == {"done", "error"}
<1>1. types \in Seq(E)
  <2>0. \A e \in Bus!Event : e.type \in E
    BY DEF Bus!Event
  <2>1. /\ \A i \in 1 .. Len(events) : events[i].type \in E
        /\ DOMAIN events = 1 .. Len(events) /\ Len(events) \in Nat
    BY <2>0
  <2>2. types \in [1 .. Len(events) -> E]
    BY <2>1
  <2> HIDE DEF types, E
  <2> QED
    BY <2>1, <2>2
<1>2. DOMAIN types = DOMAIN events /\ \A i \in DOMAIN events : types[i] = events[i].type
  OBVIOUS
<1>3. {i \in DOMAIN types : types[i] \in S} = {i \in DOMAIN events : events[i].type \in S}
  BY <1>2
<1>4. E \cap S = S
  OBVIOUS
<1>5. Outcomes(events) = KeptIn(types, S)
  BY DEF Outcomes
<1> HIDE DEF types, E, S
<1>6. /\ KeptIn(types, S) \in Seq(E \cap S)
      /\ \E p : Picks(p, KeptIn(types, S), types, {i \in DOMAIN types : types[i] \in S})
  BY <1>1, KeptInKeeps
<1> QED
  BY <1>3, <1>4, <1>5, <1>6 DEF types, S
\* What a call, a goroutine and a connection know.
ToldOK ==
    /\ reply \in [Tasks -> Tasks \cup {NoTask}]
    /\ seen \in [Streams -> Store!Status]
    /\ terminals \in [Streams -> Seq({"done", "error"})]

TypeInv ==
    /\ Store!StoreTypeOK /\ Lock!LockTypeOK /\ BusOK /\ PhaseInv /\ BudgetOK
    /\ TargetOK /\ ToldOK

\* What each step does to the store and the lock.
LEMMA StepsOfStoreAndLock ==
    ASSUME ResultOK, [Next]_vars
    PROVE  /\ \/ UNCHANGED storeVars
              \/ \E t \in Tasks : Store!Create(t)
              \/ \E t \in Tasks, status \in Store!Status \ {"absent"} : Store!Update(t, status)
              \/ Dies
           /\ \/ UNCHANGED lockVars
              \/ \E c \in Tasks : \/ Lock!Acquire(c) \/ Lock!AcquireLost(c)
                                  \/ Lock!Release(c) \/ Lock!ReleaseLost(c)
              \/ \E h \in Hashes : Lock!Expire(h)
              \/ Dies
<1>1. ASSUME NEW c \in Tasks, CallStep(c)
      PROVE  /\ UNCHANGED storeVars \/ Store!Create(c)
             /\ \/ UNCHANGED lockVars \/ Lock!Acquire(c) \/ Lock!AcquireLost(c)
                \/ Lock!Release(c) \/ Lock!ReleaseLost(c)
  BY <1>1 DEF CallStep, Admit, Deny, LockAcquired, LockBusy, LockFails, WaitFinds, WaitGivesUp,
     LookupFinds, LookupMisses, CreateStores, CreateFails, Recheck, Announce, StartRun, Unlock
<1>2. ASSUME NEW t \in Tasks, RunStep(t)
      PROVE  /\ UNCHANGED lockVars
             /\ \/ UNCHANGED storeVars
                \/ \E status \in Store!Status \ {"absent"} : Store!Update(t, status)
  <2>1. /\ UNCHANGED lockVars
        /\ \/ UNCHANGED storeVars
           \/ Store!Update(t, "running") \/ Store!Update(t, "failed")
           \/ Store!Update(t, result[t])
    BY <1>2 DEF RunStep, MarkRunning, AnnounceRunning, PlannerReports, PlannerReturns, SaveResult,
       RecoverSave, RecoverPublish, RecoverReturns
  <2>2. {"running", "failed", result[t]} \subseteq Store!Status \ {"absent"}
    BY DEF ResultOK, Store!Status
  <2> QED
    BY <2>1, <2>2
<1>3. ASSUME NEW c \in Tasks, NEW s \in Streams, AnnouncePanics(c, s)
      PROVE  UNCHANGED <<storeVars, lockVars>>
  BY <1>3 DEF AnnouncePanics
<1>4. ASSUME NEW h \in Hashes, LockExpires(h)
      PROVE  UNCHANGED storeVars /\ Lock!Expire(h)
  BY <1>4 DEF LockExpires
<1>5. UNCHANGED vars => UNCHANGED <<storeVars, lockVars>>
  BY DEF vars
<1> QED
  BY <1>1, <1>2, <1>3, <1>4, <1>5, StepKinds, ElsewhereLeaves, SendsLeave

LEMMA StoreAndLockTyped ==
    ASSUME ServiceAssumption, Store!StoreTypeOK, Lock!LockTypeOK, ResultOK, [Next]_vars
    PROVE  Store!StoreTypeOK' /\ Lock!LockTypeOK'
<1> USE DEF ServiceAssumption, Store!StoreTypeOK, Lock!LockTypeOK
<1>1. CASE Dies
  BY <1>1 DEF Dies, ProcessDies, storeVars, Store!Status
<1>2. ASSUME NEW t \in Tasks, NEW status \in Store!Status,
             Store!Create(t) \/ Store!Update(t, status)
      PROVE  Store!StoreTypeOK'
  BY <1>2 DEF Store!Create, Store!Update, Store!Status
<1>3. ASSUME NEW c \in Tasks, Lock!Acquire(c) \/ Lock!AcquireLost(c)
      PROVE  Lock!LockTypeOK'
  BY <1>3 DEF Lock!Acquire, Lock!AcquireLost, Lock!KeyOf
<1>4. ASSUME NEW c \in Tasks, Lock!Release(c) \/ Lock!ReleaseLost(c)
      PROVE  Lock!LockTypeOK'
  BY <1>4 DEF Lock!Release, Lock!ReleaseLost, Lock!KeyOf
<1>5. ASSUME NEW h \in Hashes, Lock!Expire(h)
      PROVE  Lock!LockTypeOK'
  BY <1>5 DEF Lock!Expire
<1>6. (UNCHANGED storeVars => Store!StoreTypeOK') /\ (UNCHANGED lockVars => Lock!LockTypeOK')
  BY DEF storeVars, lockVars
<1>7. \E status : status \in Store!Status
  BY DEF Store!Status
<1> QED
  BY <1>1, <1>2, <1>3, <1>4, <1>5, <1>6, <1>7, StepsOfStoreAndLock

LEMMA ToldStep ==
    ASSUME ServiceAssumption, TypeInv, [Next]_vars
    PROVE  ToldOK'
<1> USE DEF ToldOK, TypeInv
<1>1. CASE UNCHANGED <<reply, seen, terminals>>
  BY <1>1
<1>2. ASSUME NEW c \in Tasks, CallStep(c) \/ \E s \in Streams : AnnouncePanics(c, s)
      PROVE  ToldOK'
  <2>1. /\ UNCHANGED streamVars
        /\ \/ reply' = reply
           \/ \E t \in {hashToID[HashOf[c]], c} : reply' = [reply EXCEPT ![c] = t]
    BY <1>2 DEF CallStep, Admit, Deny, LockAcquired, LockBusy, LockFails, WaitFinds, WaitGivesUp,
       LookupFinds, LookupMisses, CreateStores, CreateFails, Recheck, Announce, StartRun, Unlock,
       AnnouncePanics, NoAnswer, Answer, Store!FindByHash
  <2>2. \A t \in {hashToID[HashOf[c]], c} : t \in Tasks \cup {NoTask}
    BY DEF ServiceAssumption, Store!StoreTypeOK
  <2>3. seen' = seen /\ terminals' = terminals
    BY <2>1 DEF streamVars
  <2>4. reply' \in [Tasks -> Tasks \cup {NoTask}]
    BY <2>1, <2>2
  <2> QED
    BY <2>3, <2>4
<1>3. ASSUME NEW t \in Tasks, RunStep(t) \/ Sends(t)
      PROVE  UNCHANGED <<reply, seen, terminals>>
  BY <1>3 DEF RunStep, MarkRunning, AnnounceRunning, PlannerReports, PlannerReturns, SaveResult,
     RecoverSave, RecoverPublish, RecoverReturns, Sends, SendNext, RunPanics, PlannerPanics,
     callVars, streamVars
<1>4. ASSUME NEW s \in Streams, Replay(s)
      PROVE  ToldOK'
  <2>1. target[s] \in Tasks
    BY <1>4 DEF Replay, StreamMoves, TargetOK
  <2>2. history[target[s]] \in Seq(Bus!Event)
    BY <2>1 DEF BusOK, Bus!BusTypeOK
  <2>3. Outcomes(history[target[s]]) \in Seq({"done", "error"})
    BY <2>2, OutcomesTyped
  <2>4. Told(Outcomes(history[target[s]]), seen[s]) \in Seq({"done", "error"})
    <3>1. <<OutcomeOf(seen[s])>> \in Seq({"done", "error"})
      BY DEF OutcomeOf
    <3> QED
      BY <2>3, <3>1 DEF Told
  <2> QED
    BY <1>4, <2>4 DEF Replay, callVars
<1>5. ASSUME NEW s \in Streams, Read(s)
      PROVE  ToldOK'
  <2>1. /\ UNCHANGED <<reply, seen>>
        /\ \/ terminals' = terminals
           \/ \E type \in {"done", "error"} :
                 terminals' = [terminals EXCEPT ![s] = Append(terminals[s], type)]
    BY <1>5 DEF Read, callVars
  <2>2. \A type \in {"done", "error"} : Append(terminals[s], type) \in Seq({"done", "error"})
    OBVIOUS
  <2> QED
    BY <2>1, <2>2
<1>6. ASSUME NEW s \in Streams, NEW t \in Tasks, Connect(s, t)
      PROVE  ToldOK'
  BY <1>6 DEF Connect, Store!StoreTypeOK, callVars
<1>7. ASSUME NEW s \in Streams, SubscribeStream(s) \/ CloseStream(s) \/ Disconnect(s)
      PROVE  UNCHANGED <<reply, seen, terminals>>
  BY <1>7 DEF SubscribeStream, CloseStream, Disconnect, callVars
<1>8. ASSUME NEW h \in Hashes, LockExpires(h)
      PROVE  UNCHANGED <<reply, seen, terminals>>
  BY <1>8 DEF LockExpires, callVars, streamVars
<1>9. Dies \/ UNCHANGED vars => UNCHANGED <<reply, seen, terminals>>
  BY DEF Dies, ProcessDies, vars, callVars, streamVars
<1> QED
  BY <1>1, <1>2, <1>3, <1>4, <1>5, <1>6, <1>7, <1>8, <1>9, StepKinds DEF Elsewhere

LEMMA TypeStep ==
    ASSUME ServiceAssumption, TypeInv, [Next]_vars
    PROVE  TypeInv'
<1> USE DEF TypeInv
<1>1. ResultOK
  BY DEF PhaseInv
<1> QED
  BY <1>1, StoreAndLockTyped, BusOKStep, PhaseStep, BudgetStep, TargetStep, ToldStep

LEMMA TypeStart ==
    ASSUME ServiceAssumption, Init
    PROVE  TypeInv
<1> USE DEF Init
<1>1. Store!StoreTypeOK
  BY DEF Store!StoreInit, Store!StoreTypeOK, Store!Status
<1>2. Lock!LockTypeOK
  BY DEF Lock!LockInit, Lock!LockTypeOK
<1>3. BusOK
  BY DEF Bus!BusInit, Bus!BusTypeOK, BusOK
<1>4. PhaseInv
  BY DEF Store!StoreInit, PhaseInv, ResultOK, CallStates, RunStates, Announced,
     Store!Status, Store!TerminalStatus
<1>5. BudgetOK
  BY DEF ServiceAssumption, BudgetOK
<1>6. TargetOK /\ ToldOK
  BY DEF TargetOK, StreamStates, ToldOK, Store!Status
<1> QED
  BY <1>1, <1>2, <1>3, <1>4, <1>5, <1>6 DEF TypeInv

\* Whatever fails, leaves or crashes, the store, the lock, the bus, the calls,
\* the goroutines and the connections keep to their types; no channel holds more
\* than its capacity, so no Subscribe blocks the bus.
THEOREM ServiceTypeCorrect == Spec => []TypeOK
<1>1. Init => TypeInv
  BY TypeStart, ServiceAssumption
<1>2. TypeInv /\ [Next]_vars => TypeInv'
  BY TypeStep, ServiceAssumption
<1>3. TypeInv => TypeOK
  <2>1. ResultOK => result \in [Tasks -> Store!Status]
    BY DEF ResultOK, Store!Status
  <2> QED
    BY <2>1 DEF TypeInv, TypeOK, BusOK, PhaseInv, BudgetOK, TargetOK, ToldOK
<1> QED
  BY <1>1, <1>2, <1>3, PTL DEF Spec
-----------------------------------------------------------------------------
(* What streams are told                                                   *)

\* Without disconnects no send ever panics: a connection closes its channel
\* after it has read an outcome, and the outcome is the last event of its task.
\* So there is one outcome per task, that of the goroutine's own copy, and all
\* that is told or stored comes from it.

Ends == {"done", "error"}

\* An outcome in a history is its last event, and that of the result.
HistoryTells(t) ==
    \A i \in 1 .. Len(history[t]) : history[t][i].type \in Ends =>
        /\ i = Len(history[t]) /\ result[t] # "pending"
        /\ history[t][i].type = OutcomeOf(result[t])

TaskOrder(t) ==
    /\ run[t] \in {"none", "start", "announce", "planning"} => result[t] = "pending"
    /\ run[t] \notin {"recovering", "recovered", "closing"}
    /\ tasks[t] \in Store!TerminalStatus => tasks[t] = result[t]
    /\ HistoryTells(t)

TellsResult(s, type) == result[target[s]] # "pending" /\ type = OutcomeOf(result[target[s]])

ChannelTells(s) ==
    \A i \in 1 .. Len(channel[s]) :
        channel[s][i].type \in Ends => TellsResult(s, channel[s][i].type)

NoEnds(s) == \A i \in 1 .. Len(channel[s]) : channel[s][i].type \notin Ends

\* Where a connection is, what it was told and what it is registered for.
StreamOrder(s) ==
    /\ stream[s] \in {"idle", "replay", "subscribe", "reading"} => terminals[s] = <<>>
    /\ stream[s] \in {"closing", "ended"} => Len(terminals[s]) = 1
    /\ stream[s] # "leaving"
    /\ s \in closed => stream[s] \in {"ended", "gone"}
    /\ stream[s] = "idle" => channel[s] = <<>>
    /\ stream[s] = "replay" => seen[s] \in Store!TerminalStatus /\ seen[s] = result[target[s]]
    /\ \A i \in 1 .. Len(terminals[s]) : TellsResult(s, terminals[s][i])
    /\ ChannelTells(s)
    /\ \A t \in Tasks :
          /\ s \in subscribers[t] => target[s] = t /\ stream[s] \in {"reading", "closing"}
          /\ s \in sending[t] => target[s] = t /\ stream[s] = "reading" /\ NoEnds(s)

Orderly == (\A t \in Tasks : TaskOrder(t)) /\ (\A s \in Streams : StreamOrder(s))

\* Facts that do not change where nothing they name changes.
LEMMA OrderStays ==
    ASSUME Orderly, UNCHANGED <<run, result, tasks, busVars, streamVars>>
    PROVE  Orderly'
  BY DEF Orderly, TaskOrder, StreamOrder, HistoryTells, TellsResult, ChannelTells, NoEnds,
     busVars, streamVars

LEMMA TasksStay ==
    ASSUME NEW t \in Tasks, TaskOrder(t), run'[t] = run[t], result'[t] = result[t],
           tasks'[t] = tasks[t], history'[t] = history[t]
    PROVE  TaskOrder(t)'
  BY DEF TaskOrder, HistoryTells

LEMMA StreamsStay ==
    ASSUME NEW s \in Streams, StreamOrder(s), stream'[s] = stream[s], target'[s] = target[s],
           seen'[s] = seen[s], terminals'[s] = terminals[s], channel'[s] = channel[s],
           s \in closed' => s \in closed, result'[target[s]] = result[target[s]],
           \A t \in Tasks : /\ s \in subscribers'[t] => s \in subscribers[t]
                            /\ s \in sending'[t] => s \in sending[t]
    PROVE  StreamOrder(s)'
  BY DEF StreamOrder, TellsResult, ChannelTells, NoEnds

\* A publication while the result is still open, and the result set with it.
LEMMA PublishOrder ==
    ASSUME ServiceAssumption, TypeInv, Orderly, NEW t \in Tasks, result[t] = "pending",
           NEW type \in {"progress", "done", "error"}, Bus!Publish(t, type),
           NEW r \in {"pending", "succeeded", "failed"}, result' = [result EXCEPT ![t] = r],
           type \in Ends => r # "pending" /\ type = OutcomeOf(r),
           UNCHANGED streamVars
    PROVE  /\ HistoryTells(t)'
           /\ \A u \in Tasks \ {t} : history'[u] = history[u] /\ result'[u] = result[u]
           /\ \A s \in Streams : StreamOrder(s)'
<1> DEFINE e == [type |-> type, seq |-> sequences[t] + 1]
           h == Bus!Trim(Append(history[t], e))
<1>1. sequences[t] + 1 \in Nat \ {0} /\ history[t] \in Seq(Bus!Event)
  BY DEF TypeInv, BusOK, Bus!BusTypeOK
<1>2. e \in Bus!Event /\ e.type = type
  BY <1>1 DEF Bus!Event
<1>3. /\ h \in Seq(Bus!Event) /\ h[Len(h)] = e /\ Len(h) \in 1 .. Len(history[t]) + 1
      /\ \A i \in 1 .. Len(h) : i # Len(h) => \E k \in 1 .. Len(history[t]) : h[i] = history[t][k]
  BY <1>1, <1>2, LastOfTrim
<1>4. /\ history' = [history EXCEPT ![t] = h]
      /\ sending' = [sending EXCEPT ![t] = subscribers[t]]
      /\ UNCHANGED <<subscribers, channel, closed>>
  BY DEF Bus!Publish
<1> HIDE DEF h, e
<1>5. /\ history \in [Tasks -> Seq(Bus!Event)] /\ sending \in [Tasks -> SUBSET Streams]
      /\ subscribers \in [Tasks -> SUBSET Streams]
      /\ result \in [Tasks -> {"pending", "succeeded", "failed"}]
  BY DEF TypeInv, BusOK, Bus!BusTypeOK, PhaseInv, ResultOK
<1>6. history'[t] = h /\ result'[t] = r /\ sending'[t] = subscribers[t]
  BY <1>4, <1>5
<1>7. \A u \in Tasks \ {t} : /\ history'[u] = history[u] /\ result'[u] = result[u]
                             /\ sending'[u] = sending[u]
  BY <1>4, <1>5
<1>8. HistoryTells(t)'
  <2>1. \A k \in 1 .. Len(history[t]) : history[t][k].type \notin Ends
    BY DEF Orderly, TaskOrder, HistoryTells
  <2>2. \A i \in 1 .. Len(h) : i # Len(h) => h[i].type \notin Ends
    BY <1>3, <2>1
  <2>3. \A i \in 1 .. Len(h) : h[i].type \in Ends => i = Len(h) /\ h[i].type = type
    BY <1>2, <1>3, <2>2
  <2> QED
    BY <1>6, <2>3 DEF HistoryTells, OutcomeOf
<1>9. ASSUME NEW s \in Streams
      PROVE  StreamOrder(s)'
  <2>1. StreamOrder(s) /\ UNCHANGED <<stream, target, seen, terminals, subscribers, channel, closed>>
    BY <1>4 DEF Orderly, streamVars
  <2>2. CASE target[s] # t
    <3>1. target[s] \in Tasks => result'[target[s]] = result[target[s]]
      BY <1>7, <2>2
    <3>2. s \notin subscribers[t]
      BY <2>1, <2>2 DEF StreamOrder
    <3>3. \A u \in Tasks : s \in sending'[u] => s \in sending[u]
      BY <1>6, <1>7, <3>2
    <3>4. CASE target[s] \in Tasks
      BY <2>1, <3>1, <3>3, <3>4, StreamsStay
    <3>5. CASE target[s] \notin Tasks
      <4>1. stream[s] = "idle" /\ terminals[s] = <<>> /\ channel[s] = <<>>
        BY <2>1, <3>5 DEF TypeInv, TargetOK, StreamOrder
      <4> QED
        BY <2>1, <3>3, <4>1 DEF StreamOrder, ChannelTells, NoEnds
    <3> QED
      BY <3>4, <3>5
  <2>3. CASE target[s] = t
    <3>1. /\ \A i \in 1 .. Len(terminals[s]) : FALSE
          /\ NoEnds(s) /\ stream[s] # "replay"
      BY <2>1, <2>3 DEF StreamOrder, TellsResult, ChannelTells, NoEnds, Store!TerminalStatus
    <3>2. Len(terminals[s]) # 1
      <4>1. Len(terminals[s]) = 1 => 1 \in 1 .. Len(terminals[s])
        OBVIOUS
      <4> QED
        BY <3>1, <4>1
    <3>3. s \in subscribers[t] => stream[s] = "reading"
      BY <2>1, <3>2 DEF StreamOrder
    <3>4. NoEnds(s)'
      BY <2>1, <3>1 DEF NoEnds
    <3>5. \A u \in Tasks : /\ s \in subscribers'[u] => target'[s] = u /\ stream'[s] \in {"reading", "closing"}
                           /\ s \in sending'[u] => target'[s] = u /\ stream'[s] = "reading"
      BY <1>6, <1>7, <2>1, <2>3, <3>3 DEF StreamOrder
    <3>6. ChannelTells(s)' /\ \A i \in 1 .. Len(terminals'[s]) : TellsResult(s, terminals[s][i])'
      BY <2>1, <3>1, <3>4 DEF ChannelTells, NoEnds
    <3> QED
      BY <2>1, <3>1, <3>4, <3>5, <3>6 DEF StreamOrder
  <2> QED
    BY <2>2, <2>3
<1> QED
  BY <1>7, <1>8, <1>9
\* Steps of calls.
LEMMA CallOrder ==
    ASSUME ServiceAssumption, TypeInv, Orderly, NEW c \in Tasks, CallStep(c)
    PROVE  Orderly'
<1>1. call[c] \notin Announced => run[c] = "none" /\ result[c] = "pending"
  BY DEF TypeInv, PhaseInv, Orderly, TaskOrder
<1>2. CASE CreateStores(c) \/ CreateFails(c)
  <2>1. /\ UNCHANGED <<run, result, busVars, streamVars>>
        /\ tasks' = tasks \/ tasks' = [tasks EXCEPT ![c] = "pending"]
    BY <1>2 DEF CreateStores, CreateFails, Store!Create, runVars, storeVars
  <2>2. \A t \in Tasks : tasks'[t] = tasks[t] \/ tasks'[t] = "pending"
    BY <2>1 DEF TypeInv, PhaseInv
  <2>3. UNCHANGED <<history, stream, target, seen, terminals, channel, closed, subscribers, sending>>
    BY <2>1 DEF busVars, streamVars
  <2>4. \A t \in Tasks : TaskOrder(t)'
    BY <2>1, <2>2, <2>3 DEF Orderly, TaskOrder, HistoryTells, Store!TerminalStatus
  <2>5. \A s \in Streams : StreamOrder(s)'
    BY <2>1, <2>3, StreamsStay DEF Orderly
  <2> QED
    BY <2>4, <2>5 DEF Orderly
<1>3. CASE Announce(c)
  <2>1. /\ run[c] = "none" /\ result[c] = "pending" /\ Bus!Publish(c, "progress")
        /\ UNCHANGED <<run, result, tasks, streamVars>>
    BY <1>1, <1>3 DEF Announce, CallMoves, Announced, runVars, storeVars
  <2>2. result' = [result EXCEPT ![c] = "pending"] /\ "progress" \notin Ends
    BY <2>1 DEF TypeInv, PhaseInv, ResultOK, Ends
  <2>3. /\ HistoryTells(c)' /\ \A u \in Tasks \ {c} : history'[u] = history[u]
        /\ \A s \in Streams : StreamOrder(s)'
    BY <2>1, <2>2, PublishOrder
  <2>4. \A t \in Tasks \ {c} : TaskOrder(t)'
    BY <2>1, <2>3, TasksStay DEF Orderly
  <2>5. TaskOrder(c)'
    BY <2>1, <2>3 DEF Orderly, TaskOrder
  <2> QED
    BY <2>3, <2>4, <2>5 DEF Orderly
<1>4. CASE StartRun(c)
  <2>1. /\ run[c] = "none" /\ result[c] = "pending" /\ run' = [run EXCEPT ![c] = "start"]
        /\ UNCHANGED <<result, tasks, busVars, streamVars>>
    BY <1>1, <1>4 DEF StartRun, CallMoves, Announced, storeVars
  <2>2. \A t \in Tasks : run'[t] = IF t = c THEN "start" ELSE run[t]
    BY <2>1 DEF TypeInv, PhaseInv
  <2>3. UNCHANGED <<history, stream, target, seen, terminals, channel, closed, subscribers, sending>>
    BY <2>1 DEF busVars, streamVars
  <2>4. \A t \in Tasks : TaskOrder(t)'
    BY <2>1, <2>2, <2>3 DEF Orderly, TaskOrder, HistoryTells
  <2>5. \A s \in Streams : StreamOrder(s)'
    BY <2>1, <2>3, StreamsStay DEF Orderly
  <2> QED
    BY <2>4, <2>5 DEF Orderly
<1>5. CASE ~(CreateStores(c) \/ CreateFails(c) \/ Announce(c) \/ StartRun(c))
  <2>1. UNCHANGED <<run, result, tasks, busVars, streamVars>>
    BY <1>5 DEF CallStep, Admit, Deny, LockAcquired, LockBusy, LockFails, WaitFinds, WaitGivesUp,
       LookupFinds, LookupMisses, Recheck, Unlock, runVars, storeVars
  <2> QED
    BY <2>1, OrderStays
<1> QED
  BY <1>2, <1>3, <1>4, <1>5

\* Steps of goroutines.
LEMMA RunOrder ==
    ASSUME ServiceAssumption, TypeInv, Orderly, NEW t \in Tasks, RunStep(t)
    PROVE  Orderly'
<1> USE DEF RunMoves
<1>1. /\ run \in [Tasks -> RunStates] /\ tasks \in [Tasks -> Store!Status]
      /\ result \in [Tasks -> {"pending", "succeeded", "failed"}]
  BY DEF TypeInv, PhaseInv, ResultOK
<1>2. CASE MarkRunning(t) \/ SaveResult(t)
  <2>1. /\ UNCHANGED <<result, busVars, streamVars>>
        /\ \/ run[t] = "start" /\ \E to \in {"announce", "over"} : run' = [run EXCEPT ![t] = to]
           \/ run[t] = "finishing" /\ run' = [run EXCEPT ![t] = "over"]
        /\ \/ tasks' = tasks \/ tasks' = [tasks EXCEPT ![t] = "running"]
           \/ tasks' = [tasks EXCEPT ![t] = result[t]]
    BY <1>2 DEF MarkRunning, SaveResult, Store!Update, storeVars
  <2>2. UNCHANGED <<history, stream, target, seen, terminals, channel, closed, subscribers, sending>>
    BY <2>1 DEF busVars, streamVars
  <2>3. \A u \in Tasks \ {t} : run'[u] = run[u] /\ tasks'[u] = tasks[u]
    BY <1>1, <2>1
  <2>4. \A u \in Tasks \ {t} : TaskOrder(u)'
    BY <2>1, <2>2, <2>3, TasksStay DEF Orderly
  <2>5. TaskOrder(t)'
    BY <1>1, <2>1, <2>2 DEF Orderly, TaskOrder, HistoryTells, Store!TerminalStatus
  <2>6. \A s \in Streams : StreamOrder(s)'
    BY <2>1, <2>2, StreamsStay DEF Orderly
  <2> QED
    BY <2>4, <2>5, <2>6 DEF Orderly
<1>3. CASE AnnounceRunning(t) \/ PlannerReports(t)
  <2>1. /\ run[t] \in {"announce", "planning"} /\ run' = [run EXCEPT ![t] = "planning"]
        /\ Bus!Publish(t, "progress") /\ UNCHANGED <<result, tasks, streamVars>>
    BY <1>1, <1>3 DEF AnnounceRunning, PlannerReports, storeVars, runVars
  <2>2. /\ result[t] = "pending" /\ result' = [result EXCEPT ![t] = "pending"]
        /\ "progress" \notin Ends
    BY <1>1, <2>1 DEF Orderly, TaskOrder, Ends
  <2>3. /\ HistoryTells(t)' /\ \A u \in Tasks \ {t} : history'[u] = history[u]
        /\ \A s \in Streams : StreamOrder(s)'
    BY <2>1, <2>2, PublishOrder
  <2>4. \A u \in Tasks \ {t} : run'[u] = run[u]
    BY <1>1, <2>1
  <2>5. \A u \in Tasks \ {t} : TaskOrder(u)'
    BY <2>1, <2>3, <2>4, TasksStay DEF Orderly
  <2>6. TaskOrder(t)'
    BY <1>1, <2>1, <2>2, <2>3 DEF Orderly, TaskOrder
  <2> QED
    BY <2>3, <2>5, <2>6 DEF Orderly
<1>4. ASSUME NEW status \in Store!TerminalStatus, PlannerReturns(t, status)
      PROVE  Orderly'
  <2>1. /\ run[t] = "planning" /\ run' = [run EXCEPT ![t] = "finishing"]
        /\ result' = [result EXCEPT ![t] = status]
        /\ Bus!Publish(t, OutcomeOf(status)) /\ UNCHANGED <<tasks, streamVars>>
    BY <1>4 DEF PlannerReturns, OutcomeOf, storeVars
  <2>2. /\ result[t] = "pending" /\ status # "pending"
        /\ status \in {"pending", "succeeded", "failed"}
        /\ OutcomeOf(status) \in {"progress", "done", "error"}
        /\ tasks[t] \notin Store!TerminalStatus
    BY <2>1 DEF Orderly, TaskOrder, Store!TerminalStatus, OutcomeOf, TypeInv, PhaseInv
  <2>3. /\ HistoryTells(t)'
        /\ \A u \in Tasks \ {t} : history'[u] = history[u] /\ result'[u] = result[u]
        /\ \A s \in Streams : StreamOrder(s)'
    BY <2>1, <2>2, PublishOrder
  <2>4. \A u \in Tasks \ {t} : run'[u] = run[u]
    BY <1>1, <2>1
  <2>5. \A u \in Tasks \ {t} : TaskOrder(u)'
    BY <2>1, <2>3, <2>4, TasksStay DEF Orderly
  <2>6. TaskOrder(t)'
    BY <1>1, <2>1, <2>2, <2>3 DEF TaskOrder
  <2> QED
    BY <2>3, <2>5, <2>6 DEF Orderly
<1>5. ~(RecoverSave(t) \/ RecoverPublish(t) \/ RecoverReturns(t))
  BY DEF RecoverSave, RecoverPublish, RecoverReturns, Orderly, TaskOrder
<1> QED
  BY <1>2, <1>3, <1>4, <1>5 DEF RunStep
\* No send is made on a closed channel.
LEMMA NoPanics ==
    ASSUME Orderly, NEW t \in Tasks, NEW s \in Streams
    PROVE  ~Bus!SendOnClosed(t, s) /\ ~RecoveryPanics(t, s)
  BY DEF Orderly, StreamOrder, Bus!SendOnClosed, RecoveryPanics

LEMMA SendOrder ==
    ASSUME ServiceAssumption, TypeInv, Orderly, NEW t \in Tasks, NEW s \in Streams, SendNext(t, s)
    PROVE  Orderly'
<1>1. /\ UNCHANGED <<run, result, tasks, history, closed, subscribers, stream, target, seen, terminals>>
      /\ s \in sending[t] /\ sending' = [sending EXCEPT ![t] = sending[t] \ {s}]
      /\ channel' = channel \/ channel' = [channel EXCEPT ![s] = Append(channel[s], Bus!InFlight(t))]
  BY DEF SendNext, Bus!Deliver, Bus!Drop, runVars, storeVars, streamVars
<1>2. /\ channel \in [Streams -> Seq(Bus!Event)] /\ sending \in [Tasks -> SUBSET Streams]
      /\ history[t] \in Seq(Bus!Event) /\ history[t] # <<>>
  BY <1>1 DEF TypeInv, BusOK, Bus!BusTypeOK
<1>3. \A u \in Tasks : TaskOrder(u)'
  BY <1>1, TasksStay DEF Orderly
<1>4. \A u \in Tasks : /\ sending'[u] \subseteq sending[u]
                       /\ s \in sending'[u] => u # t
  BY <1>1, <1>2
<1>5. StreamOrder(s) /\ TaskOrder(t) /\ target[s] = t /\ stream[s] = "reading"
  BY <1>1 DEF Orderly, StreamOrder
<1>6. \A u \in Tasks : s \notin sending'[u]
  BY <1>4, <1>5 DEF StreamOrder
<1>7. ChannelTells(s)'
  <2>1. CASE channel' = channel
    BY <1>1, <1>5, <2>1 DEF StreamOrder, ChannelTells, TellsResult
  <2>2. CASE channel' = [channel EXCEPT ![s] = Append(channel[s], Bus!InFlight(t))]
    <3> DEFINE a == Append(channel[s], Bus!InFlight(t))
    <3>1. Len(history[t]) \in 1 .. Len(history[t])
      BY <1>2
    <3>2. Bus!InFlight(t).type \in Ends => TellsResult(s, Bus!InFlight(t).type)
      BY <1>5, <3>1 DEF TaskOrder, HistoryTells, TellsResult, Bus!InFlight
    <3>3. channel'[s] = a /\ channel[s] \in Seq(Bus!Event)
      BY <1>2, <2>2
    <3>4. \A i \in 1 .. Len(a) : \/ i \in 1 .. Len(channel[s]) /\ a[i] = channel[s][i]
                                 \/ a[i] = Bus!InFlight(t)
      BY <3>3
    <3> HIDE DEF a
    <3>5. \A i \in 1 .. Len(a) : a[i].type \in Ends => TellsResult(s, a[i].type)
      BY <1>5, <3>2, <3>4 DEF StreamOrder, ChannelTells
    <3> QED
      BY <1>1, <3>3, <3>5 DEF ChannelTells, TellsResult
  <2> QED
    BY <1>1, <2>1, <2>2
<1>8. StreamOrder(s)'
  BY <1>1, <1>5, <1>6, <1>7 DEF StreamOrder, TellsResult
<1>9. ASSUME NEW r \in Streams \ {s}
      PROVE  StreamOrder(r)'
  <2>1. channel'[r] = channel[r] /\ StreamOrder(r)
    BY <1>1, <1>2 DEF Orderly
  <2> QED
    BY <1>1, <1>4, <2>1, StreamsStay
<1> QED
  BY <1>3, <1>8, <1>9 DEF Orderly

\* A step of connection s is about s only.
LEMMA OneStream ==
    ASSUME TypeInv, Orderly, NEW s \in Streams, StreamOrder(s)', UNCHANGED <<run, result, tasks, history>>,
           \A r \in Streams \ {s} :
              /\ stream'[r] = stream[r] /\ target'[r] = target[r] /\ seen'[r] = seen[r]
              /\ terminals'[r] = terminals[r] /\ channel'[r] = channel[r]
              /\ r \in closed' => r \in closed
              /\ \A t \in Tasks : /\ r \in subscribers'[t] => r \in subscribers[t]
                                  /\ r \in sending'[t] => r \in sending[t]
    PROVE  Orderly'
<1>1. \A t \in Tasks : TaskOrder(t)'
  BY TasksStay DEF Orderly
<1>2. \A r \in Streams \ {s} : StreamOrder(r)'
  BY StreamsStay DEF Orderly
<1> QED
  BY <1>1, <1>2 DEF Orderly

LEMMA ConnectOrder ==
    ASSUME TypeInv, Orderly, NEW s \in Streams, NEW t \in Tasks, Connect(s, t)
    PROVE  Orderly'
<1>1. /\ UNCHANGED <<run, result, tasks, history, channel, closed, subscribers, sending, terminals>>
      /\ target' = [target EXCEPT ![s] = t] /\ seen' = [seen EXCEPT ![s] = tasks[t]]
      /\ stream[s] = "idle"
      /\ \E to \in {"gone", "replay", "subscribe"} :
            stream' = [stream EXCEPT ![s] = to] /\ (to = "replay" => tasks[t] \in Store!TerminalStatus)
  BY DEF Connect, StreamMoves, runVars, storeVars, busVars
<1>2. /\ StreamOrder(s) /\ TaskOrder(t)
      /\ stream \in [Streams -> StreamStates] /\ target \in [Streams -> Tasks \cup {NoTask}]
      /\ seen \in [Streams -> Store!Status]
  BY DEF Orderly, TypeInv, TargetOK, ToldOK
<1>3. /\ target'[s] = t /\ seen'[s] = tasks[t] /\ stream'[s] \in {"gone", "replay", "subscribe"}
      /\ stream'[s] = "replay" => tasks[t] \in Store!TerminalStatus
      /\ \A r \in Streams \ {s} :
            stream'[r] = stream[r] /\ target'[r] = target[r] /\ seen'[r] = seen[r]
  BY <1>1, <1>2
<1>4. terminals[s] = <<>> /\ channel[s] = <<>> /\ s \notin closed
      /\ \A u \in Tasks : s \notin subscribers[u] /\ s \notin sending[u]
  BY <1>1, <1>2 DEF StreamOrder
<1>5. StreamOrder(s)'
  BY <1>1, <1>2, <1>3, <1>4 DEF StreamOrder, TaskOrder, ChannelTells, NoEnds
<1> QED
  BY <1>1, <1>3, <1>5, OneStream

LEMMA ReplayOrder ==
    ASSUME TypeInv, Orderly, NEW s \in Streams, Replay(s)
    PROVE  Orderly'
<1> DEFINE h == history[target[s]]
           o == Outcomes(h)
           told == Told(o, seen[s])
<1>1. /\ UNCHANGED <<run, result, tasks, history, channel, closed, subscribers, sending, target, seen>>
      /\ stream[s] = "replay" /\ stream' = [stream EXCEPT ![s] = "ended"]
      /\ terminals' = [terminals EXCEPT ![s] = told]
  BY DEF Replay, StreamMoves, runVars, storeVars, busVars
<1>2. /\ StreamOrder(s) /\ target[s] \in Tasks
      /\ stream \in [Streams -> StreamStates] /\ terminals \in [Streams -> Seq({"done", "error"})]
  BY <1>1 DEF Orderly, TypeInv, TargetOK, ToldOK
<1>3. h \in Seq(Bus!Event) /\ HistoryTells(target[s])
  BY <1>2 DEF TypeInv, BusOK, Bus!BusTypeOK, Orderly, TaskOrder
<1>4. /\ o \in Seq({"done", "error"})
      /\ \E p : Picks(p, o, [i \in DOMAIN h |-> h[i].type],
                      {i \in DOMAIN h : h[i].type \in {"done", "error"}})
  BY <1>3, OutcomesTyped
<1>5. /\ \A i \in 1 .. Len(o) : TellsResult(s, o[i])
      /\ Len(o) \in {0, 1}
  <2> DEFINE places == {i \in DOMAIN h : h[i].type \in {"done", "error"}}
             types == [i \in DOMAIN h |-> h[i].type]
  <2>1. \A i \in places : i = Len(h) /\ TellsResult(s, types[i])
    BY <1>3 DEF HistoryTells, TellsResult, Ends
  <2> HIDE DEF places, types
  <2>2. PICK p : Picks(p, o, types, places)
    BY <1>4 DEF places, types
  <2> HIDE DEF o, h
  <2>3. \A k \in 1 .. Len(o) : p[k] = Len(h) /\ TellsResult(s, o[k])
    BY <2>1, <2>2 DEF Picks
  <2>4. Len(o) \in Nat
    BY <1>4
  <2>5. Len(o) < 2
    <3> SUFFICES ASSUME Len(o) >= 2 PROVE FALSE
      BY <2>4
    <3>1. 1 \in 1 .. Len(o) /\ 2 \in 1 .. Len(o) /\ 1 < 2
      BY <2>4
    <3>2. p[1] < p[2] /\ p[1] = p[2] /\ Len(h) \in Nat
      BY <1>3, <2>2, <2>3, <3>1 DEF Picks
    <3> QED
      BY <2>3, <3>1, <3>2
  <2>6. Len(o) \in {0, 1}
    <3>1. \A n \in Nat : n < 2 => n \in {0, 1}
      OBVIOUS
    <3> QED
      BY <2>4, <2>5, <3>1
  <2>7. \A i \in 1 .. Len(o) : TellsResult(s, o[i])
    BY <2>3
  <2> QED
    BY <2>6, <2>7
<1>6. Len(told) = 1 /\ \A i \in 1 .. Len(told) : TellsResult(s, told[i])
  <2>1. CASE o = <<>>
    <3>1. told = <<OutcomeOf(seen[s])>>
      BY <2>1 DEF Told
    <3>2. seen[s] = result[target[s]] /\ seen[s] # "pending"
      BY <1>1, <1>2 DEF StreamOrder, Store!TerminalStatus
    <3> HIDE DEF told
    <3> QED
      BY <3>1, <3>2 DEF TellsResult
  <2>2. CASE o # <<>>
    <3>1. told = o /\ Len(o) = 1
      BY <1>4, <1>5, <2>2 DEF Told
    <3> HIDE DEF told, o
    <3> QED
      BY <1>5, <3>1
  <2> QED
    BY <2>1, <2>2
<1> HIDE DEF told
<1>7. terminals'[s] = told /\ stream'[s] = "ended"
  BY <1>1, <1>2
<1>8. StreamOrder(s)'
  BY <1>1, <1>2, <1>6, <1>7 DEF StreamOrder, TellsResult, ChannelTells, NoEnds
<1>9. \A r \in Streams \ {s} : stream'[r] = stream[r] /\ terminals'[r] = terminals[r]
  BY <1>1, <1>2
<1> QED
  BY <1>1, <1>8, <1>9, OneStream
LEMMA SubscribeOrder ==
    ASSUME TypeInv, Orderly, NEW s \in Streams, SubscribeStream(s)
    PROVE  Orderly'
<1> DEFINE t == target[s]
<1>1. /\ UNCHANGED <<run, result, tasks, history, closed, sending, target, seen, terminals>>
      /\ stream[s] = "subscribe" /\ stream' = [stream EXCEPT ![s] = "reading"]
      /\ channel' = [channel EXCEPT ![s] = history[t]]
      /\ subscribers' = [subscribers EXCEPT ![t] = subscribers[t] \cup {s}]
  BY DEF SubscribeStream, StreamMoves, Bus!Subscribe, Bus!Preload, runVars, storeVars
<1>2. /\ StreamOrder(s) /\ t \in Tasks /\ HistoryTells(t)
      /\ stream \in [Streams -> StreamStates] /\ channel \in [Streams -> Seq(Bus!Event)]
      /\ subscribers \in [Tasks -> SUBSET Streams]
  BY <1>1 DEF Orderly, TaskOrder, TypeInv, TargetOK, BusOK, Bus!BusTypeOK
<1>3. /\ stream'[s] = "reading" /\ channel'[s] = history[t]
      /\ \A u \in Tasks : s \in subscribers'[u] => u = t \/ s \in subscribers[u]
  BY <1>1, <1>2
<1>4. s \notin closed /\ \A u \in Tasks : s \notin subscribers[u] /\ s \notin sending[u]
  BY <1>1, <1>2 DEF StreamOrder
<1>5. ChannelTells(s)'
  BY <1>1, <1>2, <1>3 DEF ChannelTells, HistoryTells, TellsResult
<1>6. StreamOrder(s)'
  BY <1>1, <1>2, <1>3, <1>4, <1>5 DEF StreamOrder, TellsResult
<1>7. \A r \in Streams \ {s} : /\ stream'[r] = stream[r] /\ channel'[r] = channel[r]
                               /\ \A u \in Tasks : r \in subscribers'[u] => r \in subscribers[u]
  BY <1>1, <1>2
<1> QED
  BY <1>1, <1>6, <1>7, OneStream

LEMMA ReadOrder ==
    ASSUME TypeInv, Orderly, NEW s \in Streams, Read(s)
    PROVE  Orderly'
<1> DEFINE type == Head(channel[s]).type
<1>1. /\ UNCHANGED <<run, result, tasks, history, closed, sending, subscribers, target, seen>>
      /\ stream[s] = "reading" /\ channel[s] # <<>> /\ s \notin closed
      /\ channel' = [channel EXCEPT ![s] = Tail(channel[s])]
      /\ \/ /\ type \in Ends /\ stream' = [stream EXCEPT ![s] = "closing"]
            /\ terminals' = [terminals EXCEPT ![s] = Append(terminals[s], type)]
         \/ UNCHANGED <<stream, terminals>>
  BY DEF Read, StreamMoves, Bus!Receive, Ends, runVars, storeVars
<1>2. /\ StreamOrder(s)
      /\ stream \in [Streams -> StreamStates] /\ channel \in [Streams -> Seq(Bus!Event)]
      /\ terminals \in [Streams -> Seq({"done", "error"})]
  BY DEF Orderly, TypeInv, TargetOK, ToldOK, BusOK, Bus!BusTypeOK
<1>3. /\ channel[s] \in Seq(Bus!Event) /\ channel'[s] = Tail(channel[s])
      /\ 1 \in 1 .. Len(channel[s]) /\ Head(channel[s]) = channel[s][1]
      /\ \A i \in 1 .. Len(Tail(channel[s])) :
            i + 1 \in 1 .. Len(channel[s]) /\ Tail(channel[s])[i] = channel[s][i + 1]
  BY <1>1, <1>2
<1>4. ChannelTells(s)' /\ (NoEnds(s) => NoEnds(s)')
  BY <1>1, <1>2, <1>3 DEF StreamOrder, ChannelTells, NoEnds, TellsResult
<1>5. StreamOrder(s)'
  <2>1. CASE UNCHANGED <<stream, terminals>>
    BY <1>1, <1>2, <1>4, <2>1 DEF StreamOrder, TellsResult
  <2>2. CASE /\ type \in Ends /\ stream' = [stream EXCEPT ![s] = "closing"]
             /\ terminals' = [terminals EXCEPT ![s] = Append(terminals[s], type)]
    <3>1. /\ terminals[s] = <<>> /\ TellsResult(s, type) /\ ~NoEnds(s)
      BY <1>1, <1>2, <1>3, <2>2 DEF StreamOrder, ChannelTells, NoEnds
    <3>2. stream'[s] = "closing" /\ terminals'[s] = <<type>>
      BY <1>2, <2>2, <3>1
    <3> HIDE DEF type
    <3>3. Len(terminals'[s]) = 1 /\ \A i \in 1 .. Len(terminals'[s]) : terminals'[s][i] = type
      BY <3>2
    <3>4. \A t \in Tasks : s \notin sending[t]
      BY <1>2, <3>1 DEF StreamOrder
    <3> QED
      BY <1>1, <1>2, <1>4, <3>1, <3>2, <3>3, <3>4 DEF StreamOrder, TellsResult
  <2> QED
    BY <1>1, <2>1, <2>2
<1>6. \A r \in Streams \ {s} : /\ stream'[r] = stream[r] /\ channel'[r] = channel[r]
                               /\ terminals'[r] = terminals[r]
  BY <1>1, <1>2
<1> QED
  BY <1>1, <1>5, <1>6, OneStream

LEMMA CloseOrder ==
    ASSUME TypeInv, Orderly, NEW s \in Streams, CloseStream(s)
    PROVE  Orderly'
<1> DEFINE t == target[s]
<1>1. StreamOrder(s) /\ stream[s] # "leaving"
  BY DEF Orderly, StreamOrder
<1>2. /\ UNCHANGED <<run, result, tasks, history, channel, sending, target, seen, terminals>>
      /\ stream[s] = "closing" /\ stream' = [stream EXCEPT ![s] = "ended"]
      /\ s \in subscribers[t] /\ closed' = closed \cup {s}
      /\ subscribers' = [subscribers EXCEPT ![t] = subscribers[t] \ {s}]
  BY <1>1 DEF CloseStream, StreamMoves, Bus!Unsubscribe, runVars, storeVars
<1>3. /\ stream \in [Streams -> StreamStates] /\ t \in Tasks
      /\ subscribers \in [Tasks -> SUBSET Streams]
  BY <1>2 DEF TypeInv, TargetOK, BusOK, Bus!BusTypeOK
<1>4. /\ stream'[s] = "ended" /\ \A u \in Tasks : subscribers'[u] \subseteq subscribers[u]
      /\ \A u \in Tasks : s \notin subscribers'[u]
  BY <1>1, <1>2, <1>3 DEF StreamOrder
<1>5. \A u \in Tasks : s \notin sending[u]
  BY <1>1, <1>2 DEF StreamOrder
<1>6. StreamOrder(s)'
  BY <1>1, <1>2, <1>4, <1>5 DEF StreamOrder, TellsResult, ChannelTells
<1>7. \A r \in Streams \ {s} : stream'[r] = stream[r] /\ (r \in closed' => r \in closed)
  BY <1>2, <1>3
<1> QED
  BY <1>2, <1>4, <1>6, <1>7, OneStream

LEMMA DiesOrder ==
    ASSUME TypeInv, Orderly, Dies
    PROVE  Orderly'
<1>1. /\ UNCHANGED <<result, channel, closed, target, seen, terminals>>
      /\ run' = [t \in Tasks |-> IF run[t] = "none" THEN "none" ELSE "killed"]
      /\ stream' = [s \in Streams |->
                       IF stream[s] \in {"idle", "ended"} THEN stream[s] ELSE "gone"]
      /\ history' = [t \in Tasks |-> <<>>] /\ subscribers' = [t \in Tasks |-> {}]
      /\ sending' = [t \in Tasks |-> {}]
      /\ tasks' = tasks \/ tasks' = [t \in Tasks |-> "absent"]
  BY DEF Dies, ProcessDies, storeVars
<1>2. \A t \in Tasks : TaskOrder(t)'
  BY <1>1 DEF Orderly, TaskOrder, HistoryTells, Store!TerminalStatus
<1>3. \A s \in Streams : StreamOrder(s)'
  BY <1>1 DEF Orderly, StreamOrder, ChannelTells, TellsResult
<1> QED
  BY <1>2, <1>3 DEF Orderly

OutInv == TypeInv /\ (~Struck("disconnects") => Orderly)

LEMMA OutStep ==
    ASSUME ServiceAssumption, OutInv, [Next]_vars
    PROVE  OutInv'
<1> USE DEF OutInv
<1>1. TypeInv'
  BY TypeStep
<1>2. Struck("disconnects") => Struck("disconnects")'
  BY BudgetStep DEF TypeInv, Struck, BudgetOK, Hazards, ServiceAssumption
<1> SUFFICES ASSUME Orderly, ~Struck("disconnects")' PROVE Orderly'
  BY <1>1, <1>2
<1>3. ~Spend("disconnects")
  BY DEF TypeInv, BudgetOK, Spend, Struck, Hazards, ServiceAssumption
<1>4. ASSUME NEW t \in Tasks, Sends(t) \/ \E s \in Streams : AnnouncePanics(t, s)
      PROVE  Orderly'
  BY <1>4, NoPanics, SendOrder DEF Sends, RunPanics, PlannerPanics, AnnouncePanics
<1>5. ASSUME NEW s \in Streams, Elsewhere(s)
      PROVE  Orderly'
  BY <1>3, <1>5, ConnectOrder, ReplayOrder, SubscribeOrder, ReadOrder, CloseOrder
     DEF Elsewhere, Disconnect
<1>6. ASSUME NEW h \in Hashes, LockExpires(h)
      PROVE  UNCHANGED <<run, result, tasks, busVars, streamVars>>
  BY <1>6 DEF LockExpires, runVars, storeVars
<1>7. UNCHANGED vars => UNCHANGED <<run, result, tasks, busVars, streamVars>>
  BY DEF vars, runVars, storeVars
<1> QED
  BY <1>4, <1>5, <1>6, <1>7, StepKinds, CallOrder, RunOrder, DiesOrder, OrderStays

LEMMA OutInvariant == Spec => []OutInv
<1>1. Init => OutInv
  <2> SUFFICES ASSUME Init PROVE OutInv
    OBVIOUS
  <2>1. \A t \in Tasks : TaskOrder(t)
    BY DEF Init, Store!StoreInit, Bus!BusInit, TaskOrder, HistoryTells, Store!TerminalStatus
  <2>2. \A s \in Streams : StreamOrder(s)
    BY DEF Init, Bus!BusInit, StreamOrder, ChannelTells, NoEnds
  <2> QED
    BY <2>1, <2>2, TypeStart, ServiceAssumption DEF OutInv, Orderly
<1>2. OutInv /\ [Next]_vars => OutInv'
  BY OutStep, ServiceAssumption
<1> QED
  BY <1>1, <1>2, PTL DEF Spec

\* As long as no client leaves, every stream that ends has told its client one
\* outcome, however subscriptions, sends, reads and replays interleave, whatever
\* fails and whenever the process crashes (StreamPlan, replayHistory).
THEOREM StreamsTellOneOutcome == Spec => []OneTerminalEvent
<1>1. OutInv => OneTerminalEvent
  BY DEF OutInv, Orderly, StreamOrder, OneTerminalEvent
<1> QED
  BY <1>1, OutInvariant, PTL

\* And it is the outcome stored for the task, once one is stored.
THEOREM StreamsTellWhatIsStored == Spec => []ToldOutcomeIsStored
<1>1. OutInv => ToldOutcomeIsStored
  <2> SUFFICES ASSUME OutInv, ~Struck("disconnects"), NEW s \in Streams,
                      NEW i \in 1 .. Len(terminals[s]),
                      tasks[target[s]] \in Store!TerminalStatus
               PROVE  terminals[s][i] = OutcomeOf(tasks[target[s]])
    BY DEF ToldOutcomeIsStored
  <2>1. StreamOrder(s) /\ TellsResult(s, terminals[s][i])
    BY DEF OutInv, Orderly, StreamOrder
  <2>2. stream[s] # "idle"
    BY <2>1 DEF StreamOrder
  <2>3. target[s] \in Tasks
    BY <2>2 DEF OutInv, TypeInv, TargetOK
  <2>4. tasks[target[s]] = result[target[s]]
    BY <2>3 DEF OutInv, Orderly, TaskOrder
  <2> QED
    BY <2>1, <2>4 DEF TellsResult
<1> QED
  BY <1>1, OutInvariant, PTL

-----------------------------------------------------------------------------
(* What the bus delivers, in the service                                   *)

\* A dying process is no operation of the bus: it leaves open channels that
\* nobody is registered with any more.  What was proved of the operations still
\* applies, because the connections that read are registered (InMaps).

Delivery == INSTANCE EventBus_proofs WITH
                Subscribers <- Streams, EventTypes <- {"progress", "done", "error"}

\* A connection that has subscribed is in the map of its task.
InMaps ==
    \A s \in Streams :
        stream[s] \in {"reading", "closing", "leaving"} => s \in subscribers[target[s]]

DeliveryInv == TargetOK /\ InMaps /\ Delivery!BusInv

BusDelivers == Bus!HistoryIsTail /\ Bus!DeliveryOrdered /\ Bus!NoGapNoDuplicate

\* What a connection reads is always newer than what it has read.
ConnectionsAdvance == [][\A s \in Streams : Read(s) => lastRead'[s] > lastRead[s]]_vars

LEMMA InMapsStep ==
    ASSUME DeliveryInv, [Next]_vars
    PROVE  InMaps'
<1>0. subscribers \in [Tasks -> SUBSET Streams] /\ TargetOK /\ InMaps
  BY DEF DeliveryInv, Delivery!BusInv, Delivery!BusTypeOK
<1>1. CASE UNCHANGED <<stream, target, subscribers>>
  BY <1>0, <1>1 DEF InMaps
<1>2. ASSUME NEW s \in Streams, Elsewhere(s)
      PROVE  InMaps'
  <2>1. CASE Replay(s) \/ (\E t \in Tasks : Connect(s, t))
    <3>1. /\ subscribers' = subscribers
          /\ stream'[s] \notin {"reading", "closing", "leaving"}
          /\ \A x \in Streams : x # s => stream'[x] = stream[x] /\ target'[x] = target[x]
      BY <1>0, <2>1 DEF Replay, Connect, StreamMoves, busVars, TargetOK
    <3> QED
      BY <1>0, <3>1 DEF InMaps
  <2>2. CASE SubscribeStream(s)
    <3>1. target[s] \in Tasks
      BY <1>0, <2>2 DEF SubscribeStream, StreamMoves, TargetOK
    <3>2. /\ target' = target
          /\ subscribers' = [subscribers EXCEPT ![target[s]] = @ \cup {s}]
          /\ \A x \in Streams : x # s => stream'[x] = stream[x]
      BY <1>0, <2>2 DEF SubscribeStream, StreamMoves, Bus!Subscribe, TargetOK
    <3>3. s \in subscribers'[target[s]]
      BY <1>0, <3>1, <3>2
    <3>4. \A t \in Tasks : subscribers[t] \subseteq subscribers'[t]
      BY <1>0, <3>1, <3>2
    <3>5. \A x \in Streams : stream[x] # "idle" => target[x] \in Tasks
      BY <1>0 DEF TargetOK
    <3> QED
      BY <1>0, <3>2, <3>3, <3>4, <3>5 DEF InMaps
  <2>3. CASE Read(s) \/ Disconnect(s)
    <3>1. /\ subscribers' = subscribers /\ target' = target
          /\ stream[s] = "reading"
          /\ \A x \in Streams : x # s => stream'[x] = stream[x]
      BY <1>0, <2>3 DEF Read, Disconnect, StreamMoves, Bus!Receive, busVars, TargetOK
    <3> QED
      BY <1>0, <3>1 DEF InMaps
  <2>4. CASE CloseStream(s)
    <3>1. target[s] \in Tasks
      BY <1>0, <2>4 DEF CloseStream, StreamMoves, TargetOK
    <3>2. /\ target' = target
          /\ subscribers' = [subscribers EXCEPT ![target[s]] = @ \ {s}]
          /\ stream'[s] \in {"ended", "gone"}
          /\ \A x \in Streams : x # s => stream'[x] = stream[x]
      BY <1>0, <2>4 DEF CloseStream, StreamMoves, Bus!Unsubscribe, TargetOK
    <3>3. \A t \in Tasks : subscribers[t] \ {s} \subseteq subscribers'[t]
      BY <1>0, <3>1, <3>2
    <3>4. \A x \in Streams : stream[x] # "idle" => target[x] \in Tasks
      BY <1>0 DEF TargetOK
    <3> QED
      BY <1>0, <3>2, <3>3, <3>4 DEF InMaps
  <2> QED
    BY <1>2, <2>1, <2>2, <2>3, <2>4 DEF Elsewhere
<1>3. CASE Dies
  BY <1>0, <1>3 DEF Dies, ProcessDies, InMaps, TargetOK
<1>4. ASSUME NEW c \in Tasks,
             CallStep(c) \/ RunStep(c) \/ Sends(c) \/ \E s \in Streams : AnnouncePanics(c, s)
      PROVE  UNCHANGED <<stream, target, subscribers>>
  BY <1>4 DEF CallStep, Admit, Deny, LockAcquired, LockBusy, LockFails, WaitFinds, WaitGivesUp,
     LookupFinds, LookupMisses, CreateStores, CreateFails, Recheck, Announce, StartRun, Unlock,
     RunStep, MarkRunning, AnnounceRunning, PlannerReports, PlannerReturns, SaveResult,
     RecoverSave, RecoverPublish, RecoverReturns, Sends, SendNext, RunPanics, PlannerPanics,
     AnnouncePanics, streamVars, busVars, Bus!Publish, Bus!Deliver, Bus!Drop, Bus!SendOnClosed
<1>5. ASSUME NEW h \in Hashes, LockExpires(h)
      PROVE  UNCHANGED <<stream, target, subscribers>>
  BY <1>5 DEF LockExpires, streamVars, busVars
<1>6. UNCHANGED vars => UNCHANGED <<stream, target, subscribers>>
  BY DEF vars, streamVars, busVars
<1> QED
  BY <1>1, <1>2, <1>3, <1>4, <1>5, <1>6, StepKinds

\* After its death a process has no history and nobody to send to.
LEMMA BusDies ==
    ASSUME Delivery!BusInv, Dies
    PROVE  Delivery!BusInv'
<1>1. /\ sequences' = [t \in Tasks |-> 0] /\ history' = [t \in Tasks |-> <<>>]
      /\ subscribers' = [t \in Tasks |-> {}] /\ sending' = [t \in Tasks |-> {}]
      /\ UNCHANGED <<channel, capacity, closed, lastRead, missed>>
  BY DEF Dies, ProcessDies
<1>2. Delivery!BusTypeOK'
  BY <1>1 DEF Delivery!BusInv, Delivery!BusTypeOK
<1>3. Delivery!Registered'
  BY <1>1 DEF Delivery!BusInv, Delivery!Registered
<1>4. Delivery!HistoryIsTail'
  BY <1>1, ServiceAssumption DEF Delivery!HistoryIsTail, ServiceAssumption
<1>5. Delivery!DeliveryOrdered' /\ Delivery!NoGapNoDuplicate'
  BY <1>1 DEF Delivery!DeliveryOrdered, Delivery!NoGapNoDuplicate
<1> QED
  BY <1>2, <1>3, <1>4, <1>5 DEF Delivery!BusInv

LEMMA BusKept ==
    Delivery!BusInv /\ UNCHANGED busVars => Delivery!BusInv'
BY DEF busVars, Delivery!BusInv, Delivery!BusTypeOK, Delivery!Registered, Delivery!HistoryIsTail,
   Delivery!DeliveryOrdered, Delivery!Rising, Delivery!NoGapNoDuplicate, Delivery!Complete

\* A connection that reads is registered, so it reads a newer event.
LEMMA ReadAdvances ==
    ASSUME DeliveryInv, NEW s \in Streams, stream[s] = "reading", Bus!Receive(s)
    PROVE  Delivery!BusInv' /\ lastRead'[s] > lastRead[s]
<1>1. target[s] \in Tasks /\ s \in subscribers[target[s]]
  BY DEF DeliveryInv, TargetOK, InMaps
<1>2. Delivery!Receive(s)
  BY DEF Bus!Receive, Delivery!Receive
<1>3. Delivery!BusAssumption
  BY ServiceAssumption DEF ServiceAssumption, Delivery!BusAssumption
<1> QED
  BY <1>1, <1>2, <1>3, Delivery!ReceiveStep, Zenon DEF DeliveryInv

LEMMA DeliveryStep ==
    ASSUME DeliveryInv, [Next]_vars
    PROVE  DeliveryInv'
<1>0. Delivery!BusAssumption
  BY ServiceAssumption DEF ServiceAssumption, Delivery!BusAssumption
<1>1. TargetOK' /\ InMaps'
  BY TargetStep, InMapsStep DEF DeliveryInv
<1>2. ASSUME NEW t \in Tasks, NEW type \in {"progress", "done", "error"}, Bus!Publish(t, type)
      PROVE  Delivery!BusInv'
  <2>1. Delivery!Publish(t, type)
    BY <1>2 DEF Bus!Publish, Delivery!Publish, Bus!Trim, Delivery!Trim
  <2> QED
    BY <1>0, <2>1, Delivery!PublishStep, Zenon DEF DeliveryInv
<1>3. ASSUME NEW t \in Tasks, NEW s \in Streams,
             Bus!Deliver(t, s) \/ Bus!Drop(t, s) \/ Bus!SendOnClosed(t, s)
      PROVE  Delivery!BusInv'
  <2>1. Delivery!Deliver(t, s) \/ Delivery!Drop(t, s) \/ Delivery!SendOnClosed(t, s)
    BY <1>3 DEF Bus!Deliver, Delivery!Deliver, Bus!InFlight, Delivery!InFlight,
       Bus!Drop, Delivery!Drop, Bus!SendOnClosed, Delivery!SendOnClosed
  <2> QED
    BY <1>0, <2>1, Delivery!DeliverStep, Delivery!DropStep, Delivery!SendOnClosedStep, Zenon
       DEF DeliveryInv
<1>4. ASSUME NEW s \in Streams, stream[s] = "subscribe", Bus!Subscribe(s, target[s])
      PROVE  Delivery!BusInv'
  <2>1. target[s] \in Tasks
    BY <1>4 DEF DeliveryInv, TargetOK
  <2>2. Delivery!Subscribe(s, target[s])
    BY <1>4 DEF Bus!Subscribe, Delivery!Subscribe, Bus!Preload, Delivery!Preload,
       Bus!InitialCapacity, Delivery!InitialCapacity
  <2> QED
    BY <1>0, <2>1, <2>2, Delivery!SubscribeStep, Zenon DEF DeliveryInv
<1>5. ASSUME NEW s \in Streams, stream[s] \in {"closing", "leaving"},
             Bus!Unsubscribe(s, target[s])
      PROVE  Delivery!BusInv'
  <2>1. target[s] \in Tasks
    BY <1>5 DEF DeliveryInv, TargetOK
  <2>2. Delivery!Unsubscribe(s, target[s])
    BY <1>5 DEF Bus!Unsubscribe, Delivery!Unsubscribe
  <2> QED
    BY <1>0, <2>1, <2>2, Delivery!UnsubscribeStep, Zenon DEF DeliveryInv
<1>6. ASSUME NEW s \in Streams, stream[s] = "reading", Bus!Receive(s)
      PROVE  Delivery!BusInv'
  BY <1>6, ReadAdvances
<1>7. UNCHANGED busVars \/ Dies => Delivery!BusInv'
  BY BusKept, BusDies DEF DeliveryInv
<1>8. Delivery!BusInv'
  BY <1>2, <1>3, <1>4, <1>5, <1>6, <1>7, StepsOfTheBus DEF BusKinds
<1> QED
  BY <1>1, <1>8 DEF DeliveryInv

LEMMA DeliveryInvariant == Spec => []DeliveryInv
<1>1. Init => DeliveryInv
  <2> SUFFICES ASSUME Init
               PROVE  DeliveryInv
    OBVIOUS
  <2>1. TargetOK
    BY TypeStart, ServiceAssumption DEF TypeInv
  <2>2. InMaps
    BY DEF Init, InMaps
  <2>3. Delivery!BusInv
    BY ServiceAssumption
       DEF ServiceAssumption, Init, Bus!BusInit, Delivery!BusInv, Delivery!BusTypeOK,
           Delivery!Registered, Delivery!HistoryIsTail, Delivery!DeliveryOrdered,
           Delivery!NoGapNoDuplicate
  <2> QED
    BY <2>1, <2>2, <2>3 DEF DeliveryInv
<1>2. DeliveryInv /\ [Next]_vars => DeliveryInv'
  BY DeliveryStep
<1> QED
  BY <1>1, <1>2, PTL DEF Spec

\* What is proved of the bus holds of it in the whole service, whichever panics,
\* departures and crashes interrupt it: the history is the newest events, each
\* connection is given them in order, and without gaps if its channel was never
\* full (Publish and Subscribe as CreateTask, runTask and StreamPlan call them).
THEOREM ServiceDelivers == Spec => []BusDelivers
<1>1. DeliveryInv => BusDelivers
  BY DEF DeliveryInv, Delivery!BusInv, BusDelivers,
     Bus!HistoryIsTail, Delivery!HistoryIsTail,
     Bus!DeliveryOrdered, Delivery!DeliveryOrdered, Bus!Rising, Delivery!Rising,
     Bus!NoGapNoDuplicate, Delivery!NoGapNoDuplicate, Bus!Complete, Delivery!Complete
<1> QED
  BY <1>1, DeliveryInvariant, PTL

\* No client is sent an event twice or an older one after a newer one, whatever
\* happens to the service (the loop of StreamPlan).
THEOREM ConnectionsReadForward == Spec => ConnectionsAdvance
<1>1. DeliveryInv /\ [Next]_vars =>
          [\A s \in Streams : Read(s) => lastRead'[s] > lastRead[s]]_vars
  BY ReadAdvances DEF Read
<1> QED
  BY <1>1, DeliveryInvariant, PTL DEF Spec, ConnectionsAdvance
=============================================================================
