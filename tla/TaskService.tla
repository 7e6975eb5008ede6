---------------------------- MODULE TaskService ----------------------------
(***************************************************************************)
(* The task service of src/internal/travel: CreateTask calls, the runTask  *)
(* goroutine each of them may start, and StreamPlan connections, over one  *)
(* task store, one request-hash lock and one event bus.                    *)
(*                                                                         *)
(* A CreateTask call draws a fresh task id (newTaskID), so a call and the  *)
(* task it may create share a name: Tasks is the set of calls.  An action  *)
(* is the code between two points where another goroutine can run in a way *)
(* that matters: a store, lock or bus operation, or one channel send.      *)
(*                                                                         *)
(* What can go wrong outside the code is drawn from a budget: failing      *)
(* store, lock or Redis calls, lock holders slower than the waiters'       *)
(* deadline, elapsed lock TTLs, clients that disconnect, process crashes.  *)
(***************************************************************************)
EXTENDS Naturals, Sequences, FiniteSets, Lists

CONSTANTS
    Tasks, Streams, Hashes, HashOf, NoTask,
    StoreKind,      \* "memory", "redis" or "mysql"
    LockKind,       \* "memory" or "redis"
    HistoryLimit, ChannelSlack,
    MaxEvents,      \* bound: a planner reports while its task has fewer
    Budget          \* bound: how often each hazard strikes

Hazards == {"faults", "slowHolders", "expiries", "disconnects", "crashes"}

ASSUME ServiceAssumption ==
    /\ HashOf \in [Tasks -> Hashes]
    /\ NoTask \notin Tasks
    /\ StoreKind \in {"memory", "redis", "mysql"}
    /\ LockKind \in {"memory", "redis"}
    /\ HistoryLimit \in Nat \ {0}
    /\ ChannelSlack \in Nat \ {0}
    /\ MaxEvents \in Nat
    /\ Budget \in [Hazards -> Nat]

VARIABLES
    \* the task store, the lock and the bus
    tasks, hashToID, lockOwner, holds, leased,
    sequences, history, subscribers, channel, capacity, closed, sending,
    lastRead, missed,
    \* the service and its clients
    call,           \* call[c]: where the CreateTask call c is
    reply,          \* reply[c]: the task id answered, NoTask for an error
    run,            \* run[t]: where the runTask goroutine of t is
    result,         \* result[t]: the status in that goroutine's own copy
    stream,         \* stream[s]: where the StreamPlan connection s is
    target,         \* target[s]: its task
    seen,           \* seen[s]: the status GetTask gave it
    terminals,      \* terminals[s]: the done and error events sent to it
    budget          \* budget[k]: how often hazard k may still strike

storeVars == <<tasks, hashToID>>
lockVars == <<lockOwner, holds, leased>>
busVars == <<sequences, history, subscribers, channel, capacity, closed,
             sending, lastRead, missed>>
callVars == <<call, reply>>
runVars == <<run, result>>
streamVars == <<stream, target, seen, terminals>>
vars == <<storeVars, lockVars, busVars, callVars, runVars, streamVars, budget>>

Store == INSTANCE TaskStore WITH UniqueHash <- StoreKind = "mysql"
Lock == INSTANCE RequestLock
Bus == INSTANCE EventBus WITH
           Subscribers <- Streams, EventTypes <- {"progress", "done", "error"}

Durable == StoreKind # "memory"

Init ==
    /\ Store!StoreInit /\ Lock!LockInit /\ Bus!BusInit
    /\ call = [c \in Tasks |-> "start"]
    /\ reply = [c \in Tasks |-> NoTask]
    /\ run = [t \in Tasks |-> "none"]
    /\ result = [t \in Tasks |-> "pending"]
    /\ stream = [s \in Streams |-> "idle"]
    /\ target = [s \in Streams |-> NoTask]
    /\ seen = [s \in Streams |-> "absent"]
    /\ terminals = [s \in Streams |-> <<>>]
    /\ budget = Budget

\* A hazard strikes, or does not.
Spend(k) == budget[k] > 0 /\ budget' = [budget EXCEPT ![k] = @ - 1]
NoHazard == UNCHANGED budget

-----------------------------------------------------------------------------
(* CreateTask                                                              *)

CallMoves(c, from, to) == call[c] = from /\ call' = [call EXCEPT ![c] = to]

Answer(c, t) == reply' = [reply EXCEPT ![c] = t]
NoAnswer == UNCHANGED reply

\* The request is valid and the rate limiter lets it pass, or fails open.
Admit(c) ==
    /\ CallMoves(c, "start", "lock")
    /\ NoAnswer /\ NoHazard
    /\ UNCHANGED <<storeVars, lockVars, busVars, runVars, streamVars>>

\* The request is refused by validation or by the rate limiter.
Deny(c) ==
    /\ CallMoves(c, "start", "denied")
    /\ NoAnswer /\ NoHazard
    /\ UNCHANGED <<storeVars, lockVars, busVars, runVars, streamVars>>

LockAcquired(c) ==
    /\ CallMoves(c, "lock", "lookup")
    /\ Lock!Acquire(c)
    /\ NoAnswer /\ NoHazard
    /\ UNCHANGED <<storeVars, busVars, runVars, streamVars>>

LockBusy(c) ==
    /\ CallMoves(c, "lock", "wait")
    /\ ~Lock!LockFree(c)
    /\ NoAnswer /\ NoHazard
    /\ UNCHANGED <<storeVars, lockVars, busVars, runVars, streamVars>>

\* Acquire returns an error: the call goes on without the lock.
LockFails(c) ==
    /\ CallMoves(c, "lock", "lookup")
    /\ Lock!AcquireLost(c) \/ UNCHANGED lockVars
    /\ Spend("faults") /\ NoAnswer
    /\ UNCHANGED <<storeVars, busVars, runVars, streamVars>>

\* waitForExistingTask polls the store and finds the task.
WaitFinds(c) ==
    /\ CallMoves(c, "wait", "answered")
    /\ Store!FindByHash(c) # NoTask
    /\ Answer(c, Store!FindByHash(c)) /\ NoHazard
    /\ UNCHANGED <<storeVars, lockVars, busVars, runVars, streamVars>>

\* Faulty variant: a wait without a deadline.
WaitForever(c) ==
    /\ CallMoves(c, "wait", "lookup")
    /\ Spend("faults") /\ NoAnswer
    /\ UNCHANGED <<storeVars, lockVars, busVars, runVars, streamVars>>

\* The call that owns the lock is still inside its critical section.
HolderAtWork(c) == lockOwner[HashOf[c]] \in holds

\* The deadline of the wait passes, or the poll fails.  The call goes on as if
\* it held the lock, with the no-op unlock.  A holder that is still at work
\* when the deadline passes is a slow one.
WaitGivesUp(c) ==
    /\ CallMoves(c, "wait", "lookup")
    /\ \/ /\ Store!FindByHash(c) = NoTask
          /\ IF HolderAtWork(c) THEN Spend("slowHolders") ELSE NoHazard
       \/ Spend("faults")
    /\ NoAnswer
    /\ UNCHANGED <<storeVars, lockVars, busVars, runVars, streamVars>>

\* The second lookup, under the lock if the call has it.
LookupFinds(c) ==
    /\ CallMoves(c, "lookup", "release")
    /\ Store!FindByHash(c) # NoTask
    /\ Answer(c, Store!FindByHash(c)) /\ NoHazard
    /\ UNCHANGED <<storeVars, lockVars, busVars, runVars, streamVars>>

\* It finds nothing, or fails and is only logged.
LookupMisses(c) ==
    /\ CallMoves(c, "lookup", "create")
    /\ \/ Store!FindByHash(c) = NoTask /\ NoHazard
       \/ Spend("faults")
    /\ NoAnswer
    /\ UNCHANGED <<storeVars, lockVars, busVars, runVars, streamVars>>

CreateStores(c) ==
    /\ CallMoves(c, "create", "announce")
    /\ Store!Create(c)
    /\ NoAnswer /\ NoHazard
    /\ UNCHANGED <<lockVars, busVars, runVars, streamVars>>

\* Create returns an error: the hash is taken, the operation failed, or only
\* its confirmation was lost (a remote store).
CreateFails(c) ==
    /\ CallMoves(c, "create", "recheck")
    /\ \/ ~Store!CreateAllowed(c) /\ NoHazard /\ UNCHANGED storeVars
       \/ Spend("faults") /\ UNCHANGED storeVars
       \/ Durable /\ Spend("faults") /\ Store!Create(c)
    /\ NoAnswer
    /\ UNCHANGED <<lockVars, busVars, runVars, streamVars>>

\* The lookup after a failed Create: a task found is answered, otherwise the
\* call fails with the error of Create.
Recheck(c) ==
    /\ CallMoves(c, "recheck", "release")
    /\ \/ Answer(c, Store!FindByHash(c)) /\ NoHazard
       \/ NoAnswer /\ Spend("faults")
    /\ UNCHANGED <<storeVars, lockVars, busVars, runVars, streamVars>>

\* "task created" is published by the call itself ...
Announce(c) ==
    /\ CallMoves(c, "announce", "announcing")
    /\ Bus!Publish(c, "progress")
    /\ NoAnswer /\ NoHazard
    /\ UNCHANGED <<storeVars, lockVars, runVars, streamVars>>

\* ... and only then the goroutine is started.
StartRun(c) ==
    /\ CallMoves(c, "announcing", "release")
    /\ sending[c] = {}
    /\ run' = [run EXCEPT ![c] = "start"]
    /\ Answer(c, c) /\ NoHazard
    /\ UNCHANGED <<storeVars, lockVars, busVars, result, streamVars>>

\* The deferred release: the unlock function, which may fail, or the no-op.
Unlock(c) ==
    /\ CallMoves(c, "release", "answered")
    /\ \/ c \in holds /\ Lock!Release(c) /\ NoHazard
       \/ c \in holds /\ Lock!ReleaseLost(c) /\ Spend("faults")
       \/ c \notin holds /\ UNCHANGED lockVars /\ NoHazard
    /\ NoAnswer
    /\ UNCHANGED <<storeVars, busVars, runVars, streamVars>>

LockExpires(h) ==
    /\ Lock!Expire(h)
    /\ Spend("expiries")
    /\ UNCHANGED <<storeVars, busVars, callVars, runVars, streamVars>>

-----------------------------------------------------------------------------
(* runTask                                                                 *)

RunMoves(t, from, to) == run[t] = from /\ run' = [run EXCEPT ![t] = to]

\* The task is stored as running; if that fails the goroutine returns at once.
MarkRunning(t) ==
    /\ \/ RunMoves(t, "start", "announce") /\ Store!Update(t, "running") /\ NoHazard
       \/ RunMoves(t, "start", "over") /\ UNCHANGED storeVars /\ Spend("faults")
       \/ /\ Durable
          /\ RunMoves(t, "start", "over") /\ Store!Update(t, "running") /\ Spend("faults")
    /\ UNCHANGED <<lockVars, busVars, callVars, result, streamVars>>

AnnounceRunning(t) ==
    /\ RunMoves(t, "announce", "planning")
    /\ Bus!Publish(t, "progress")
    /\ NoHazard
    /\ UNCHANGED <<storeVars, lockVars, callVars, result, streamVars>>

\* An event that does not end the task: node and business events and deltas of
\* the planner, the warnings and the summary of its plan.
PlannerReports(t) ==
    /\ run[t] = "planning"
    /\ sequences[t] < MaxEvents
    /\ Bus!Publish(t, "progress")
    /\ NoHazard
    /\ UNCHANGED <<storeVars, lockVars, callVars, runVars, streamVars>>

\* Faulty variant: the result is stored before it is published.
StoreThenPublish(t, status) ==
    /\ RunMoves(t, "planning", "finishing")
    /\ result' = [result EXCEPT ![t] = status]
    /\ Store!Update(t, status)
    /\ Bus!Publish(t, IF status = "succeeded" THEN "done" ELSE "error")
    /\ NoHazard
    /\ UNCHANGED <<lockVars, callVars, streamVars>>

\* The planner is done: its outcome is published first and stored afterwards.
PlannerReturns(t, status) ==
    /\ RunMoves(t, "planning", "finishing")
    /\ result[t] = "failed" => status = "failed"
    /\ result' = [result EXCEPT ![t] = status]
    /\ Bus!Publish(t, IF status = "succeeded" THEN "done" ELSE "error")
    /\ NoHazard
    /\ UNCHANGED <<storeVars, lockVars, callVars, streamVars>>

SaveResult(t) ==
    /\ RunMoves(t, "finishing", "over")
    /\ sending[t] = {}
    /\ \/ Store!Update(t, result[t]) /\ NoHazard
       \/ UNCHANGED storeVars /\ Spend("faults")
    /\ UNCHANGED <<lockVars, busVars, callVars, result, streamVars>>

\* Faulty variant: the recovery only publishes.
RecoverUnsaved(t) ==
    /\ RunMoves(t, "recovering", "recovered")
    /\ NoHazard
    /\ UNCHANGED <<storeVars, lockVars, busVars, callVars, result, streamVars>>

\* The deferred recovery: stored as failed first, published afterwards.
RecoverSave(t) ==
    /\ RunMoves(t, "recovering", "recovered")
    /\ \/ Store!Update(t, "failed") /\ NoHazard
       \/ UNCHANGED storeVars /\ Spend("faults")
    /\ UNCHANGED <<lockVars, busVars, callVars, result, streamVars>>

RecoverPublish(t) ==
    /\ RunMoves(t, "recovered", "closing")
    /\ Bus!Publish(t, "error")
    /\ NoHazard
    /\ UNCHANGED <<storeVars, lockVars, callVars, result, streamVars>>

RecoverReturns(t) ==
    /\ RunMoves(t, "closing", "over")
    /\ sending[t] = {}
    /\ NoHazard
    /\ UNCHANGED <<storeVars, lockVars, busVars, callVars, result, streamVars>>

-----------------------------------------------------------------------------
(* The process: sends of the publishing goroutines, panics, crashes        *)

\* All that is not stored elsewhere is gone; calls and connections break off.
ProcessDies ==
    /\ call' = [c \in Tasks |->
                   IF call[c] \in {"start", "answered", "denied"}
                   THEN call[c] ELSE "aborted"]
    /\ run' = [t \in Tasks |-> IF run[t] = "none" THEN "none" ELSE "killed"]
    /\ stream' = [s \in Streams |->
                     IF stream[s] \in {"idle", "ended"} THEN stream[s] ELSE "gone"]
    /\ sequences' = [t \in Tasks |-> 0]
    /\ history' = [t \in Tasks |-> <<>>]
    /\ subscribers' = [t \in Tasks |-> {}]
    /\ sending' = [t \in Tasks |-> {}]
    /\ holds' = {}
    /\ IF LockKind = "memory"
       THEN lockOwner' = [h \in Hashes |-> NoTask] /\ leased' = {}
       ELSE UNCHANGED <<lockOwner, leased>>
    /\ IF Durable
       THEN UNCHANGED storeVars
       ELSE /\ tasks' = [t \in Tasks |-> "absent"]
            /\ hashToID' = [h \in Hashes |-> NoTask]
    /\ UNCHANGED <<channel, capacity, closed, lastRead, missed,
                   reply, result, target, seen, terminals>>

Crash == Spend("crashes") /\ ProcessDies

SendNext(t, s) ==
    /\ Bus!Deliver(t, s) \/ Bus!Drop(t, s)
    /\ NoHazard
    /\ UNCHANGED <<storeVars, lockVars, callVars, runVars, streamVars>>

\* A send panics in CreateTask: the deferred release runs, the recovery of the
\* HTTP server answers an error, the goroutine is never started.
AnnouncePanics(c, s) ==
    /\ CallMoves(c, "announcing", "release")
    /\ Bus!SendOnClosed(c, s)
    /\ NoAnswer /\ NoHazard
    /\ UNCHANGED <<storeVars, lockVars, runVars, streamVars>>

\* A send panics in runTask: the deferred recovery takes over.
RunPanics(t, s) ==
    /\ \/ RunMoves(t, "planning", "recovering")
       \/ RunMoves(t, "finishing", "recovering")
    /\ Bus!SendOnClosed(t, s)
    /\ NoHazard
    /\ UNCHANGED <<storeVars, lockVars, callVars, result, streamVars>>

\* A send panics under the planner, whose graph engine turns the panic of a
\* node into an error that Plan returns.
PlannerPanics(t, s) ==
    /\ run[t] = "planning"
    /\ Bus!SendOnClosed(t, s)
    /\ result' = [result EXCEPT ![t] = "failed"]
    /\ NoHazard
    /\ UNCHANGED <<storeVars, lockVars, callVars, run, streamVars>>

\* A send panics in the deferred recovery: nothing recovers it.
RecoveryPanics(t, s) ==
    /\ run[t] = "closing"
    /\ s \in sending[t] \cap closed
    /\ NoHazard
    /\ ProcessDies

-----------------------------------------------------------------------------
(* StreamPlan                                                              *)

StreamMoves(s, from, to) ==
    stream[s] = from /\ stream' = [stream EXCEPT ![s] = to]

\* A client asks for the stream of a task it was answered; GetTask is read.
Connect(s, t) ==
    /\ \E c \in Tasks : call[c] = "answered" /\ reply[c] = t
    /\ target' = [target EXCEPT ![s] = t]
    /\ seen' = [seen EXCEPT ![s] = tasks[t]]
    /\ \/ tasks[t] = "absent" /\ StreamMoves(s, "idle", "gone")
       \/ tasks[t] \in Store!TerminalStatus /\ StreamMoves(s, "idle", "replay")
       \/ tasks[t] \in {"pending", "running"} /\ StreamMoves(s, "idle", "subscribe")
    /\ NoHazard
    /\ UNCHANGED <<storeVars, lockVars, busVars, callVars, runVars, terminals>>

\* The done and error events among those of a history.
Outcomes(events) == KeptIn([i \in DOMAIN events |-> events[i].type], {"done", "error"})

\* Faulty variants: every finished task is reported as done; the made up
\* outcome is sent whatever the history holds.
AlwaysDone(status) == "done"
ToldTwice(kept, status) ==
    Append(kept, IF status = "succeeded" THEN "done" ELSE "error")

OutcomeOf(status) == IF status = "succeeded" THEN "done" ELSE "error"

\* An outcome is made up from the stored status if the history has none.
Told(kept, status) == IF kept = <<>> THEN <<OutcomeOf(status)>> ELSE kept

\* A finished task: its history is replayed.
Replay(s) ==
    /\ StreamMoves(s, "replay", "ended")
    /\ terminals' = [terminals EXCEPT ![s] =
                        Told(Outcomes(history[target[s]]), seen[s])]
    /\ NoHazard
    /\ UNCHANGED <<storeVars, lockVars, busVars, callVars, runVars, target, seen>>

SubscribeStream(s) ==
    /\ StreamMoves(s, "subscribe", "reading")
    /\ Bus!Subscribe(s, target[s])
    /\ NoHazard
    /\ UNCHANGED <<storeVars, lockVars, callVars, runVars, target, seen, terminals>>

\* One event is taken from the channel and written; an outcome ends the loop.
Read(s) ==
    /\ stream[s] = "reading"
    /\ Bus!Receive(s)
    /\ LET type == Head(channel[s]).type
       IN IF type \in {"done", "error"}
          THEN /\ StreamMoves(s, "reading", "closing")
               /\ terminals' = [terminals EXCEPT ![s] = Append(@, type)]
          ELSE UNCHANGED <<stream, terminals>>
    /\ NoHazard
    /\ UNCHANGED <<storeVars, lockVars, callVars, runVars, target, seen>>

\* The request context is done: the client went away.
Disconnect(s) ==
    /\ StreamMoves(s, "reading", "leaving")
    /\ Spend("disconnects")
    /\ UNCHANGED <<storeVars, lockVars, busVars, callVars, runVars, target, seen,
                   terminals>>

\* The deferred unsubscribe.
CloseStream(s) ==
    /\ \/ StreamMoves(s, "closing", "ended")
       \/ StreamMoves(s, "leaving", "gone")
    /\ Bus!Unsubscribe(s, target[s])
    /\ NoHazard
    /\ UNCHANGED <<storeVars, lockVars, callVars, runVars, target, seen, terminals>>

-----------------------------------------------------------------------------

CallStep(c) ==
    \/ Admit(c) \/ Deny(c)
    \/ LockAcquired(c) \/ LockBusy(c) \/ LockFails(c)
    \/ WaitFinds(c) \/ WaitGivesUp(c)
    \/ LookupFinds(c) \/ LookupMisses(c)
    \/ CreateStores(c) \/ CreateFails(c) \/ Recheck(c)
    \/ Announce(c) \/ StartRun(c) \/ Unlock(c)

RunStep(t) ==
    \/ MarkRunning(t) \/ AnnounceRunning(t)
    \/ PlannerReports(t)
    \/ \E status \in Store!TerminalStatus : PlannerReturns(t, status)
    \/ SaveResult(t)
    \/ RecoverSave(t) \/ RecoverPublish(t) \/ RecoverReturns(t)

SendStep(t) ==
    \E s \in Streams :
        \/ SendNext(t, s)
        \/ AnnouncePanics(t, s) \/ RunPanics(t, s) \/ PlannerPanics(t, s)
        \/ RecoveryPanics(t, s)

StreamStep(s) == Replay(s) \/ SubscribeStream(s) \/ Read(s) \/ CloseStream(s)

Next ==
    \/ \E c \in Tasks : CallStep(c) \/ RunStep(c) \/ SendStep(c)
    \/ \E s \in Streams :
          \/ StreamStep(s) \/ Disconnect(s)
          \/ \E t \in Tasks : Connect(s, t)
    \/ \E h \in Hashes : LockExpires(h)
    \/ Crash

Spec == Init /\ [][Next]_vars

\* Goroutines that can go on do so: the Go scheduler runs every runnable one,
\* the sends of a Publish are non-blocking and a planner gives up in the end.
\* Nothing makes a client connect, read late or leave, and no hazard strikes
\* because it could.
Fairness ==
    /\ \A t \in Tasks :
          /\ WF_vars(CallStep(t) /\ call[t] # "start")
          /\ WF_vars(RunStep(t))
          /\ WF_vars(SendStep(t))
    /\ \A s \in Streams : WF_vars(StreamStep(s))

FairSpec == Spec /\ Fairness

-----------------------------------------------------------------------------
(* Properties                                                              *)

CallStates == {"start", "lock", "wait", "lookup", "create", "recheck",
               "announce", "announcing", "release",
               "answered", "denied", "aborted"}
RunStates == {"none", "start", "announce", "planning", "finishing",
              "recovering", "recovered", "closing", "over", "killed"}
StreamStates == {"idle", "replay", "subscribe", "reading", "closing",
                 "leaving", "ended", "gone"}

\* Type invariant of the service and of the parts it drives.
TypeOK ==
    /\ Store!StoreTypeOK /\ Lock!LockTypeOK /\ Bus!BusTypeOK
    /\ call \in [Tasks -> CallStates]
    /\ reply \in [Tasks -> Tasks \cup {NoTask}]
    /\ run \in [Tasks -> RunStates]
    /\ result \in [Tasks -> Store!Status]
    /\ stream \in [Streams -> StreamStates]
    /\ target \in [Streams -> Tasks \cup {NoTask}]
    /\ seen \in [Streams -> Store!Status]
    /\ terminals \in [Streams -> Seq({"done", "error"})]
    /\ budget \in [Hazards -> Nat]

\* Identical requests share one task: the lookup of a second CreateTask, made
\* before, during or after the first, never ends in a second task.
OneTaskPerHash ==
    \A t, u \in Store!Stored : HashOf[t] = HashOf[u] => t = u

\* All callers that send the same request are answered the same task id, those
\* of an earlier process included, whichever lookups, locks and writes failed.
AnswersAgree ==
    \A c, d \in Tasks :
        /\ HashOf[c] = HashOf[d]
        /\ reply[c] # NoTask /\ reply[d] # NoTask
        => reply[c] = reply[d]

\* A stored outcome never changes: runTask and its recovery together write one
\* terminal status per task, in whichever step of it a panic strikes.
TerminalIsFinal ==
    [][\A t \in Tasks :
          tasks[t] \in Store!TerminalStatus => tasks'[t] = tasks[t]]_vars

\* Has hazard k struck so far?
Struck(k) == budget[k] < Budget[k]

\* When runTask has returned, by its end or by its recovery, what pollers of
\* the task see and what late subscribers get last tell the same outcome,
\* whoever left during whichever sends (a store that fails is excepted: the
\* code publishes all the same).
FinishedRunsAgree ==
    ~Struck("faults") => \A t \in Tasks :
        run[t] = "over" =>
            /\ tasks[t] \in Store!TerminalStatus
            /\ Bus!InFlight(t).type = OutcomeOf(tasks[t])

\* A stream that StreamPlan ended by itself told its client one outcome, be it
\* replayed, made up from the stored status, or read live.  A client that
\* leaves can break this: its panic adds an error to a done already sent.
OneTerminalEvent ==
    ~Struck("disconnects") =>
        \A s \in Streams : stream[s] = "ended" => Len(terminals[s]) = 1

\* The outcome a stream told is the one stored, once one is stored, with the
\* same exception.
ToldOutcomeIsStored ==
    ~Struck("disconnects") =>
        \A s \in Streams : \A i \in 1 .. Len(terminals[s]) :
            tasks[target[s]] \in Store!TerminalStatus =>
                terminals[s][i] = OutcomeOf(tasks[target[s]])

\* Whoever was sent "done" finds the finished plan in the store.
DoneMeansPersisted ==
    \A s \in Streams : \A i \in 1 .. Len(terminals[s]) :
        terminals[s][i] = "done" => tasks[target[s]] = "succeeded"

\* No client brings the process down by leaving: a goroutine is only ever
\* killed by a crash the environment causes (runTask recovers its panics).
ProcessSurvives ==
    ~Struck("crashes") => \A t \in Tasks : run[t] # "killed"

\* Every admitted CreateTask call returns: no wait for another call's lock or
\* task is endless, whatever became of that call.
CallsReturn ==
    \A c \in Tasks : call[c] = "lock" ~> call[c] \in {"answered", "aborted"}

\* The call that stored t panicked while it announced it, before it started the
\* goroutine: its caller is answered an error and it stays pending for good.
NeverStarted(t) ==
    call[t] = "answered" /\ reply[t] = NoTask /\ run[t] = "none"

\* A created task is run to an outcome that is stored, whoever leaves during
\* whichever sends of it, unless it is never started or the process ends:
\* nothing resumes it after that (checked where the store never fails).
TasksFinish ==
    \A t \in Tasks :
        tasks[t] = "pending" ~> \/ tasks[t] \in Store!TerminalStatus
                                \/ NeverStarted(t) \/ Struck("crashes")

\* A client that connects while its task is unfinished is told its outcome,
\* even if the task ends between GetTask and Subscribe, unless it leaves; only
\* a subscriber that lost an event to its own slowness, or the one of a task
\* that is never started, can be left waiting.
StreamsEnd ==
    \A s \in Streams :
        stream[s] = "subscribe" ~>
            \/ stream[s] \in {"ended", "gone"} \/ s \in missed
            \/ \E t \in Tasks : target[s] = t /\ NeverStarted(t)

\* Of the calls for one request at most one is within its lease, however late
\* the others release (defer release in CreateTask).
LeaseExclusive == Lock!LeaseExclusive

\* A call within its lease owns the lock.
LeaseOwnsLock == Lock!LeaseOwnsLock
=============================================================================
