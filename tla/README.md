# TRAVEL_AGENT: verification of the travel-planning server

TLA+ specifications of the travel-planning server (Go, `src/`), the TLC
configurations that check them on small instances, and TLAPS proofs of the
properties that hold for every value of the constants. Paths below are relative
to `src/` unless they name a module.

## 1. The system

A traveller first talks to a conversation that collects a brief. The browser then
posts the brief as a request. The service hashes it, finds or creates a task
for the hash, and runs a planner for it in a goroutine: a chain of nodes that asks
a map provider for places, weather and routes, drafts a plan and has a language
model write the final one. Progress goes through an
in-process event bus to any number of server-sent-event connections; the task's
status and plan go to a store. Users can register and keep, edit, publish and
copy the plans; readers of a public plan are counted.

| Component | State | Operations | Talks to | Modules |
|---|---|---|---|---|
| Event bus (`internal/travel/event_bus.go`) | per task: last sequence number, history of at most 100 events, set of channels | Publish, Subscribe, unsubscribe, History | publishers: `CreateTask`, `runTask`, planner; readers: `StreamPlan` | EventBus |
| Request-hash lock (`internal/travel/locks.go`) | owner and expiry per hash, in a map or in Redis | Acquire, the returned unlock | `CreateTask` | RequestLock |
| Task store (`internal/travel/task_store.go`, `mysql_task_store.go`) | task per id, task id per request hash | Create, Update, Get, FindByHash | service, handler, plan library | TaskStore |
| Task cache (`internal/travel/task_cache.go`) | finished tasks and task ids per hash, with a TTL | the store's operations, over an authority | task store, Redis | TaskCache, AtomicTaskStore |
| Task service and stream handler (`internal/travel/service.go`, `handler.go`) | the goroutines themselves | CreateTask, waitForExistingTask, runTask and its recovery, StreamPlan, GetPlan | everything above, planner, rate limiter | TaskService (partly) |
| Rate limiter (`internal/travel/rate_limiter.go`) | counter and window per client | Allow | CreateTask | RateLimiter |
| Request hash (`internal/travel/cache.go`) | none | RequestHashForUser | CreateTask | Conversation |
| Conversation (`internal/travel/service.go` Chat, ChatStream; `internal/agent/eino/chat.go`, `chat_stream.go`; `internal/domain/brief.go`) | the brief, kept by the browser | read a message, merge, normalise, reply | model calls | Conversation (partly) |
| Plan library (`internal/plans`) | private plans, their archives, public copies, counters, view de-duplication, audit events | Save, Rename, Edit, Delete, Publish, Unpublish, copy, list, view | task store, user store | PlanLibrary, PublicViews (partly) |
| Authentication (`internal/auth`) | accounts, sessions, cookies | Register, Login, Logout, Me, middleware | plan library, handler | Auth |
| Planner graph (`internal/agent/eino/graph.go`, `nodes.go`) | the state passed along a chain of nodes | nine nodes, validation | tool calls, plan generator | PlannerGraph, PlanTools |
| Plan generator (`internal/agent/eino/llm.go`, `llm_stream.go`, `summary_stream.go`, `json_parser.go`) | attempts, frames, what was spoken | Generate | model stream, event bus | PlanGenerator |
| Tool calls, external limiter (`internal/agent/eino/api_client.go`, `tools.go`, `tool_mode.go`, `real_*_tool.go`) | semaphore, next free slot | one HTTP call with limit and fallback | map provider | ExternalLimiter, PlanTools |
| Evaluation harness (`internal/harness`, `cmd/harness`) | worker pool, results | run cases, score, report | planner | HarnessRunner, PlanTools (partly) |
| Mock planner (`internal/agent`) | none | a fixed plan | task service in tests | - |
| Server wiring (`cmd/server`, `internal/server`, `internal/config`) | configuration | choose stores, lock, limiter; shut down | all | - |
| Web client (`web/src`) | stream state, last event | connect, de-duplicate, poll | HTTP API | - |
| Migrations (`migrations/mysql`) | schema | - | MySQL | - |

### Behaviours that are hard to test

* `Publish` numbers an event and stores it under the mutex, then sends it to a
  copy of the channel list *after* the unlock. A subscriber may arrive or leave
  between the two halves, and a channel closed in between makes the send panic.
* A full channel drops an event silently, the terminal one included.
* `CreateTask` looks up, locks, waits, looks up again and creates in separate
  steps; the wait ends after 500 ms and the call then goes on without the lock.
* Locks and cache entries expire by TTL while their owner is still at work;
  Redis replies get lost after the operation was executed.
* `runTask` publishes an outcome and then stores it; its recovery stores and
  then publishes, and can panic itself.
* `StreamPlan` reads the status first and subscribes later.
* The cached store makes one write to MySQL and two to Redis; any suffix may be
  missing, and a slow reader may write an old snapshot.
* The plan library writes a private and a public copy without a transaction.
* A registration writes account and session in two calls; a late reply changes the
  cookie of a browser that has signed in again meanwhile.
* The rate limiter in Redis sends EXPIRE as a second command; it may be lost, and so
  may the reply of the first, which lets the call through.
* A model's answer is spoken while it arrives, before it is known to be a plan; a
  failed attempt is repeated after a part of it was heard.
* The provider's limiter books a slot under a mutex with a clock read before it, and
  must give its semaphore's place back on every path.

`PROJECT.json` lists them under `hazards`, each at its line with the properties
that would catch it, or a note saying why none does.

### What makes each component correct

| Component | Properties |
|---|---|
| Event bus | the history is the newest events; a subscriber that keeps up gets every event once; order is kept for all; nobody blocks the mutex |
| Lock | no two callers of one hash are within their leases, however late an unlock arrives |
| Task store, service | identical requests share a task; all are answered the same id; an outcome is final; store and streams agree; every call and stream ends |
| Task cache | reads are as of one instant of the authority; cached outcomes are right |
| Rate limiter | no more than twice the limit in a window takes a place of it; a denied client was busy |
| Plan library | one plan per task and user; private status and public copy agree; a deleted plan stays deleted; no count is lost, no viewer counted twice in an hour |
| Authentication | one account per e-mail; a request runs as its sender, never on a session that had ended; a live session is not lost to a failing store |
| Planner graph | failed stages fall back and say so; wishes hold; what is generated passes every list of rules, or says it is a fallback |
| Plan generator, conversation | what the client hears is each reply and summary once, in order and to the end |
| Request hash, conversation | two requests have one hash exactly if they wish for the same; a turn changes what its message says and nothing else |
| External limiter, harness | every call gets a place and ends; a run ends with a result per case |

## 2. Modules

```
TaskStore   RequestLock   EventBus      AtomicTaskStore (EXTENDS TaskStore)
      \           |          /                  ^ refinement mapping
       \----- TaskService --/                TaskCache  (INSTANCEs TaskStore)
                   ^
             MCTaskService   calls, outcomes, bug_*
                   ^
             MCLiveness      + ExternalLimiter, HarnessRunner       live_streams
             MCStores        TaskCache, PlanLibrary                 stores
             MCServices      EventBus, Auth, PublicViews, RateLimiter,
                             PlannerGraph (EXTENDS PlanTools),
                             PlanGenerator, Conversation            services
             MCPlanLibrary   PlanLibrary                  bug_deleted_is_public, bug_saves_twice

Lists (range loops)   EXTENDed by TaskService, PlanTools, Conversation

proofs: EventBus_proofs
        Limits_proofs        RequestLock, ExternalLimiter, HarnessRunner
        Access_proofs        Auth, RateLimiter, PublicViews
        Stores_proofs        MCStores: TaskCache, PlanLibrary
        Lists_proofs         Lists
        TaskService_proofs   TaskService; INSTANCEs EventBus_proofs, EXTENDS Lists_proofs
        Replies_proofs       Conversation, PlanGenerator; EXTENDS Lists_proofs
        Services_proofs      PlannerGraph and MCServices; EXTENDS EventBus_, Access_ and
                             Replies_proofs
```

Parts that share no state are checked in one run. The variable `part` of
`MCServices`, `MCStores` and `MCLiveness` is chosen in the initial state and never
changes; only the part it names takes steps, the others rest in a single initial
state. The states of such a run are the sum of its parts' states, not the product.

**EventBus** - `sequences`, `history`, `subscribers`, `channel`, `capacity` and
`closed` are the fields of `EventBus` and of its channels. `sending[t]` is the
copy of the channels a `Publish` of task `t` still has to send to: it makes the
two halves of `Publish` separate steps. `lastRead` and `missed` are history
variables of the reader (the last number read; whether an event was dropped for
it). Actions: `Publish` (event_bus.go 24-43), `Deliver` / `Drop` / `SendOnClosed`
(one iteration of 45-50), `Subscribe` (53-68), `Unsubscribe` (70-80), `Receive`
(the loop of `StreamPlan`). A task has one publisher at a time, because
`CreateTask` starts the goroutine after its own announcement and planner nodes
run one after another: hence one `sending` set per task.

**RequestLock** - `lockOwner` is the map or the Redis keys, `holds` the callers
with an unlock function still to call, `leased` those whose TTL has not elapsed.
`LockKind` selects the unlock: the Redis script compares the token, the map entry
is deleted as it is. `AcquireLost` and `ReleaseLost` are a SETNX whose reply, or
an unlock that, got lost.

**TaskStore** - status per task and task id per hash. Each operation is one step,
as it is one critical section, one Redis transaction or one SQL transaction.
`UniqueHash` is the unique index of MySQL on `request_hash`.

**TaskService** - the composition. `call[c]` is the program counter of a
`CreateTask` call, `run[t]` of the goroutine it starts, `stream[s]` of a
`StreamPlan` connection; store, lock and bus are INSTANCEs over shared variables.
An action is the code between two points at which another goroutine can act in a
way that matters. A panic of a send is an action per caller of `Publish`:
`AnnouncePanics` (HTTP recovery), `RunPanics` (recovery of `runTask`),
`PlannerPanics` (the graph engine turns it into an error), `RecoveryPanics` (no
recovery: the process dies). The planner is modelled by what it publishes and how
it returns. What the environment may do - failing calls, slow lock holders,
expiring leases, leaving clients, crashes - is drawn from `budget`, so a run names
exactly the hazards it allows.

**AtomicTaskStore** - what the `TaskStore` interface promises: a read is answered
with what was stored at one instant between its call and its return, or with an
error.

**TaskCache** - `CachedTaskStore`: every call on MySQL or Redis is a step;
`phase[p]` is the program counter of a caller, `held[p]` the task value it has in
hand. A call that fails, an entry that expires and a caller that dies are actions
of their own. It INSTANCEs `AtomicTaskStore` with a read's answer defined from the
moment it holds one (phases `hash`, `task`, `done`); `Linearizable` is that
abstract specification. Entries of an earlier deployment without MySQL, whose
Redis store used the same keys, are initially in the cache (`Legacy`).

**PlanLibrary** - the plans one user saved from one task, and their public copies.
`plans[p]` and `publics[p]` are the rows of `user_plans` and `public_plans` (status,
deletion mark, counters), `archived` the rows of `plan_conversation_archives`. `call[c]`
is a request: the store call it makes next and what it has read; every store call is a
step, so two requests of one user interleave between any two of them. Deciding on a status
that was read earlier (`seen`, `found`) is what the module is about: `Rename` and `Edit`
write back the whole plan and the whole public copy, `Delete` hides the copy only if the
plan it read was published. `StoreFails` is a store call that fails; `GetByPlanID` is the
only one after which a call goes on. A view that counts and a copy are the same step, one
counter standing for all. `disturbed` is a history variable: the plans on which calls
overlapped or failed since a `Publish` was begun on them undisturbed, and `NoPlan` if two
Saves overlapped since one last began alone. `Unarchived` are the plans that a Save left
without their archive, which it stores in a call of its own. The module does not depend on
the others: it reads a finished task, whose outcome is final by `TerminalIsFinal` of
`TaskService`.

**RateLimiter** - one client's bucket: `count` and `expiresAt`, counted with INCR
or under the mutex, and `expiring`, a caller that got 1 and has its EXPIRE still to
send. `RedisExpireLost` leaves a key without an end. `RedisIncrFails` is an INCR that
is answered with an error, after Redis executed it or before: `CreateTask` then lets
the call through (service.go:81), and nobody sends an EXPIRE for it. `Stale` is how old
the clock of `MemoryAllow` may be, which is read before the mutex. `admitted` and
`denied` remember when calls that took a place of a window went on and when the last
was denied.

**PublicViews** - the reads of one public plan. `read[r]` is a request: the viewer,
the time it took, and which of deduper, counter and audit log it calls next; each
call may fail and the read goes on. `seen` is the deduper's entry per viewer, swept
by the memory deduper when it is large, with a clock that may be `Lag` behind.
`score` holds the counters and `hot_score`, computed per store as its statement is
evaluated. `lastAllowed` and `events` are history variables.

**Auth** - `accounts`, `sessions`, and the `cookie` in each person's browser.
`request[q]` is a request with the store call it makes next (`at`) and what its
reply will do to the cookie (`does`). A reply may come late, after another sign-in,
or never. `Restart` loses what is not durable. A token or id that was drawn is
never drawn again (`lost`, `revoked` and `expired` are final states).

**ExternalLimiter** - `stage[c]` is where a goroutine is in `get`: clock read, slot
booked, sleeping, sent. `nextSlot` and `slot` are the limiter's `next` and the slot
booked, relative to the present, so that no clock grows; `places` is the semaphore's
fill. `Return` gives the place back, whether the request failed or not; `GiveUp` is a
context that ends first.

**Lists** - the range loops over slices the code repeats (append what passes a test, keep
the first of equals, add up), as recursive functions, whose results can be proved.

**PlanTools** - pure operators without state: costs, what the mock tools and the
provider's tools return per mode and when the mock stands in (`ToolResults`), the budget,
what makes an item and a plan valid for the graph, the parser and the harness, its rule on
the budget's ratio among them (`checkBudget`). Without the map provider's key all tools
are the mock's, the weather's too whatever key it has (tool_mode.go:54-62), so one mode
stands for all. `Costs`, `POIs`, `Legs`, `Items`, `TravelPlans` are the Go structs, with
any integers and lists of any length; texts the properties do not tell apart are the value
`"other"`, and what is missing from a budget is left out, as its lines tell it.

**PlannerGraph** - the chain of nodes of one task. `node` is the node that runs next; the
other variables are the fields of `TravelPlanningState`. An action is a node, with every
result its tools may have. The first node refuses what `Acceptable` leaves out
(`refuseRequest`): a request that the service accepted may be among it. `mocked` remembers
which mock data stands in for the provider's, to compare with the warnings.

**PlanGenerator** - the model call that writes the plan. `attempt`, `form` and `received`
are the attempt, how its answer arrives and how much of its summary has arrived, counted
in halves of letters, because a frame may end inside a UTF-8 character or an escape.
`Legible` is what `extractSummarySoFar` reads of them: it decodes each `\uXXXX` on its
own, so a letter the model writes as a surrogate pair (`Surrogates`) is two replacement
characters, the first with half of it. `emitted` is `emittedPrefix`; `spoken` is what the
task's stream was told. `CallFails`, `StreamBreaks` and an answer no parser accepts end an
attempt; `PublishPlan` is what `publishPlanSummary` does at the task's end.

**Conversation** - the turns of one conversation. `held` is the brief the browser
keeps, `result` the extractor's, `reply` the words of the reply `assistant_done` will
repeat, `said` the words told in this turn, `saw` whether any delta was passed on, a
blank one included. A reply's stream ends complete or cut short, which the code does not
tell apart. `extractor` selects the rules, a buffered or a streamed model. The brief
has a field of each kind: `includes` is the list with a default, which a new message
replaces where interests and must-visits are united. A turn may be lost at any
point (`TurnLost`), and the panel edited between turns. `NormalizeTravelBrief` and
`RequestHash` are translated as operators over texts of blanks and words.

**HarnessRunner** - the worker pool: `sent` cases handed out, `job[w]` the one of a
worker, `results` the buffered channel, read in `EndRun` after all workers stopped;
`cancelled` is seen between two cases only.

Faulty variants, marked as such, stand before the definitions they would replace:
each property is known to fail under one of them.

## 3. Runs

| Run | Instance | What it shows |
|---|---|---|
| `calls` | 2 identical calls, MySQL and Redis lock, 1 stream, history 1, slack 1, one each of fault, disconnect, slow holder, expiry, crash | leases exclude each other, answers agree, every call returns |
| `outcomes` | 1 task, 2 streams, 1 fault, 2 disconnects, 1 crash | one final stored outcome; streams and store tell the same |
| `live_streams` | *tasks*: 2 identical calls, memory store and lock, 1 stream, 2 events, history 2, slack 1, 1 disconnect, 1 crash; *provider*: 3 callers on 1 place, interval 2, time-out 2; *harness*: 4 cases on 2 workers | one task per request, if no holder outlasts the waiters; tasks and streams end with an outcome, with the exceptions below; every provider call gets a place and ends; a harness run ends, whenever it is cancelled |
| `stores` | *cache*: 2 racing calls, 2 readers, 1 earlier task; *library*: 2 overlapping calls, 2 plans, 1 counted view, 1 failing store call, MySQL | cache entries are right and reads linearizable; private and public copy agree unless disturbed, and again after the next Publish; one plan per task unless Saves overlap, an archive each unless a store call failed; no count lost; deletion is final |
| `services` | *bus*: 2 tasks, 2 subscribers, history 2, slack 1, 3 events | delivery under every interleaving of publish halves, arrivals and departures, with overflowing histories and channels |
| | *auth*: 2 persons, 1 e-mail, 2 accounts, 2 tokens, 2 requests, 1 failing call | one account per e-mail; requests run as their sender; cookies survive late replies and failures |
| | *views*: 2 viewers, 2 reads, TTL 2, lag 1, sweep above 1 entry, 3 counts, 1 failure | a viewer counts once per TTL |
| | *rate*: limit 2, window 3, clock to 9, 7 admissions, 2 failing INCRs | bursts are bounded, denials earned |
| | *graph*: 3 places, 18 briefs of which two are refused, every tool mode and result, answers with one fault each | fallbacks are told, wishes hold, plans are valid for all three lists of rules or tell of their fallback |
| | *generator*: 2 letters of 2 halves, one of them a surrogate pair, 2 retries, every configuration | the summary is heard without gap or repetition |
| | *chat*: 2 turns, 3 words of which one is an old spelling, three extractors | hashes name wishes, a turn changes what it says only, replies are told once |
| `bug_done_before_persist`, `bug_wait_falls_through`, `bug_disconnects_kill`, `bug_saves_twice`, `bug_deleted_is_public`, `bug_hot_score`, `bug_stream_hangs` | smallest instance of each | the disagreements of section 5 |

**Why the bounds are enough.** Different request hashes share no entry in store, lock or
cache, so all calls use one; one plan's views, one client's bucket and one task's graph
likewise stand for all. Two calls show every race of a pair, and that there is one task
for any number of calls is a theorem. With two events, a history of two and a slack of one
a channel overflows, so a stream can lose its outcome. Two streams are needed for the two
panics of `RecoveryPanics`: one in the goroutine, one in its recovery. `HistoryLimit` 100
and `ChannelSlack` 16 are scaled down to 1-4, below `MaxEvents` where overflow is wanted;
events of the recovery come on top. In the plan library a call slot is used again and
again, for any operation, so two calls give every sequence of overlapping pairs; the
second plan is for the second of two Saves, or a Save after a Delete. Two INCRs that fail
reach the limit of 2 without an admission, and make a count of 1 that gets no EXPIRE. One
e-mail suffices for the races of registration, with two persons and two passwords. Seven
admissions are two full windows of 2 and a third begun; a clock to 9 lets three windows of
3 pass. Three callers on one place leave one waiting behind another; the slots they book
lie ahead of the present by more than the time-out. Four cases on two workers are more
than the workers can hold. Two letters give every cut within and between letters; two
retries let an attempt fail after one that spoke.

Symmetry is used in safety runs only, over interchangeable model values; the runs
with liveness have none. `CHECK_DEADLOCK FALSE` is set where the system really stops: all
calls answered and all streams ended, a plan made, a conversation's turns or a bound used
up, a report written. No run waits on a lock that nobody holds: the liveness
properties would show it.

**Conditions in the properties.** A property that fails under a hazard for a known
reason says so with `Struck(k)` ("hazard k has struck"): streams and store need
not agree after a client left (its panic adds an error to a `done` already sent)
or while the store fails (the code publishes all the same). They are checked in
full in the behaviours without that hazard, in the same runs. `TasksFinish` and
`StreamsEnd` except a task whose announcement panicked (`NeverStarted`: its goroutine is
never started), a process that ended, and a stream that left or lost an event; a panic
anywhere else is no exception. `PublishedAgrees` excepts what is `disturbed`, for the
same reason: no transaction spans the two tables, and calls that overlap do leave them
apart (section 5). `SavedOnce` excepts overlapping Saves, which `bug_saves_twice` shows,
and allows as many plans without an archive as store calls failed. `DeniedMeansBusy`
excepts a bucket whose EXPIRE was late, lost or never sent (`expireTrouble`), and
`BurstBound` and `CountedOncePerTTL` allow for the age of a clock that is read before its use.

**Fairness.** `Fairness` (TaskService) is weak fairness per goroutine: of a call once
admitted, of a `runTask`, of the sends of a publication, of a stream's handler. The Go
scheduler runs every runnable goroutine, no send blocks, waits have deadlines and
the buffered model calls and the provider's have time-outs. No fairness is assumed of
clients, hazards, TTLs or admission. The planner's end is assumed there; for a
streamed model call it is the assumption that finding 7 shows to be unfounded.
`LimiterFairness` adds that time passes, timers fire and requests end, and is
strong only for `Send`: a place that comes free again and again reaches every waiter,
as the waiters of a Go channel queue. `HarnessFairness` lets the goroutines
run and the planner return. `GenFairness` lets the program take its own steps and a
buffered call end by its time-out, and promises nothing of an open stream.

## 4. Proofs

Each theorem holds for every value of the constants that satisfies the assumption
named in its module, and the condition in the last column.

| Theorem | States | Condition |
|---|---|---|
| `EventBus_proofs!BusInvariant`, `BusTypeCorrect`, `HistoryCorrect`, `DeliveryComplete`, `DeliveryInOrder`, `ReadsAdvance` | the invariant below, typing, `HistoryIsTail`, `NoGapNoDuplicate`, `DeliveryOrdered`, reads move forward | finite limits |
| `TaskService_proofs!ServiceTypeCorrect` | `TypeOK` of the whole service | none |
| `LeasesOwnTheLock`, `LeasesExclude` | `LeaseOwnsLock`, `LeaseExclusive`, in the whole service | Redis lock |
| `UniqueIndexSuffices`, `AnswersNeverDiffer` | `OneTaskPerHash`, `AnswersAgree`, under every hazard | MySQL store |
| `TimelyLockSuffices` | `OneTaskPerHash` without a unique index | memory lock, no failing call, slow holder or expiry |
| `OutcomesAreFinal` | `TerminalIsFinal` | a store that survives the process |
| `FinishedRunsTellTheTruth` | `FinishedRunsAgree` | none |
| `StreamsTellOneOutcome`, `StreamsTellWhatIsStored` | `OneTerminalEvent`, `ToldOutcomeIsStored` | none (both say: until a client leaves) |
| `ServiceDelivers`, `ConnectionsReadForward` | the bus's three invariants and `ReadsAdvance`, in the whole service | none |
| `Limits_proofs!LockTypeCorrect`, `LeaseHolds`, `Exclusion` | typing, `LeaseOwnsLock`, `LeaseExclusive` of the lock by itself | the last two: Redis lock |
| `PlacesNeverLost`, `SlotsKeepTheirDistance` | `PlacesAreCalls`; all slots ever booked are an interval apart and each caller keeps to its own | none |
| `ResultsHaveRoom`, `ReportsAreComplete` | no worker waits for room in the results; a report has one result per case | none |
| `Stores_proofs!CacheInvariant`, `CachedOutcomesAgree`, `CachedHintsAgree` | the invariant below, `CacheAgrees`, `HintsAgree` | MySQL authority |
| `Implementation` | `CacheSpec => Linearizable`: the cached store implements `AtomicTaskStore` | same |
| `LibraryInvariant`, `LibraryTypeCorrect`, `NoCountLost` | the invariant below, typing, `CountersSurvive` | none |
| `TablesAgree` | `PublishedAgrees` | none: either store |
| `SavedOncePerTask`, `DeletionIsFinal` | `SavedOnce`, `DeletedStaysDeleted` | MySQL |
| `StoresTypeCorrect` | `StoresTypeOK` of cache and library | MySQL authority |
| `Access_proofs!AuthTypeSafety`, `ServesRightly`, `OneAccount`, `StaysSignedIn` | typing, `ServedRightly`, `OneAccountPerEmail`, `KeepsSignedIn` | none |
| `RateInvariant`, `BurstsAreBounded`, `DenialsAreEarned` | the invariant below, `BurstBound`, `DeniedMeansBusy` | either limiter |
| `ViewTypeCorrect`, `ViewersAllowedOnce`, `LogBacksCounts` | typing, `CountedOncePerTTL`; counters and audit log differ by what is under way or failed | none |
| `Replies_proofs!ChatTypeCorrect`, `RepliesToldOnce` | typing, `RepliesHeard` | none |
| `TurnsOnlyUpdate`, `HashesNameWishes` | `RulesOnlyUpdate`, `HashNamesTheWish` | none |
| `GenTypeCorrect`, `SummaryToldOnce` | typing, `SummaryTold` | none |
| `Services_proofs!GraphTypeCorrect`, `FallbacksAreTold`, `WishesAreHeld`, `GeneratedIsSound` | typing, `FallbacksTold`, `WishesHold`, `GeneratedIsValid` | none |
| `ServicesTypeCorrect` | `ServicesTypeOK` of the seven parts | none |

*Event bus.* `NoGapNoDuplicate` is not inductive: whether the next `Deliver` leaves
a gap depends on what is in flight. The invariant adds that the event in flight is
the newest of the history, that a subscriber still in `sending` has everything but
that event, that the others have it, that `lastRead` is below the head of the
channel, and that a channel holds no more than its capacity. The lemmas `Shift` and
`TrimAppend` say what appending and cutting does to a run of consecutive numbers;
one lemma per action preserves the invariant. That an open channel is registered
(`OpenRegistered`) is kept apart: it holds as long as the process lives.

*The bus in the service.* The lemmas of `EventBus_proofs` are cited through INSTANCE, one
per way a step of the service uses the bus. Two things are new there. A process that
dies is no operation of the bus: it leaves open channels that are registered nowhere.
So `OpenRegistered` gives way to `InMaps`: a connection that has subscribed and not
left is in the map of its task. With it `DeliveryInv` is inductive for the service.

*Lock.* `LeaseOwnsLock` is inductive once typed; exclusion follows because an
entry has one owner. Of the memory lock it is false: its unlock deletes whatever it
finds, so a lease can lose its entry to a late unlock.

*Cache.* A caller that has a task in hand caches it some steps later, so the
invariant says what may be in hand then: a stored task, and an outcome only if it
is the stored one (`InHand`). That stays true because a stored task is the only one
of its hash (`Indexed`, from the unique index) and nobody updates a finished task.
For the refinement it also says which question a reader asked and that a hint fits
its hash (`Asked`, `HintsFit`): then the read of the task a hint names is a
`FindByHash` of the authority. The steps that put an answer into a reader's hands
map to `Take`, caching and expiry to stutters.

*Task service.* With MySQL the index carries everything: `IndexInv` says that a call
that has not created its task has stored none, that a stored task is the one its hash
names, and that an answer names a stored task of the caller's hash. Whatever lock,
lookup or crash is in the way does not matter to it. Without the index exclusion must
carry it: `TimelyInv` relates each call's program counter to the lock (between Acquire
and unlock a call owns its entry) and to the store (at `create` the hash still has no
task). The proof uses the three empty budgets exactly where a waiter falls through, an
entry expires and a call is told of a failure that did not happen. `PhaseInv` relates
`run` and `tasks`: outside its end phases a goroutine's task has no outcome, and each
outcome is written once. `AgreeInv` adds the last event of the history in each phase
(`Agrees`), with the events of a publication in flight; a fault spent stays spent.

*Streams.* `OutInv` says, until the first disconnect strikes, where the outcome of a task
can be: in the goroutine's own copy `result`, in an event that ends the history
(`HistoryTells`), in a channel, in what a stream was told; in each place it is the one of
`result`, and what is stored is `result` too. A stream that reads has been told none, one
that closes or has ended exactly one (`StreamOrder`). It rests on two circles that the
invariant closes. A stream closes its channel only after it read an outcome, and the
outcome is the last event of its task, so no publication still has that channel to send
to: hence no send panics, no recovery runs, and no second outcome is published. And a replay
finds at most one outcome in the history, however much the limit has cut from it; if it
finds none, it makes one up from the stored status, which is that of `result`.

*Plan library.* `CountersSurvive` needs that every write goes to a stored plan; the
invariant therefore says what a call knows (`Consistent`): past its first store call it
works on a stored plan, and an owner's call has read a status of one. A lemma per action
keeps it. `PublishedAgrees` needs more: of an undisturbed plan with no call the tables
agree, and one with a call has only that one (`Undisturbed`); what this call read is still
what is stored, and what its earlier steps wrote is still there (`Alone`). A second call
that begins makes the plan disturbed, and a Publish that runs alone starts the argument
anew. `OneSave` is the same idea for Saves: while `NoPlan` is not among the disturbed at
most one Save is under way, and one that is about to create its plan finds none; the plans
that are deleted or fail in between do not matter to it. `FewUnarchived` counts: a plan
without an archive that no Save is about to give one was left by a store call that failed,
so a step adds at most one, and only then a fault. With the memory store
`DeletedStaysDeleted` and `SavedOnce` are false: its `Update` writes back a plan read
before the deletion and revives it, after another Save if need be.

*Authentication.* Accounts and sessions only ever move forward (`AccountsGrow`,
`SessionsGrow`). Who holds a cookie owns the account of its session (`Owns`), and a
request under way has the token and account its step needs (`Rightful`), whichever of its
replies are late. `KeepsSignedIn` is then a property of the one step that changes a cookie.

*Limiters.* The places taken are the callers in `sent`, a finite set that grows and
shrinks by one. The limiter keeps its times relative to the present and forgets slots that
are past, so `Limits_proofs` gives it two history variables: `begins`, how far from the
present each slot ever booked begins, and `mine`, which of them is a caller's. `BookInv`
ties them to `nextSlot` and `slot`; `SlotsApart` is about all that was ever booked.
`RateInv` keeps admissions in the order of time (up to the age of a clock) and says which
of them belong to the present bucket, and that any before these and the last `Limit - 1`
of the bucket before are a window older than its start (`BucketFits`): of `2 * Limit + 1`
admissions in a row the first is that old when the last is made. It counts what was
executed, whether its caller was told or not, so a lost reply leaves it as it is; an INCR
that was not executed changes nothing. For views, an entry of the deduper lasts until a
TTL after its viewer was last counted (`EntryHolds`), and no read under way has a clock
older than the lag (`ReadsAreRecent`).

*Harness.* Each case handed out is with exactly one worker or has exactly one result
(`Handed`). The results are then an injection into the cases other than the one a worker
has, so there is room for that one; when all workers have stopped they are a bijection.

*Replies.* `HeardSoFar` and `ToldSoFar` describe by phase what was said: a prefix of one
reply, or the letters of the attempts so far in the order of `spoken`, of the present
attempt exactly the first `emitted` characters that were read, `Legible` of what
was received growing with it. The lemma `TailTold` says what appending
`NewTail` does, wherever the frame was cut. Typing the generator needs that nothing was
received before the first attempt (`NoneBegun`).

*Hash and brief.* A text that was trimmed is empty or one word (`Trimmed`), so the
normal form of a list of texts is a list without repetition that names the same labels.
`RequestHash` sorts these lists, and rising sequences with the same members are equal: of
two such neither can have an element where the other is at its end or ahead (`NeitherAhead`).
Equal hashes therefore mean equal wishes, and the reverse. `RulesOnlyUpdate` follows
from what merging and normalising do to each field, normalising before the merge and
after it; it uses that a city read from a
message is not blank (`ConversationAssumption`, from `cleanCityCandidate`).

*Graph.* `GraphInv` says by node what has been computed and from what: from the optimizer
on the itinerary is a formula over the places (`DraftOf`), from the budget node on the
budget is `BudgetOf` of it; warnings only grow, hold the mocked tools and later the
failing checks, and `mergeWarnings` loses none. Must-visits are moved to the front one by
one from the last to the first; by induction along that loop the list then starts with the
first must-visit that was found (`LeadsTo`). Without a negative price every sum is natural
(`FreeOfDebt`), and both the deterministic plan and one that `validateGeneratedPlan`
accepted satisfy all lists of rules (`Sound`), the ratio of the budget excepted for the
deterministic plan, whose fallback is then among the warnings. A negative price of the
provider is `Debt`, which `GeneratedIsValid` excepts.

*Lists.* The loops are recursive functions on the naturals. What they return is proved by
least counterexample (`LeastOf`, `UpTo`), because the library's induction theorems take an
operator as a parameter, which the provers here cannot instantiate.

The parts of `MCStores` and `MCServices` rest while another runs, so the typing of each
run is that of its parts (`StoresTypeCorrect`, `ServicesTypeCorrect`).

**Only model-checked:** the liveness properties `CallsReturn`, `TasksFinish`,
`StreamsEnd`, `EveryCallEnds` and `RunEnds`: liveness under fairness and `ENABLED` are
outside TLAPS's reach here. Every invariant and every action property of the passing runs is a
theorem. The modules declare no `RECURSIVE` operator. `ReadsAdvance`,
`SlotsKeepTheirDistance`, `LogBacksCounts`, `ServiceDelivers`, `ConnectionsReadForward`,
`ResultsHaveRoom` and `ReportsAreComplete` are proved and not repeated in a run.

## 5. Disagreements found

1. *Done before it is stored* (`bug_done_before_persist`). `runTask` publishes
   `done` (service.go:314) and stores the task afterwards (316). A client told
   `done` may read `running`, for good if the store fails. The comment at
   service.go:448 says the event comes after the plan is persisted.
2. *Waiters create a second task* (`bug_wait_falls_through`). When the 500 ms of
   `waitForExistingTask` pass, `CreateTask` goes on without the lock (service.go:103).
   In memory or Redis two tasks then exist for one request, where docs/api.md:201
   promises reuse. MySQL's index prevents it: `AnswersAgree` holds there.
3. *Two leaving clients end the process* (`bug_disconnects_kill`). A send on a
   channel closed after the copy panics; the recovery of `runTask` publishes again
   (service.go:285), and a second such panic is outside any recovery.
   docs/coding-style.md:56 asks for panics to be recovered. The same
   panic, once, makes a stream replay `done` and then `error`, which
   docs/api.md:358 does not foresee; that is why `OneTerminalEvent` excepts
   runs with disconnects.
4. *Saving twice makes two plans* (`bug_saves_twice`). `Save` looks for the task's plan
   (plans/service.go:106) and creates one (152) in two calls of the store, and
   `user_plans` has no unique index on user and task. Two Saves that overlap both find
   none and store a plan each. docs/api.md:413 promises that a repeated POST reuses the
   plan_id, and so do the requirements
   (requirements/stage-21-auth-home-plan-community.md:1307).
5. *A deleted plan stays public* (`bug_deleted_is_public`). `Delete` hides the public
   copy only if the plan it read was published (plans/service.go:258), and `Publish`
   writes the public copy before the private plan (319). When they overlap the copy
   stays, and its owner can neither see nor unpublish the plan any more.
   docs/architecture.md:115 says a deletion unpublishes the copy.
6. *The hot score counts the latest event twice* (`bug_hot_score`). In MySQL
   `IncrementCounter` raises the counter and then computes `hot_score` from it plus one
   in the same UPDATE (mysql_store.go:456), which MySQL evaluates from left to right.
   docs/api.md:426 states the formula; the memory store computes it.
7. *A silent stream is read for ever* (`bug_stream_hangs`). The streaming client has no
   time-out (llm_stream.go:82) and `runTask` hands it a context without a deadline
   (service.go:275); the comment at llm_stream.go:58 asks for one. A provider that keeps
   the connection open without sending leaves the task running.

Met without a run of their own:

* docs/architecture.md:138 has plan and archive inserted in one transaction; `Save` makes
  two calls of the store (plans/service.go:152 and 163). If the second fails the plan
  stays without an archive for good, because the next Save finds the plan. `SavedOnce`
  bounds such plans by the number of failed calls.
* A task whose announcement panicked is stored and never run (service.go:141-143): later
  identical requests are answered with it. `TasksFinish` excepts it.
* `validateCreatePlanRequest` accepts interests that are blank (service.go:568), which
  docs/api.md:219 would have refused with 400; the first node normalises them away
  and refuses the request (nodes.go:32), so the task is created and fails.
* The deterministic plan may cost more than 1.1 times the budget, which is refused of a
  model's plan; it says that it is a fallback (`GeneratedIsValid`).
* Of a summary whose model escapes characters beyond the basic plane as surrogate pairs
  the stream is told two replacement characters for each (summary_stream.go:91-100),
  while `assistant_done` and the plan have the character.
* `budget_includes` of a new message replaces what earlier messages said of it
  (chat.go:504-505), where interests and must-visits are united (`RulesOnlyUpdate`).
* The memory plan store's `Update` revives a plan that was deleted since it was read
  (plans/store.go:157). `DeletedStaysDeleted` and `SavedOnce` are claimed for MySQL only.
* A lost EXPIRE leaves a Redis rate-limit key without an end (rate_limiter.go:71), and so
  does a first INCR whose reply was lost (68): the client is denied until somebody
  deletes the key. `DeniedMeansBusy` excepts both.
* The provider's limiter spaces the slots it hands out, not the requests: calls that
  wait for a place after their slots are sent together when places come free.
  docs/external-apis.md:164 promises two requests a second. It takes a provider slower
  than the interval.

## 6. Not modelled, and the plan

Out of scope for good, with the reason per component in `PROJECT.json`: wording of
prompts and messages, the SQL schema text, configuration parsing and server wiring, the
mock planner (a fixed plan), rendering of the web client. Unbounded growth of sequences
and histories is a hazard no bounded instance can show. In the parts that are modelled
*partly* these are missing:

* Task service: the business events that carry drafts to the stream, which are
  `progress` to the bus; Chat and its stream are in Conversation.
* Plan library: lists, `Current`, texts and the reading of archives; the private plan a
  copy creates in another user's library; ids of public copies.
* Conversation: what the regular expressions of the rules read from a message
  (chat.go 434-825) is any member of a small set.
* Harness: budget ratio and keywords of a dataset, scores, metrics and report files.
* Task store: the TTL of the Redis store, after which a task is forgotten.
* Web client: its stream hook with reconnects and polling, which relies on
  `NoGapNoDuplicate` and `DeliveryOrdered`.

In order of what each would add:

1. **Redis task store with TTL**: a finished task that expires under a stream or a Save.
2. **WebStream**: the client's hook over `StreamPlan`, with reconnects and polling, and
   that a traveller sees each event at most once.
3. **Copies** of public plans: the copier's private plan, its counter and its event.
4. **What the service promises**, as an abstract specification: a client asks, is answered a
   task, and is told one outcome. Refinement by `TaskService` under the conditions of
   `OneTerminalEvent`, proved from `OutInv` and `IndexInv`.
5. **Invariants** of items 1 to 3 as theorems, beside the modules they belong to.
