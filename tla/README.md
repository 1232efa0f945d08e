# Formal model of gkit-nestjs

gkit-nestjs is a toolkit of 24 small TypeScript packages for building services.
Most packages are a page of code; what makes them hard is not their length but
that every `await` is a point where another call, a timer, a database session or
a signal handler may run. This directory models those interleavings.

All paths are relative to the repository root; source paths start with `src/`.

## 1. Inventory

Node runs one JavaScript callback at a time, so code between two `await`s is
atomic; the interleavings are between *continuations*. Packages that talk to
PostgreSQL or Redis have a second kind of concurrency: other processes, and the
server's own view of a session (a dropped connection rolls back on the server
while the client code keeps running).

| Component (source) | State it keeps | Operations | Hard behaviour | What makes it correct |
|---|---|---|---|---|
| Semaphore, `src/src/async` | free permits, FIFO of waiting resolvers | `acquire`, `tryAcquire`, `release` | direct hand-off of a permit; barging by `tryAcquire`; release by a non-holder | never more holders than capacity; no free permit while someone waits; FIFO |
| WorkerPool, `src/src/pool` | a Semaphore, list of submitted promises | `submit`, `drain` | `submit` while a `drain` is waiting; task errors | concurrency bound; a drain misses only tasks submitted while another drain was waiting; every task settles |
| CircuitBreaker, `src/src/circuitbreaker` | state, failures, probes, openedAt | `execute`, `state`, `reset`, deferred `onStateChange` | results of calls admitted in an earlier state; timeouts; several probes at once | nothing admitted within the timeout after a trip; trips and closes only on a streak; notifications form one chain |
| JobQueue, `src/src/queue` | `jobs` table, handlers, timers | `enqueue`, `register`, `start`, `stop`, `processBatch` | overlapping batches, lost connections, crashes, unknown commits, one failing row rolling back a batch | rows are owned by one transaction, tell the truth about failed attempts and successes, and end once; nothing is stranded in `processing` |
| Outbox, `src/src/outbox` | `outbox_events` table, timer | `storeOutboxEvent`, `start`, `stop`, `relay` | publish succeeds and mark fails; overlapping relays; rollback | nothing uncommitted is published; nothing marked was left unpublished |
| RedisLock / Locker, `src/src/lock` | Redis key with TTL, keepalive timer | `acquire`, `release`, `renew`, `withLock` | TTL expiry under a running callback, lost replies, late renewals | only the token holder releases or renews; exclusion while renewals are timely |
| Store / migrate, `src/src/store` | pg pool, `schema_migrations` | `query`, `execute`, `transaction`, `migrate` | two migrators at once, crash between steps, failing COMMIT | each migration takes effect once, in order; every client returns to the pool |
| GracefulShutdown, `src/src/graceful` | hook list, registration flag | `register`, `shutdown`, `listen` | two signals, hook timeouts, hooks still running after their timeout | LIFO order in each run; exit code 0 only if a run's hooks all succeeded; the process ends |
| Streams, `fanOut`, `fanIn`, `src/src/async` | buffers, one pending resolver | producer/consumer callbacks, `filter`, `map`, `take` | lost wake-ups, failing producers, slow consumers | nothing lost, doubled or overtaken; the end means the end; consumers terminate unless something rejects |
| Barrier, debounce, throttle, Future, `src/src/async` | counters, one timer | `wait`, calls | late arrivals after the barrier lifted; a call between a due timer and its callback; the wall clock set back | nobody passes early, nobody is left behind; the last call is made, once, when it is quiet; calls are spaced |
| RateLimiter / Keyed, `src/src/ratelimit` | tokens, lastFill, per-key entries | `allowN`, `getTokens`, `evict`, `delete` | eviction of a non-full bucket | admissions in any window bounded by burst + rate x window |
| LruCache, `src/src/cache` | insertion-ordered Map with expiry, counters | `get`, `set`, `delete`, `has`, `clear`, `evictExpired` | expired entries that still occupy room | eviction of the least recently used only; size bound |
| RedisCache, `src/src/rediscache` | Redis keys | `get`, `set`, `getOrSet`, `mget`, `flush` | loader racing an invalidation; `flush` racing `set` | a stale value outlives its replacement no longer than a loader and a time to live take; without a race there is none |
| InMemoryEventStore, `src/src/eventstore` | streams, id counter | `append`, `load`, `loadSince`, `currentVersion`, `clear` | optimistic writers racing; `clear` under a writer | versions dense, ids unique, no lost update |
| Saga, `src/src/saga` | list of steps, per-run completed list | `addStep`, `run` | failing compensation; `addStep` during a run | every completed step compensated once, in reverse |
| retry, `src/src/retry` | loop counter | `retry`, backoffs | stop errors, last attempt, delays no timer keeps | at most maxAttempts calls, onRetry between calls only, the result told by the calls |
| pipeline, `src/src/pipeline` | shared index, result array | `process`, `chain`, `compose` | workers that go on after a rejection | each item once, results in input order |
| Bus, `src/src/pubsub` | subscriptions per topic | `subscribe`, `publish`, unsubscribe | unsubscribe between publish and the delivering microtask | each event once to each of those subscribed when it was published, in order |
| Scheduler, `src/src/sched` | job list, timers | `every`, `after`, `start`, `stop` | overlapping runs of one job, start after stop | no dispatch after stop; one run of a one-shot job for each start |
| HealthRegistry, `src/src/health` | checker list | `register`, `checkAll`, `isHealthy` | two checkers of one name, checkers that throw | healthy only if every checker is |
| FeatureFlags, `src/src/feature` | flag map | `set`, `delete`, `isEnabled`, `isEnabledFor`, `fromEnv` | rollouts at 0 and 100 %, rollouts being raised | the two queries agree (not at 0 %); a raised rollout takes nothing away and touches no other flag |
| Validator, `src/src/validation` | error map | `field`, `validate`, rules | repeated field names, a rule that remembers | the verdict is that of the values given |
| middleware, auth, `src/src/middleware`, `src/src/auth` | a timer, claims on the request | four middlewares, `issueToken`, `verifyToken`, two guards | the timeout racing the answer; tokens expiring; a guard forgotten | one answer for each request; the handler runs with good claims only; the log tells what was sent |
| config, `src/src/config` | metadata of a class | `EnvVar`, `loadConfig` | several things wrong at once, inherited fields | all errors or a complete instance |
| metrics, `src/src/metrics` | prom-client's registry | counters, gauges, histograms | none of its own | (not modelled) |

Interactions: WorkerPool owns a Semaphore; JobQueue, OutboxRelay and Store each
take a `pg` pool client for the length of a transaction; Locker and `withLock`
drive RedisLock; GracefulShutdown runs hooks such as `pool.drain()`; the other
packages do not call each other. A request passes the middlewares and the guards of
`auth` one after the other (`Http` has them together).

## 2. Plan

The order follows what the code's users rely on most, and what is hardest to
test: first the pieces others are built from, then those that share a database
or a Redis key between processes, then in-process interleavings, then bounded
data structures.

| Step | Modules | State |
|---|---|---|
| 1 | `Semaphore`, `SemaphoreProofs`; `WorkerPool` composed with it, `WorkerPoolProofs` | done |
| 2 | `CircuitBreaker`, `RateLimiter`, `RedisCache`, put side by side in `MCInProcess`; `InProcessProofs` | done, all safety proved |
| 3 | `JobLifecycle` (abstract), `JobQueue` (implements it), `JobQueueProofs` | done, all safety and the refinement proved |
| 4 | `RedisLock`, `RedisLockProofs`; `Outbox`, `OutboxProofs` | done, all safety proved |
| 5 | `Pipeline`, `Stream`, `FanOut`, `FanIn`, `Barrier`, `Debounce`, `Throttle` in `MCStreams`; `StreamsProofs` | done, all safety proved |
| 6 | `Migrations`, `Graceful`, `Health`, `Scheduler`, `Http`, `Retry`, `Config`, `FeatureFlags`, `Validator` in `MCService`; `ServiceProofs` | done, all safety proved |
| 7 | `EventStore`, `Bus`, `Saga`, `LruCache` with `Filter`, put beside those of step 2 in `MCInProcess`; `InProcessProofs` | done, all safety proved |

Two specifications are abstract: `Semaphore` is what a `WorkerPool` has to
implement (with a caller for each task), and `JobLifecycle` is what a `JobQueue`
promises about each job without a word about transactions, sessions or workers.

Conventions. An action is the code from one `await` (or callback) to the next.
An operator with a remark in brackets, such as `IgnoresLocks` before
`Claimable`, is a plausible mistake in the definition that follows it;
`PROJECT.json` names, for every property of every run, one such pair which the
property is shown to tell apart.

## 3. The modules

### Semaphore (`src/src/async/index.ts:59-113`)

`available` is the counter, `waiters` the queue of resolvers, and `ready` the
microtask queue: a caller that has been granted a permit, at once or by
hand-off, has yet to continue. `pc[c]` says where caller c is. `AcquireFree` and
`AcquireWait` are the two branches of `acquire()`, `TryAcquire` its synchronous
sibling, and `ReleaseHandOff`, `ReleaseFree`, `ReleaseThrow` those of
`release()`; `ExcessHandOff` and `ExcessFree` are a `release()` by a caller that
holds nothing, which the code cannot tell from a rightful one. `excess` counts
them.

### WorkerPool (`src/src/pool/index.ts`)

An instance of Semaphore (`Sem`) whose clients are the tasks, plus `pending`,
the list of promises; `Submit` is the call, `Start` the continuation after
`acquire()`, `Settle` the `finally` with its `release()`, and `CallDrain` and
`DrainReturns` the two sides of the `await` in `drain()`: the first fixes the
`snapshot` that `Promise.all` waits for, the second empties the list. `late`
remembers the tasks submitted while a drain was waiting.

### CircuitBreaker (`src/src/circuitbreaker/index.ts`)

`state`, `failures` and `probes` are the fields; `age` is the time since
`openedAt`, capped at the timeout. `Admit` is `execute()` up to the call of the
function, `Succeed` and `Fail` the rest of it, in whichever state they find the
breaker; `QueryState` is the getter, which may move the breaker to HALF_OPEN;
`Deliver` is the timer in which `onStateChange` is called. The histories `bad`,
`good` and `rest` count what the documentation talks about - failures in a row,
successes in a row, time since the last trip - independently of the fields.

### JobQueue and JobLifecycle (`src/src/queue/index.ts`)

PostgreSQL is modelled by the committed rows (`jobs`) and by each open
transaction's own versions of the rows it has locked (`tx`). A batch is a
process together with a client of its pool: the interval does not wait, so one
process may run several. `Poll`, `Claim`, then for each row `NoHandler`,
`PayloadThrows`, or `CallHandler` and `HandlerFulfils` or `HandlerRejects`, and
`Commit` are the path of `processBatch()`. `garbled` is the set of jobs whose payload
is a string that `parsePayload()` cannot parse: the catch branch counts an attempt
and reschedules or dead-letters the job, and no handler was called (`PayloadThrows`).
`losses` counts failed attempts of both kinds. `QueryFails`, `OutcomeQueryFails`, `SessionLost` followed by
`ZombieEnds`, `DoneReplyLate` and `Crash` are what may happen on it.
`HandlerRejectsWithoutReason` is a rejection with `undefined`: the catch branch
reads `err.message`, throws, and the batch is rolled back. The server rolls a
lost session back at once while the handler goes on - a "zombie" batch.
`DoneReplyLate` presumes that the pool is configured with a `query_timeout`.
`Implements` maps the committed rows to the statuses of `JobLifecycle`, in which
`processing` does not occur; a `Lose` of it is an attempt that failed, executed or
not.

Left out: a `pg` client that emits `'error'` with no listener ends the process.
The code adds no listener to the client it holds, so a broken connection may be
a `Crash` rather than a `SessionLost`; both are modelled, either may happen.

### RedisLock (`src/src/lock/index.ts`)

One key: `owner` is the token stored and `left` its remaining time to live in
ticks. Each call of `withLock()` has a phase, a keepalive timer (`beat`) and
renewals under way (`inFlight`). `Set`, `Renew` and `Release` are the execution
of the three commands at the server (the two scripts with their comparison of
tokens); `SetReplyLost` is the SET executed twice by a client that retries;
`Keepalive` is the interval; `FnEnds` the `finally`. The module has two kinds of
behaviour. In a `prompt` one requests, replies and timers are served within the
tick in which they are due and nothing fails; there the keepalive must hold the
lock. In the others anything may be late, lost or crash; there the lock may
lapse, and the properties say what still holds. A call may also be `bare`: a
`Locker.acquire()` and a `release()` that may never come, without a keepalive between
them.

### Outbox (`src/src/outbox/index.ts`)

`event[e]` follows an event from the application's transaction (`Store`,
`EndTransaction`) to `pending` and `published`; `rows` and `ids` are the sets of a
batch's remaining and locked rows, of which `OldestSelectable` and `Publish` take
the oldest first. `Poll`, `Select`, `Publish`, `Commit` are `relay()`;
`PublishRejects`, `PayloadThrows`, `QueryFails`, `SessionLost` and `Crash` its
failures. `Start` and `Stop` keep the count of intervals: a second `start()`
forgets the first timer. `parsed` is the set of events whose payload is no string
when it comes back from the jsonb column: `Buffer.from()` throws on it.

### Migrations (`src/src/store/index.ts`)

Processes of different releases run `migrate()` at once. `ReadApplied` is the
query at the start; `Skip`, `RunSql`, `InsertVersion`, `Commit` the loop and
`transaction()`; `UniqueViolation`, `StatementFails` and `CommitReplyLost` its
failures. The primary key makes the second INSERT of a version wait for the
first transaction (`KeyIsFree`).

### Graceful and Health (`src/src/graceful/index.ts`, `src/src/health/index.ts`)

`Graceful`: each `shutdown()`, by a signal or by hand, is a `run` with its own
`snapshot` of the hooks, going down through them. `HookSettles`, `HookTimesOut`
and `SettlesLate` are the three outcomes of the race in `shutdown()`; the last
one leaves a hook running beside the next. A process whose handler has been used
up is killed by another signal (`SignalAgain`). The exit code is the default 0.

`Health`: `Ask`, `CheckSettles` and `Answer` are `isHealthy()` around
`Promise.allSettled`. `Namesakes` are checkers of one name, of which the result
record keeps the last.

### Pipeline, Stream, FanOut, FanIn (`src/src/pipeline/index.ts`, `src/src/async/index.ts:116-336`)

`Pipeline`: workers between two calls of `fn` run without interruption
(`Take`), so the shared index is safe; a worker whose `fn` rejects ends and the
others go on. `Stream`, `FanOut` and `FanIn` are generators which leave a
resolver when they find their buffer empty. `Emit`, `Broadcast` and `Push` are
the producers' callbacks; `ConsumerAsks` is `next()`, `Continue` the generator
after it was woken, which may be much later. A rejection of a producer or source
is nobody's business in the code; consumers then wait for ever, and the liveness
properties except this case. `ConsumerLeaves` (FanIn) is a `break` in the
consumer's loop. In `Stream`, `Stage` is the predicate of `filter()` and the
function of `map()` settling: the item is dropped, yielded, or found to be one
more than `take(n)` yields. A stream `fromArray()` has its items from the start
(second disjunct of `Begin`). What has been sent, dropped, buffered and received is
compared by its order and as sets of items, since an item is its own number.

### Barrier, Debounce, Throttle (`src/src/async/index.ts:331-402`)

`Barrier`: `WaitBlocks` and `WaitLifts` are the two outcomes of `wait()`, `Pass`
the continuation of one who waited; participants return and are more than `n`.
`Debounce`: a timer that is due may still be pending when the next `Call` comes,
and `FnCallsAgain` is `fn()` calling the debounced function. Its delay is taken to be
one that `setTimeout()` keeps (at most 2^31 - 1 ms; `Retry` models the limit). `Throttle`: `time`
is what really passes, the wall clock lags behind it by `skew`.

### Scheduler (`src/src/sched/index.ts`)

`start()` is taken one entry at a time (`ScheduleOnce`, `ScheduleEvery`), because
it calls handlers between making timers, and these may add jobs or call `stop()`.
`pending` are the event loop's timers and `timers` those `stop()` will clear; a
timer of each start is its own. `Fire` does not wait for the last run to end.

### RedisCache (`src/src/rediscache/index.ts`)

The commands are atomic at the server and everything else interleaves. Values are
numbered by the changes that made them (`changes` counts these), so that an old one
is told from a new one; `replaced` and `raced` are the histories of when a value became old and of
deletions that came too early for a loader. Two owners: one with a prefix, whose
`flush()` is KEYS and DEL, one without, whose `flush()` empties everybody's keys.

### Retry (`src/src/retry/index.ts`)

One call with options from small sets (`Begin`). `FnFulfils`, `FnStops` and
`FnRejects` are the outcomes of `fn()`, `Backs` is `onRetry()`, the backoff function
and the start of the wait. Jitter is any delay, taken at its two ends.
`Power` is `Math.pow()`, as a recursive function. `TimerLimit` stands for the
2^31 - 1 ms of `setTimeout()`. `SleptTold` says of the waits what `LoopTrue` says of
the calls: there is one for each failed attempt but the last, as long as the backoff
function says for its number.

### Http (`src/src/middleware/index.ts`, `src/src/auth/index.ts`)

One request. `Enter` is `use()` of the middlewares up to the guards, `Recover` the
catch of `RecoveryMiddleware`; `JwtRefuses`, `JwtAdmits`, `RolesRefuse` and
`RolesAdmit` are the guards. The handler, the exception layer and the client are
external: a handler may answer, stream, throw, or never do anything, and it does not
stop for a timeout. `status`, `wire` and `ended` are `res.statusCode`, what was sent,
and whether `end()` was called; `Finish` is the listener of `finish` of both the
log and the timer.

### FeatureFlags, Config, Validator (`src/src/feature`, `config`, `validation`)

`FeatureFlags`: `IsEnabled` and `IsEnabledFor` are the two questions, over flags
that `Set`, `Delete` and `FromEnv` change; the hash is any function into the
buckets. `Config`: one `loadConfig()` over any decoration of the fields and any
environment, `Look` being a round of its loop. `Validator`: `FieldCall` over values
known by their length and by where the pattern matches in them; `lastIndex` is
that of the regular expression which validators share, and `flag` tells whether it
is global or sticky, which both keep it, or neither.

### EventStore, Bus, Saga (`src/src/eventstore`, `pubsub`, `saga`)

`EventStore`: `Decide` is a writer that has read the current version, `Append_`
and `Conflict` the two outcomes of `append()`, `Load` and `LoadSince` a follower,
`Clear` the reset of everything but the id counter. `DecidedOnPrefix` is what makes an
append safe: until the store is cleared, what a writer has seen is a prefix of its
stream, and the version it will state is that prefix's. `Bus`: `Publish` leaves a
microtask for each live subscription and `Deliver` runs it; `IndexOf` and `Spliced`
are the two calls of the unsubscribe function. `NothingEarly`: no call is made or
queued for an event that was not published yet. `Saga`: two runs of one saga,
`AddStep` between them and during them, `StepFulfils`, `StepRejects` and
`CompensationSettles`; `LoopTrue` ties a run's loop variable to its completed steps.

The `filter()` of the source is `Filter`: the positions that pass, in their order
(`Nth` counts them). `loadSince()`, `publish()` and `evictExpired()` use it.

### RateLimiter and LruCache (`src/src/ratelimit/index.ts`, `src/src/cache/index.ts`)

`RateLimiter`: tokens in parts, `Tick` for time and `SetBack` for a wall clock
that is set back; `Evict` removes buckets not seen for `ttlMs`; `BeginWindow`
starts, at any moment, the window in which grants are counted. `LruCache`: the
Map is a sequence of entries, of which a key has one at most (`Position`); `used` is
the history of uses, each key at its last one.

## 4. The runs

| Run | Instance | What it shows |
|---|---|---|
| `semaphore` | 5 callers, 2 permits, 2 excess releases | the inductive invariant `IInv` (types, queues, permits conserved, no free permit beside a waiter), nobody overtaken, every waiter served |
| `pool` | 3 tasks, 2 drains, concurrency 1 | bound and order of starts (`PoolSafety`), which tasks a drain can miss, that all settles, and that the pool implements Semaphore |
| `pool_drain_claim` | 2 tasks, 2 drains | the README's "wait for all pending tasks" is violated |
| `guards` | `CircuitBreaker` (3 calls, thresholds 2, timeout 2), `RateLimiter` (2 keys, burst 1.5 tokens, clock set back once), `RedisCache` (2 owners, 2 readers, 1 writer, 2 changes) | types and the chain of notices (`BreakerSafety`), trips and closings only on streaks, the pause after a trip, recovery; grants in every window (`LimitsSafety`); how stale a cached value may be |
| `queue` | 2 jobs, 2 overlapping batches, a batch size of 2, 2 attempts, 1 fault; with and without a handler that rejects with `undefined`, and a payload that cannot be parsed | one owner, nothing stranded, executions bounded, rows true to the attempts that failed, no garbled job executed (`QueueSafety`), ended rows stay, every job ends, the lifecycle is implemented |
| `queue_reasonless` | 1 job whose handler rejects with `undefined` | "dead-letter" is violated |
| `lock` | 2 calls, the second bare or not, a time to live of 6 ticks, 1 retry, 1 fault; prompt and not | exclusion but for lapsed leases, only the holder touches the key, nothing is left behind (`LockSafety`), the key is freed and every call ends (`Progress`) |
| `outbox` | 3 events, 2 relays, batches of 2, 1 fault; with and without a payload that throws | only committed events are sent and no unsent one is marked (`OutboxSafety`), duplicates bounded by faults, all published in the end |
| `streams` | `Pipeline` (5 items, 3 workers), `Stream` (6 items of which 5 pass, take 3), `FanOut` (3 items, 2 outputs), `FanIn` (3, 2 and 0 items), `Barrier` (4 participants, n = 3, 7 calls), `Debounce` (4 calls, delay 2), `Throttle` (interval 2, clock set back by 2) | each item once and in order, no wake-up lost (`StreamsSafety`), the end means all, calls and passings when they should be (`Spaced`, `FiresAfterQuiet`), everyone gets there (`AllGoOn`) |
| `memory` | `EventStore` (2 writers, 1 reader, 3 events), `Bus` (3 subscriptions, 2 events), `Saga` (4 steps, 2 runs), `LruCache` (3 keys and `undefined`, size 2) | versions, ids, deliveries, catching up and the order of use (`MemorySafety`), no lost update and compensation in reverse (`NothingLost`), what may leave the cache |
| `service` | `Migrations` (3 files, 3 processes, 2 releases), `Health` (3 checkers, 2 calls), `Graceful` (2 hooks, 3 runs), `Scheduler` (2 jobs, 2 starts, 2 runs of each at once), `Http` (2 roles, 3 lifetimes of tokens, timeout 2), `Retry` (3 values of `maxAttempts`, 16 backoffs), `Config` and `Validator` (2 fields), `FeatureFlags` (2 flags, 2 entities, 4 percentages or none) | migrations, health answers, shutdowns and job runs are as reported (`ServiceSafety`), settings and verdicts are as given (`SettingsTrue`), requests and retried calls are answered truly (`CallsTrue`), waits grow up to their cap (`WaitsGrow`), effects once, no job after `stop()`, raised rollouts take nothing from anybody and leave other flags alone, everything ends |
| `flags_claim` | 2 flags, 3 entities | "allow-list only" at 0 per cent is violated |

The instances `guards`, `streams`, `memory` and `service` put components that share nothing side by side: a
variable `part` chooses which of them runs, the others stay at their initial
state, so the state space is the sum, not the product. `guards` and `memory` are of one
module, `MCInProcess`: their cfgs choose different `Parts` and give the constants of the
others empty sets. Their MC modules combine
properties of the same kind from each part; every property is stated and
explained in its component's module. Some of them join properties of one module, as
`QueueSafety`, `LockSafety` and `OutboxSafety` do. These joint invariants contain the
conjuncts that only make them inductive (named in section 5), so that TLC has checked
each of them on the instance before it was proved. The other runs take the component's
module with a cfg of its own; nothing is instantiated there but constants.

Bounds. Every counter that the code does not bound is bounded by a constant
named `Max...`; faults share one budget per run. One fault is enough for the
properties about faults, which either bound an effect by the number of faults or
say what a single step may not do; two batches, calls or drains are what a race
needs, the third caller of `semaphore` and of the breaker is there for overtaking and
for a late result beside a probe. `TtlMs = 6` is the smallest time to live of
which a third is longer than the minimum interval. `NItems` and `MaxSize` are
chosen so that queues are non-empty when things end and caches are full when
keys arrive. In `RedisCache` the time to live and the slowest loader are one tick each, so
that a value can expire beside one that is being stored. Percentages lie at both
sides of every bucket that an entity has, which are the first and the last. `CHECK_DEADLOCK FALSE` stands where the system may come to rest
(all tasks settled, process exited); in the semaphore, the breaker and the
queue nothing ever rests, and deadlock is checked.

Fairness. All of it is weak fairness of steps that the runtime takes by itself:
a microtask or timer that is due runs, a query is answered or fails, a poll
comes round, a process that stopped is started again (`Start` in `JobQueue` and
`Outbox`; a run with a crash must otherwise end there), time passes. User
functions - tasks, handlers, guarded calls, `fn` under a lock - are assumed to
settle where a liveness property depends on it, except hooks in `Graceful`,
which may hang: there only the timeout is fair. Producers in `Stream` need not
emit but must fulfil or reject, and predicates settle; sources in `FanOut` and
`FanIn` go on. Nobody has to come to a barrier. Handlers of `Http` owe nothing: the
timer alone makes sure that a request is answered. Handlers of `Scheduler` end, since
a model with bounded overlap could not go on otherwise. Faults are never fair. The
MC modules state the fairness of their parts with `part` inside the action; as
`part` never changes, this is the module's own fairness in the behaviours of that
part, and nothing in the others. Where the code gives up on a case, the property says so: a rejected
source (`StreamEnds`, `ReaderEnds`, `Terminates`), a payload that throws
(`EveryEventPublished`), a rejection with `undefined` (`EveryJobEnds`).

## 5. What is proved

Every invariant, action property and refinement that a passing run checks is a theorem;
liveness is model-checked only. The theorems hold for every value of the constants
that the named assumptions admit: finite sets of callers, tasks, jobs or relays where
they are counted, positive capacities, limits and lifetimes; the bounds `Max...` are any
naturals. A proof has one step for each action. What makes an invariant inductive is, in each module:

* `SemaphoreProofs`: `Invariance` shows `IInv`. `PermitsConserved` alone is not
  inductive: that a hand-off moves exactly one permit needs the head of the
  queue not to hold one already (`NobodyForgotten`: each queue lists exactly the
  callers in its state, once each), and the type of `excess` needs conservation
  in turn, so all of it is proved at once. `Safety` (holders bounded) and
  `OverRelease` (releases that return never outnumber grants) follow.
  `FirstServed` needs that no permit is free beside a waiter, so that `tryAcquire()`
  cannot pass a queue, and lemmas on who stands before whom when a queue is appended to
  or loses its head.
* `WorkerPoolProofs`: `Refinement` shows that the pool implements Semaphore with
  `MaxExcess = 0`; the invariant of Semaphore is thereby one of the pool, and
  gives `Concurrency`. `StartOrder` needs that started tasks, granted ones and
  waiting ones, in this order, are the order of submission (`Pipeline` in that
  module); `DrainMisses` needs that a waiting drain's snapshot covers what was
  submitted and is not late. `Invariance` sums up.
* `InProcessProofs`: of the breaker, `Streaks` relates the code's counters to the
  histories (in CLOSED `failures <= bad`, in HALF_OPEN `probes <= good`, in OPEN
  `age = rest`); with the types it is inductive and gives `TripStreak`,
  `CloseStreak` and `TripRest`; `ListenerChain` is by lemmas about appending to
  and removing from a chain. Of the limiters, `RoomForBurst` says that what a key was
  granted and what its bucket holds never exceed its allowance; an eviction keeps it,
  since a bucket that was idle for longer than the time to live would be full anyway
  (`TtlRefills`). `RateBound` and `NoDebt` follow (`Limits`). Of the cache, `Traced`
  says that an outdated value on its way to Redis was current at most `MaxLag` ago and
  that its writer has still to delete it or has raced; the bound on staleness and that
  only a race (or a failed delete) makes a value stale follow (`Staleness`).
  What is kept in memory (`Memory`, `Lossless`, `Eviction`) has an invariant for each
  part. `EventStore`: `CatchUpExact` and `NoLostUpdate` both rest on
  `DecidedOnPrefix`, for a stream that only grows is determined at the positions seen.
  `Bus`: what was called and what is queued form one sequence, which grows only at its
  end and by an event nobody was called with, since none is there before it is published
  (`NothingEarly`); so order and once-ness are kept together. `Saga`: `RunOK` says of one
  run what it has completed and undone, by its state and its loop variable, for any
  number of steps, and a step added meanwhile only moves the end. `LruCache`: every
  operation thins the Map out (a strictly increasing choice of positions, `Thinned`) and
  may append one entry, of the key that is used at that moment; `Recent` survives both.
  All of them need that filtering by positions keeps order and loses nothing that passes
  (lemmas on `Nth` and `Filtered`, by the cardinality of sets of positions).
* `JobQueueProofs`: `Invariance` shows `QueueSafety`. A row's counters agree with the
  executions only through the transaction that has it locked, so it takes
  `BatchesAreTrue` (what an open transaction has written and what others still see) and
  `EveryRunCounted` (executions are at most the attempts, committed or about to be, the
  faults, and what a rejection with `undefined` has thrown out; the latter is counted
  by lemmas on the cardinality of pairs), and `GarbledNeverRun`, an invariant by
  itself: a loss of a garbled job is never the loss of an execution. `EndOnce` is the
  action property of rows that are done, dead or failed. `Refinement` maps each step to one of `JobLifecycle` or a
  stutter: nothing but `add()` and commits, answered or not, may change what others see
  of a row, and a commit may only report what its batch has executed.
* `RedisLockProofs`: exclusion alone is not inductive. `HeldOrLapsed` says that a call
  under the lock has its own key in Redis or has let its lease run out; `InTime` puts
  the keepalive, the reply on its way and the key's time to live on one clock, and gives
  that where everything is prompt and the time to live is above the minimum interval the
  lease never lapses. `HolderTouches` is the action property.
* `OutboxProofs`: `Invariance` shows `OutboxSafety` by `BatchesAreTrue` (the rows of a batch
  that is publishing are unmarked, and no other has them locked), `EverySendCounted` (a sending
  is marked, about to be, or paid for by a fault) and `OneInterval`; `NotResent` follows.
* `StreamsProofs`: of `process()`, an item behind the index has its result, has failed,
  or is in the hands of exactly one worker; and the ended workers are as many as
  failed plus ran out of items. From this, `Once`, `Complete` and `GoesOn`. The others
  (`Safety`, `EndTrue`, `Timing`, `Quiet`) are proved part by part: streams by the
  position at which a generator goes on (`StartsAtNext`) and the order of what is
  queued and out (`InOrder`), `FanIn` by counting the sources that have not ended
  (`Counted`), the timers by what the one pending timer was set for (`ArmedForLast`)
  and what the stamp stands for (`LastTrue`).
* `ServiceProofs`: the loops of `migrate()`, `shutdown()`, `loadConfig()` and `retry()`
  each by an invariant on what is done when the loop is at its index (`LoopTrue`); the
  scheduler by `LoopAhead` and `StoppedIsIdle`, graceful shutdown by `ExitIsTold` too,
  requests by `StageTrue`, rules by `Memoryless`. `MigrationsOnce` holds for any number
  of processes and releases since the version's row, of which there can be one, is
  committed together with the effect. `Waiting` (`WaitsGrow`) needs `SleptTold`, and
  that the backoff grows with the number of the attempt, which is induction: the library's
  theorem about it takes an operator, so it is stated for a set of numbers
  (`SetInduction`, from the well-foundedness of their order). With it, the recursive
  function of `Power` exists (`TableExists`, `TableUnique`), and an uncapped delay for an
  attempt is no longer than for any later one.

`guards`, `streams`, `memory` and `service` put parts side by side; their proofs show for each
part that its own steps keep its invariant and that those of the others leave its
variables alone.

Only model-checked is liveness: `WaiterServed`, `AllSettle`, `Recovers`, `EveryJobEnds`,
`Progress`, `EveryEventPublished`, `AllGoOn` and `AllEnd`. The proof system has no ENABLED
and no fairness reasoning. `RECURSIVE` operators are not used.

## 6. Where the code and its documents part

Three of these have a run (see `findings` in `PROJECT.json`):

* `drain()` (`src/src/pool/index.ts:26`) empties the whole list when it returns,
  so a later `drain()` does not wait for tasks submitted while an earlier one
  was waiting (`pool_drain_claim`; what does hold is `EscapesOnlyIfLate`).
* A job whose handler rejects with `undefined` or `null` makes the catch branch
  of `processBatch()` throw (`src/src/queue/index.ts:101,108`); its batch is rolled
  back at every poll and it is never dead-lettered (`queue_reasonless`).
* A flag at 0 per cent without an allow-list is globally enabled by `isEnabled()`
  (`src/src/feature/index.ts:34`), though `isEnabledFor()` enables it for nobody
  (`flags_claim`; what does hold is `AnswersAgree`).

The others were met while the properties were being stated, which is why some
of these have a condition:

* `src/src/graceful/index.ts:92-93`: SIGTERM and SIGINT each start a shutdown of
  their own, so hooks run in LIFO order within each (`LifoInEachRun`) but not
  across both.
* `src/src/async/index.ts:238` says that all consumers must be iterated for the
  source of `fanOut()` to advance; the loop drains the source regardless.
* `src/src/cache/index.ts:83` takes a first key `undefined` for an empty Map:
  while that key is the least recently used, nothing is evicted (`SizeBounded`).
* `src/src/pubsub/index.ts:32`: a handler is still called for an event published
  before it was unsubscribed.
* `src/src/saga/index.ts:19`: when a step rejects with `undefined`, the
  constructor of `SagaError` throws a `TypeError` (after the compensations).
* `src/src/health/index.ts:54,60`: of checkers that share a name only the last
  one's result counts (`TrueOnlyIfHealthy`).
* `src/src/lock/index.ts:105`: the keepalive interval is not below 100 ms, so a
  `ttlMs` under 300 is not renewed every third, nor under 100 at all.
* `src/src/outbox/index.ts:71`: a jsonb payload that is not a JSON string makes
  `Buffer.from()` throw, at every poll, and holds up the rows behind it.
* `src/src/circuitbreaker`: `failureThreshold: 0` acts as 1; the module assumes
  positive thresholds.
* `src/src/sched/index.ts:34-36`: a handler that calls `stop()` while `start()` is
  calling it does not stop its own interval, nor the entries behind it, whose timers
  are made afterwards (`QuietAfterStop` excepts it). `workers` (line 13) is not read.
* `src/src/rediscache/index.ts:37`: `getOrSet()` may store, after a `delete()`, the
  value from before it; it stays for its time to live, for ever without one.
* `src/src/retry/index.ts:23` gives the delay as `min(..., max)`; with `maxMs` 0 there is
  no cap, and a delay beyond 2^31 - 1 ms is one of 1 ms to `setTimeout()`. What
  `onRetry()` throws ends the retries (line 142).
* `src/src/middleware/index.ts:48`: once a handler has sent its headers, the timeout
  does nothing, though the answer may never end; a handler that answers after the
  503 but before `finish` has its own status logged (`OneAnswer`); and when the client
  goes away `finish` is not emitted, so the timer runs on and nothing is logged.
* `src/src/auth/index.ts:164,200`: with no roles to ask for, the guard of
  `requireRoles()` still wants claims, `RolesGuard` does not. `Http` asks for a role.
* `src/src/config/index.ts:75`: `@EnvVar` fields of a base class are not loaded
  (`AllOrNothing` has them apart).
* `src/src/validation/index.ts:75`: a regular expression with the flag g or y remembers
  where it stopped, and refuses a good value after another one (`VerdictTrue`).
* `src/src/queue/index.ts:16,87`: a payload that is a string comes back from the jsonb
  column as that string, which `JSON.parse()` changes (`'1'` into 1) or throws on
  (`'hello'`): the job is then tried `max_attempts` times and dead-lettered without its
  handler ever being called (`GarbledNeverRun`).

## 7. Not modelled

`metrics` wraps prom-client, whose state is the library's, and `Future` is a
promise with two methods. Of the modelled components these parts are left out:
`chain()`, `compose()` and `Pipeline.pipe()`, which await one function after the
other; the one-line wrappers of `Store`; `mget()`, `has()` and `ping()` of
`RedisCache`; the rules of `validation` that are pure like `minLength()`; the
text of request ids and log lines; the cryptography of tokens and the figures of
the hash; statistics, error messages, backoff figures and payloads; rounding of
floating-point token counts. Wall clocks are taken to advance, except in
`RateLimiter` and `Throttle`. `PostgreSQL` and `Redis` are modelled by what the
code's own statements rely on: row locks with SKIP LOCKED, rollback of a lost
session, a unique key that makes an insert wait, and one command or script at a
time.
