# djangoProjectTest in TLA+

The repository is a Django monolith (`src/apps`, `src/djangoProjectTest`) on a
home-grown framework layer (`src/framework`), with two stand-alone Django
services (`src/services/ai_studio`, `src/services/notice_service`), Celery
workers and a Redis. Most of it is CRUD behind REST views. What is hard is the
money-like credit of the AI studio, the distributed primitives of the framework
(idempotency, locks, circuit breaker, sliding window, connection pool), and the
way of an alert from the event to its channels: each of them is run by several
processes or threads at once and may be interrupted anywhere. This project
models those parts in TLA+, checks them with TLC on small instances, and proves
the safety of all of them for every value of the constants with TLAPS.

## 1. Inventory

| Part | State | Operations | Interacts with | What makes it correct |
|---|---|---|---|---|
| AI studio service (`services/ai_studio/ai_studio_app`) | `UserQuota` row, `QuotaTransaction` ledger, `GenerationTask` rows | `get_or_create_quota`, `create_generation_task`, `freeze`, `confirm`, `refund`, `generate_task`, `handle_generation` | web processes, Celery workers, row locks of the database | the account balances; a hold is closed once; a failure gives the credit back |
| AI studio of the monolith (`apps/business/ai_studio`) | the same rows, `UserChannelGrant`, a Redis lock per user | the same, with `recharge`, `admin_grant`, `can_use_channel` | `framework.locks`, `framework.idempotency`, retry, circuit breaker | as above, although the Redis lock is best effort |
| Idempotency (`framework/idempotency`) | one record per key in Redis | `reserve`, `store`, `mark_failed`, `idempotent_context` | every protected handler | one effect per key; a replay is the answer of the same request |
| Locks (`framework/locks`) | `lock:<name>` keys with a TTL, the lock objects and their watchdogs | `acquire`, `release`, `renew`, `RedLock` | Redis nodes | exclusion; no theft; an abandoned lock goes away |
| Circuit breaker (`framework/reliability`) | state, counters, opening time in a state store | `allow_request`, `record_success`, `record_failure` | Redis or memory, threads | opens on failures in a row, pauses, closes again |
| Alert engine (`apps/business/alert_system`) | `AlertHistory` rows, rules, silences | `evaluate`, `trigger`, `acknowledge`, `resolve`, `check_escalations`, `dispatch_alert` | log handlers, Celery workers and beat, administrators | one announcement per window; nothing swallowed; no escalation to a level reached already |
| Notification service and the way to it (`services/notice_service`, `task_dispatch.py`, the alert engine's dispatch) | status of an alert, the queue `notice.send`, one idempotency key per content | `_dispatch_alert` with its retries, `send_cross_service_task`, the local fallback, `send_notification`, the dispatcher | two Celery applications, a broker, Redis | a content is sent once; a row that says sent is backed; every alert gets a status |
| Gateway throttle (`framework/gateway`) | a sorted set per identity in Redis, the rules | `get_rate_for_request`, `check_sliding_window`, `toggle_rule` | web processes, administrators | a refusal has its reason; no more than the limit in a window; nobody shut out for ever |
| Database pool (`framework/db`) | idle connections, their count, the pool's lock; a wrapper per thread | `acquire`, `release`, `close`, `close_all`, `get_new_connection` | threads, Django's connection handling, SIGTERM | no connection lent twice; the maximum holds; no wait without end |
| Bulkhead, retry, fallback (`framework/reliability`) | a counting semaphore, an attempt counter | `acquire`, `release`, `call` | callers' threads | permits are returned |
| Audit chain (`apps/system/core`) | `AuditLog` rows linked by hashes | `save`, verification | every request | one chain without forks |
| Backup registry (`apps/system/core/backup.py`) | a JSON file | create, restore, delete | Celery, administrators | no entry lost |
| Key rotation (`framework/key_management`) | current key, previous keys, grace period | `rotate_key` | beat, readers | data stays readable |
| Cache and tags (`framework/cache`) | values, tag sets | get-or-set, invalidate by tag | web processes | no stale value survives an invalidation |
| Configuration centre and feature flags (`apps/system/saas`) | versions, published values, a cache per process | publish, roll back, evaluate | administrators | readers see a published version |
| Online users (`apps/system/core/consumers.py`) | connected users in the cache | connect, heartbeat, disconnect | WebSocket workers | a user with a tab open is online |
| AI gateway (`apps/business/ai_gateway`) | mirror rows of the service's tasks | views | the AI studio service | the mirror follows |
| The rest: users and login, OIDC, i18n, files, metrics, logging, health, front end, deployment | rows of one user, files, counters | views | – | no protocol of their own |

What is hard in this code:

* **check, then act** on rows and keys that others change in between (balance
  before the lock, suppression window, stale idempotency record, `opened_at`,
  the requests counted in a window);
* **messages sent before the transaction commits** (`generate_task.delay`), and
  messages whose acceptance nobody knows (`send_cross_service_task`);
* **processes that die** between two commits, while they hold a lock, before the
  alert they have created is announced, with a message acknowledged;
* **best-effort locks** that expire or are skipped;
* **read-modify-write of whole rows** (`quota.save()`), of parts of a row
  (`save(update_fields=...)`) and of records (`update_status`);
* **retries** of work that may have been done already, and failures of the
  handler that handles failures;
* **resources that are lent**: connections that two wrappers refer to, that are
  lost on the way, and that outlive their pool;
* **time**: TTLs, renewals, recovery times, suppression and sliding windows.

`PROJECT.json` lists each of these hazards at its line.

## 2. Modules

```
Weights                    the total weight of a set: tasks by cost, ages by requests
QuotaAccount               abstract: a freeze-then-confirm account
  StudioService            the stand-alone service, implements QuotaAccount
  AiStudioQuota            the monolith, implements QuotaAccount
Idempotency                framework/idempotency on Redis
RedisLock                  a lock on one Redis node, with watchdogs
RedLock                    a lock over several Redis nodes
AtomicBreaker              abstract: a breaker that changes at once
  CircuitBreaker           the breaker over either state store, implements it but for
                           calls that overlap
AlertEngine                alerts: suppression, acknowledgement, escalation
Notice                     alerts: from the row to the channels, over two queues
Gateway                    the sliding window of the throttle
DbPool                     connections: pool, manager, Django's wrapper
MC*                        constants of the runs
*Proofs                    theorems
```

Operators whose comment starts with "Slip:" are not part of a specification.
Each is a plausible mistake in the definition that follows it, kept to show
which property notices the mistake (`mutants` in `PROJECT.json`).

### QuotaAccount, the promise

A user's credit is granted (`Grant`), held for a task (`Hold`) and each hold is
closed once, captured (`Capture`) or given back (`Release`). `Purchase` and
`Void` are a hold opened and closed in one transaction. A hold is affordable at
the moment it commits. Both studios are compared with this module by a
refinement mapping (`Account == INSTANCE QuotaAccount WITH ...`): `held` is the
set of tasks whose ledger is exactly FREEZE, `closed` those whose ledger is
complete.

### StudioService

One user. `quota`, `status`, `ledger` are committed rows; `spent` is the sum of
the CONFIRM rows; `pc`, `view`, `work` say where each creating request, each
`GET quota/` and each worker is; `queue` holds the `generate_task` messages in the
broker, `sent` how many were sent for each task, and each message has a worker
of its own (`work`), so that two workers may handle one task; `rowLock` is
`select_for_update`. A request's writes become visible in its commit action;
until then others see the committed rows, which is what READ COMMITTED gives
them. `Seen` is the row as the transaction that creates it sees it. The action
per step is: `Open` (get-or-create and the unlocked balance check), `Freeze`
(lock and second check), `GenerateInRequest`/`CommitSync` or
`Dispatch`/`CommitAsync`, `Abort` (any exception, or a crash), `Redeliver`;
`OpenAccount`/`GrantGift` outside a transaction; `Receive`, `Load`, `Generate`,
`Confirm`, `MarkFailed`, `Refund` and their failures on a worker. Whether a task
is handled while `AI_STUDIO_SYNC` is on is the set `Inline`; the shipped worker has
it off (`services/ai_studio/docker-compose.yml:77`). `Delivered` are the tasks that
`handle_generation` creates: a delivery that failed may come again under the same
task id (`Redeliver`), with or without a message sent before the failure.
`Copies` bounds the messages of one task. The error branch is
modelled with its own swallowed failures: a worker that does not find its task
ends as `swallowed`.

### AiStudioQuota

The same for the monolith, with its differences: the account exists since
registration (`Init` holds the gift); freeze, confirm and refund are inside
`_quota_lock` (`TakeMutex`, `Degrade` when the wait ran out or Redis is away,
`Expire` at any time, `LeaveMutex`), which in a request is taken again while the
row lock is held; the provider may fail inside the request, and the refund then
commits with it; `@retry` runs the generation again (`Retry`), inside a circuit
breaker that may be open (`BreakerOpen`); `recharge` and `admin_grant` read a
row without a lock and save every column (`ReadQuota`, `SaveQuota`); one channel
with its limit (`MayUseChannel`, `used`). Nothing keeps the row from changing
between a recharge's read and its save. The ghost `lost` is what the saves have
overwritten: whether any did (`any`), and by how much the balance and the total
were put off.

### Idempotency

Calls of one key. `rec` is the record in Redis, `snap` what `update_status` has
read, `reply` what each call returned; a response is the call that produced it.
`Reserve` is SET NX, `Lookup` the GET and the five branches of
`idempotent_context` (`conflict`, replay, `busy`, retry of a FAILED record, gone),
`DeleteStale` the deletion of an expired record by key, `Execute` and
`ExecuteFails` the protected function, `ReadForUpdate` + `Store`/`MarkFailed` the
two steps of `update_status`, `WriteFails` a write that Redis refuses, `Crash` a
process that dies. A record first passes its `expires_at` (`Lapse`) and then
disappears (`Evict`). The ghosts `raised` and `lapsed` remember whether a
function has raised and whether a record has lapsed, for the properties that
hold until then.

### RedisLock and RedLock

`RedisLock`: `key` with its TTL, and for each lock object `held`, `depth` (the
re-entry count), `dog` (is its watchdog running) and `due` (seconds to the next
renewal). `Release` has two outcomes: Redis runs the script, or does not answer
and the object forgets the lock all the same. `RenewFails` is the exception that
`renew` turns into "not the owner", which ends the watchdog; the ghost `cut`
remembers that it happened. `Late` bounds the delay of a renewal (scheduling,
network). Lock objects are re-entrant, the default.

`RedLock`: one `Ask` per node, in which the node sets the key or refuses, and in
which the answer of a node that has set it may be lost; `Conclude` compares with
the quorum; `ReleaseNode` per node. `age` is the time since the acquire began.

### CircuitBreaker

`state`, `failures`, `successes`, `waited` (time since `opened_at`) are the keys
of the state store; every read-then-write of `allow_request`, `record_success`,
`record_failure` and `_open` is a step of its own, in the order of the code.
`Init` picks the store. Over Redis (`redis`), which `get_state_store` picks
(`state_store.py:165`), the callers are processes with a local lock each, so their
steps mix; over memory they are threads that share the lock (`Enter`, `Step`).
`pickled` says that the count of successes holds the pickled 0 that `set` writes:
INCR refuses it, `incr` answers 0 (`Increased`), and nothing is counted until it
has expired. A reading of the state and the branch taken on it are one step.

The TTLs are `StateExpires`, `FailuresExpire` and `ZeroExpires`. They may act at
any moment, sooner than the five recovery times of the code: more behaviours
than the program has, so what holds of them holds of it. Two keys never expire in
the model: the count of successes, once it is an integer, is taken to be renewed
by the next success, and an expired `opened_at` reads as long ago. A Redis that
does not answer (`get` then returns nothing, which reads as CLOSED) and processes
that die inside a report are not modelled.

`strikes`, `overlap` and `healed` are ghosts. `overlap` is set while two callers are
inside the breaker together, or one while the state key expires under it, and
stays set until the last of them has left.

`AtomicBreaker` is what the breaker promises: `Probe` (a call after the pause),
`Success`, `Failure`, `Lapse` (a key nobody has renewed) and `Wait` (time), each of
which changes all it has to at once. `CircuitBreaker` is compared with it by a
refinement mapping in which a caller that has begun to write a change of state
has made it (`Mode`, `Fails`, `Wins`, `Pause`).

### AlertEngine

One rule and one title. A row is named after the event that created it. `last`
and `first` are the minutes since `last_occurred_at` and `first_occurred_at`.
`Evaluate` chooses whether a silence is in force; `Lookup` and `Create`/`Bump`
are the two statements of `_check_suppression`, with `count` the occurrences
read by the first; `Announce` is `_dispatch_async`; `CrashBeforeAnnounce` the
process that dies before it; `Trigger` a manual call, whose row is stored and
never announced when neither the call nor the rule names a channel (the place
`mute`); `Dispatch` and `DispatchFails` the worker.
`ReadRow` and `Acknowledge`/`Resolve` are the read and the
`save(update_fields=...)` of a user's call. A sweep reads the unresolved rows
once (`StartSweep`) and then walks through rows and rules (`Escalate`, `Skip`).
Evaluations, triggers and sweeps overlap freely. The ghosts `beside` (the events
an event was under way together with) and `abreast` (the sweeps that met another)
let the properties say which of their cases that can spoil.
`Horizon` bounds the age up to which rows are told apart; it is no smaller than
any delay of an escalation rule, so no sweep could tell a greater age.
SENT and FAILED are one status, as no property tells them apart.

### Notice

The way of an alert. `row` is the status in `AlertHistory`. An alert may be
dispatched twice, by a task and by the process that raised it, and `stage` says
where each of these dispatches is: `Enqueue` is `_dispatch_async` with the
platform's queue, `RunInline` without it, and `EnqueueUnsure` the case in which
the queue has the task but `delay` raises, so that both run. `Unsure` bounds the
alerts this happens to. `Start` is a worker of the platform that takes the task,
`Publish`, `PublishUnsure` and `PublishFails` the three outcomes of
`send_cross_service_task`, `SendLocally` the fallback `_dispatch_sync_local`,
`MarkSent`/`MarkFailed`/`SaveFails` the saves that end an attempt, `Retry` the
`@retry` around it, `PlatformDies` a process that stops anywhere. `queue` counts
the messages in `notice.send`. On the other side a worker of `notice_service`
takes a message (`Take`, part of every handler: Celery acknowledges first) and
finds the key free (`Reserve`), taken (`SkipKnown`), Redis down and replaced by the
null client (`SendUnguarded`), or Redis failing under its hands (`TaskFails`). It
tries the channels one by one (`Try`) and stores the results (`Finish`), or dies
(`WorkerDies`). The key itself is reduced to what module `Idempotency` shows of
it: free, taken, done, and gone after its hour (`Lapse`). `tried`, `locally`,
`lapses` and `lost` are ghosts. Several alerts may share one content,
because the key is made of the content and not of the alert.

### Gateway

One identity of one throttle type. `zset` is its sorted set, kept by the age of
its members, `ttl` the key's remaining lifetime, `active` the rules switched on.
A request is `Ask` (the rate that applies, and the clock), `Trim`
(ZREMRANGEBYSCORE), `Refuse` or `LetThrough` (the ZCARD that decides, which is a
command of its own and not in the pipeline), `Add` (ZADD and EXPIRE, the second
of which may fail), `Degrade` (Redis fails: the request passes). `Elapse` is time.
Ages make the clock relative, so time is unbounded and the state is not.
`RatesFor` leaves open which of several rules of one priority applies, as the
order of the query does. `entered` is a ghost: the requests that were recorded,
by age, those whose EXPIRE succeeded (`kept`) and those whose EXPIRE failed
(`bare`).

### DbPool

`idle`, `created`, `closed` and `lock` are the fields of each pool the manager
has built; `current` is the one it hands out. Per thread, `pooled` and `raw` are
the two references of `PooledDatabaseWrapper`, `pc`, `ref` and `cand` the call it
is in, the pool that call works on and the connection in its hands. `open` is
what the database has open. `Conns` names connections: a new one (`Manage`,
`Create`, `Native`) takes a name that nothing knows, and is possible as long as
there is one. `acquire` is `Enter`, `Get`, then either `Create`,
`CreateFails`, `TimedOut` or `Wait` and `WakeUp`, then `Lend` or `Stale` and
`Uncount`; `release` is `Release`, `PutBack` or a discard with `Uncount`. `Native`
is what `get_new_connection` does when `acquire` raises. `CloseAll` is the SIGTERM
handler; the process goes on, and `Manage` builds the next pool on the next use.
`Manage` is one step, although `get` and `init_pools` check and build without a
lock (`manager.py:58`, `:150`). Two threads that come first after `close_all` may
both build; the pool that is overwritten is not closed, its connections stay
open, and a thread that waits on it may wait for a connection that goes back to
the other one, so `WaitHasEnd` does not speak of such a pool. A `close_all`
between the look-up and the return of `get` makes it raise KeyError; the
wrapper then opens a connection of its own (`Native`), or drops the loan on
closing. None of this is in the model.

Entries of the queue have no order, so `heapq` raises as soon as it compares two
of them: `PutBack` next to another entry stores the connection all the same (the
wrapper swallows the error), `Pop` from three or more removes the entry and loses
it, and the warm-up stores its second connection without counting it.

## 3. Runs

| Run | Instance | Result |
|---|---|---|
| `studio_account` | 3 tasks costing 3, 3, 2 against a gift of 5; one in line, two delivered by the platform; at most 2 messages of a task; two first viewers; faults on | passes, 131,405 states |
| `monolith_account` | 3 tasks costing 3, 2, 2 against a gift of 4 and an administrator's deduction of 2; one in line; 2 attempts; channel limit 4; faults on | passes, 367,052 states |
| `idem_key` | a request, a retry, and a call with another payload, all faults | passes, 141,379 states (symmetric) |
| `lock_lease` | 2 lock objects of one thread and 1 of another; TTL 4, interval 1, renewals up to 2 s late; depth 2 | passes, 1,014 states |
| `redlock_valid` | 2 processes, 3 nodes, quorum 2, TTL 2 | passes, 402,342 states (symmetric) |
| `breaker_stores` | 3 callers over either store, thresholds 2 and 2, recovery 1 | passes, 692,674 states |
| `alert_window` | 2 evaluated events, 1 trigger, 1 user call, 2 sweeps, 2 escalation rules, window 1; at most 4 of them begun | passes, 804,576 states (symmetric) |
| `notice_way` | 1 alert, dispatched by a task or by its raiser or both, 2 channels, 2 service workers, 3 attempts, 1 lapse | passes, 137,998 states |
| `gateway_window` | 2 workers, 2 paths, a rule of 1 per 2 ticks over a default of 1 per 3, stalls of 1 tick | passes, 581,414 states |
| `dbpool_loans` | 3 threads, at least 2 and at most 3 connections, 2 pools | passes, 5,235,877 states (symmetric) |
| `studio_race` | 3 tasks by workers, no fault but the provider's | `FailedRunGivesBack` violated |
| `dbpool_wrapper` | `dbpool_loans` | `LentStaysOpen` violated |

Why these bounds are enough to meet the interesting cases:

* The costs exceed the credit, so some request is refused, some is refused only
  under the lock, and a refund lets a third one in. Three tasks make one request
  wait for the row of a second while the worker of the first settles. Two
  messages of one task (`Copies`) are what one redelivery makes; one of the tasks
  by workers may be sent twice, and the other's hold is what a repeated confirm can
  take.
* With two lock objects of one thread the same token is used twice, with the
  third another one. TTL 4 and interval 1 leave room for a renewal that is two
  seconds late, and for one that is missed.
* Three nodes are the smallest number for which a quorum can lose a node.
* Thresholds of 2 are the smallest for which a streak can be interrupted. With
  three callers two can disturb what a third has read. One unit of recovery
  time tells a pause that is over from one that is not.
* A window of one minute is passed by two ticks; three events let one be created
  in a window, one suppressed, and one come after it. Two rules of different
  levels make a sweep raise an alert through both. All events, calls and sweeps at
  once are too many states, so the run stops at states in which more than three
  (`Busy`) of them have begun, a sweep that has ended not counted; it checks those
  states but does not go on from them. Any two events can overlap with a sweep, any
  two sweeps with an event or a call.
* A second dispatch of the one alert brings a second message of the content, as a
  second alert with this content would, and meets the key of the first in each
  of its states; three attempts are the code's number. One lapse (`MaxLapses`)
  lets a content be sent a second time. Two alerts with one content, two attempts
  and no unsure enqueueing were run by hand: 181,873 states, no error. Two
  alerts that may both be dispatched twice are too many states for a run.
* Windows of 2 and 3 ticks over one sorted set let a rule trim what the default
  still counts; with a limit of 1 each surplus request shows. `MaxAge` 4 is the
  longest window and the longest stall, beyond which ages are not told apart.
* A pool of three is the smallest whose queue can lose an entry (a get from
  three), and has one connection more than the queue keeps. With two pools a
  loan of the first is returned to the second. Names of connections are reused
  once nothing knows them; of nine at least two are free in every state, which is
  as many as a step ever needs.

TLC checks deadlock where the system never stops (locks, breaker, gateway,
pool). In the others every request ends, so the runs allow it.

### Fairness

* `StudioService`, `AiStudioQuota`: strong fairness of each request: a live process
  takes its next step, and the database serves the waiters of a row lock in turn,
  so a process that is again and again able to proceed does. Weak fairness of the
  bounded wait for the Redis lock (`wait=3.0`). Nothing is assumed of workers and
  viewers, and no fault is ever obliged to happen or to stop happening.
* `RedisLock`: time does not stop, and a watchdog whose renewal is due runs.
* `CircuitBreaker`: the service is called, calls return, the threads get the
  local lock in turn, time passes, and the pickled zero, which no success renews
  (INCR raises before EXPIRE is sent), reaches its TTL.
* `Gateway`: time does not stop and a request that was begun is served (weak
  fairness). Nothing is assumed of the client, the administrator or Redis.
* `Notice`: a task that was begun, and a message that waits, are worked on (weak
  fairness of the raising of each alert, of each dispatch from the moment its task
  waits, and of each worker's receiving and sending). Every
  fault that ends one of them, a death or a failing Redis, stays possible.
* `AlertEngine`, `Idempotency`, `RedLock` and `DbPool` state safety only.
  `DbPool` has no liveness property because a thread may keep its connection for
  ever; what the code can promise is `WaitHasEnd`.

### What the passing runs show

*Credit, service.* A task that is created once, or whose delivery failed before
it dispatched, is settled once. A delivery that dispatches, is rolled back and
comes again leaves two messages of one task, and nothing in `tasks.py` keeps two
workers from settling it. What is lost then is exactly known, and nothing else
can be: `Conservation` (what may be spent, what the open holds cost and what was
charged add up to `total_granted` plus the cost of the repeated settlements,
`Repeats`); `FrozenBacked` (the frozen credit falls short of the open holds by no
more than that: without a repetition the clamps `max(0, ...)` never act);
`SettledOnce` (only a task sent several times is settled again, once by each
message at most); `StatusMatchesLedger` for the tasks sent once; `NoOverdraft`
always. Until the first repetition each commit is a step of `QuotaAccount`.

*Credit, monolith.* `OutcomeMatchesLedger`: a task is charged or given back once.
`LedgerReconciles`: the row equals what the ledger says, put off by what the
saves of stale rows overwrote (`lost`) and by nothing else. Until the first such
save each commit is a step of `QuotaAccount`. The run has one recharge, which
cannot overwrite another's, so that `lost.total` stays 0 in it; two recharges and
two tasks were run by hand (about 41,000 states), and the theorem has no bound.

`RequestsEnd`, for both: taking the Redis lock inside the row lock, and the row
lock inside the Redis lock, cannot block a request for ever, because the wait for
the first is bounded.

*Idempotency.* `AtMostOnce` until a call has raised or a record has lapsed;
`OnePayload` and `ReplayIsGenuine` until a record has lapsed, failures and
retries included; `AnswersHappened` always.

*Locks.* Until a renewal has failed, two lock objects never hold the lock
together, whoever dies and whichever release is lost (`MutualExclusion`); a key
changes hands only when its owner lets go or its time is up (`HandedOver`); an
abandoned key goes away (`AbandonedIsFreed`). Over several nodes, two processes
are never both within their validity (`ValidHolderIsAlone`).

*Breaker.* Over either store. `IsAtomic`: a consultation or report that meets no
other is one step of `AtomicBreaker`, whatever mixture of overlapping calls has
left the keys as they are; over memory reports overlap only with the
expiry of the state, so that there it is a refinement but for that.
`OpensOnStrikes` has the same exemption; `ClosedIsFresh` has none: over Redis as
well no failure from before the last success or closing is left on the key, once
the caller that closed has dropped them. `Recovers`: once the service is healed
the breaker closes for good, over Redis only because the pickled zero runs out.

*Alerts.* Whatever overlaps. `OncePerWindow`: an evaluation announces an alert
only when those announced before are older than the window, but for the ones that
events under way with it have stored or counted in. `CountsEvents`: a row counts
each event that had it to itself, and none twice. `SuppressedWasAnnounced`: an
alert that counts suppressed events was announced, or is about to be, unless it
was silenced, its process died, or a trigger without channels stored it.
`EscalatedAnew`: a sweep that meets no other announces an alert again only at a
level it is not at. And `NeverReopened`, although user calls, workers and sweeps
save rows they read some time ago.

*Notices.* `OncePerLife`: however often a content was published, by retries, by
an unsure broker or by a second dispatch, the service tries each channel once, and
once more for each time the key had lapsed or Redis remembered nothing.
`SentIsTried`: behind a row that says SENT every channel is tried sooner or
later, unless a worker took a message of the content and did not work it off.
`Settles`: every alert gets its status, or each of its dispatches died or failed
every attempt.

*Gateway.* `RefusedAtLimit`: a refusal is justified by requests that were
recorded within the window and the time two requests take, whichever rule
trimmed the set and whichever EXPIRE failed. `BurstBounded`: counting and
recording are two steps, and the excess is bounded by the other requests under
way. `NotBanned`: a client that never pauses is let in again and again.

*Pool.* `Sound`: a connection is in one queue, one call's hands or one wrapper's
loan, through discards, lost entries and shutdowns. `CountNearTruth`: `_created`
and the connections it stands for differ by the uncounted one of the warm-up at
most, and downwards by the entries the queue has lost, which leave two.
`WaitHasEnd`: a thread that waits with the pool's lock held waits for a
connection that is idle, lent or on its way, never for nobody.

### Where the code and its comments disagree

The two violation runs each show a disagreement with a line of the repository,
quoted in `PROJECT.json`:

* `studio_race`: the message leaves before the commit
  (`services/ai_studio/.../services.py:197`); a worker that is fast enough finds
  no task, swallows the error, and the credit committed afterwards stays frozen.
* `dbpool_wrapper`: `close` returns the connection and keeps its reference
  (`framework/db/backends.py:121`), and the next `close` of the same wrapper
  closes the connection under the thread that has borrowed it since.

Others are not run, but the modules hold what is needed to see them:

* A delivery of `handle_generation` that has sent its message (`services.py:197`)
  and is rolled back leaves the message in the broker; when it is delivered again
  there are two. Both workers find the committed task, and both confirm, or one
  confirms and one gives back (`tasks.py:18`). The cost then comes out of the
  credit another task holds, or is clamped away, and the user sees the
  status the last worker wrote. `studio_account` with `Repeats = {}` as an
  invariant shows it.
* A recharge that overlaps another write of the row loses it
  (`apps/business/ai_studio/services.py:274`): `monolith_account` violates
  `~lost.any`.
* Over Redis the breaker counts no success until the pickled zero has expired,
  because INCR refuses it (`state_store.py:114`, `:133`), whereas
  `circuit_breaker.py:12` says that enough successes in HALF_OPEN close it.
  `breaker_stores` reaches states in which any number of successes was reported
  and none counted; it closes only because the zero has a TTL
  (five recovery times, renewed at each new pause).
* A trigger without channels stores a row that is never announced
  (`alert_engine.py:164`), and `channels` is empty by default. The row is found by
  `_check_suppression` (`:419`) all the same, so the evaluations of the next window
  are suppressed although nobody was told: `SuppressedWasAnnounced` without its
  place `mute` is violated.
* A process that was refused a RedLock leaves the key on a node whose answer was
  lost until its TTL (`locks/core.py:507`): the invariant `RefusedHoldsNothing`
  in `redlock_valid`.
* With two escalation rules only the last level reached is kept
  (`alert_engine.py:258`), so every further sweep goes through both levels again,
  and the alert is announced again each time. `EscalatedAnew` is what remains true.

While modelling we met more, which the preconditions of the properties above
leave room for:

* A process that dies after `get_or_create` has committed the row of a `GET
  quota/` and before `_grant` leaves an account that never gets its gift
  (`services.py:53`); the viewer of the model ends as `crashed`.
* In the monolith as in the service the message leaves before the commit
  (`apps/business/ai_studio/services.py:228`).
* `can_use_channel` compares past consumption only, so admitted tasks exceed the
  limit together (`services.py:263`).
* After a failure several retries run at once, and each may take effect
  (`idempotency/core.py:392`). After expiry a call may complete the record of
  another payload (`:184`), and a second deletion may hit a fresh reservation
  (`:175`). These are why `AtMostOnce` and `ReplayIsGenuine` end where they do.
* With a TTL of one second the watchdog's interval is the TTL (`locks/core.py:391`);
  `Timely`, the hypothesis of the theorems, excludes it. One renewal that raises
  ends the watchdog for good (`:174`): the ghost `cut`. Re-entry is counted per
  object, not per owner (`:332`).
* Over Redis one process may end the pause another has just begun
  (`circuit_breaker.py:128`), which is what `overlap` exempts, and HALF_OPEN admits every caller although a comment
  speaks of one probe (`:133`).
* Evaluations that overlap may both create an alert, or both write the same
  count (`alert_engine.py:419`, `:431`): the exemptions of `OncePerWindow` and the
  lower bound of `CountsEvents`. The SILENCED
  row of a silence that has ended suppresses the next alert (`:419`), which is
  why `SuppressedWasAnnounced` exempts silenced rows. The status of a sent alert
  is overwritten by SUPPRESSED, and `max_occurrences` has no effect (`:434`).
  Line 10 and line 229 disagree on whether acknowledged alerts are escalated;
  they are (`:239`).
* If Redis fails after its probe, `reserve` raises and the notification is lost,
  although the header of the service's `tasks.py` speaks of degrading. Results
  are stored as COMPLETED even when every channel failed, so repetitions within
  the hour send nothing. A content raised again after its suppression window but
  within the hour is swallowed while its row says SENT. A row that says FAILED
  may have been published.
* Rules with a shorter window trim the sorted set they share with rules of a
  longer one, so the "精确滑动窗口" (exact sliding window) of `throttle.py:220` counts
  too little; `RefusedAtLimit` states only that it never counts too much. A ZADD
  whose EXPIRE failed keeps the old lifetime, which is why `BurstBounded` counts
  the requests kept. Without Redis everything passes.
* The pool's queue raises TypeError (section 2), so the maximum is exceeded by
  one after the warm-up, a pool shrinks to two, and an `acquire` that raises opens a
  connection beyond the pool. `_handle_db_error` is no hook of Django's, so a
  broken connection is never marked as such. The SIGTERM handler closes the pools
  and the process goes on.

## 4. Proofs

All are checked by TLAPS, for any sets and numbers that satisfy the modules'
assumptions.

* **`StudioServiceProofs`**: `TypesHold`, `CreditConserved`, `FrozenIsBacked`,
  `NeverOverdrawn`, `EachSettledOnce`, `StatusAgrees`, for any number of messages of
  a task. None of the safety properties is inductive by itself. That a task sent
  once is settled once needs that its worker, past the lookup, has an open hold
  (`WorkInv`), and that a message is sent by its request and handled once
  (`SendInv`); that a task sent several times is settled by each message at
  most once needs that the ledger has one row for each worker that is done
  (`LedgerInv`). Nothing of a task is committed before its request is
  (`CommitInv`), the commit does not overdraw because nobody touches the row between
  the second check and the commit (`LockInv`), and the held and the repeated
  credit are sums over sets that change by one element at a time (`Books`). `IInv`
  is their conjunction. The proof has one lemma per group of actions for the books
  and one for the control.
  `ServiceImplementsAccount` adds the refinement: each commit maps to `Hold`,
  `Purchase`, `Capture`, `Release` or `Grant`, everything else to a stutter, and
  `IInv` supplies the preconditions, as long as `Repeats` stays empty. The total
  cost of a set of tasks is a cardinality, so that what adding or removing a task does to it (`WeightAdd`,
  `WeightRemove`) follows from the library's facts on finite sets, without
  recursion; both studios' proofs state these lemmas.
* **`AiStudioQuotaProofs`**: the monolith. `EachTaskSettledOnce` holds whatever
  the recharges overwrite: no task is charged and given back, or either of them
  twice. `Control` says why: nothing of a task is committed before its request is,
  a request settles its task itself or leaves it to one worker (`CommitsOwn`), and a
  worker past its lookup has an open hold that nobody else closes (`WorksOnHold`). `BooksReconcile` has
  no hypothesis either: `Books` is inductive because `lost` grows by exactly the
  difference between the row a recharge overwrites and the row it had read.
  `MonolithImplementsAccount` covers every step until `lost.any`, that is until
  the first save of a stale row, which is no step of an account. The balance is an
  integer and not a natural number, as `admin_grant` takes a negative amount as a deduction without looking at the
  balance; `LedgerReconciles` bounds how far that goes.
* **`RedisLockProofs`**: `LeasesKept` and `WatchdogExcludes`, under
  `Timely == AutoRenewal /\ Interval + Late < TTL`. Exclusion follows from `LeaseInv`: a
  holder's key is its own and outlives the wait for its renewal
  (`key.ttl >= due + TTL - Interval`), so no second object can acquire.
  `OwnerLetsGo` assumes nothing of the watchdog, which may be off, late or cut off
  from Redis: a key changes hands (`HandedOver`) when an object of its owner's
  thread lets it go, or when its last second is over. Its invariant is `KeyLives`,
  an owned key has time left.
* **`RedLockProofs`**: `QuorumKept` and `ValidHoldersExclude`, for any number of
  nodes and any majority quorum: within its validity a process's quorum of keys
  carries its token, and two quorums share a node.
* **`IdempotencyProofs`**: `AlwaysAnswersHappened`, `AlwaysReplayIsGenuine`,
  `AlwaysOnePayload`, `AlwaysAtMostOnce`. `IInv` says more than the four: what is
  stored or answered was executed (`Answered`); a record goes away only after it
  has lapsed, and without one nobody is under way (`Kept`); until then the record,
  and every copy of it that an update has read, carries the payload of each call
  that was let through (`Owned`); without a failure that is one call (`Single`).
* **`ProtectionProofs`**, the breaker: `BehavesAtomically`, `StrikesOpen`,
  `PausesLast`, `ClosedStartsFresh`, for either store, any number of callers, any
  thresholds and any expiry. None assumes that callers exclude each other. The
  first three exempt a report that another overlaps, and only while it does, so
  they say what the breaker does afterwards with whatever keys an overlap
  has left behind. `IInv` says, without an overlap, who is inside (`Apart`: one caller
  at most) and that it still finds what it has read (`Read`: one about to end a
  pause has waited, one about to open a closed breaker has seen the strikes);
  and always, that the failures on the key never exceed those reported since the
  last success or closing, but while the closing is under way, and that a
  pickled count is 0.
  `BehavesAtomically` is the refinement: `Seen` reads the abstract state off the
  place of the one caller that moves. `EnterHalfOpen` maps to `Probe`, `Clear` and
  `Tally` to `Success`, `Strike`, and `RecordFailure` in HALF_OPEN, to `Failure`, a
  tick to `Wait`, an expiry to `Lapse`, and all other steps, the rest of a closing or
  an opening among them, to a stutter, and so does a `Tally` that Redis refuses.
* **`ProtectionProofs`**, the gateway: `AlwaysBurstBounded` and `RefusalsAreDue`,
  for any number of workers, any rules, limits and windows, whatever EXPIREs fail.
  Both compare how many requests are younger than some age (`Younger`). That is
  a `Weight`, a cardinality, so what recording, trimming and the passing of time do
  to it (`YoungerRecord`, `YoungerShift`, `YoungerGrows`) needs no induction over
  the ages. `GatewayInv` says that a worker that counts has trimmed what its window
  does not reach (`Trimmed`), that the sorted set shows nothing that was not
  recorded, at no lower age (`Accounted`: refusals are due), that what was kept stays
  in it, at most `Stall` older, while every window reaches back to it (`KeptInSet`,
  `KeyOutlives`), and that each worker about to record may still add one
  (`BurstRoom`: a worker joins only after counting fewer than its limit). It was
  checked as an invariant of the run's instance before it was proved.
* **`AlertProofs`**: the alert engine, and the way of an alert.
  `NothingReopens` and `NoneSwallowed` hold however calls, evaluations, workers
  and sweeps overlap. Their invariant `Base` says that rows are made by their own
  events (`Recorded`), and that a row nobody was told of belongs to an event that
  is about to announce it or has kept it back (`Announced`).
  `AnnouncedOncePerWindow`, `EveryEventCounted` and `EscalationsRaise` hold without
  a hypothesis on what overlaps. `Known` says that events under way together
  know of each other (`Met`) and what each may rely on but for the events it was
  `beside` (`Placed`): an event about to create or to
  announce has every other announced row older than the window, and the count
  it has read is no less than the events that had the row to themselves, and no
  more than the events in it. `Swept` says that what a sweep that met no other has
  read of a row's level is still so.
  The second half is about `Notice`. `AlwaysOncePerLife`: the property is not inductive, for a worker that has not yet tried a channel, and a
  key that is free, each stand for an attempt to come. `Budget` adds both: tried +
  workers under way + (1 if the key is free) never exceeds 1 + lapses.
  `AlwaysSentIsBacked` is the safety half of `SentIsTried`: behind a row that says
  SENT there is at any moment a queued message, a worker at it, a try on every
  channel, a local sending, or a message lost with its worker or with Redis.
  `Reasons` strengthens it: a key that is taken has a reason of the same kind,
  which is why skipping a message loses nothing, and a worker has tried the
  channels that are off its list.
* **`DbPoolProofs`**: `AlwaysSound`, `CountStaysNear`, `WaitsForSomebody`.
  `LoanIsExclusive` adds up three cardinalities; `Exclusive` states each pair of
  places disjoint and is inductive together with the types and `Exists` (the pool
  and the connection a call works on exist). A new connection is one nothing
  knows, every other step moves a connection from one place to one other.
  The count needs `Tally`: while the first pool is open there is no other, so a
  connection in a thread's hands is one its count stands for; a queue over
  `max_size` holds two entries at most, so losing one leaves the count off by
  `MaxSize - 2`; a thread that waits has the pool's lock and has seen the count at
  the maximum. `WaitsForSomebody` follows: a full count that is off by less than
  the maximum stands for somebody.

The assumptions on constants are those the modules name: costs are positive,
the gift is a natural number, flags are Boolean, a quorum is a majority, TTLs and
thresholds are positive, the sets of workers, threads, events and connections are
finite, a pool may hold at least one connection, an escalation rule has a delay
and a level, a request that has read the clock is held up (`Stall`) for less than
any window, and "nobody" is nobody. None of the theorems uses a fairness
condition. `IInv` of the two lock modules is also an invariant of their runs.

Only model-checked:

* liveness (`RequestsEnd`, `AbandonedIsFreed`, `Recovers`, `NotBanned`,
  `SentIsTried`, `Settles`), which the installed provers cannot reach; for
  `SentIsTried` its safety half is proved;
* the two runs that show a violation, which have nothing to prove;
* what a lock does whose watchdog is later than `Timely` allows (section 3).

Every other property of the runs is the subject of a theorem.

## 5. Not modelled

`PROJECT.json` gives the reason for each component. In short: input and output on
foreign systems, formatting, cryptography, CRUD views, statistics and the front
end have no protocol of their own, and they are most of the repository. Some
components keep state that several processes share, but promise nothing that a
property could say beyond "the update is lost" or "the value is old":

* **Audit chain.** `save` reads the last row and writes the next without a lock,
  so two saves fork the chain (`apps/system/core/models.py:65`); the hash is taken
  before `created_at` has its value.
* **Backup registry.** The JSON file is read, changed and written as a whole: the
  later of two writers erases the entry of the earlier (`backup.py:251`).
* **Cache tags.** The key set of a tag is read, extended and written back; an
  addition or an invalidation between the two is lost, and a value outlives its
  tag until its TTL (`cache_manager.py:96`).
* **Configuration centre.** Every process has its own cache, and its age counts
  from the last clearing in that process (`saas/services.py:671`): one that never
  cleared never refreshes, and clearing one key renews the time stamp of all. A
  fill that began before a change stores the old value.
* **Key rotation.** `rotate_key` drops the keys older than `keep_old_days`, and
  `auto_rotate` uses the same 30 days for both, so the key just replaced goes at
  once although the task promises to keep it. Sequential, and one process at a
  time writes.
* **Online users.** The disconnect of any tab removes the user until the next
  heartbeat of another.
* **AI gateway.** The view publishes the task and then creates a row that nothing
  updates; its message is `Redeliver`/`handle_generation` in `StudioService`.

Of the modelled parts, the username on the quota row, the image placeholders,
rule matching, notification contents and senders, channel administration, the
identities of the throttle and its middleware (whose second window only logs),
the pool's metrics and the SQLite pool are left out. The in-memory backends of
locks and idempotency serve single-process tests. A read of the row that fails in
a retry of `_dispatch_alert` is not modelled.

## 6. Plan

1. Credit: `QuotaAccount`, `StudioService`, `AiStudioQuota` (done, proved, the
   refinement included, with repeated settlements and stale recharges in the
   account). Left: a repair, such as a status check before confirm, shown to keep
   `Repeats` empty.
2. `Idempotency` (done, proved). Left: composed with the studio's creating
   request, whose transaction it surrounds.
3. Locks: `RedisLock`, `RedLock` (done, proved, `HandedOver` included).
4. `AtomicBreaker`, `CircuitBreaker` (done, proved over both stores but for its
   liveness). Left: a Redis that does not answer.
5. `AlertEngine` (done, proved), `Notice` (done, proved but for its liveness).
6. `Gateway` (done, proved but for its liveness).
7. `DbPool` (done, proved). Left: a manager that two threads enter at once.
8. `ConfigCentre` and `CacheTags`: a cache filled while its source changes, with
   the staleness that the TTL bounds. `Bulkhead`, against an abstract counting
   semaphore.
