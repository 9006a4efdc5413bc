# jc_proxy: a TLA+ verification project

jc_proxy is a reverse proxy that serves client requests with a pool of upstream
API keys per vendor. It picks a key for every attempt, cools a key down or
disables it when an upstream error says so, remembers that in a key store, and
lets an administrator enable, disable, recover, add, remove or replace keys
while traffic flows. This project models how a request finds its keys and its
answer and how its timers end it, how several parties agree about the health of
a key (the live pool, the asynchronous store and the console), how a key or a
child is chosen, and how vendors and their keys survive console operations that
fail half-way and the upgrade of the stored data. Paths below are relative to
the repository.

## Inventory

| Component | State it keeps | Operations | Talks to |
|---|---|---|---|
| key pool (`internal/balancer/pool.go`, `attempt_result.go`) | per key: inflight count, status, version, failures, backoff level, cooldown, retired flag; shared by router generations | acquire, release, complete, recover, share with the previous generation, retire | called by requests and by router rebuilds, under one mutex per pool family |
| performance scheduling (`balancer/performance.go`) | sample windows, freshness, failed samples, exploration credit | note a sample, score a key, probe a key | part of the pick of the pool |
| runtime statistics (`balancer/runtime_stats.go`, `stats_reset.go`, `gateway/runtime_stats_registry.go`, `gateway/stats_persister.go`) | counters and last error per key, last flushed snapshot | record, merge, reset, flush deltas | pool, key store |
| base key stores (`keystore/file_store.go`, `pgsql_store.go`) | records: status, version, remark, statistics | list, replace, append, delete, set status (conditionally), apply deltas, reset | called through the asynchronous store |
| asynchronous status store (`keystore/async_store.go`) | map of pending disables, worker, retry timer | accept a disable, flush, retry, close, and every administrative call | gateway, console, base store |
| gateway runtime (`gateway/runtime.go`, `gateway.go`) | published router, configuration | build, persist, bind live state, publish, refresh, recover | console, store, pool |
| request execution (`gateway/router.go`, `vendor_proxy.go`) | per request: router generation, tried keys, budget, attempt | attempt, classify, fail over, report a disable | pool, store, upstream |
| aggregate vendors (`gateway/gateway.go`) | current weights over child vendors | pick a child that has an available key | pools of the children |
| timers on bodies (`gateway/body_timeout.go`, `upload_timeout.go`, `interim.go`) | deadline, reading and closed flags | arm, expire, close | upstream body, client connection |
| console service (`internal/admin/service.go`) | `changeMu` | create, update, rename, delete a vendor; client keys; batches of key operations; replace the configuration | runtime, key store, console store |
| console store and configuration (`admin/store.go`, `store_pgsql.go`, `internal/config`) | configuration in memory and in the file or the database row, schema version, vendor ids | load, validate, mint ids, save | console service, start of the process |
| upgrade tool (`cmd/jc_proxy_upgrade`) | none of its own | resolve ids, rewrite file and row, relabel key partitions, stamp the version | the stored data, while the server is down |
| console access (`admin/handler.go`, `auth.go`, `login_guard.go`) | sessions, failed logins | login, logout, block | console service |
| process lifecycle (`cmd/jc_proxy`) | servers, stop order | start, drain, close | everything |

The hard behaviours:

* **Overlapping router generations.** A request keeps the router it started
  with. A rebuild must share live health with requests that are still in the
  old one and must not let them use a key that has been removed.
* **Memory first, store later.** An auto-disable is effective in memory at
  once, then queued, then written by a worker that may fail, time out after
  the write was committed, or be overtaken by an administrator.
* **Store first, memory later.** A console operation writes the store and then
  rebuilds the router from what it reads back, while requests go on.
* **Two nested retry loops**, over keys and over aggregate children, share a
  budget, a set of tried targets and a body that may be readable only once;
  what they see as available may be gone when they acquire it.
* **One answer per request.** Errors, masks, upstream responses, an abort and a
  timer goroutine that writes 102 headers compete for one `ResponseWriter`.
* **Timers that fire while they are stopped.** The upload deadline, the idle
  timer of a body and the interim sender run callbacks in goroutines of their
  own; each races with the code that stops or re-arms it.
* **Operations that are no transactions.** A console operation writes the
  configuration, the key store and the router one after the other; the upgrade
  tool writes a file, a row, a table and a version. Every step may fail, be
  committed and reported as failed, or be the last before a crash.
* **Selection state kept across changing candidates.** Weights, rotation and
  exploration credit outlive the sets of candidates they were computed for.
* **Versions** are all that orders memory and store: a result of an older version must
  not override a newer one.

The hazards these cause are listed in `PROJECT.json`, each at its line with the
properties that would catch it.

## Modules

| Module | Models | State and actions |
|---|---|---|
| `KeyRecords` | the records and what each store operation does to them (`file_store.go`, `store.go`) | constant operators only |
| `KeyPool` | pool, router generations, one request as a sequence of attempts | a `KeyState` object is `<<key, incarnation>>`; `plan`, `nextPlan` and `view[r]` are the pools of the published router, the router being built and the router a request holds; one action per pool method, plus the steps of a rebuild, which may also make an aggregate of the vendor (`BuildAggregate`, `LeavePool`); the history variable `dropped` has the objects such an aggregate leaves behind |
| `AsyncStatusStore` | pending map, worker, administrative calls | steps are the critical sections of the pending lock and of the base store; `call.step` is the place in `Replace`, `SetStatus`, `Delete`, `DeleteVendor`, `Append`; a report may name any key and any version, as `SetStatusIfVersion` accepts it, and the history variable `foreign` has the keys whose last report named a version the record does not have |
| `KeyHealth` | pool + store + console | `INSTANCE`s both; a disable leaves the pool and enters the store in one action (`PersistDisabledKey`); console operations are the sequence store call, `ListAll` in its two reads, build, bind, publish, recover; a configuration update keeps the vendor's pool (`config`) or makes it an aggregate (`aggregate`, `plain`); the history variable `ahead` says that an operation has changed the store and ended with an error, and no router has been published since |
| `StatsPersister` | counting, registry, flush, reset, key changes, close, crash, restart | `handle` is the registry, `last` the baseline; a flush is a snapshot and a write with everything else in between; `total`, `mine` and `dup` are history variables for the properties |
| `ErrorPolicy` | verdict, failover and masking of a failure (`key_policy.go`, `error_masking.go`) | constant operators only |
| `RequestExecution` | one request from arrival to last byte: `serveAggregateRequest`, `serveVendorRequestWithAggregateHook`, `handleUpstreamResponse`, `writeUpstreamResponse`, the interim sender | `pc` is the place in these functions; a step ends where another goroutine can be noticed, so the check of a vendor's keys, the check of other children, the pick and the acquire are separate; `wire`, `log` and `held` record header blocks, attempts and keys not yet returned |
| `ReadDeadline` | what an upstream body with an idle timeout promises: a deadline for each `Read` | abstract specification, with liveness |
| `AttemptTimers` | `upload_timeout.go`, `requestBodyReader`, `body_timeout.go` | the steps are the critical sections of the two mutexes, the two effects of `uploadDeadline.expire`, and the returns of the transport; the body half implements `ReadDeadline` |
| `Selection` | `aggregatePool.pickRoundRobinLocked`, `Pool.pickRoundRobinLocked`, `pickPerformanceLocked`, `noteSample` | a behaviour is the life of one pool; every pick has an arbitrary set of candidates; `lastAttempt` keeps of the times of attempts their order; `watched`, `present`, `taken`, `waits` follow one entry |
| `Console` | vendor and key operations of `service.go`, save, publish and restart | `op` is the operation under `changeMu` by its next write; `saved`, `cfg`, `records`, `router` are the four places that can disagree |
| `SchemaUpgrade` | a run of the upgrade tool and the start of the server | `file`, `db`, `keys` are the stored data with version and ids, `secured` says that no password of the administrator has to be generated; `pc` and `server` are the places in `run` and in the start, with its refusals (`Startable`) and the rewrite of the file next to a row (`ServerLocal`) |
| `KeyPoolProofs`, `AsyncStatusStoreProofs`, `StatsPersisterProofs`, `RequestExecutionProofs`, `SelectionProofs`, `ConsoleProofs`, `SchemaUpgradeProofs`, `KeyHealthProofs` | theorems about the module each is named after; `RequestExecutionProofs` also about `AttemptTimers`, whose specification is named `TimersSpec` for that | the inductive invariants, one lemma per action or group of actions |
| `MC*` | symmetry, and for `RequestExecution` the topology, configurations and responses | |

What `KeyPool` leaves open: which of the available keys a strategy prefers
(any of them may be picked; `Selection` looks at the strategies), what an upstream answers (any outcome), and, in
that module alone, what a rebuild reads (any records). `KeyHealth` closes the
last one, and `ImplementsPool`, checked and proved, says that the closed system is
an instance of the open one, so everything proved about `KeyPool` holds in the
composition.

`RequestExecution` is the other half: one request in detail, and everybody else
as an environment that takes keys away (at most `MaxLosses` times) and gives
them back. Which child of the best tier is picked is free; a response is a
status with the words a rule can match; whether a success promises a body is
free; a cooldown makes a key unusable, its duration is left out.

`Selection` leaves the cost of a key open: it is a floating-point function of
five samples, and any candidate may be the cheapest. `Console` keeps of a vendor
its name and the vendors it aggregates; key health is in `KeyHealth`. In
`SchemaUpgrade` an id is the pair of the run that minted it and a name, since
`NewVendorID` draws 64 random bits, and one partition holds the keys a vendor
had before the upgrade.

Every module has a `TypeOK`; only the one of `KeyPool`, which also bounds the
scaled cooldown, is listed in a run. It is proved, and so are those of
`KeyHealth` and `Selection`.

Time is the remaining cooldown, counted down by `Tick`. Failures, versions,
incarnations and update ids are unbounded in the code and capped in the guards
by `MaxFailures`, `MaxVersion`, `MaxIncarnations`, `MaxUpdates`. The last two
versions are reserved so that the worker can always write what it accepted.
`scaledCooldownDuration` saturates at `MaxDuration`, which stands for
`math.MaxInt64`. In `StatsPersister` the six counters of a key are one number, which is
exact for `DeltaSince` because they never fall one by one. A file-store
operation is one step that happens or does not
(it publishes its records after the rename); a failing worker write may also
have been committed, as a PostgreSQL statement that times out may.

## Runs

| Run | Question | Result |
|---|---|---|
| `pool_one_key` | two requests, one key, two incarnations, two versions, backoff up to saturation: are inflight counts, retirement, obsolete results and cooldowns right under every interleaving with rebuilds and recoveries? | holds |
| `store` | every administrative call, and reports with any version of a key that may be deleted and added again meanwhile, against a worker whose writes fail or are committed unseen: does a flush or a `Replace` lose a disable, is every update settled eventually, does `Close` end? | holds |
| `health_disable` | auto-disables, manual disables, added and deleted keys, configuration updates that may fail, a vendor that becomes an aggregate: do memory and store agree when everything has settled, and does the composition implement `KeyPool`? | holds |
| `health_enable` | enables, recoveries, disables, added keys, configuration updates, calls that fail on their way: does a disable take effect, does nothing else end it? | holds |
| `stats_flush` | completions, flushes, resets, key changes, stops and crashes: is a count lost, invented, or back after a reset? | holds |
| `request_execution` | five configurations, every method, body and route, one key lost to others: is there exactly one answer, no target asked twice, one budget, no second processing of an unsafe request, every key returned once with the right verdict, every promised retry possible, no 102 after the answer, and an end? | holds |
| `attempt_timers` | timer callbacks that started before they were stopped: does each `Read` get its own deadline, is a finished upload left alone, does an expired one end and blame the right party? | holds |
| `schema_upgrade` | every mixture of versions in file, row and key store, with or without a password to generate, two failures or crashes: do keys stay with their vendor, is nothing lost, can the upgrade always be completed? | holds |
| `console` | three ids, two names, two failures or crashes, a stale configuration sent back: does the next success repair router and store, does no vendor inherit keys, does no aggregate dangle? | holds |
| `selection` | three strategies, candidates that change with every pick: how long can an entry be passed over, and can it be left out for ever? | holds |
| `recover_race`, `upgrade_handwritten` | see Findings | violated |

Bounds. One key suffices for the races of versions because records, pending
updates and health of different keys never meet. What treats several keys
together is checked with two of them: a flush of statistics and a reset in
`stats_flush`; a flush of the store, `Replace` and `Delete` in
`StoreTwoKeys.cfg` (its safety properties) and `StoreLiveTwoKeys.cfg` (its liveness,
with calls that fail in the middle of `Replace`), two further configurations of
`store`'s questions in which TLC finds no error. The proofs about `KeyPool`,
`AsyncStatusStore` and `KeyHealth` hold for any number; they are what covers a console batch that
fails at its second key. Two requests are needed for a result that becomes obsolete
while another one succeeds; a third repeats the second, since requests meet
only in the health record. Four versions allow a record, two administrative
changes and an auto-disable of the changed version. Two incarnations are a
removal and a re-adding, or an aggregate and a plain vendor after it. In `stats_flush` two completions per key between
resets let one be flushed, or be in a snapshot, while the next arrives; two
faults are a failed or unseen write followed by another or by a stop. Symmetry
is over keys and requests and is not used where liveness is checked. Deadlock
is checked in the pool and statistics runs; the store and the composition
really stop once the store is closed, and operations that would exceed a bound
are not started.

`request_execution` has a vendor with two keys, a passthrough vendor, and an
aggregate that lists the first vendor, the same vendor restricted to its second
key, and the passthrough vendor twice: the smallest topology in which two
entries lead to one key and to one passthrough target. Its configurations cover
each limit as the one that binds (`failover.max_attempts`, the budget,
`aggregate.retry.max_attempts`), the default policy, a status list, masking,
and failover on 402 only. Its handler stops when the request is done.

`attempt_timers` has a timeout of three ticks, so that a timer armed for one
`Read` can fire in the middle of a later one, be re-armed for the rest and fire
again, and both kinds of request body. Its attempt may stay in any state the
client and the upstream leave it in, so deadlock is not checked.

`schema_upgrade` starts from two vendor names, each listed or not in the file
and in the row, with versions 1 to 4 (4 is newer than the program), with the
same ids or with ids of a reused name, and every key store that earlier servers
and runs leave; two failures and as many further runs allow a run to be broken
off twice in different places. `UpgradeHandWritten.cfg` asks the same of files
without ids. `UpgradeCompletes` is stated for deployments a start does not refuse:
`config.Load` exits on a file without vendors, also with the configuration in
PostgreSQL, and `LoadBootstrap` on a missing file without it; the tool repairs
neither.

`console` has three ids, so that an aggregate of two vendors, or a deleted
vendor, its successor and a third one, exist together; two names, so that a name is reused and one is free;
one key and an unknown one, which ends a batch; and two faults, so that what a
failed operation leaves is met by another failure. Names, ids and keys are
symmetric there; it checks no liveness.

`selection` has four weighted entries (3, 1, 2, 1, the last in a second tier),
four keys in round robin, and two keys under performance scheduling with one
probe per three picks, samples that last two minutes, two steps of backoff, one
attempt per key at a time and one rebuild or reset. The bounds on waiting are
stated in these constants and proved for all of them; the instance is what shows
that candidates which change with every pick, failures, resets and rebuilds
happen, and it is what checks `KeptInRotation`.

The composition runs choose their console operations. `health_disable` leaves
out recoveries, re-added keys and `Replace` because of findings 1, 3, 4 and 10,
and enables because of findings 8 and 9; `health_enable` leaves out `Replace`
because of finding 10. In `health_disable` a vendor that has become an aggregate
stays one, because of finding 12; `HealthAggregate.cfg` is a further configuration in
which it may be plain again, with calls that fail, and TLC finds no error in it:
disables still reach the store, and a manual disable is effective.
An operation that fails after it has changed the store leaves the store ahead of
the router until the next rebuild: a batch of keys that meets an unknown key, or
a rebuild that cannot read the store. While that is so (`ahead`), store and
memory are not said to agree and a rebuild may publish an enable of the failed
operation. `health_enable` has such failures; `health_disable` has failing
configuration updates and worker writes only, because a key that is deleted, stays
published for want of a rebuild, and is appended again is the case of finding 3.
`console` shows that the next operation that succeeds ends the difference.

Fairness. `request_execution`: weak fairness of the handler's steps, which
assumes that an upstream answers or fails and that a response body ends, in
success or not, when it delivers no more data; transport, upload and idle
timeouts enforce this where they are configured. Other requests, timers and the
client owe nothing. `store`: weak fairness of `Worker`: the goroutine is
scheduled. Strong fairness of `WorkerApply` per key: a base store that is tried
again and again accepts a write some time; the worker's retry timer is what
makes it try again. Nothing is assumed of requests, administrators or time.
`attempt_timers`: weak fairness of the clock, of timers that are due and their
callbacks, and of the handler's own steps; the transport returns once its
context is cancelled or the client's body has failed, and closing a body or
forcing a read deadline ends the read it blocks, which is what `net/http`
promises. The client and the upstream owe nothing. `schema_upgrade`: the tool
and the starting server go on unless they are killed, and the operator runs the
tool and starts the server again (strong fairness of both, since each waits for
the other to be finished). `selection`: requests keep coming, attempts end
because every wait of an attempt can time out, and time passes; which candidates
a pick has, and which looks cheapest, is never assumed. Without `body_timeout`
or an upload timeout an attempt may last as long as its upstream likes, and the
statement about performance scheduling is then one about keys that come back.

## Findings

Each row is an execution of the code that TLC finds. The first two are runs;
3 to 7, 11 and 12 have a configuration of their own beside the runs, which TLC answers
with a counterexample; 8 to 10 are reproduced by changing one constant of a run.

| # | Where | What happens | How it is shown |
|---|---|---|---|
| 1 | `service.go:500` | `RecoverUpstreamKeys` enables the key once more after the router is published; an auto-disable in between is erased from memory but persisted | `recover_race` |
| 2 | `cmd/jc_proxy_upgrade/main.go:241` | a configuration written by hand in the array layout, without ids, next to v1 keys: the tool relabels the keys with ids it writes nowhere, the server mints others, and the vendors find no keys | `upgrade_handwritten` |
| 3 | `async_store.go:149` | a re-added key restarts at version 1, so a disable of the deleted one matches its record ("the worker's conditional version check rejects obsolete updates"); and when the deleted one had a higher version, readers are shown the new key as disabled until the worker is refused, then as active (the `foreign` exception of `FlushNeverResurrects`) | `HealthReadd.cfg`, `StoreDisablesServed` |
| 4 | `async_store.go:132` | a disable accepted after `Replace` took its snapshot and before it replaced the records is discarded (`async_store_test.go:256` asserts the opposite of the sequential case) | `StoreReplaceRace.cfg`, `ReplaceKeepsDisabled` |
| 5 | `stats_persister.go:197` | the stored statistics of a vendor that is configured again after a restart are doubled by the first flush | `StatsOrphan.cfg`, `NothingInvented` |
| 6 | `upload_timeout.go:43` | the client's body fails to be read, and the timer fires before `client.Do` has returned: nobody is reading any more, so the upstream and its key are blamed for the client's failure | `AttemptTimersBlame.cfg`, `ClientFailureKept` |
| 7 | `service.go:579` | the keys a failed `DeleteVendor` leaves are listed "so an operator can clean them up", but every operation that could delete them requires the vendor to be configured | `ConsoleOrphans.cfg` with module `Console`, `OrphansCleaned` |
| 8 | `async_store.go:193` | `SetStatusIfVersion` overwrites a pending update without comparing expected versions; a late report of an older version replaces the newer one and is then refused, so the key is disabled in memory and active in the store | `DisablesReachStore` in `HealthDisable.cfg` with `AdminOps = {"enable"}` |
| 9 | `async_store.go:532` | `ListAll` shows a pending disable with version `expected+1`, which the base store may still give to an enable; the rebuild after the enable sees no newer version and the key stays disabled | the same with `AdminOps = {"enable", "config"}` and one request |
| 10 | `async_store.go:97` | the two reads of `ListAll` miss an update that the worker moves from the pending map to the records in between, after a `Replace` | `StoreDisablesServed` in `HealthDisable.cfg` with `AdminOps = {"replace"}` |
| 11 | `gateway.go:487` | a vendor that keeps its id and becomes an aggregate has no pool to share with (`gateway.go:477`), and its old pool is retired only when the id is gone: a request in an older router goes on picking keys the current one does not have (`pool.go:40`: "removed from the current plan; old routers must not reuse it") | `KeyPoolAggregate.cfg`, `OldRoutersAgree` |
| 12 | `gateway.go:481` | the same vendor made plain again gets new `KeyState`s with nothing shared; a disable that a request of the oldest router reports matches the record, so the store says disabled while the new `KeyState` takes traffic | `HealthTakeover.cfg`, `StoreDisablesServed` |

Four observations that contradict nothing the repository says. With the
configuration in PostgreSQL, the tool refuses to run when the file next to it is
a v1 file, or has no ids, and the row has ids for the same names: the operator has to remove the vendors
from the file (`UpgradeCompletes` is stated for copies that do not conflict;
`NothingMoved` shows that the refusals change nothing). A start that generates the
administrator's password rewrites the local file with the vendors of the row, ids
included, also when the configuration is in PostgreSQL and the comment above says
that minted ids alone are no reason to rewrite it: that is the exception in
`NothingMoved`, and when the row lists no vendor it leaves a file that the next start
refuses (`FileAtRisk`). Exploration credit belongs to the
pool, not to an allowlist: picks of an aggregate child that may not use a key
spend the credit too, so the bounds are stated for a key that is a candidate of
every pick. And smooth weighted round robin does not keep its weights within one
round when the candidates change: with weights 20, 1, 1, 1 a current weight
reaches 30, with 10, 10, 1, 1 it reaches 23, more than the total weights of 23
and 22 that a fixed set of children stays below, and with five children of
weight one a child can be passed over five times in a row. The bound that holds
is `Imbalance`, the number of the other children times the largest weight, which
children of equal weight reach; an earlier `BoundedUnfairness` had the total
weight, held in the instance, and was refuted by the attempt to prove it.

One behaviour of `request_execution` is not a finding but worth knowing: when
another request takes the last key between `hasAvailableKey` and the acquire,
the upstream response already given up is replaced by a 503.
`PromisedRetryHappens` shows that this race is the only way it can happen.

The repository documents limits that the model does not count as violations: a
batch of keys is not a transaction (`README.md`), a stop loses what was not
flushed (`docs/performance-and-balancing.md:48`, `docs/v3-upgrade.md:40`), and a
reset that PostgreSQL committed but did not confirm must be checked by hand
(`README.md`). The statements about store and memory are made for settled states
of one process; `NothingLost` excuses unflushed counts at a stop and
`NothingInvented` those of a write that was committed and reported as failed.

## Proofs

Every theorem holds for any number of keys, vendors, requests, failures and
versions, from the named assumptions of the module it is about. TLC checked each
inductive invariant on an instance before it was proved.

| Module | Theorem | States | Beyond the module's assumptions |
|---|---|---|---|
| `KeyPoolProofs` | `PoolTypeCorrect`, `InflightCorrect`, `RetiredCorrect` | `TypeOK`, `InflightConserved`, `RetiredMatchesPlan` | |
| | `OldPicksCorrect` | `OldRoutersAgree`, but for objects in `dropped` | |
| | `StaleCorrect`, `NoResurrectionCorrect`, `CooldownCorrect` | `StaleStaysStale`, `NoResurrection`, `CooldownHonoured` | |
| `AsyncStatusStoreProofs` | `ReplacePreservesCorrect` | `ReplacePreservesPending` | |
| | `FlushCorrect` | `FlushNeverResurrects` | `"reconcile" \notin Failing` |
| `StatsPersisterProofs` | `NothingLostCorrect`, `FinalFlushCorrect` | `NothingLost`, `FinalFlushComplete` | |
| | `NothingInventedCorrect` | `NothingInvented` | `Configs = {TRUE}` |
| `RequestExecutionProofs` | `NoTargetTwiceCorrect`, `WithinBudgetCorrect`, `ProcessedCorrect` | `NoTargetTwice`, `WithinBudget`, `ProcessedAtMostOnce` | |
| | `KeyHeldCorrect`, `VerdictCorrect` | `KeyHeldOnce`, `VerdictByUpstream` | |
| | `OneAnswerCorrect`, `TruncationCorrect`, `InterimCorrect` | `ExactlyOneAnswer`, `TruncationVisible`, `InterimBeforeFinal` | |
| | `PromiseCorrect` | `PromisedRetryHappens` | |
| | `TimeoutVerdictCorrect`, `UploadedCorrect` | `VerdictNamesWaiter`, `UploadedNotCancelled` of `AttemptTimers` | |
| | `BodyRefinesReadDeadline` | the safety part of `ReadDeadline` | |
| `SelectionProofs` | `UnfairnessCorrect`, `SelectionTypeCorrect` | `BoundedUnfairness`, `TypeOK` | |
| `ConsoleProofs` | `SuccessCorrect`, `NoForeignCorrect`, `ChildrenCorrect` | `SuccessConverges`, `NoForeignKeys`, `ChildrenExist` | |
| `KeyHealthProofs` | `HealthTypeCorrect`, `PoolImplemented` | `TypeOK`, `ImplementsPool` | |
| | `PoolPropertiesHold` | `InflightConserved`, `RetiredMatchesPlan` of the pool inside | |
| | `ReplaceInSystemCorrect` | `ReplacePreservesPending` of the store inside | |
| | `FlushInSystemCorrect` | `FlushNeverResurrects` of the store inside, without its exceptions | `NoRemoval` |
| | `ManualDisableCorrect`, `OnlyAdminEnablesCorrect` | `ManualDisableEffective`, `OnlyAdminEnables` | `NoRemoval` |
| | `DisablesReachStoreCorrect`, `StoreDisablesServedCorrect` | `DisablesReachStore`, `StoreDisablesServed` | `NoRemoval`, `NoEnabling` |
| `SchemaUpgradeProofs` | `NothingMovedCorrect` | `NothingMoved` | |
| | `KeysFollowCorrect` | `KeysFollowVendor` | `FileIds \subseteq {"same", "other"}` |

The hypotheses are each the boundary of something the code does.
`"reconcile" \notin Failing`: when `Replace` fails between replacing the records
and requeueing what it carries, an update outlives its record, a record added
later starts at version 1 below the version the update waits for, readers see it
disabled, and the worker then drops the update (the hazard at
`async_store.go:139`). `Configs = {TRUE}`: finding 5 is what happens when the
vendor is not configured at a start. `FileIds`: finding 2 is what happens with
vendors without ids in the array layout. `NoRemoval` (`AdminOps` without
`"delete"`, `"replace"` and `"aggregate"`): a removed key starts again at version 1
(finding 3), `ListAll` may miss an update after a `Replace` (finding 10), and an
aggregate leaves keys behind that nobody retires (finding 12). `NoEnabling`
(without `"enable"` and `"recover"`): findings 1, 8 and 9. Deleting keys and
aggregates are covered by `health_disable` on one key and one incarnation, aggregates
that become plain again by `HealthAggregate.cfg`.

The assumptions on constants are what the code guarantees. `LimitConstants` of
`RequestExecution` says that every limit is at least one (`Config.applyDefaults`,
`Config.validate`) and that no policy fails over on a status without a class:
`ErrorFailoverConfig` has no switch for one, and the first proof of
`PromisedRetryHappens` failed until this was said. `TopologyConstants` says
that a nonempty set of children has a best priority. `AggregateConstants` of
`Selection` says that weights are positive: `newAggregatePool` replaces one that
is not by 1. `StoreMarkers`,
`MarkersDistinct` and their like say that the value for "nothing" is not a
value. The others give the ranges of the bounds.

**`KeyPool`.** `Inv` adds to the types what they rest on: a pool only lists,
under a key, created objects of that key (`Names` of `plan`, `nextPlan` and
every `view[r]`); a request in an attempt holds an existing object (`HeldOK`),
without which a completion could touch an object that is created later; a
rebuild under way has room for the objects it creates (`RoomOK`); and an object
that does not exist yet is neither retired nor left behind (`UnbornOK`) and not cooling
(`UnbornUncooled`), without which creating it would look like an early end of a
cooldown. The action properties follow from `Inv` and one case per action.

**`AsyncStatusStore`.** `StoreInv`: every update, wherever it is by now, disables
its key and has an id that was given out (`UpdatesOK`); an update the worker
holds and the one waiting under its key are the same if their ids agree
(`PendingOK`), which is why comparing ids in `deletePendingIfMatch` is enough;
and from its last read on, `Replace` knows a record for every update it carries,
changed by nobody but the worker (`CarriedOK`), which gives
`ReplacePreservesPending`. `FlushInv` relates an update to its record, unless its
report was `foreign`: it waits for a version the record has or had (`ReachedOK`), for a record that is gone
only while the call that removed it has not cleared it (`GoneOK`), and when it
is settled while still waiting, the record has moved past it (`AppliedOK`), so
that readers already saw the record and not the update.

**`StatsPersister`.** A baseline is a value its handle has had (`BaselineOK`), a
snapshot lies between baseline and handle (`SnapshotOK`), and after the snapshot
of the last flush nothing is counted (`FinalOK`): a flush then moves counts from
one place to another and loses none. That none is added twice needs in addition
that a key without a handle has no counts in its record, and that a record
and what is still to be flushed into it are at most what happened (`OnceInv`).

**`RequestExecution`.** Four groups, each used by the next. `LoopInv`: every
attempt is remembered and what is about to be tried is new (`TriedOK`); the
limits are looked at before the loops go round (`LimitsOK`), which is why their
own guards cannot fail; a consumed body is not asked for again (`BodyOK`).
`VerdictInv`: what the current attempt has come to at each place of the handler
(`CurrentOK`, `ReplyOK`), only the last attempt is without a verdict
(`PendingOK`), and an unsafe request goes on only from a refusal (`RefusedOK`).
`AnswerInv`: when headers are out (`CommittedOK`), and that a sender which may
still write is the one in use, before the final headers (`SendersOK`).
`RetryInv`: the body that could be needed again was kept (`KeptOK`), and whoever
comes back for a retry finds a child and a key unless one was taken away
(`PromiseOK`, `ShortageOK`).

**`AttemptTimers`.** Once the upload is reported as written or `client.Do` has
been followed by `stop`, `done` is set (`StoppedOK`), so a callback that is
already running finds it and does nothing; and the party the deadline caught is
the cause of the context for good (`CaughtOK`), because the first cause stays.
The refinement maps a `Read` in progress to `busy`, the time it has used to
`age`, and the flags to `state`. It rests on `BodyInv`: the remaining time never
exceeds the timeout (`LeftOK`), an expired body is closed, and `reading` is set
only while a `Read` is in progress (`FlagsOK`), without which a callback could
expire a body nobody reads. Each concrete step is a step of `ReadDeadline` or a
stutter.

**`Console`.** What an operation still has to do is exactly what makes up for the
difference there is (`PendingOK`): the router it will publish fits the records,
and the configuration is saved before it is published. Only valid configurations
are saved, loaded or published (`SoundOK`). Every id anywhere has been minted
(`MintedOK`) and a vendor that was given no keys has no records (`UngivenOK`):
without the first a stale configuration could bring an id back as a new one.

**`SchemaUpgrade`.** An id belongs to the name it was minted for (`OwnOK`), what
the tool has read is what it overwrites (`ToolOK`), and every id a copy carries
is the one in the mapping while the tool runs (`MappingOK`, `OrderOK`), which is
why a run that resumes another one shifts no id. A server that is about to rewrite
the file has a current row (`ToolOK` again), so the ids of the copy in force stay. `FollowInv` adds that
partitions under ids are those of the copy the server would run on (`LabelsOK`)
and that a copy in the array layout lacks no id (`IdsOK`).

**`KeyHealth`.** The two components bring their own invariants, as instances of
their proof modules. `HealthInv` conjoins them and adds that the phase of the
rebuild and the store call are those of the console operation (`PhaseOK`,
`OpOK`); what `ListAll` shows is then a set of records (`OverlayFacts`), so every
step of the system is a step of the pool or leaves it alone. `KeptInv` is about
versions. A key keeps its one `KeyState` (`KeysOK`); memory is at most one
version ahead of the store, and then disabled (`VersionsOK`): that is the pending
update which `ListAll` shows as `expected+1`. What a rebuild has read is still
the record, or a disable has been written since (`ReadOK`). Memory has seen every
enable in the store unless an operation that enables is under way or has failed
(`FollowedOK`), which gives `OnlyAdminEnables`. A record written by a disable is
newer than an active key in memory, through read, overlay and bind (`DisableOK`),
which gives `ManualDisableEffective`. And whatever memory, a request or an update
says of a key that is being recovered is older than its record (`RecoverOK`,
`Older`), without which clearing its health at the end could leave memory active
and ahead of the store. `AgreeInv` adds, for keys that are disabled for good,
that an active record has version 1 (`FirstOK`), that memory has a disable before
it is reported or written (`ReportedOK`), that a disable in memory is in the
store, pending, or about to be reported (`ReachingOK`), and that one in the store
is in memory, in what the rebuild has read, or in an operation that has not
published yet (`ServedOK`). An earlier form of `OnlyAdminEnables` and
`StoreDisablesServed` had no `ahead`; it holds with one key, but the proof
failed on the batch that meets an unknown key, which TLC confirms with two keys.
What the store promises alone, it promises here too. `Replace` needs nothing of
its callers (`ReplaceInSystemCorrect`). The flush needs that a report carries no
version its record has not reached: requests capture that version when they
select the key, and `VersionsOK` says it of every version a request holds, so no report is `foreign`
(`NoneExcepted`) and the store's `FlushInv` is inductive in the composition
(`FlushKept`). The failure
that the store's own theorem excludes, a `Replace` that cannot read the records
back, cannot happen under `NoRemoval`.

**`Selection`.** `SelectionInv` has one part for each way of choosing. Round
robin (`TurnOK`): a key that is passed over is nearer to `rrIdx` than before, so
its waits and its distance together stay below the number of keys. Performance
(`ProbeOK`): call a key preferred if it would be probed before the watched one,
by its last attempt and then by its place, or might be, because its statistics
were reset and it has not noticed yet. Whatever happens, a key becomes preferred
only by a reset, which starts the wait over; a pick that passes the watched key
over either earns one credit, or is a probe that costs the whole credit and
takes the probed key out of the preferred ones. A wait is therefore at most an
interval for every other key. Weighted picks are the hard case. That no child
has more than `Imbalance` is not inductive: a pick in which two children take
part that are both ahead says nothing about either. `BalanceOK` bounds instead
what every *set* of children has saved up together, by
`MaxWeight * |U| * (n - |U|)`, and says that all weights together are 0. A pick
inside `U` does not raise the sum of `U`. A pick of an entry `b` outside raises
it by the weights of the `k` candidates in `U`; but each of those was no further
ahead than `b`, so the bounds of `U \cup {b}` and of `U` without those
candidates limit the sum of `U` (`PickInequality`; the weights `k : 1` in which
the two bounds are added make the quadratic terms cancel). One child is the set
`{i}`, and what it owes is what the set of the others has. `OwedOK` then says
that a waiting child gains its weight with every pick.

The sums are folds over sets (`MapThenSumSet`), and the library's induction
theorems take a predicate, which the provers cannot instantiate. `SelectionProofs`
states induction over the subsets of a finite set with a *set* of subsets
(`SubsetInduction`, from `WFMin` and the well-foundedness of strict inclusion),
shows that the recursion of the fold has exactly one solution on it
(`IteratesUnique`, `IteratesExists`), and derives from that what a sum over a
union, of two functions, or of bounded numbers is (`TotalUnion`, `TotalSum`,
`TotalAtMost`).

Only model-checked: the properties of `KeyHealth` where keys are deleted or a vendor
becomes an aggregate (the refinement of `KeyPool`, the types and
`ReplaceInSystemCorrect` are proved there too), and all
liveness (`PendingDrained`, `CloseEnds`, `RequestEnds`, `UploadEnds`,
`UpgradeCompletes`, `KeptInRotation`, the fairness part of
`ImplementsReadDeadline`), which is out of the prover's reach. Every invariant and
every action property of the passing runs is proved.

## Not modelled

Text and header work (paths, headers, the wording of masks and reasons, parsing
and defaults of the configuration, the web console) is data without control.
Random and least-used choices appear as free choice in `KeyPool` and
`RequestExecution`; the cost function of performance scheduling is floating
point. The HTTP handlers of the console, its sessions and the login guard do not
touch vendors or keys. A vendor test sends one request and keeps nothing. The
PostgreSQL `Replace`, which does not lock what it reads, the shutdown timeout,
the rewriting of aggregate children inside a migrated payload, and the dry run
of the upgrade tool are left out.

## Plan

1. `KeyRecords`, `KeyPool`, its runs and proofs; `AsyncStatusStore`;
   `KeyHealth`; `StatsPersister` (done).
2. `ErrorPolicy`, `RequestExecution` (done).
3. `ReadDeadline`, `AttemptTimers` and their proofs; `SchemaUpgrade`;
   `Console`; `Selection` (done).
4. The PostgreSQL `Replace`; the shutdown timeout; the login guard.
5. Proofs about the single components, `Selection` among them, and about
   `KeyHealth` (done). Next: what
   holds of `KeyHealth` when keys are deleted and added again.
