# SoroLens: models and proofs

TLA+ modules beside the SoroLens code. They model the parts of the system where
correctness depends on the order in which several processes act, on what is
left behind when a step fails, or on a long series of calls: the sharded
indexer's coordinator, the event indexer, the catalog of tracked contracts with
their code, expiry alerts, the cold tier of events, and the watchdog contract.
TLC checks them on small instances; TLAPS proves the theorems of the `*Proofs`
modules for every value of the constants.

    tlc -config ShardLeader.cfg MCShardCoordinator     # any run of PROJECT.json
    tlapm ShardCoordinatorProofs.tla                   # any module with theorems

`PROJECT.json` lists components, runs, hazards, theorems, and for every
definition the source lines it stands for.

## 1. Inventory

SoroLens indexes the events of Soroban contracts into Postgres, serves them from
an API, and watches contracts from a contract of its own.

| Component | State it keeps | Operations | Talks to | Hard behaviour |
|---|---|---|---|---|
| Shard coordinator and workers (`services/indexer/internal/coordinator`, `pgstore/coordinator.go`) | advisory lock, `indexer_workers`, `indexer_shards`; per process: `held`, the lists of one `Rebalance` | lock, EnsureShards, Rebalance, Heartbeat, AssignedContracts | Postgres only: coordinators and workers never call each other | two leaders, stale lists, crash between two calls, bound on recovery |
| Event poller (`internal/poller`), window commit (`internal/pgstore`), getEvents client (`internal/sorobanrpc`) | `sync_state`, `indexer_cursors`, `events`, `invocations`, `failed_events` | a pass over all contracts, one window per contract | RPC node, Postgres, a Redis lock that is a stub | overlapping pollers, window bounds, crash before commit, paging |
| Dead-letter queue of the API (`apps/api/internal/handler/dlq.go`) | `failed_events` | list, requeue | Postgres | three calls that can fail one by one |
| Contract catalog: registration (`handler/contracts.go`, `contracts_batch.go`), upgrade detection (`poller.checkWasmHash`), verification (`handler/verify.go`, `internal/verify`) | `contracts`, `contract_upgrades`, `contract_wasm`, `contract_verifications` | register, untrack, look for an upgrade once per pass, rebuild submitted source | API, RPC node, Postgres, builders | three programs write one row; insert and update fail separately; a hash read minutes before it is used |
| Expiry alerts (`internal/expiryalert`, `expiry_notify.go`) and delivery (`internal/watchdog/notifier.go`) | `contract_alerts`; goroutines | one alert per near-expiry set, one post per subscription, one retry | Postgres, webhooks | insert then notify, deduplication key, crash in between |
| Cold tier (`apps/api/internal/coldstorage`, `cmd/coldarchive`) | objects of a bucket, `events` | read page, merge, write, delete rows; queries that fall back | bucket, Postgres | two systems without a transaction, late commits, reads while it writes |
| Watchdog contract (`contracts/watchdog`) | roles, registry, records, alert lists; entry lifetimes | register, batch, deregister, report, pause, nominate, read | the Soroban host | long call sequences, bounded lists, archival |
| Rate limit, response cache (`apps/api/internal/middleware`) | Redis counters and bodies | per request | Redis | a counter without lifetime, a fill after a purge |
| Discovery, rules engine, alert groups, event stream publishers, nightly performance job | | | | inert: see section 5 |
| Pure computations (health score, anomaly, call graph, wasm, scval, forecast, reports) | none | parse, compute | | arithmetic only |
| Clients (web, cli, extension, bot, libraries), counter contract, deployment | none here | | API | none at this level |

How they interact. Everything meets in Postgres. Registration writes the row
that the poller's passes, upgrade detection and verification work from; the
poller commits the events that the archive job takes away again and the sync
state that decides which storage entries run out; workers index the contracts of
the shards the coordinator has given them, with the poller of the second row.

What makes them correct:

* coordinator: one leader at a time; every owner of a shard is a known worker;
  a shard goes from one worker to another only through the pool; a healthy
  worker is not disturbed; a dead one loses its shards within
  `worker-stale-after + rebalance-interval`; every contract is indexed again
  after any series of faults;
* indexer: what the cursor vouches for is stored or parked; cursors stay within
  the network's head, and the network's does not move back; nothing durable is lost
  by a requeue; an event's transaction has its row; every contract catches up;
* queue: an event is in the table or in the queue at every moment;
* catalog: the upgrade history tells of upgrades that took place, and of each
  once; no hash is replaced silently; a verified contract did run
  the verified binary; the row comes to hold the code that runs;
* alerts: an alert is on record before anybody hears of it, nobody hears of it
  more than twice, what stands is recorded and what is recorded is sent;
* cold tier: an event is in Postgres or in an object at every moment; a query that
  Postgres cannot answer gets the oldest page of what the objects hold; old rows
  leave Postgres;
* watchdog: registry and records agree; an owner is permanent; a nomination is
  spent once; a pause freezes the records; alert lists are bounded and ordered;
  a contract that is read daily is never archived.

Where the code falls short of this list, section 6 says so, and the property that is
checked names the exception.

## 2. Modules

| Module | What it is |
|---|---|
| `ShardOwnership` | abstract specification: shards are granted out of a pool and revoked worker by worker |
| `ShardCoordinator` | coordinators and workers, one store call per step |
| `EventIndexer` | pollers and the requeue handler, one call per step |
| `ContractCatalog` | registration, upgrade detection and verification, one call per step |
| `AlertOutbox` | abstract specification: an alert is recorded, stays, and is told at most so often |
| `ExpiryAlert` | the expiry pass and the deliveries, one store call or post per step |
| `ColdTier` | the archive job and the queries, one call per step |
| `WatchdogContract` | the contract, one transaction per step |
| `MC…` | values for TLC: ids, hash maps, events, months, symmetry |
| `…Proofs` | theorems about the module they extend |

### ShardCoordinator

State: the tables (`workers`, `age` of their heartbeats, `owner` of each shard),
the session that holds the advisory lock (`lock`), per coordinator where `Run`
is (`pc`), the variable `held`, and the local variables of a rebalance (`live`,
`snap`, `nxt`, and `queue`, the ids its current loop still has to visit), and
per worker its process, heartbeat and the contracts of its current pass.

Every store call is one action, in the order of the code: `BecomeLeader`,
`EnsureShard`*, `ListWorkers`, `DeleteWorker`*, `ListShards`, then for each shard
`KeepShard`, `UnassignShard` or `AssignShard`, and `EndRebalance`. A call that is
one transaction in Postgres (deleting a worker clears its shards first; assigning
creates a missing worker row) is one step. `DeleteWorker` deletes whatever row
has the id by then, since the code does not look at the heartbeat again.
`AssignShard` gives a row it creates the leader's `now`, so its age is `passAge`,
the time since the rebalance read its clock.

Timestamps are kept as ages, capped at `MaxAge`, the last age any comparison can
tell apart. Clocks agree. `Punctual` selects one of two worlds: TRUE, no step
takes time and no tick is late, as the bound on recovery assumes; FALSE, a
rebalance may take any time and ticks come whenever they like. The hash of a
contract is any fixed map (`ShardForContract`).

Faults are counted and each run says which kinds may happen: coordinators stop
or crash, the database drops the lock's connection, calls of EnsureShards or
Rebalance fail, workers stop or crash, heartbeats are lost.

### EventIndexer

State: `head` of the network; `sync`, `cursor`, `events`, `parked` (the
dead-letter queue), `invoked`; per poller and contract where `processContract` is
and what it has read, `fresh` if it found no sync state; the event being requeued.
History: `floor`, where the first committed backfill of a contract began, `ends`,
at which ledgers its windows ended, `gaps`, the ledgers a later backfill jumped
over, and `missed`, the transactions that could not be fetched.

`StartJob` reads the head, `ReadSync`/`UpToDate` the sync state, `Fetch` the
events of the window and those of its transactions that can be fetched, and
`Commit` is the transaction of `BatchInsertWithCursor` with its savepoints:
rejected events are parked, a transaction keeps its first row, `sync_state` is
overwritten, the network cursor takes the greatest value. `WindowEvents` is the paging
of the client: an exclusive end ledger, and no end at all once the first page is full;
`TooManyPages` is its error. Several contracts of one pass are worked on at the same
time (the worker pool), and several pollers interleave without any lock, since the one
they take is a stub that is always granted.

Left out: statuses of contracts (they are in `ContractCatalog`), several networks
(cursors of different networks share nothing), the retention of the node, and
what a job does besides events.

### ContractCatalog

State: `code`, the hashes a contract ran, the last of them current; its `row`
(whether its status is one that a pass takes, and `wasm_hash`), its `upgrades`,
the cached binaries `wasm`, its `verdict`; per poller and contract where
`checkWasmHash` is, per request where `VerifyContract` is.

`BeginPass` is `ListContracts`: the hash it returns is the one the pass works
with, however late. `ReadEntry` compares it with the entry of the node, and
`AfterEntry` is the choice between a first hash, nothing new, and an upgrade.
`InsertUpgrade` then `UpdateHash`, then `LookUpCode`, `FetchCode`, `StoreCode`
follow, and `CheckFails` may come at each. `Register` is the upsert of both
registration routes, which writes `pending` and no hash over whatever is there;
`Untrack` the deletion with what it cascades to. `Submit`, `Build`, `SaveVerdict`
are a verification: the hash is read first, the build takes as long as it likes
and yields any hash or none, the verdict is stored at the end. Nothing in the
code makes a row `active` or `backfilling`, so `Activate` is external.

In an upgrade's record, `at` stands for the ledger the entry was last modified in.

### AlertOutbox and ExpiryAlert

State: `until` (the lifetimes in `storage_entries`), `synced`, which contracts are
`tracked` and `monitored`, who is `subscribed`, the recorded `alerts`; per poller
what is left of the pass and the check it is at; `flights`, the goroutines of
`deliver`; and `sent`, which counts the posts.

An alert's identity is the near-expiry set with its ledgers: `DedupKey` is a
hash of exactly that, cut to 64 bits and taken to be free of collisions, so
`Keys` are those functions. A check goes
`Scan` (the query, with its order and its cap), `LookUp`, `Insert`, `Notify`. A row
that meanwhile exists is left alone and sent all the same. `Delivered` and
`ServerError` are the two things that come of a post. Alerts are Critical, so
`ToMatching` keeps the subscriptions whose `Filter` is Critical (the API accepts
Warning and Info too, and they hear nothing of expiry); one that is not `Sendable`
ends in `FormatFails`, without a post. A poller in `once` mode, which is
a flag of the process, is a process per pass: `ReturnOnce` is the return of `runOnce`,
which waits for no goroutine, and may come when the pass is over and deliveries are
not. `Exit` is a crash or a signal.

Nothing in the repository's production code writes `storage_entries` or
`monitored_contracts`, so `Touch` and `Track` are external, and `Monitor` is the
store's upsert called by nobody in particular.

### ColdTier

State: `hot`, the rows; `object`, the events in the object of each month; `age`,
up to which event the threshold has come; per archive job its cutoff, page, the
months it still has to write and the object it has merged; per query what was
stored of its range when Postgres was asked (`had`) and what it has `got`.

`ReadPage`, `GetObject` and `PutObject` for one month after the other in any order
(the code ranges over a map), `DeleteRows` by the ids of the page. `Commit` is the
indexer, which may write an event of an archived month again. `Ask` is a list
query for which Postgres has no row. With `Attached`, `ListObjects` and
`ReadObject` follow while the job goes on, and the last read sorts what was found
and cuts it to the oldest `Limit` events (`Pages`); the answer has no cursor, so
who wants more asks again from a later ledger. Without a reader the empty page of
Postgres is the answer: this is what both binaries of the API do, and the tests of
the handlers are what attaches one. One contract is enough: contracts share no object.

### WatchdogContract

State: the ledger (`now`, also its timestamp), roles, registry, records, alert
lists, the last ledger each entry lives in (`until`), and the last ledger each
record was read in (`lastRead`). A call is one transaction: its guard is what
makes the call succeed, a call that fails changes nothing and is not a step. A
call that touches an archived entry fails; anybody may `Restore` one. Of the
batch's result only what it writes is kept, and of an interval only whether a batch
takes it. `DailyReads` names the reads that clients make at least every `Threshold`
ledgers, contract by contract.

The host, not the code under `src/`, decides what archival does to a call and
what restoring gives back: those definitions are marked external.

## 3. Runs

Every property of a passing run has a mutant: a plausible bug of one definition
under which the same run finds the property violated.

| Run | Instance | Shows |
|---|---|---|
| `ShardLeader` | 2 coordinators, 3 workers, 2 shards, 2 faults of 5 kinds | one leader while sessions survive; no decision of a rebalance is out of date; owners are live; the table implements `ShardOwnership` |
| `ShardHealthy` | 2, 2, 2, 2 contracts; 4 coordinator or store faults | healthy owners keep their shards, no contract is indexed twice at once, each is indexed again and again |
| `ShardRecovery` | 2, 2, 2, 1 contract; `StaleAfter` 2, `RebalanceInterval` 2, 3 faults with dropped sessions, punctual | the recovery bound; every owner has a row even with two leaders; the contract is indexed again and again as long as one worker keeps running |
| `IndexOnePoller` | 2 contracts (one with an event in every ledger, one in every other), 5 ledgers, window 3, backfill 2, 2 pages of 2, 1 fault of 5 kinds | durability, cursors, invocations, and the sync state of a single poller; windows with too many pages |
| `IndexTwoPollers` | 1 contract with an event in every ledger, 4 ledgers, window 2, backfill 1, 5 pages of 1, 2 faults of 4 kinds | durability and the network cursor under overlap and with backfills that begin at different ledgers; catching up although every first page is full |
| `CatalogUpgrades` | 1 contract, 1 poller, 1 request at a time, 2 hashes, 2 upgrades, 3 requests, 2 faults of 3 kinds | the upgrade history is true and a fault repeats a row at most once, hashes move by recorded upgrades, verdicts are true, the row catches up with the code |
| `ExpiryOnePoller` | either mode; 1 contract, 2 entries of which 1 is read, 3 subscriptions (Critical; Warning; Critical, but not to be sent to), 3 changes from outside, 2 faults of 3 kinds | alerting implements `AlertOutbox`; what stands is recorded; in continuous mode, what is recorded is sent to whom the severity matches, also after earlier faults |
| `ColdOneArchiver` | 3 events in 2 months, pages of 2 for the job and the answer, a reader attached, 2 late commits, 1 query at a time, 2 faults of 2 kinds | nothing is lost between rows and objects; the objects answer with the oldest page; old rows go |
| `WatchdogCalls` | 2 accounts, 2 contracts of which one is read daily, batches of 2, lists of 2, 3 ledgers, entries that live one ledger and are extended by one | registry, owners, nomination and pause, lifetimes under daily reads, order of alerts and exactness of get_alerts_since, while entries of the other contract are archived and restored |
| `IndexWindowEnd` `CatalogNeverIndexed` `CatalogUpgradeTwice` | smallest that show it | the findings of section 6 |

Why the bounds are enough. Coordinators matter in pairs: one that acts and one
that takes over. Three workers are needed for a round robin that is not decided
by exclusion, two shards for a rebalance that is interrupted between two
assignments. Ages are capped where no comparison tells them apart, and with
`StaleAfter` 1 each of "fresh", "at the limit" and "stale" occurs. One fault of a
kind leaves the tables as a second would, except where it takes two to build a
state (stop and restart, drop and take over): those runs allow two to four.
Ledgers are as many as two windows and a remainder, pages such that a window is
a short page, a full one, or too many. In the code the constants are: heartbeat
5s, stale after 30s, rebalance 10s, 64 shards; window 120960 ledgers, backfill
100000, page 1000, 100 pages; 100 alerts, batches of 20, lifetimes of 17280 and
518400 ledgers. The runs keep the cases around each boundary, and the order:
a window is wider than a backfill, as in the code, so a first window reaches the
head, and later ones are cut to the window when the head has moved on. Backfills are
short beside `MaxLedger`, so that those of two pollers begin at different ledgers.

Contracts of the catalog share the cache of binaries alone, and that is keyed by
hash. Two hashes and two upgrades make a code that returns to what it was, the
case in which a stale hash looks current; three requests are a registration, a
verification and one more that overwrites the row in the middle. In the expiry
scan only the sum of `synced` and `Threshold` is compared with a lifetime, so a
threshold of 0 and a horizon of 1 stand for any shift of both; two entries of
which one is read make a set that the cap cuts. Of subscriptions there is one of each
kind that `DispatchAlerts` and `deliver` tell apart. The cold tier has a month with one
event and one with two, so that a page covers two objects, or the half of one.

In `ShardLeader` coordinators are symmetric; workers are not, since the code
sorts their ids. In the watchdog run accounts are; contracts are not, since one of
them is read. Runs with a liveness property use no symmetry.

`CatalogUpgrades`, `ExpiryOnePoller` and `ColdOneArchiver` have one poller or one
archiver because `HashMovesByUpgrade`, `UpgradeOncePerFault`, `SentOncePerAlert`
and `NothingLost` are false of two (section 6); for the rest the theorems speak of
any number.

### Fairness

`ShardCoordinator!FairSpec`: the loop of a coordinator keeps running and the
orchestrator restarts it; heartbeat and indexing loops of a running worker keep
running, and a pass ends (it is cut off by `MaxDuration`); Postgres notices a
session whose process is gone; time passes. Nothing restarts a worker: the
property only speaks of behaviours in which one keeps running.
`EventIndexer!FairSpec`: ledgers close, the next pass begins when the last is
over (the ticker of `Run`), and every job is carried through. `CatchesUp` speaks of
contracts whose events up to the head fit in the pages of one `GetEvents`, for the
others do not catch up (section 6).
`ContractCatalog!FairSpec`: passes begin again, a job and a request are carried
through to an answer; nobody need activate, register or upgrade anything.
`ExpiryAlert!FairSpec`: passes begin again, a check goes on, a pass comes to each
contract it listed, a goroutine gets its answer or its timeout of ten seconds
unless its process ends before.
`ColdTier!FairSpec`: a schedule starts the job again and again, and a run goes on.
No fairness on faults, and none on what people do (requeues, repairs, requests).
Faults are finitely many, so liveness says what happens after the last.

`ContractsResume` is checked in both worlds: in `ShardHealthy` with arbitrary
delays, in `ShardRecovery` with dropped sessions on punctual clocks. With dropped
sessions and arbitrary delays it is not claimed: two leaders may hand shards to
and fro for ever, each from its own list.

## 4. Theorems

For every number of processes, workers, shards, contracts, ledgers, hashes,
events and faults.

**ShardCoordinatorProofs.** `TypeCorrect`, and `ForeignKey`: an owner has a row,
with any number of leaders; inductive with the type. The other theorems assume
`"session" \notin Faults`: a dropped session makes two leaders (section 6).
`LeaderExclusion`: `LeaderInv` adds that a coordinator past the lock is `held`.
`FreshDecisions` and `LiveOwners`: the listed rows still to visit are as they were
read, and owners are live. Neither is inductive: while stale workers are being deleted
one needs that an owner not counted as live is still to be deleted (`EvictInv`), and
after it that the snapshot's rows exist (`RowsInv`); `RebalanceInv` is their
conjunction. `Handover` follows: an assignment finds its shard in the pool, so each
step is a `Grant`, a `Revoke` or a stutter of `ShardOwnership`. `HealthyWorkers` and
`OneIndexer` assume that workers run and heartbeat on time (`Healthy`); `FreshInv`
bounds the age of every row so that nobody is listed as stale, and `ScopeInv` says
that a pass covers contracts of shards its worker still owns. `Recovery` is the bound
of the documentation, with dropped sessions and any number of leaders; it assumes
`OnTime`: punctual clocks, coordinators that keep running and a store that answers,
without which nothing bounds the recovery. Its invariant `OwnerAges` follows the
heartbeat of an owner through the passes of each leader: while stale workers are
deleted it is no older than `StaleAfter`, or the worker is still to be deleted; so it
is no older when the pass ends, and ages from there with the leader's own timer, which
stops at `RebalanceInterval`. The bound is of every owner, be its process stopped or
its heartbeats lost.

**EventIndexerProofs.** `TypeInv` is the type with `JobInv`, which relates what a
job has read to the head and its window; `Cursors` and `CursorForward` follow
from it. `NothingLost`: no step takes an event out of table and queue. `Durability`
needs `SyncInv` (ledgers from the floor to the sync state are covered) and
`ScanInv` (so is what lies below a job's window, whoever moved the sync state
since the job read it). It holds with any number of pollers and wherever they begin,
with two exceptions: window ends (`IndexWindowEnd`), and `gaps`, what a backfill jumps
over that is committed after another poller's sync state and begins beyond it
(section 6; with one poller, or when all backfills begin at ledger 1, there are
none). `Invocations` excepts the transactions that could not be fetched. Of these
`SyncForward` alone assumes one poller: two move the sync state back.

**ContractCatalogProofs.** `UpgradesTrue` and `VerifiedTrue` hold with any number of
pollers and requests. Both rest on one idea: a hash that was once observed is in
the history of the contract for good (`HistoryStays`), so it does no harm to use
it late. `HistoryInv` says so of every place a hash is kept: the rows (`RowRan`),
the jobs (`GoodJob`, which also has that the hash known to a job ran before the one
it saw) and the requests. `HashMoves` assumes one poller; its `JobInStep` says that
the row still holds what the job knows, or was emptied by a registration, until
the job writes it, and that the upgrade is on record by then. `RecordedOnce`
assumes one poller too. That there are at most `1 + faults` copies of a row is not
inductive: one needs to know of which rows another copy may still come
(`MayCome`), and that of those there are at most `faults`. A row may come while the
contract's hash is the one it starts from and its code is still the current
one; `NothingComesBack` shows that nothing but a fault makes that true again once
the row was inserted and the hash updated: not a registration, which makes the
next pass take the current code as the first, and not a code that returns to an
earlier hash, which has a later place in the history (`RowsRead`).

**ExpiryAlertProofs.** `SentOnce` is the refinement of `AlertOutbox`, for one poller.
`CheckInv` says that a check which is about to insert has a key that is not on
record, so nothing was sent and nothing flies for it (`UnrecordedInv`); `FlightInv`
that each delivery has made exactly its earlier posts, and is the only one for its
alert and subscription. A crash, or the return of once mode, drops flights and
checks and keeps all three.

**ColdTierProofs.** With one archiver, `Kept` and `AnswersPage`. `RunInStep` follows
the page through a run: its events are in objects, in the object about to be
written, or of a month still to do; the object about to be written holds the one
it replaces. `OwnMonth` keeps months apart. So objects only grow (`ObjectsGrow`), and
for a query `QueryInStep`: what it has to find is in what it got or in an object it
still has to open. When it has read the last one, `PageLeavesNewer` says what the cut
to `Limit` leaves out: only events newer than all of a full page.

**WatchdogContractProofs.** `NomineeIsAnother`, `PausedNothingMoves` (from `RolesInv`:
before initialisation nothing is paused), `OwnersStay` and `AlertsOrdered` (from
`Shape`, the types of all but the registry), and `ReadDailyLivesOn`: if
`Threshold <= ExtendTo`, a contract of which clients read record and alerts daily is
not archived, whatever becomes of others; `LifeInv` says that its entries live at
least `Threshold` beyond their last read.
`RegistryIsExact` and `TypeCorrect` follow from `ListInv`, which is inductive together
with `Shape` and `RolesInv`: the registry has no double and holds exactly the ids
with a record. A removal
(`DropOne`) and a batch (`BatchIds`, `JoinLists`) are loops over a list in the code;
`Picked` gives their result without recursion, as the elements at a set of
positions in order, and `Ranks` and `NthOnce` show that counting the positions
below one numbers them, each once, so `PickedElements` can say what is in the
result. `SinceFindsAll` uses the same on the other side: since the lists are
ordered, the newer alerts are a run of positions at the end (`NewerIsSuffix`), and
picking a run is a subsequence (`PickedRun`). `None` is taken not to be a record
(`AbsenceAssumption`).

**Model-checked only.** Liveness (`ContractsResume`, `CatchesUp`, `CodeIsTracked`,
`StandingExpiryIsRecorded`, `RecordedIsSent`, `OldEventsLeave`), which the prover does
not do. Every invariant and every action property of the passing runs is proved.

## 5. Not modelled, and why

Inert in production. These parts are tested and have no effect where they run,
so a model would describe tests:

* discovery: `poller.go` asks its store for `DiscoveryStore`, which the Postgres
  store does not implement;
* the rules engine: likewise `rulesengine.Store` (`main.go:129`);
* the store of the watchdog interceptor (`main.go:314`), on the same ground;
* alert groups: `Merge` and `UpsertAlertGroup` have no caller outside tests;
* the event stream: nothing calls `PublishEvent` or `PublishAlert`;
* the spec cache, and the nightly performance job.

Small enough to state in words. The rate limiter counts in a key per minute of
the hour and sets its lifetime in a second call (`ratelimit.go:87-96`): a fixed
window, not the sliding one of `docs/deployment.md:144`, and a key whose `Expire`
is lost is still there an hour later. The response cache is filled after the
handler has read (`cache.go:108-111`), so a fill may follow the purge of a write
that came in between, and "a follow-up read never sees the pre-write body"
(`cache.go:118-120`) fails until the entry expires.

Out of the scope of the models: several RPC nodes behind one endpoint that lag
behind each other; a contract older than the node's retention; the cursors of
list queries. Pure computations (health score, anomaly, call graph, wasm, scval,
rule language, forecast, reports) are left to unit tests, which reach all of their
cases; clients, generated code and deployment keep no state that anything here
depends on, and they are most of the repository's lines.

Worth doing next: the coordinator and the indexer composed, with worker scopes in
place of a fixed set of pollers, so that the overlap of a handover and the overlap
of pollers are one run.

## 6. Findings

Shown by a run that finds a property violated which a comment or document states:

* `IndexWindowEnd`: the poller's window includes its last ledger, the node's answer
  does not.
* `CatalogNeverIndexed`: a registration leaves the contract `pending`, which no pass
  picks up, where `ARCHITECTURE.md:58-62` says it is indexed within five minutes.
* `CatalogUpgradeTwice`: migration `000010_contract_upgrades` says that a re-run of a
  poll cycle cannot insert the same upgrade twice; `tx_hash` is always NULL, and a
  failed update of the hash makes the next pass insert it again.
  `UpgradeOncePerFault` and `RecordedOnce` bound how often.

Met while modelling, without a run of their own.

Coordinator. `held` is never cleared, so a leader whose connection drops leads on
beside the next one (`coordinator.go:283`, against `pgstore/coordinator.go:88-90`);
deleting a worker rests on a heartbeat read before, so one that restarts in between
is deleted and its contracts are indexed twice at once (`coordinator.go:222`, against
`docs/indexer-sharding.md:96-97`); shards that could not be created are not created
by this leader any more (`coordinator.go:291`).

Indexer. The lock that `ARCHITECTURE.md:1036` says is in place always grants, so two
indexers backfill a new contract at once, and the one that began later and commits
later moves the sync state over ledgers neither has read: the `gaps` that
`DurableBelowSync` excepts. With the defaults (window 120960, backfill 100000) that
takes a pass stalled for more than 100000 ledgers, with a smaller `--ledger-window`
one stalled for more than that many; a comment beside the stub (`main.go:362-363`)
asks for a single indexer. Windows are there "to respect RPC page limits"
(`poller.go:573`), but once the first page is full the rest is read without an end
ledger (`methods.go:169-174`): a contract with more than 100 pages up to the head
fails every pass, however small its window, and `CatchesUp` excepts it. The network
cursor is the greatest of all contracts and so runs ahead of
one that failed (`poller/interfaces.go:27`); a transaction that cannot be fetched
gets no row from that window (`poller.go:809`, the exception of `InvocationPerTx`); a
transaction that touches two tracked contracts gets the row of the first
(`pgstore.go:258`); with two pollers the sync state of a contract moves back when the
older window commits last (`pgstore.go:457`).

Catalog. Registering an indexed contract again stops its indexing and erases its
hash (`postgres.go:66-72`), and an upgrade that happens before the next baseline
leaves no row. Two pollers record the same upgrade twice without any fault. A verdict
outlives the upgrade of the code it is about; of two verifications at once the last to
finish stays; one of a contract that is merely registered fails for want of a hash and
overwrites an earlier verdict. Untracking keeps alerts, parked events and binaries.

Expiry alerts. Entries that return to a set already alerted raise nothing, and
neither do changes beyond the cap, where `expiryalert.go:333-335` says any change
yields a new alert. Two pollers may both find no row and both send. A notification
is lost when the process crashes before it is posted or the subscriptions cannot be
read; and once mode returns without waiting for the deliveries it has started, where
`expiryalert.go:5-7` says that subscriptions receive the alert, so `RecordedIsSent`
speaks of continuous mode. A subscription for Warning or Info never hears of expiry,
nor of anything else that `DispatchAlerts` sends (`notifier.go:460-473`). Alert rows
survive untracking and silence a contract that is tracked again. Workers of the
sharded topology do not run the scan.

Cold tier. Neither binary of the API sets the reader of its handlers, so the fallback
of `ARCHITECTURE.md:1102-1104` does not take place there; what is checked and proved
of answers holds where one is attached. Two archivers lose events: each reads, merges
and writes the same object. An answer from the objects has no cursor, so a client that
pages by `next_cursor` takes the first page for all (`contracts.go:563-565`), and more
events of one ledger than a page holds need a greater limit. A range that is partly
archived is answered from Postgres alone; the fallback ignores the filters for type,
topic and success. Untracking leaves the objects.

Watchdog. `get_status` alone does not keep a contract's alert list alive
(`lib.rs:531`, the second read that `NothingArchives` assumes); `register_contract`
takes the interval 0 that a batch refuses (`lib.rs:219`).
