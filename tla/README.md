# A TLA+ development for stellar-rpc

stellar-rpc ingests the ledgers of a Stellar network from captive core into
SQLite, keeps the latest ones (the *retention window*), and answers JSON-RPC
requests about them. This directory holds TLA+ models of that program, the TLC
configurations that check them on small instances, and TLAPS proofs of the
results that hold for every instance. Paths below are relative to
`cmd/stellar-rpc/internal/` unless they start with `src/`.

## 1. Inventory

| component | state | operations | what makes it correct |
|---|---|---|---|
| ingestion service, `ingest/service.go` | next ledger, retry count | `startService`, `run`, `ingest`, `ingestLedgerCloseMeta`, `Close` | ledgers are stored in order without a gap; a failure is retried; a restart repairs what a failure left |
| storage, write path, `db/db.go`, `db/ledger.go`, `db/transaction.go`, `db/event.go` | three tables, meta table, `dbCache` and its lock | `NewTx`, inserts, `Commit` (three trims), `Rollback` | tables agree with each other; the cache agrees with the tables; nothing inside the retention window is dropped |
| data migrations, `db/migration.go` | guards in the meta table, the range left | `Apply`, `Commit`, `Rollback` of `MultiMigration` | all or nothing, once |
| storage, read path, same files | cached latest ledger of a read transaction, its snapshot | `GetLedgerRange`, `NewTx`, `BatchGetLedgers`, `GetTransaction`, `GetEvents` | a range is really stored, what is inside it is found |
| ledger bucket window, `ledgerbucketwindow/` | circular buffer, head | `Append`, `Get`, `GetLedgerRange` | behaves as a sliding window |
| fee windows, `feewindow/` | two windows and their distributions | `AppendLedgerFees`, `IngestFees`, `Reset`; read by `getFeeStats` | the distribution of the inclusion fees of exactly the latest ledgers |
| history methods, `methods/get_ledgers.go`, `get_transactions.go`, `get_events.go`, `get_transaction.go`, `get_latest_ledger.go` | none: cursors live at the client | one handler each | truthful answers while ledgers come and go; a listing misses nothing and repeats nothing |
| event filters, `src/protocol/get_events.go`, `methods/get_events.go` | none | `Valid`, `Matches`, `combine*` | the SQL prefilter keeps every event a filter matches |
| request path, `network/`, `jsonrpc.go` | backlog counters, timers | backlog limiter, duration limiter | limits hold, counters come back to zero, one answer per request |
| preflight pool, `preflight/pool.go` | bounded queue, workers, closed flag | `GetPreflight`, `work`, `Close` | each call gets its own result; closing is clean |
| daemon, `daemon/daemon.go` | all of the above | `mustInitializeStorage`, `Run`, `close` | starts from a consistent state, stops in an order nothing trips over |
| `getLedgerEntries`, `simulateTransaction`, `ledgerentries/` | the ledger a getter is fixed at | queries of stellar-core for entries of a ledger | entries of one ledger, each with its key |
| `sendTransaction`, `methods/send_transaction.go` | none | one submission to stellar-core after a read of the ledger range | the ledger it reports is stored and older than the one that includes the transaction |
| configuration, `config/`, `src/cmd/stellar-rpc/main.go` | the settings | `SetValues` (defaults, environment, flags, file, then environment and flags again), `Validate`, `MarshalTOML` | each setting comes from the source that has precedence; strict mode is strict; a printed file can be read back |
| client library, `src/client/main.go` | the shared jrpc2 client and its lock | `callResult`, `refreshClient`, `Close` | a refresh disturbs no call and leaks no client |
| XDR/JSON and simulation glue | none | encoding | byte formats |

How they interact. The ingestion goroutine is the only writer of the database;
it commits under the write lock of `dbCache`, then updates the cache. Handlers
run concurrently: they read the cache under its read lock, and query the
database with or without an SQL transaction. SQLite takes the snapshot of a
transaction at its first query, so the cached ledger a read transaction
remembers may be older than its snapshot. The fee windows are appended to by
the ingestion goroutine before the commit and read by `getFeeStats`. At start-up
one goroutine runs all data migrations and rebuilds the fee windows from the
stored ledgers inside one SQL transaction. Each request passes two duration
limiters and two backlog limiters (global and of its method); a duration limiter
runs what is behind it in a goroutine, which goes on when the time is up.
Simulations are handed to the workers of the preflight pool over a bounded
queue. They and `getLedgerEntries` read ledger entries from stellar-core, which
is ahead of the database; `sendTransaction` hands transactions to it. The client
library runs in another program.

Hard to test, and what the properties are aimed at (`PROJECT.json`, hazards, has
the full list with lines): a failed commit after in-memory state has changed; a
retry after a commit that did happen; process death between any two steps; a
cache that is filled by a reader while a commit updates it; ranges whose two ends
are read at different times; off-by-one at the retention cutoff, the search
window and the wrap of the event index; cursors at the latest ledger; a
migration that fails half way; an answer that comes after its time limit; a pool
that is closed while it is used; a prefilter in SQL that is stricter than the
filter; a transaction that is included before the answer to its submission says
which ledger is latest; two fee windows that are read one after the other while a
ledger is appended; a setting that is given in several places, one of which names
the file; calls that fail together and all replace the client they share.

## 2. Modules

| module | models | extends / instances |
|---|---|---|
| `LedgerTables` | tables as sets of ledger numbers; `Latest`, `Oldest`, `Trim` | |
| `LedgerStore` | what the storage layer promises (abstract) | `LedgerTables` |
| `Ingestion` | service, write path, cache, migrations, fee windows, `getFeeStats`, restarts | `LedgerTables`; refines `LedgerStore` |
| `LedgerReads` | seven request handlers on top of the promise | `LedgerStore` |
| `Pagination` | a client that follows cursors | |
| `SlidingWindow` | what a ledger bucket window promises (abstract) | |
| `LedgerBucketWindow` | the circular buffer | refines `SlidingWindow` |
| `Listings` | sorting, filtering and appending lists, as operators | |
| `FeeWindow` | the fees of a ledger and their distribution over the buffer | `LedgerBucketWindow`, `Listings` |
| `EventFilters` | validation, SQL prefilter and matching of `getEvents` | |
| `PreflightPool` | queue, workers and closing of the preflight pool | |
| `RequestPath` | limiters, a handler that calls the pool, shutdown of the daemon | `PreflightPool` |
| `LedgerEntries` | reading ledger entries from core | `Listings` |
| `Configuration` | where settings come from, checks, the printed file | |
| `Client` | goroutines that share a client | |
| `MCIngestion`, `MCPagination`, `MCFeeWindow`, `MCEventFilters`, `MCLedgerEntries`, `MCConfiguration` | constants for TLC | |
| `LedgerTablesProofs`, `IngestionProofs`, `PaginationProofs`, `ConfigurationProofs` | theorems | the modules they are named after |
| `LedgerReadsProofs` | theorems about `LedgerStore` and `LedgerReads` | `LedgerTablesProofs` |
| `RequestPathProofs` | theorems about `PreflightPool`, `RequestPath` and `Client` | |
| `FeeWindowProofs` | theorems about `LedgerBucketWindow` and `FeeWindow`, lemmas about `Listings` | |
| `MethodProofs` | theorems about `EventFilters` and `LedgerEntries` | `FeeWindowProofs`, for its lemmas |

A specification whose module is extended together with another one has its own
names: `RingSpec` and `FeeSpec`, `FilterSpec` (`EventFilters`), `ClientSpec`,
`StoreSpec`; the others are called `Spec`.

The composition is by refinement: `Ingestion` is shown to implement
`LedgerStore`, and `LedgerReads` runs the handlers against `LedgerStore`, so the
two never have to be explored together.

### Ingestion

`db` is the committed database, `wtx` what the open write transaction sees.
Rows of the transactions and events tables are represented by their ledger,
because they are written and deleted a ledger at a time. `pc` is the step the
process is at; one action stands for one stretch of code between two points
where something else can happen:

| action | code |
|---|---|
| `Start` | `mustInitializeStorage` up to the first streamed ledger: cache filled, `BuildMigrations` for the guards that are not set, the transactions table truncated |
| `MigrateLedger`, `StreamDone`, `SetGuard`, `CommitMigrations` and their failures | `StreamLedgerRange`, `MultiMigration.Apply`, `MultiMigration.Commit`, `mm.db.Commit` |
| `GetNextLedgerSequence`, `GetLedger` | `getNextLedgerSequence`, `PrepareRange`, `GetLedger` of the ledger backend |
| `InsertLedger`, `AppendFees` | `NewTx`, the three inserts, `IngestFees` (its two windows in turn) |
| `CommitTx`, `UpdateCache`, `Checkpoint` | `writeTx.Commit`: trims, lock, commit; cache; `postCommit` |
| `RunFails`, `Retried` | any failing call of `run()`, the deferred `Rollback`, the backoff |
| `MissCache`, `RangeFromCache`, `ScanLedgers`, `StoreIfEmpty` | a handler in `getLatestLedgerSequence` |
| `BeginFeeStats`, `QueryFeeStats`, `ReadSorobanFees`, `ReadClassicFees` | `getFeeStats`: the range, from the cache or the table, then each window under its own lock |
| `Stop` | a kill, or `Service.Close` |
| `PublishArchive` | external: the history archives get a checkpoint |

A process may be started with another retention window and other fee windows
than the last one. `Init` includes databases written by versions without guards,
with an arbitrary suffix of the transactions table filled. The configuration is
restricted to fee windows not larger than the retention window: `buildMigrations`
of `daemon/daemon.go` stops the process otherwise (`Configuration` has that check).

### LedgerReads

A request is a record that moves through the reads its handler makes: the cache
(`ReadCache`), the range (`QueryRange`, with the check of the page asked for),
the data (`GetLedgers`, `GetTransactions`, `GetEvents`, ...). Between any two of
them ledgers are committed and trimmed and the process may die; each query of
the database may fail (`RangeFails`, `ReadFails`), which ends the request with an
error, except that `sendTransaction` goes on without a range and reports ledger 0.
The limit of a page is whatever a request or the settings give, 0 included:
`default-ledgers-limit = 0` and `default-events-limit = 0` pass validation
(`config/options.go:267-332`). `getLedgers` and
`getTransactions` see the table as it was at their first query; `getEvents` and
`getTransaction` see the current one. `getLedgers` may fall back on a datastore
of older ledgers, whose answer is external. `sendTransaction` reads the range,
fails to decode (`RejectTransaction`) or submits (`SubmitTransaction`); core,
which is external and never behind the store, answers with one of its statuses
and a pending transaction goes into a ledger that core has not closed yet; the
answer is translated (`InterpretResponse`) or does not arrive (`ResponseLost`).
Two simplifications: the pages are
those of a request with `startLedger` (a cursor is not checked by
`getTransactions`, and is the subject of `Pagination`); and each stored ledger
has its transaction and event rows, which `TablesAligned` of `Ingestion` gives
for a suffix of the ledgers only, all of them once the first commit after a
migration has trimmed the rest.

### Pagination

A client starts a listing of ledgers, transactions or events at a stored ledger,
events with or without an `endLedger`, and goes on from the cursor of each answer while ledgers close and old ones are trimmed.
Cursors are ordered tuples; the end-of-window cursor of `getEvents`, with the
largest transaction and event index, and the wrap of `start.Event++` in 32 bits
are modelled (with a small modulus `EventMax + 1`). An `endLedger`, which may
be earlier than the start, ends the search window of the first request; requests
with a cursor cannot have one.

### LedgerBucketWindow, FeeWindow

`IngestFees` takes from the transactions of a ledger the fees of one kind:
classic fees are divided by the number of operations and rounded down; of a
Soroban transaction the resource fees are subtracted, which the model does over
the naturals because they are part of what was charged, and a Soroban operation
is the only one of its transaction (assumption `TransactionsOfTheNetwork`); a
transaction without the meta extension, or without operations, is skipped.
`kind` says which of the two windows the behaviour is about. A transaction is
its operation count and its amounts.

The circular buffer with its moving head, `Append` with its contiguity check,
and `computeFeeDistribution`: the loop for the mode with its last cluster and
the nearest-rank percentiles, checked against their definitions by counting.
`AppendLedgerFees` flattens the buckets of the window in the order `Get`
returns them. A quirk the model keeps: when the window holds ledgers but no fee,
the distribution is empty and its ledger count is 0.

### EventFilters

One request and one event: rows are filtered independently. `GetEvents` is the
whole way of a row: `Valid`, the condition made of `combineContractIDs`,
`combineEventTypes` and `combineTopics`, the `WHERE` of the query on the columns
`InsertEvents` wrote, and `Matches`. Filters are sets, so the order of filters
and repeated ones are not told apart. `Meaning` is the reference for wildcards.

### PreflightPool, RequestPath

`RequestPath` follows simulateTransaction requests through the limiters of the
method. For each request `wait` is the select loop of the duration limiter, `go`
the goroutine it started (backlog limiter and handler), `call` the call of the
pool. `expired` says that the context of the goroutine is done. A send to the
closed queue panics; the panic is recovered by the goroutine, after the deferred
decrement of the backlog limiter.

| action | code |
|---|---|
| `Arrive`, `Expire`, `TimeOut`, `Completed` | `Handle` of `RPCRequestDurationLimiter`: start of the goroutine, timers, the two cases of the select |
| `Enter`, `Refuse`, `Leave` | `Handle` of `backlogJrpcQLimiter` |
| `ReturnEarly`, `GetPreflight` | the handler: an error before the pool is called, or the call (`CheckClosed`, then `Enqueue`, `GiveUp` or `QueueFull`) |
| `Work`, `FinishSimulation` | `work()`: `Take`, `Deliver`, `ExitWorker`; the simulation |
| `Signal`, `ShutdownDone`, `GraceEnds`, `ClosePreflightPool` | `Daemon.Run`, `Daemon.close`, `WorkerPool.Close` in its three steps |

`GracefulStop` is about a stop within the grace period. Requests that outlive it
(`GraceEnds`, `forced`) may meet a closed pool and fail; of such a stop the model
says that it ends (`ShutdownCompletes`) and leaves nobody behind
(`NothingLeftBehind`).

The global pair of limiters runs the same code around the JSON-RPC bridge and is
not modelled a second time. Warnings, gauges and the settings that switch a
limiter off are left out.

### LedgerEntries

`core` is external: the ledgers of stellar-core, each with the state of each
entry; it can be asked about the last `SnapshotLedgers` of them. A request is
either `getLedgerEntries` (the latest ingested ledger is read, then core is
asked for all keys, and the found entries are paired with the keys and sorted),
or a simulation, which asks for any keys, one at a time, at the ledger that was
read before it began. When core cannot be asked, the simulation is given no
entry (`SnapshotSourceGet`), which the model keeps: `failed`. A request sends
*texts*: those that cannot be decoded are refused, as are an unknown `xdrFormat`
and too many keys (`Valid`); a text may decode to a key and still not be what
`MarshalBase64` makes of it (`Respelt`; base64 leaves some bits of the last
character unused). The sort compares texts, so an entry whose key was spelt in
such a way only is a "mismatching key" and the request fails (`Mismatching`).

### Configuration

A process is given an environment, flags and files, and goes through `stage`s:
`ParseFlags` (cobra and pflag), `loadDefaults`, `loadEnv`, `loadFlags`, and when
these name a file `loadConfigPath`, `loadEnv` and `loadFlags` once more; then
`Validate` and the daemon's `BuildMigrations`, or `GenConfigFile` and a new
process that is given what was printed (`RunPrinted`). The options of the model
stand for the classes of the option table: type and parser, sources they can be
set by, validator. A setting is what it parses to, or `Unparsable`. Integers have
widths: `uint16` options are parsed as 32-bit numbers from the environment and
the file and truncated when stored, while pflag checks the width. `MarshalTOML`
comments zero values out and prints the datastore tables with their defaults, so
`PrintedFileKeepsSettings` says what a printed file keeps: every other setting. It
bounds that loss and does not exclude it; likewise `AcceptedAsGiven` takes a
number as the field can store it.

### Client

`cli` is the pointer under the read-write lock, `open` the clients that are not
closed. A call holds the lock for reading (`BeginCall`, `EndCall`); one that
failed creates a client (`Create`), waits for the lock (`Lock`) and replaces the
current one (`Replace`). A waiting writer keeps new readers out, as Go's lock
does. `Close` closes the current client under the read lock. The module has a
proof and no run: the invariant is inductive for any number of goroutines.

## 3. Runs

| run | instance | result |
|---|---|---|
| `ingestion` | ledgers 2..5, windows 2 and 3, two fee configurations, one handler (of the cache or of `getFeeStats`), two failing calls out of eight sites, one stop, two retries | 399k states; all hold |
| `ingestion_commit_fault` | one failing commit, five retries | `FatalMeansOutage` violated |
| `ingestion_guard_fault` | one failing write of a guard | `MigrationAtomic` violated |
| `ledger_reads` | ledgers 2..6, windows 2 and 3, one request, page limits 0 and 2, scan limit 3, with datastore, any query may fail | 89k states; all hold |
| `pagination` | ledgers 2..5, window 3, ledgers with no, one event-less, or two transactions with three events, page limit 2, scan limit 2, each `endLedger` or none | 20k states; all hold |
| `pagination_tip` | the same | `TransactionsDeliveredOnce` violated |
| `fee_window` | capacity 3, five ledgers, six lists of transactions, both kinds of fees, four percentiles | 22k states; all hold |
| `event_filters` | two topic columns, all pairs of 148 filters and some that exceed a limit, 24 events | 530k states; all hold |
| `event_filters_mixed` | the same | `AnyFilterSuffices` violated |
| `request_path` | three requests, backlog limit 2, one worker, queue of one | 257k states; all hold |
| `ledger_entries` | two keys with four states each, three ledgers of which core keeps two, lists of up to three keys, one of them also in another spelling, a valid format and an invalid one | 1.9M states; all hold |
| `configuration` | each option, and three pairs of related ones, given in any of the three sources; a file named in any way, missing, or with unknown keys; 16- and 32-bit widths scaled to 2 and 3 bits | 456k states; all hold |

Why the bounds are enough to be interesting. With windows 2 and 3 and four
ledgers each ledger is trimmed in some behaviour, a restart can shrink and grow
the window, and the fee windows (1 and 2) evict. Two faults allow a failure
during the recovery from another, two retries allow both success and exhaustion.
One handler suffices for the cache: a second would only race the first for
`StoreIfEmpty`, and the theorem `CacheIsCoherent` holds for any set of handlers.
Requests of `LedgerReads` do not affect one another, so one is as good as many;
with window 2, four ledgers after the first let a whole window pass between two
reads of a request, so that the ends of a range cross.
In `Pagination` limit 2 falls inside, at the end of and across ledgers, the
window of three ledgers overtakes a slow client, and the search window of two
is shorter than the history. In `EventFilters` topic filters that are valid
and ones that are not, events with fewer and with more topics than columns, and
requests with too many filters are all there. In `RequestPath` three requests
exceed the backlog limit, and two that are let through fill the worker and the
queue. Two keys and three ledgers in `LedgerEntries` allow a repeated key, a
missing entry before a found one, and a ledger that core has dropped. The fee
lists have fees that the operation count does not divide, equal fees in one
ledger and across ledgers, and ledgers with no fee of a kind. In
`Configuration` options are independent except for the pairs that are checked or
used together, so one or two at a time are enough; with 2 and 3 bits there are
values that fit both widths, only the larger, and neither.

Deadlock is checked except where the system really stops: a daemon that was shut
down (`RequestPath`), the one request of `EventFilters`, once answered, and a
process that runs or was refused (`Configuration`).

Fairness. `Ingestion`: weak fairness of the start-up steps and of `run()` (two
goroutines that are always scheduled), and of the first checkpoint being
published. `Start` has none: whether an ended process is started again is up to
the operator, so `RestartHeals` is conditional on it. Faults are bounded, so
they stop. `LedgerReads`: the committing goroutine releases the lock, and each
handler is scheduled. `Pagination`: ledgers close and the client goes on.
`RequestPath`: the goroutines of limiters, handlers, workers and of `close` are
scheduled, and timers fire. Nothing is assumed of the simulation: that requests
are answered does not depend on it; that slots are released and that the
shutdown ends is stated under the hypothesis that simulations end
(`SimulationsEnd`), since `Close` waits for the workers without a time limit.

What the violations show (`PROJECT.json`, findings):

1. A single failed commit is fatal. The fee windows have taken the ledger and
   are not rolled back, so every retry is refused with "ledgers not
   contiguous". Only the restart repairs it (`RestartHeals` holds).
2. When writing one guard fails, the remaining guards are written outside the
   transaction that was rolled back, and mark rows as migrated that are not
   there.
3. A page of `getTransactions` that finds nothing new in the latest ledger
   returns the cursor (ledger, 0), and the next page repeats that ledger.
4. The SQL condition of `getEvents` joins the parts of all filters. A part that
   a filter leaves open, or a topic filter made of wildcards, adds nothing, so
   the values of the other filters hide events it matches
   (`UniformFiltersComplete` states when nothing is lost).

Seen on the way, and not the subject of a run:

* the five retries of the ingestion service are for the lifetime of the process
  and not for an outage: the backoff is reset by empty archives only
  (`ingest/service.go:102`), so six failures that are days apart are fatal too
  (`FatalMeansOutage` is violated in the same way);
* a `uint16` option beyond 65535 is truncated when it comes from the environment
  or the file, and refused when it comes from a flag;
* `gen-config-file` comments out a value that was set to zero or to false, which
  then has its default again when the file is read, and prints the datastore
  tables with their defaults whatever was given;
* `default-ledgers-limit = 0` and `default-events-limit = 0` are accepted. A
  `getLedgers` page without a limit of its own is then refused by
  `BatchGetLedgers` if it begins in the database (`db/ledger.go:66`), and takes
  the last element of an empty page if it begins in the datastore
  (`methods/get_ledgers.go:98`). `getEvents` stops at the first event and returns
  a cursor at the end of the search window, past events it did not look at, or
  takes the last element of an empty list (`methods/get_events.go:204-216`).
  `ReadsAreServed` and `EventsScanned` name these cases;
* `sendTransaction` reports ledger 0 as the latest whenever its range query
  fails, and not only when the database is empty (`methods/send_transaction.go:58-64`);
* a handler that is slow between its two reads works with a range whose oldest
  ledger comes after its latest (`RangeStored` says when); `getHealth` and
  `getTransaction` report it;
* `getLedgerEntries` fails as a whole with "mismatching key in result" when a key
  was sent in a spelling that decodes but is not the canonical one
  (`methods/get_ledger_entries.go:141-144`);
* a call that fails after `Close` of the client library gives it a new client
  (`src/client/main.go`, `refreshClient`);
* `getTransactions` assigns the JSON form of the result meta and of the envelope
  the other way round than `getTransaction` does
  (`methods/get_transactions.go:154-156`, `methods/get_transaction.go:102-104`);
* a failed query of core is given to a simulation as a missing entry
  (`preflight/preflight.go:58-61`);
* with a repeated key, `getLedgerEntries` answers in the order of the last
  occurrences, not of the request (`methods/get_ledger_entries.go:131-133`).

## 4. Proofs

All theorems are for every value of the constants that satisfies the assumptions
stated beside them: positive retention windows, capacities, backlog and search
limits and retry counts; page limits that are natural numbers in `LedgerReads` (0
included) and positive in `Pagination`, whose client follows the cursors of pages; natural ledger numbers; fault sites among the eight; at least one
preflight worker (`config/options.go` refuses a count of 0); ledgers with fewer
transactions, and transactions with fewer events, than the numbers that stand for
"the end of this ledger" in a cursor. The sets of requests, workers and callers may be
infinite.

* `IngestionProofs`: `TypeCorrect`, `CacheIsCoherent`, `TablesAreAligned` and
  `IngestionRefinesStore`. The inductive invariant `IInv` adds to the three
  properties: contiguity of the stored ledgers; that a stopped process has
  empty fee windows and idle handlers (`StoppedClean`); during start-up, that the
  transaction holds each table as far as its migration got, or untouched, that
  the guards it holds and the migrations left are all of them, and that
  events whose guard is not set are empty (`MigrationShape`); while running, that
  `seq` is the ledger after the latest one, or the latest one itself between
  commit and checkpoint (`SeqShape`); that the write transaction is the database
  plus that ledger (`TxShape`); that a handler has a value to put into the cache
  only if some ledger is committed (`FillShape`); and the bounds (`Counters`).
  Without `MigrationShape` and `TxShape` the commits could not be shown to keep
  the tables aligned; without `FillShape` the cache fill could not. The
  refinement maps `CommitTx` to `Commit`, `UpdateCache` to `Publish`, `Start` to
  `Open`, every way a process ends to `Exit`, and the rest to
  stuttering.
  The same module proves `FeeWindowsAreRight` and `FeeStatsAreFresh` from a second
  invariant on top of the first, `FeeInv`. While a start-up migrates, the ledgers
  still to come are the newest part of the database and each window holds
  what has passed of the range it is built from (`FeesMigrated`); afterwards it
  holds the newest stored ledgers (`FeesBuilt`), because a range as long as the
  larger window is enough for both. While the service runs the two windows end at
  the same ledger except between the two appends (`FeesLevel`), so that the
  second append is never refused when the first was not; and they neither
  lag behind the database nor are ahead of it by more than the ledger being
  ingested, also when an ingestion is tried again (`FeesTrack`).
* `LedgerReadsProofs`, of the store: `StoreTypeCorrect`, `StoreHasNoGap`
  and `StoreTrimsOnlyExpired`, from `StoreInv` (types, contiguity, and the
  coherence of the cache, which is a result about the code in `Ingestion` only).
  With the refinement they hold of `Ingestion` too.
* `LedgerReadsProofs`, of the readers: the seven handlers on top of the store, with commits, trims
  and restarts between any two of their reads. `HandlersLeaveStore` says that
  they change nothing of the store, so that `StoreInv` holds with them;
  `ReadsTypeCorrect`, `RangesAreRight`, `LatestIsNeverStale`,
  `NotFoundIsReliable`, `ValidReadsSucceed`, `CursorPassesNothing` and
  `SentIsNeverMissed` follow from `ReadsInv`. Its heart is what of a remembered
  ledger survives a commit: it is not ahead of the database (`Behind`), and it is
  stored or the retention window has passed it (`Kept`, `Remembers`). The rest
  says what a request has at each step (`Progress`), that a page that passed
  validation starts inside the table it will read (`PageChecked`), that the range
  it was given is one of stored ledgers or has its ends crossed (`RangeOf`), and that its answer is true
  of the store from then on (`AnswerTrue`). That a request ends with its process is
  part of the invariant: a new process may have another window.
* `PaginationProofs`: `CursorsSkipNothing` and `CursorsRepeatNothing`. The
  invariant `ListInv` adds that a cursor is not past the latest ledger and
  has the form of the last item of a page or of the end of a search window
  (`CursorShape`), and that no ledger and no event delivered lies after it
  (`DeliveredUpToCursor`; transactions are excepted, as run `pagination_tip` shows
  that one can be delivered again). The order of cursors is shown to be total and transitive and
  to have least elements (`LeastItem`); `FirstOfFacts` then says of a page that it
  is an initial part of what follows the cursor, and `LastOfIsLast` that the cursor
  made from it is its end.
* `RequestPathProofs`: `PathTypeCorrect`, `PoolServesItsCallers`,
  `CloseLeavesNobodyBehind`, `BacklogIsCounted`, `BacklogIsBounded` and
  `ShutdownIsGraceful`, from `PathInv`. In the pool each call that waits is in
  exactly one place, once in the queue or with one worker (`QueueShape`,
  `WorkerShape`, `NoneLost`), and a worker ends only when nothing is left and
  nothing can come (`ExitShape`). The backlog counter is the size of a finite set
  of goroutines (`BacklogInv`). For the shutdown: the pool is open as long as the
  server may take requests, and unless the server was forced nobody waits for an
  answer when the pool closes (`ShutdownInv`).
* `RequestPathProofs`, of the client library: `ClientIsShared`, that a call is not
  broken off by the refresh of another and that no client is left open that
  nobody can close. The invariant: calls use the current client; a client that
  waits to be put in place is open, and differs from the current one and from all
  others; every open client is current or waits.
* `FeeWindowProofs`, of the buffer: `RingIsContiguous` and `RingImplementsWindow`.
  The invariant `RingInv`: the head is at 0 until the buffer is full, and the
  buckets are consecutive from the head on. Modular arithmetic enters through
  one lemma, `WrapOnce`.
* `FeeWindowProofs`, of the fees: `FeeStatsAreOfTheLatest`, for every capacity, any
  percentiles from 1 to 100 and any transactions. The invariant `FeeInv` says that
  the bucket at each place of the window holds what `IngestFees` takes of the
  ledger accepted that many ledgers ago, and that the distribution is the one
  computed from these buckets; `AppendPushes` of the buffer keeps it. That it
  implies the property is the work of the lemmas about lists: `IngestFees` lists the
  bids of exactly the transactions of the kind (`IngestFeesFacts`, with
  `Quotient` for the fee per operation); lists that are appended, and then sorted,
  still show each of these transactions once (`AppendedFacts`, `SortedShows`), so
  that counting in the list is counting transactions (`CountedThrough`); the
  loop over a sorted list keeps the number of repetitions of the best and of the
  last cluster (`ClusteredStep`), hence finds the smallest of the most frequent
  fees (`ModeFacts`); and the rank rounded up is in the list, at the smallest fee
  that enough others do not exceed (`KthFacts`, `RankFacts`).
* `MethodProofs`, of the filters of `getEvents`: `FiltersNeverPanic`,
  `WildcardsAreRight` and `UniformFiltersLoseNothing`, for any number of topic
  columns, filters, topics and events. A filter that passes validation is its
  fixed part, perhaps followed by `**` (`FixedPartFacts`), so that its matching is
  its meaning (`MatchesAsMeant`), it writes only into existing columns
  (`ValidStaysInRange`), and each of its values is found in the column it is
  compared with (`ColumnFinds`, `UniformIsSelected`).
* `MethodProofs`, of ledger entries: `EntriesAreOfTheLedger` and
  `SimulationsReadOneLedger`, for any keys, numbers of ledgers and snapshots. The
  invariant `EntriesInv` adds the types and that a request at work is at a
  ledger that core has closed (`RequestShape`); closed ledgers do not change
  (`ClosedLedgersStay`). The answer is a permutation of the entries found
  (`EntriesFacts`, `SortedEntries`), provided that each of their keys was sent as
  such, which fails only for other spellings (`OwnSpelling`).
* `ConfigurationProofs`: `StartsAsGiven` and `PrintedIsReadBack`, for all inputs and
  all widths of numbers. The invariant `Stages` says what the settings are at each
  stage as an overlay of sources, the ones loaded twice included; lemmas
  then show that the overlay is what the strongest source says
  (`SettledAsGiven`), which needs that loading the environment and the flags
  again restores what the file has overwritten. For the printed file, `PrintInv`
  adds that settings are values of their fields (`CfgStorable`), so that storing
  a printed one again does not cut it (`StoredAgain`), and that the new process
  is given the printed file alone (`PrintedIsGiven`).
* `LedgerTablesProofs`: lemmas about `Latest`, `Oldest` and `Trim`.

The assumptions about data are what the code or the network grants: percentiles
are percentages; topics are sequences; texts given for numbers are numbers or
are refused; defaults are values of their fields; a wider number is not narrower.
Each is evaluated by TLC on the instance of the run.

Induction over data. The library's induction theorems cannot be used with these
provers, because they take an operator as a parameter. Where a proof has to go
along a list (`AppendingLoop`, `AppendedFacts`, `ModeLooping`, `ModeFacts`,
`Listing`), the statement is turned into the *set* of numbers it holds for, and
`AllNumbers`, which rests on the least element of a non-empty set of naturals, says that
a set with 0 and with each number the next one has them all. Loops are recursive
functions in the model, and the same lemma shows that they exist.

Only model-checked: the liveness properties (`RestartHeals`, `RequestsAnswered`,
`ListingsComplete`, `SlotsReleased`, `ShutdownCompletes`), which are out of the
prover's reach because they rest on fairness. Each invariant and each
action property of a passing run is also a theorem.

## 5. Not modelled

XDR and JSON encoding, the simulation and XDR libraries behind the C interface,
metrics and logging, SQL schema migrations, which a library runs before anything
else, `getNetwork` and `getVersionInfo` (single reads of settings and of core),
the contents of the datastore tables of the configuration, the one-line methods
of the client library, and the ledger entry cache `db/transactionalcache.go`,
which the program does not use.

## 6. Plan

The modules above were written in the order of the table of section 2: storage
and ingestion first, then what reads it, then the request path, the
configuration and the client library; the proofs followed in the same order. Left
to do: the global pair of limiters around the one of the method in
`RequestPath`, which needs a smaller instance of the rest; and the checks that
`simulateTransaction` makes of a transaction before it is simulated.
