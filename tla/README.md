# A verification development for the Stargaze ROI tracker

The tracker indexes the fees that the contracts of one project pay on a Cosmos chain. It
discovers the project's contracts, asks a node for their transactions, writes one row per
paying transaction into PostgreSQL, converts the fee to dollars with CoinGecko's daily prices,
and serves totals over HTTP.

Nothing in it runs in a transaction or under a lock for longer than one statement. Blocks
arrive while it asks, contracts are found while it works, answers may be incomplete without an
error, any database call may fail, and the process may stop anywhere. The modules here say
what it promises in spite of that, and what it does not.

## 1. Inventory

| Part | Source | State it keeps | Operations | Talks to |
|---|---|---|---|---|
| Chain node (external) | used by `internal/chain/client.go` | blocks, transactions | new block, `GetTxsEvent`, `ContractInfo`, ... | client |
| Client | `internal/chain/client.go` | none between calls | `QueryContractTxs`, `QueryCreatorTxs`, `GetContractInfo`, `GetContractsByCode`, `GetContractsByCreator` | node (gRPC) |
| Discovery | `internal/chain/discovery.go` | map of contracts under an RWMutex; table `discovered_contracts` | `Run`, `expand`, `expandByCodeIDs`, `refreshLoop`; snapshots `QueryableContracts`, `KnownCodeIDs`, `Creators`, `Admins` | client, database; read by the processor |
| Live processor | `internal/processor/processor.go` | locals of one cycle; tables `processed_burns`, `sync_state` | `Start`, `processNewTxs` | discovery, client, price fetcher, database |
| Backfill run | `Processor.Backfill`, `insertTxBatch` | locals of the run; `processed_burns` | one run, then exit | the same |
| Price fetcher | `internal/price/coingecko.go` | time of the last request under a mutex; table `price_cache` | `GetPrice`, `Backfill`, retries, `rateLimit` | CoinGecko, database |
| Tables and caches | `internal/db` | the tables; `stats_cache`, recomputed by a trigger | `GetStats`, `GetRecentBurns`, `CachePrice`, `GetCachedPrice` | all |
| HTTP API | `internal/server` | none | read-only handlers | database |
| Lifecycle | `cmd/tracker/main.go` | flags, context | `--reset-db`, `--reindex`, `--backfill`, `--server-only`, shutdown | all |
| wl-audit | `cmd/wl-audit` | counters | one concurrent report | node, database |
| Configuration, web page | `internal/config`, `static` | none | | |

How they interact: discovery's refresh goroutine adds contracts one at a time under the write
lock; the processor's goroutine reads four separate snapshots per cycle. The processor, the
backfill of another process and the price fetcher share only tables. Rows are deduplicated in
memory and by `UNIQUE(tx_hash)` with `ON CONFLICT DO NOTHING`. The cursor of `sync_state` is
read at the start of a cycle and written at its end.

What is hard, and what makes each part correct:

- *Processor.* The cursor is the claim "below this nothing is missing". It must not move over
  a row that failed, nor over a transaction that the cycle could have collected; a crash
  anywhere must be repaired by the next life without duplicates; a pending transaction must be
  stored in the end.
- *Client queries.* Completeness of a paged answer when the node caps pages, blocks arrive and
  requests fail; no foreign, failed or repeated transaction; termination.
- *Backfill.* Completeness of one run next to a service that writes the same tables.
- *Discovery.* Everything reachable from the seeds is found once lookups succeed; what is in
  the map reaches the table; the snapshots agree with each other.
- *Price fetcher.* A row's price is that of its day; an unpriced row is priced later.
- *Statistics.* Totals equal the rows; a response is consistent with itself.
- *Lifecycle.* Shutdown does not lose requests or close the pool under a writer.

The list of hazards, each with its line and the properties that would catch it, is in
`PROJECT.json`.

## 2. Modules

| Module | What it is |
|---|---|
| `Metadata` | contracts' metadata; discovery's snapshots |
| `Chain` | the growing chain; what a finished query returns |
| `Ledger` | abstract: the tables `processed_burns` and `sync_state`, whoever writes them |
| `Processor` | the live indexer, one action per step of a cycle; implements `Ledger` |
| `Backfill` | the `--backfill` process beside any service that keeps the promises of `Ledger`; both together implement `Ledger` |
| `ContractMap` | abstract: the map of contracts, as those see it that read it while discovery works |
| `Discovery` | contract discovery, request by request, with its cached table and restarts; implements `ContractMap` |
| `Deployment` | `Processor` and `Backfill` as two processes on one database; implements `Backfill` with its assumed service |
| `QueryCall` | abstract: one call of `QueryContractTxs` or `QueryCreatorTxs` as its callers take it, a single answer |
| `TxQuery` | the same call, request by request; implements `QueryCall` |
| `PriceFetcher` | the two goroutines that ask for prices, with cache, rate limiter, retries, clock and restarts |
| `Totals` | abstract: the totals of `stats_cache` next to the rows they are of |
| `Statistics` | concurrent INSERTs with their trigger, and the readers of totals and pages; implements `Totals` |
| `Lifecycle` | a process from its flags to its end: signals, server, requests, pool, goroutines in the background |
| `MCProcessor`, `MCBackfill`, `MCTxQuery`, `MCDiscovery`, `MCStatistics` | small instances for TLC (`PriceFetcher` and `Lifecycle` need no definitions and are checked as they are) |
| `MetadataProofs`, `ProcessorProofs`, `BackfillProofs`, `DiscoveryProofs`, `TxQueryProofs`, `PriceFetcherProofs`, `StatisticsProofs`, `LifecycleProofs` | theorems and proofs |

How they fit together. `Processor` and `Backfill` take a query as one step, whose answer is
complete as of the moment it was asked or else short: that is `QueryCall`, which `TxQuery` is
shown to implement, and `TxQuery` is also the account of what a short answer lacks.
`Processor` and `Backfill` take discovery as a map that starts anyhow and grows by one
contract at a time: that is `ContractMap`, which `Discovery` is shown to implement. `Backfill`
takes the service beside it as any step of `Ledger`, which `Processor` is shown to implement;
`Deployment` runs the two side by side. Both take a price as there or not; which one it is, is
the subject of `PriceFetcher`. An INSERT is one step in them and four in `Statistics`, which
sees `rows` only grow: `Ledger`'s `Record`, without the reset. `Lifecycle` leaves out what the
goroutines do but for their connections.

### Metadata and Chain

A transaction is a member of `Txs` with immutable attributes (`TxInfo`): the contracts whose
events it carries, the signer, the kind of message, the code id, whether it succeeded and the
fee in uatom. `height` puts it into a block. `NewBlock` adds a block with any of the waiting
transactions. `ContractTxs` and `CreatorTxs` are the answers the client promises;
`KnownCodeIDs`, `Creators`, `Admins`, `QueryableContracts` are the functions of the same name
in `discovery.go`. That the node finds a transaction as soon as its block is the tip (the
node's own index lag) is an assumption about the node.

### Processor

| Action | Code |
|---|---|
| `BootPlain`, `BootReindex`, `BootResetDB` | `main` from the flags to the end of `disc.Run` |
| `Start` | `Processor.Start` up to its loop |
| `ReadCursor`, `ReadCursorFails` | `processNewTxs` 253-268 |
| `QueryContract(c)`, `QuerySender(s)` | one round of the two query loops |
| `SnapshotCodes`, `SnapshotCreators`, `SnapshotAdmins` | 290-294, three read locks |
| `StartInserts`, `Insert(t)`, `InsertFails(t)` | the insert loop |
| `Advance`, `Stay`, `AdvanceFails` | 354-383 |
| `Discover(c)` | the refresh goroutine |
| `Crash`, `Grow` | the process ends; the chain grows |

`tipAtRead`, `knownAtRead` and `short` are history: no action reads them. A query is one step
here, whose answer has everything up to the tip at the time it was sent and possibly some of
what arrived since; otherwise it counts as *short*. `TxQuery` is the account of when an answer
is short.

`StoredBeforeAdvance` and `NoLossBelowTipAtRead` are the two halves of the cursor's claim.
`NoLossBelowTipAtRead` is stated for what was on the chain, and in the reach of contracts
known, when the cycle read its cursor, because no more is true: see section 5.

`CursorClaim` adds them up over any number of cycles and lives. A cursor stands for all cycles
that moved it since it was last set back, so it can vouch only for what all of them asked
about: for the contracts every one of them began with (`claim.known`), and not for the blocks
that arrived while one was under way and were passed by it (`claim.passed`). The rest, between
the start height and the cursor, is in the table. A single short answer or a contract-less
cycle voids the claim until a reset; a contract found late is not in it. `claim` is history,
too, and written only where the cursor is (`MoveCursor`, the resets).

### TxQuery

`part` counts the prefixes (or message types), `cursor`, `pageKey` and `txs` are the locals of
`queryByPrefix`, `allTxs` the answer by the part that added to it. The node either hands out a
key (`NextPage`) or caps (`capped`): then `FullPage` asks again from the highest block parsed,
`LastPage` ends the part. The tail of a page is compared by block and by position.
`AnswerComplete` says precisely what a finished answer may lack: a transaction all of whose
parts failed, or one of a capped node that shares its block with another match (`Crowded`) or
lies behind a full page of failed transactions (`Barren`).

`ImplementsCall` is the callers' view: the requests, spread over any number of blocks, are one
answer, in which all is that the chain had at the call, and perhaps some of what came since.
`NeverAsksTwice` is what keeps the fallback for capped nodes from asking the same page for
ever: each request asks for a later part, from a higher block or behind a later transaction.
`Terminates` then only needs that requests return and that the chain stops growing.

### Deployment

`Backfill`'s environment is an assumption: the service does whatever `Ledger` allows. Here the
service is `Processor`, action by action, on the same chain and tables, and the backfill has
its own locals (`bPc`, `bContracts`, ...). `Service` is `Processor`'s next-state relation
without `BootResetDB`, which drops the tables under the backfill; a reindex beside it is
allowed. The flush interval is the 200 of the code. The joint state space is no TLC instance
of its own: what there is to say is that either process keeps what it promised alone, and that
is a theorem for all instances.

### Discovery

| Action | Code |
|---|---|
| `Boot` | `main` up to `disc.Run`, with or without `--reset-db` |
| `Load`, `LoadFails` | `loadCached` at the start of `Run` |
| `BeginExpand` | `expand` 171-221: what counts as expanded, the queue, the branch for known seeds |
| `LookUp(c)`, `LookUpFails(c)` | one address: in `expand`, in `expandFromCodesAndCreators`, in `expandByCodeIDs` |
| `NextCode(k)`, `NextCreator(a)` | one list, answered or failed |
| `Persist`, `EndExpand`, `EndExtra` | `persistContracts`: one by one in a refresh, in a batch at the end of the other two |
| `Tick` | the ticker of `refreshLoop` |
| `Deploy(c)`, `Crash` | the chain, the end of the process |

`pc` says which loop runs: `seeds` (the queue of `expand`), `refresh`
(`expandFromCodesAndCreators`), `extra` (`expandByCodeIDs`). All three take addresses from a
list and look them up, so they share the actions; what differs is when the next list is asked
for (`AtList`) and when the finds are persisted. The lists keep for each unknown contract how
often it stands in them, since a failed lookup is repeated for a second entry; their order is
free. A list request is one step: its pages are collected in the node's order, to which a new
contract is appended, and a failing page drops the whole list. `begun` and `unsaved` are
history.

`KnownReachable` is the specification of the search: the map stays in the closure of the seeds
and extra codes under "same code" and "same creator", stated as "in every closed set" so that
no search is needed to say it. `ExpansionComplete` is its converse for one expansion, with the
code's own idea of what is due: codes and creators that were known when it began are skipped
unless every seed was known too. `AllFound` says that repetition closes the gaps. Contracts
found by an extra code have their creators asked for only by the next refresh, which is why
completeness is stated at the end of `expand` and not of `Run`.

`ExpansionProgress` says why an expansion ends: each step on a chain that stands still makes
more contracts known, or leaves fewer codes and creators to ask for, or fewer addresses to
look up, or empties the batch, and a failure counts like an answer. All of these are finite.

`ImplementsMap` is the other side of what `Processor` and `Backfill` assume of discovery
(`Boot`, `Discover`): a reader of the map sees it grow contract by contract and never shrink,
although the table behind it may lack some of it. A mutant that reloads the table on each
refresh breaks it, because a failed write is only logged. Metadata are constants: that a later
change of admin is not seen is listed as a hazard without a property.

### Backfill

The run's steps as above, with flushes every `FlushEvery` contracts and at the end.
`LiveService` is the environment: any step `Ledger` allows, except dropping the rows
(`--reset-db` drops the schema under the run's feet, which the run cannot survive). Two
processes on one host would compete for the HTTP port, which cancels the context of the
second; in containers they do not. A cancelled context shows as `Fail` or `InsertFails`.

### PriceFetcher

| Action | Code |
|---|---|
| `GetPrice`, `Fetch`, `Skip` | the lookup of `GetPrice`, of a round of `Backfill` |
| `Miss` | `fetchHistoricalPrice` 95-102: current price or history |
| `Lock(c)`, `Send(c)` | `rateLimit`: take the mutex and see how long to sleep; wake up, note the time, let go |
| `Answer(c)`, `RequestFails(c)`, `RequestRefused(c)`, `Exhausted(c)` | the two request functions and their retry loops |
| `Store(c)`, `StoreFails(c)` | `CachePrice` |
| `Tick`, `Restart` | time; the next life of the process |

A price is abstracted to what it is a quote of: the market at a moment (`current`) or
CoinGecko's price of a date (`history`). `Glitches` are moments of which CoinGecko says zero;
the historical request refuses it and the current one does not, so a zero may be cached for a
day it is the current price of. The endpoint is chosen once, before the wait for the limiter
and the retries, and the answer is stored under the day of the timestamp: a price of a day may
therefore be a quote from up to two days after its beginning, and as much later as the answer
took (`Fits`, `late`). The handler of `/api/stats` reads only the key of today, for which
`CurrentPriceIsTodays` says that nothing but a quote of today is ever there. `timestamp`s are
at most `now`: blocks are not from the future. The lookup by the minute in `GetPrice` has no
action of its own: every key written is a day's.

### Statistics

| Action | Code |
|---|---|
| `Insert(w)`, `Abort(w)` | one `INSERT ... ON CONFLICT DO NOTHING`, a transaction of its own |
| `Look(w)` | the trigger's subqueries, which see what is committed and the statement's own row |
| `Update(w)`, `Commit(w)` | the UPDATE of the only row of `stats_cache`, under its lock until the commit |
| `ReadTotals`, `ReadPriced`, `ReadPricedFails` | the two queries of `GetStats` |
| `BeginWalk`, `ReadPage`, `Answered` | a client that pages through `/api/transactions` |

PostgreSQL is external; what is used of READ COMMITTED is said in the module's head. An UPDATE
that waited for the row's lock is evaluated again in PostgreSQL for the row it updates, but
its subqueries keep the statement's snapshot: that is how the totals get behind.
`LackOnlyContested` bounds the damage (only rows whose commit fell between another INSERT's
look and commit), `LoneInsertRepairs` its duration (until the next INSERT without an overlap,
even one that writes no row, since the trigger is per statement). `contested`, `missed` and
`before` are history. `NoRowSkipped` counts rows in front of a row: an insert only pushes it
back.

### Lifecycle

| Action | Code |
|---|---|
| `Setup`, `Generate`, `Die` | `main` up to the goroutines; `--generate-json`; `os.Exit(1)` |
| `DiscoverEnds`, `BackfillEnds`, `MainQuery`, `MainQueryEnds` | `disc.Run` and `proc.Backfill` in `main`'s goroutine |
| `Shutdown`, `ShutdownReturns`, `Close`, `Exit` | 197-211 and the deferred calls, last first |
| `Listen`, `ListenFails`, `ServerEnds` | the server's goroutine |
| `Arrive(r)`, `Query(r)`, `Refuse(r)`, `QueryEnds(r)`, `Reply(r)` | a request with up to `Queries` statements |
| `Work(b)`, `WorkEnds(b)`, `WorkerEnds(b)` | the price backfill (`Early`), the processor (`Late`) |
| `Signal`, `SignalKills` | SIGINT or SIGTERM, after and before `signal.Notify` |

`told` is history: what told the process to stop. A `--backfill` without a configured seed
goes to the wait like `--server-only`, and is covered by it.

## 3. Runs

| Run | Checks | Instance |
|---|---|---|
| `processor_safety` | `IInv`, `StoredBeforeAdvance`, `NoLossBelowTipAtRead`, `CursorClaim`, `ImplementsLedger` | 3 transactions (one paying nothing, one only a sender query finds), 2 contracts, 2 blocks, 2 lives, 1 short answer, 1 database failure |
| `processor_live` | `PendingEventuallyStored` | the same, 1 life, 2 database failures, no short answer |
| `tx_query_pages` | `IInv`, `AnswerSound`, `AnswerComplete`, `ImplementsCall`, `NeverAsksTwice`, `Terminates` | 5 transactions (2 failed, 1 of unknown code), pages of 2, 2 parts, 2 blocks |
| `backfill_gaps` | `IInv`, `NoGapLeft`, `ImplementsLedger` | 3 transactions, 2 contracts, a flush after both, 1 failure |
| `discovery` | `IInv`, `KnownReachable`, `SavedAtRest`, `ExpansionComplete`, `ExpansionProgress`, `AllFound`, `ImplementsMap` | 5 contracts: 2 seeds, one behind a code, one behind that one's creator (and of an extra code), one unrelated that only an admin links; any subset deployed at first; 2 lives, 1 failure |
| `prices` | `IInv`, `PricesFit`, `CurrentPriceIsTodays`, `RangeCached`, `RequestsSpaced`, `CallsReturn` | 2 days of 2 ticks, 2 retries, 1 moment of a zero price, 2 lives |
| `statistics` | `IInv`, `LackOnlyContested`, `PricedWithinCounted`, `NoRowSkipped`, `ImplementsTotals`, `LoneInsertRepairs`, `StatementsEnd` | 2 connections that insert, 2 rows, pages of 1 |
| `lifecycle` | `IInv`, `CutOnlyIfCancelled`, `SignalStops`, `ServerFailureStops`, `RequestsAnswered` | 2 requests of up to 2 statements, 2 goroutines, 2 connections, all four modes |
| `processor_passed`, `discovery_seed`, `statistics_current`, `lifecycle_graceful` | each refutes one statement of the documentation or a comment | as above |

Why these bounds are enough to be interesting. Two blocks are the least in which a block is
passed, and a chain may start with any prefix of them. Two contracts make a query fall between
another query and a new block; two accounts of which one is both admin and creator make the
snapshots disagree. One fault of each kind falls at every step, twice a database fault in the
liveness run so that a retry may fail too. A second life meets the rows of the first, with
each of the three reset modes. Pages of two with five transactions have full, partial and
empty pages, blocks that straddle pages and pages of failed transactions only. Discovery's
five contracts need two rounds of code and creator to be found, two seeds of which one may be
missing give both branches of `expand`, and the administered one catches a search that follows
too much. Two days are the least in which a price may be stored under another day than today;
the clock's bound ends calls, not sleeps, so that no call is cut off by it. Two connections
with the same two rows have every overlap of two INSERTs, of the same key and of different
ones; a third would add none that the lock on the single row of `stats_cache` does not order.
Two rows are few for a walk along the pages, but `NoRowSkipped` is proved for any number. In
`lifecycle` two requests of two statements and two goroutines compete for two connections, the
least number with which holding one while waiting for another could block. Bounds are guards
on the environment (`MaxHeight`, `MaxShort`, `MaxDBFaults`, `MaxBoots`, `MaxFaults`,
`MaxNow`); no step of the program is cut short by one. Therefore deadlock is not checked: the
bounded chain, like a finished run, really stops.

Fairness. `Processor!FairSpec` has weak fairness of the goroutine's own successful steps
(`Work`): the ticker fires as long as the process lives, and a call that is made returns.
Nothing is assumed of the chain, of discovery or of the process staying alive.
`Discovery!FairSpec` likewise has weak fairness of the process's own steps (calls return, the
ticker fires); the number of failures is bounded, but a lookup of a contract that does not
exist fails for ever. `TxQuery!FairSpec` assumes that each request is answered or fails (the
client library dials with a timeout and a bounded number of retries). `PriceFetcher!FairSpec`:
time goes on, a request is answered or runs into the client's timeout of 30 seconds, and Go's
mutex is handed to whoever has waited long enough (it has a starvation mode for that), hence
strong fairness of `Lock`. `Statistics!FairSpec`: a statement goes on, and PostgreSQL serves
those who wait for a row in their turn (strong fairness of `Update`). `Lifecycle!FairSpec`:
every goroutine that can run does, statements end, the pool serves requests in their turn;
discovery and a backfill end, because each of their calls has a timeout and their lists are
finite. `Signal`, `Arrive`, `ListenFails` and `Die` have no fairness.

## 4. What is proved

For every set of transactions, contracts, accounts and codes, and every value of the bounds,
TLAPS checks:

- `ProcessorProofs`: `TypeInvariant`; `CycleInvariant` (`IInv`); `StoredBeforeAdvanceHolds`;
  `NoLossHolds`; `CursorClaimHolds`; `LedgerRefinement`; of `Deployment` `JointInvariant`,
  `JointCursor`, `JointImplementsBackfill`, `JointNoGapLeft`, `JointLedger`.
- `BackfillProofs`: `BackfillInvariant` (`IInv`); `NoGapLeftHolds`; `LedgerRefinement`.
- `DiscoveryProofs`: `TypeInvariant`; `DiscoveryInvariant` (`IInv`); `KnownReachableHolds`;
  `SavedAtRestHolds`; `ExpansionCompleteHolds`; `ExpansionProgressHolds`; `MapRefinement`.
- `TxQueryProofs`: `TxQueryInvariant` (`IInv`); `AnswerSoundHolds`; `AnswerCompleteHolds`;
  `NeverAsksTwiceHolds`; `CallRefinement`.
- `PriceFetcherProofs`: `PriceInvariant` (`IInv`); `PricesFitHolds`;
  `CurrentPriceIsTodaysHolds`; `RangeCachedHolds`; `RequestsSpacedHolds`.
- `StatisticsProofs`: `StatisticsInvariant` (`IInv`); `LackOnlyContestedHolds`;
  `PricedWithinCountedHolds`; `NoRowSkippedHolds`; `LoneInsertRepairsHolds`;
  `TotalsRefinement`.
- `LifecycleProofs`: `LifecycleInvariant` (`IInv`); `CutOnlyIfCancelledHolds`.

Assumptions: the named `ASSUME`s of the modules, which TLC evaluates on every run. They give
the constants their types. Those of `TxQuery` say more: that there are finitely many
transactions, that their order within a block is total, and that the parts of a call find
together exactly what the call is about (`FindsAssumption`, the event queries of `client.go`).
`Statistics` assumes finitely many rows, `Lifecycle` that requests and goroutines are
different things.

The argument. Neither of the cursor's properties is inductive: that nothing is missing when
the cursor moves depends on what every earlier step of the cycle collected. `IInv` says what
is owed at each point. `ScanInv`: what was seen is on the chain and not above `maxHeight`, the
snapshots come from a map that only grew. `ContractsInv`: a contract of the snapshot is still
to be queried or has given up all it had when the cycle began. `SendersInv`: the same for
senders, with the codes known then among the codes filtered by. `InsertInv`: what the insert
loop has passed is in the table or an error was counted. The one arithmetical fact is that a
new block lies above `tip`, so it adds nothing between the cursor and `tipAtRead`. A
discovered contract can only enlarge a snapshot, which is why creators are safe and admins are
not.

`CursorClaim` is carried from cycle to cycle. When the cursor moves from `lastHeight` to
`maxHeight`, a transaction in between is above `tipAtRead`, and then excepted, or it was in
the scope of this cycle and is stored by `InsertInv`; one at or below `lastHeight` was claimed
before. That the scope of the intersection of two sets of contracts lies in the scope of each
(`AccountedMonotone`) is what lets the claim shrink with them. It needs of `ScanInv` that the
cursor is at most the tip, or still the start height of a chain that has not got that far: a
new block never falls below a cursor that stands for something.

For `Backfill`, `Safe` takes the place of `seen`: a transaction is in the batch or in the
table, and no step of another writer takes it out.

For `Discovery`, `ReachInv` adds to `KnownReachable` that the lists and the codes and creators
still to be asked for lead nowhere else; a closed set of a larger chain is closed on a smaller
one, so a deployment only leaves fewer sets to check. `SearchInv` is the loop invariant of the
search: as long as nothing failed, a contract that was there at the beginning and whose code
or creator is due is known, in the queue, or behind a list still to be asked for. At the end
queue and lists are empty. It needs that what counts as expanded is exactly what the map has
(`expandedCodes = KnownCodeIDs(known)`).

For `TxQuery`, `FoundInv` follows each transaction that is asked for through the part under
way: collected, or in what the node still has behind cursor and key, or lost. A page of a
capped node that is asked again from its highest block passes over the rest of that block only
(`Crowded`); one from which no height was parsed has failed transactions only, a full page of
them (`Barren`, where finiteness and cardinality come in). A new block lies above the tip of
the call, so it changes neither.

For `PriceFetcher`, `CallInv` carries through waits and retries that the endpoint was chosen
when the timestamp was less than a day old, and `LockInv` that the one who sleeps holds the
mutex and will wake up an interval after the last request. For `Statistics`, `StatementInv`
says what a trigger has seen while it waits for the lock (all rows but contested ones; all
rows, if nobody committed since), and `ReaderInv` that in front of a row not yet read there
are at least `offset` newer ones.

For `Lifecycle`, `CutOnlyIfCancelled` needs `StopInv`: once main has called `srv.Shutdown` the
server no longer takes requests, so that nothing arrives behind a wait that found none.
`ConnsInv` ties the connections in use to the statements that run; that main starts its
goroutines once, and only then (`StartInv`), is what keeps it true while main starts them.

Refinement: with `burns` and `cursor` mapped to themselves, each step of `Processor` and of
`Backfill` is a step of `Ledger` or leaves it alone. It needs `IInv`: that an inserted row
belongs to a paying transaction of the chain, and that the cursor goes up and not beyond the
tip, come from `ScanInv`. `Statistics` refines `Totals` with `rows` and `totals` mapped to
themselves, `Discovery` refines `ContractMap` with `running` mapped to "the process is up and
past `loadCached`". `TxQuery` refines
`QueryCall` with `trouble` mapped to "some part failed" and the answer to all parts together
once the last is done; the answer's completeness is `AnswerComplete`, which on a node that
does not cap loses only to failed parts.

`Deployment`: a step of the backfill only adds rows to what the service sees, and what a cycle
owes, or the cursor claims, is only ever that rows are there (`MoreRows`). Conversely each
step of the service is a step of `Ledger` other than the dropping of rows, which is all that
`Backfill` lets its environment do (`ServiceIsLive`). There is no circle in this: the first
argument uses that the backfill's own steps add rows and nothing of what it guarantees. The
theorems of `BackfillProofs` then hold of the real service.

Only model-checked: liveness under fairness, which is out of the prover's reach
(`PendingEventuallyStored`, `Terminates`, `AllFound`, `CallsReturn`, `StatementsEnd`,
`SignalStops`, `ServerFailureStops`, `RequestsAnswered`). Of two of them the safety core is
proved: `NeverAsksTwice` and `ExpansionProgress` say that each step comes nearer to an end;
that this makes an end inevitable is an induction the provers cannot be given. Every invariant
and every action property that a passing run checks has a theorem.

## 5. Where the code and its documentation disagree

Shown by a run:

- `PassedBlocksAreProcessed`: the cursor is not "the highest processed block height". A cycle
  asks one contract after the other; a block in between is seen by the later ones only, and
  the cursor goes to the highest height of all. `--backfill` repairs it.
- `RefreshCatchesNew`: a refresh asks for known codes and creators again only when every seed
  is known. One seed that never resolves disables it for good; `AllFound` holds because it
  assumes all seeds.
- `StatisticsCurrent`: the totals are not always "the current aggregate statistics". After two
  overlapping INSERTs (a service beside a `--backfill`) they lack a committed row until the
  next INSERT.
- `GracefulShutdown`: nothing is shut down gracefully. `srv.Shutdown` waits with the process's
  own context, and the first thing it does makes the server's goroutine cancel that context.
  Requests under way are cut off. `CutOnlyIfCancelled` says that this is the only way it
  happens.

Seen on the way, not refuted by a run of its own:

- `Admins` (discovery.go:147) leaves out "addresses already covered by Creators", but they are
  two snapshots: an admin who becomes a known creator between them is in neither, for one
  cycle. This is why `NoLossBelowTipAtRead` is stated for creators.
- "insert with zero (backfill later)" (processor.go:329): a row is written once
  (`ImplementsLedger`), so nothing prices it later; the price backfill only fills
  `price_cache`.
- "Returns transactions sorted ascending by height" (client.go:109): the answer is sorted per
  event prefix only. Nobody relies on it.
- "ATOM price on the day of that tx" (INDEXING-FLOW.md:149): a recent transaction gets the
  price of the moment it is indexed at, and so do all later ones of its day; `PricesFit` says
  how far off it may be.
- "will retry later" (coingecko.go:310): only the next life of the process does; `RangeCached`
  says that the day is passed over.
- "latest cached price" (server.go:154): the handler reads the key of today and no other, so
  after midnight there is none until somebody asks for a price of today.
- Two processes have two rate limiters: `RequestsSpaced` is about one.

## 6. Not modelled

- What is computed from figures and texts: JSON, event parsing, labels, decimal arithmetic,
  percentages, years to break even.
- `wl-audit`, a report about other contracts that shares no state with the tracker; the web
  page; configuration, whose values are the constants of the models.
- The migration of an older schema (`schema.go`, `Migration`): DDL that runs once before
  anything else and is repeatable.
- PostgreSQL beyond what `Statistics` needs; the node beyond what `TxQuery` and `Chain` say;
  `net/http` and `pgxpool` beyond `Lifecycle`.
- A contract's admin or code that changes: metadata are constants.

What could come next: the safety cores of `CallsReturn` and `RequestsAnswered` (nobody waits
for a mutex or a connection whose holder waits, too); a `Discovery` whose contracts change
their admins; a crash of the database, which now shows as any call failing.
