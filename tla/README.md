# Verification of the Vatix backend

Vatix is a prediction-market backend: an API that matches orders in memory and
stores them in Postgres, an indexer that copies the events of a Stellar
contract into Postgres, an oracle that proposes outcomes, and workers that
settle trades on the chain and finalize markets.  This directory models its
core in TLA+, checks the models with TLC on small instances and proves the
main invariants with TLAPS for every value of the constants.

Paths below are relative to the repository's root (`src/matching/...` is the
API, `apps/...` are the other processes).  Every definition that stands for
code is listed with its lines in `PROJECT.json`.

## 1. The system

| Component | State | Operations | Talks to |
| --- | --- | --- | --- |
| Matching service (`src/matching`) | per market and outcome an in-memory `OrderBook` and a `Mutex`; rows of `orders`, `trades`, `user_positions` | `placeOrder`, `hydrateAllActiveMarkets` | Postgres (one transaction per order), audit log, settlement producer |
| Settlement producer (`src/services/settlement-queue.ts`) | Redis stream of jobs | `enqueue` | called by the matching service, not awaited |
| Audit log (`src/services/audit.ts`) | one Redis stream per market and a global one | `logOrderMatch`, range queries | called by the matching service before its transaction, awaited after it |
| Trades backfill (`scripts/backfill-trades.ts`) | its position in the global stream | one pass over the stream | Redis, `trades` table |
| Indexer (`apps/indexer/src`) | in-memory cursor, `indexer_cursors`, `indexer_processed_events`, the rows written for events | `start`, `tick`, `stop`, `write` | Soroban RPC, Postgres |
| Finalization worker (`apps/workers/src/finalization`) | snapshot of candidates; rows of `resolutions`, `markets`, `resolution_candidates` | `run` on a timer, `stop` | Postgres |
| Candidate writers (oracle worker, indexer, admin route) | `resolution_candidates`, `markets.status` | upsert, reject, create, set status | Postgres |
| Settlement worker (`apps/workers/src/settlement`) | the job in hand; idempotency keys in Redis; the signer's account | `process`, `executeOnChain`, dead letters | BullMQ, Redis, Soroban RPC |
| Oracle service (`apps/oracle`) | per poll the markets left and the metrics; rows of `oracle_reports` | `poll` on a timer, `resolve` with retries, timeouts, failover | providers, Postgres, submission queue |
| Oracle submission queue (`apps/workers/src/oracle`) | Redis stream with a consumer group, deduplication keys, in-flight keys | `enqueue`, `dequeue`, `acknowledge`, `nack`; `processSubmission` | Redis, Soroban RPC, Postgres |
| API requests (`src/index.ts`, `src/api`) | a rate-limit window per tier and address; per request the row its handler has read; `orders`, `markets.status` | limiter hooks, API key and admin role, signature check, `POST /orders`, `PATCH /admin/markets/:id/status` | Postgres |
| Paged read routes (`GET /orders/user/:address`, `GET /trades/user/:address`) | the client's cursor or page number | one page | Postgres |
| Other routes, services, configuration | none over time | single queries, formatting | Postgres, Redis |

### What is hard

* **Matching.** `placeOrder` changes the book before its transaction and awaits
  five times in between and after; transactions roll back, commit without an
  acknowledgement, and the process dies.  The book must be what Postgres says
  whenever the next call looks at it.
* **Indexing.** The cursor is saved only every few batches, after the write.
  Replays must write nothing twice, and the cursor must never cover an event
  that is not there: pages, window ends and a head that moves all take part.
* **Finalization.** Candidates are finalized from a snapshot that is not read
  again; several workers, later reports and admins change the rows meanwhile.
  Only the partial unique index on active resolutions stands between them.
* **Settlement.** The key is written after the confirmation, the lock of a job
  may be lost by a worker that goes on, and all workers spend one account's
  sequence numbers.
* **Oracle submissions.** A market's in-flight key is checked, set and deleted in
  calls of their own, by polls that may overlap and a worker that may be faster
  than the poll; the worker's five writes can each fail, or take effect and fail.
* **API requests.** The market's row is read, looked at and acted upon in three
  callbacks, between which the market ends or an admin changes its status; the
  limiter must be exact at the borders of its windows, refused requests included.
* **Audit log.** A trade is written to two streams by two commands that share a
  connection with everybody else's; ids are made from the time of the trade,
  Redis refuses the ones that are not above the last, and the fallback repeats
  both writes.  The backfill reads a stream that grows, and may run again.
* **Paging.** Rows appear and change between two pages of one walk.

`PROJECT.json` lists each of these hazards at its line with the properties that
would catch it going wrong.

## 2. Modules

### MatchingService and Exchange

One market.  A call of `placeOrder` and the order it creates share an id
(`Orders`).  `pc` is where the call is; each action is the code between two
awaits, and `NoneRunning` says that JavaScript runs one callback at a time:
while a call is in its synchronous part (`"check"`, `"match"`), nothing else of
the API moves.

| Action | Code |
| --- | --- |
| `Submit`, `Begin`, `Release` | `Mutex.run`: append to the promise chain, run when the predecessor is done, release in `finally` |
| `Hydrate`, `HydrateFail` | `getOrHydrateBook` / `hydrateBook`: open rows sorted by price and `createdAt`; equal timestamps come in any order (`HydratedPlaces`) |
| `RejectSelfTrade`, `StartMatch` | `HasOppositeResting`, the self-trade check |
| `Fill`, `EndMatch` | one turn of `matchOrder`'s loop; its end starts the audit writes, each of which reaches Redis or not |
| `TxCommit`, `TxAbort`, `AckLost` | the `$transaction` callback with order, makers, trades and positions; its catch block invalidates the book |
| `AddRemaining` | `addOrder` of the remainder |
| `IndexTrade` | `reconcileTradeIntoPositions` of the indexer, the other writer of `user_positions` |
| `AuditOk`, `AuditFail` | `await Promise.all(audit writes)`, then the jobs are handed to `enqueue` without awaiting it |
| `EnqueueOk`, `EnqueueFail` | `xadd` succeeds or rejects later |
| `Crash`, `BootWarm`, `BootCold` | the process dies; `start()` with or without `WARM_MARKETS_ON_STARTUP` |

`rest` and `place` together are the book: the quantity that rests and the
arrival stamp that orders one price level.  Trades of a taker are a function
from makers to quantities, because a taker meets a maker at most once.
Cached depth, spread and volume are derived and read by no action.

`user_positions` has two writers.  `placeOrder` increments a position, or creates it,
by what its trades come to (`SharesDelta`, `CollateralDelta`).  The indexer does the
same in shares, without a row in `trades`, for a trade it found on the chain; when it
creates the row it writes `Math.max(0, ...)`, so that a first sale counts as nothing.
`opened` is whether a user has a row yet, and whether the indexer created it for a sale
(`"clipped"`); `onChain`, a history, is what each user bought on the chain.
`PositionsMatchTrades` says that
a position is the net of both kinds of trades, and that only a clipped one has more,
by at most that one sale; where nothing is clipped an outcome's shares add up to zero.
The two parties of a trade on the chain are taken to be different users.

Decimal prices and quantities are small integers; a price is a tick, so a
product of price and quantity is exact as it is with `Decimal`.

`Exchange` is what the service promises of the orders and trades tables, without
books, calls, locks, transactions or crashes: `Place` places one order in one
atomic step.  The order trades with open orders of the other side that it accepts,
what it leaves open was ahead of nothing it traded with, and when it has something
left it accepts nothing that is left.  An order has no fill counter there:
`Remaining` is its quantity less its trades.  An order that faces an open one of its
own user is not placed, whether or not the two would match.  `Ex == INSTANCE
Exchange WITH ...` in `MatchingService` maps the rows, `createdAt` and the trades;
`TxCommit` is the step that implements `Place`, and everything else leaves these
tables alone.

### Indexer and EventLog

`EventLog` is the promise of `docs/indexer-ledger-cursor.md`: events are
written once, the cursor only moves forward, and only over written events.  It
allows one exception, `DropBatch`: events of an expendable kind may be given up before
the cursor passes them.
`Indexer` is the code: `Tick`, `FetchPage` (one page of `fetchByLedgerWindow`),
`Write` and `WriteAborts` (the transaction of `PrismaBatchWriter.write` and the end of
`ingestFromCursor`, `EndBatch`), `Save` (`flushCheckpoint`), `Stop` and `StopFlush`,
`Boot`, and the failures `FetchFail`, `WriteFail`, `SaveFail`, `Crash`.  The environment
closes ledgers and inserts market rows.  `Log == INSTANCE EventLog WITH ...`
maps the processed events, the dropped ones and the saved cursor to the abstract ones.

Postgres aborts a transaction at its first failing statement.  Some statements fail
whenever they are tried (`Violates`: the market has no row, or the shares leave the
range of their column), any other may fail this time (`WriteAborts`: a deadlock, a
timeout), which counts as a fault.  The position upserts of a trade are caught inside
the transaction by `reconcileTradeIntoPositions` whatever their error is, so that the
batch is rolled back and only a later record's statement notices: `WriteErrors(F, S)`
says when `write()` reports an error, where `F` are the records that failed and `S`
those whose failure was swallowed.  It reports none when the swallowed failure is
that of the last record: then the cursor moves past a batch that was rolled back
(`dropped`).  A trade without a positive quantity has no upserts (line 256) and cannot
do this.  `Excused` are the trades this may happen to, and `OnlyTradesAreLost` says
that nothing else is ever skipped.
The parser of `market_created` events calls functions that are defined nowhere,
so that it always throws and its events are skipped
(`parseMarketCreatedChainEvent`).

### Resolution

`SelectCandidates` is the `findMany` of a poll; its rows are the worker's
`batch`, which is finalized row by row: `Finalize` (the whole transaction),
`FinalizeConflict` (the partial unique index on active resolutions refuses),
`FinalizeFail`.  `StopWorker` is a crash, or a shutdown, which does not wait for
the poll.  `IndexCandidate`, `ProposeNew`, `ProposeAgain`, `RejectCandidate` and
`SetStatus` are the writes of the indexer, the oracle worker and the admin
route to the same tables.  The oracle worker's upsert happens at any time: when
it is reached depends on the signature check, which is not modelled.
`OpenPosition` is a position upsert of `placeOrder` or of the indexer that creates a
row: neither looks at the market's status, so that a market whose positions were all
settled (`"all"`) may have unsettled ones later (`"partly"`).

### Settlement

`Take`, `Check`, `Build`, `Send`, `PollAnswer`, `PollGiveUp`, `Mark`, `Done` and
`Fail` are the steps of `SettlementWorker.process` and `executeOnChain` in one
worker; `CallFails` is a rejected call whose write may have taken effect,
`Crash` the death of the process.  BullMQ and the Stellar network are external
and modelled from how the code uses them: `StallDead` and `LoseLock` (a job
whose lock is not renewed goes back to the queue, or fails after
`MaxStalled`), `Include` and `Expire`.  Two assumptions about the network
carry weight: a transaction is valid for the next sequence number only, and an
account has at most one pending transaction.  `PollGiveUp` is unconditional, as in the
code: after 30 polls the attempt is over.  The time bounds of 30 s are over by then too,
so that a transaction that is still pending, or was included without the polls seeing
it, costs a fault.

`configured` are the workers with a complete Stellar configuration; it is chosen at
the start, because each process reads it from its environment, and those of
`bullmq-consumer.ts` never have one.  A worker without it goes from `EXISTS` straight to
writing the key (`AfterCheck`), and `offChain` remembers the trades it recorded.

### SubmissionQueue and OraclePoll

`SubmissionQueue` is `RedisSubmissionQueue` and `SubmissionWorker`, one action per
call to Redis, Postgres or the chain: `CheckDedup`, `CheckLock`, `Add`,
`MarkQueued`, `MarkInFlight` for `enqueue`; `Dequeue`, `Verify`, `Submit`,
`SaveReport`, `SaveCandidate`, `Ack`, `Unlock` for `processSubmission`; `Retry` and
`DeadLetter` for its catch block.  `EnqueueFails`, `SubmissionFails`,
`DeadLetterFails` are rejected calls whose write may have taken effect,
`WorkerCrash` and `ExpireKey` the other faults.  Entries are numbered in stream
order and `group` is the consumer group's last-delivered-id: XREADGROUP with
`">"` gives out entry `group + 1`, and nothing else ever gives out an entry.

`OraclePoll` extends it with the process that fills the queue.  A poll is a
variable of its own (`Polls`), because `setInterval` starts one while another
runs.  `PrimaryFails` is the adapter's `withRetry` inside the service's;
`FallbackFails` and `NextProvider` walk the provider chain; `Timeout` is
`withTimeout`, per attempt for the primary and per provider for the fallbacks.
A provider's error is one of `Errors`; `isRetryableError` is decided by what the
message of such an error contains.

`setWorks` says whether `redisClient.set(key, value, "EX", ttl)` works.  It does
with the client of the tests; the `RedisService` that `apps/oracle/main.ts` passes
takes `"EX"` for the ttl, Redis refuses the command, and `enqueue` throws after
its XADD.  Both are checked.

`Submit` is `submitOnChain`: with a Stellar configuration it is `ResolveMarket`, which
may be confirmed, fail, or fail to learn of its success; without one it is
`SkipChain`, and the worker saves the report and the candidate all the same.
`configured` and `offChain` are as in `Settlement`.

No entry point starts a `SubmissionWorker` at this commit (`apps/workers/src/oracle/main.ts`
consumes a BullMQ queue, and nothing calls `dequeue`); it is modelled as its class and
its tests use it.  What it does is checked for whenever it runs; that it runs is assumed
by no property that holds.

### AuditLog

The two ends of the trade history.  `pipe` is the command queue of the API's one
Redis connection, in which a trade has at most one command, because
`logOrderMatch` awaits each reply; `XaddOk`, `XaddConflict`, `XaddFails` and
`XaddResent` are the outcomes of the command at its head (`AfterSuccess` and
`AfterConflict` are what `logOrderMatch` sends next).  `XaddResent` is the client's
own retry after a broken connection, when Redis has executed the command.
`Match` stamps one or two trades of a taker with one time.  Ids, the ids Redis
generates, and approximate trimming (any cut that leaves at least the cap) are
modelled as Redis documents them (external).

`BackfillStart`, `BackfillRead`, `BackfillUpsert` and `BackfillCrash` are the script.
`BackfillRead` picks the number `k` of entries below the cursor (`BelowCursor(k)`; ids
increase, so there is one) and takes the batch behind it (`xrange(k)`).
`table` holds the trades the script has seen to: `placeOrder` inserts rows of its
own, but the script's upsert has an empty `update`, so that the order of the two
does not matter to what is complete.  `EmptyPrefix` says that `REDIS_KEY_PREFIX` is empty; with
any other prefix the script reads a key that does not exist.

### History

One client walks through the rows of one wallet, by the cursor of
`GET /orders/user/:address` (`GetUserOrders`, `cursorWhere`) or by the offset of
`GET /trades/user/:address` (`FindMany`, `Count`, `Respond`: the two queries of
`getWalletTradeHistory` see the table at different times).  Meanwhile rows are
inserted anywhere in the order (`Insert`; a row's time is taken before it becomes
visible) and orders change their status (`Fill`).  The status filter may ask for
`CANCELLED`, which no code ever writes to an order.  `steady` are the rows a correct
walk owes the client: there from the start, and matching the filter since.

### RateLimiter and Api

`RateLimiter` is `applyLimit` for all tiers and addresses: every request but the
health probes counts against the global tier and, when that lets it pass, against the
tier of its route if it has one (`Reached`, `Limit`).  `admitted` is the
history its properties speak about.

`Api` extends it with the requests.  `stage` is the callback a handler has
reached: `Arrive` (limiters, API key, admin role), `PostOrder` (schema,
signature, field rules), `FindMarket`, `CheckMarket` (`validateMarketState` on the
row as read), `CreateOrder`; `PatchMarket`, `UpdateMarket`; `Read` for everything
else; `DbFails` and a lost acknowledgement for the database.  `closed` is a history
variable: the orders whose market has not been open since they arrived.
Clients may send one message any number of times.

`orders.ts` does not parse at this commit and uses undefined names in its reply;
the handler is read as its statements say, up to the insert.

### The others

`MCMatching`, `MCIndexer`, `MCResolution`, `MCSettlement`, `MCOracle`, `MCApi`, `MCAudit` and
`MCHistory` are the modules TLC starts from; `MCMatching` and `MCApi` add symmetry
sets.  `MatchingProofs`, `IndexerProofs`, `ResolutionProofs`, `SettlementProofs`,
`OracleProofs` (of `SubmissionQueue` and `OraclePoll`), `ApiProofs`, `AuditProofs` and
`HistoryProofs` hold the theorems.
Definitions marked `Mutant` are plausible mistakes in the definition that
follows them; each property is violated when one of them takes its place.

## 3. What the runs check

| Run | Instance | Shows |
| --- | --- | --- |
| `matching` | 3 orders, 2 users, 1 book, 2 prices, quantity up to 2, no crash | `TypeOK`, `NoOverfill`, `FilledIsTraded`, `NoCrossedOrders`, `TradesAreLegal`, `ToldIsCommitted`, `BookAgreesWithDb`, `PriceTimePriority`, `ImplementsExchange` |
| `matching_crash` | 2 orders, 2 books, 1 price, quantity 1, one crash at any step, one trade written by the indexer | `BookAgreesWithDb`, `PositionsMatchTrades`, `EveryCallAnswered` |
| `matching_enqueue` | 3 orders, one crash | **violated:** `FillsAreEnqueued` |
| `indexer` | 2 events of 5 kinds in 3 ledgers, 2 markets, one without a row at first, window 2, page of 1, flush every 2, 2 faults | `WrittenOnce`, `OnlyTradesAreLost`, `ImplementsEventLog`, `CursorNeverMovesBack`, `EveryEventWritten` |
| `resolution` | 2 markets, 1 oracle and 1 indexer candidate, 2 workers, window 1, 2 faults | `ResolvedOnce`, `FinalIsFinal`, `WindowRespected`, `EligibleIsFinalized` |
| `settlement` | 2 trades, 2 workers, each configured or not, 2 attempts, 1 stall, 1 fault | `TypeOK`, `CompletedIsSettled`, `DuplicatesNeedFaults`, `FailedIsDeadLettered`, `EveryJobEnds` |
| `oracle` | 1 market, 2 results, 3 polls one after another, 1 worker, configured or not, 2 fallback providers, 1 retry per level, 1 fault, both Redis clients | `TypeOK`, `OverlapsNeedFaults`, `AckedIsHandled`, `CandidateIsSubmitted`, `EveryPollEnds` |
| `oracle_nack` | 1 poll, no fault | **violated:** `NackIsRedelivered` |
| `api` | 4 requests of one address, windows of 2, at most 2 or 1 in them, clock 3, one market that ends at 2, tolerance 1, 1 fault | `TypeOK`, `QuotaIsExact`, `AcceptedWhileOpen` |
| `api_window` | 4 reads of one address, windows of 2, at most 2 in them | **violated:** `SlidingWindow` |
| `audit` | 3 trades, 2 markets, clock 2, cap 2, batch 2, 1 fault | `LoggedInBoth`, `CopiesNeedConflicts`, `BackfillComplete`, `BackfillEnds` |
| `history` | 4 rows, 3 times, 1 row per page, both routes | `OrderWalkExact`, `TradeWalkErrorsNeedInserts` |

The type invariants of `Indexer` and `Resolution` are not in a run: they are part of
the inductive invariants and proved.

### The bounds, and why they are enough

* *Matching.* Three orders are two makers and a taker, or a maker, a taker and
  a third call that waits on the mutex while the second rolls back: priority
  between two makers, a partial fill followed by a rehydration, and a second
  fill of the same maker all occur.  Quantity 2 makes partial fills, two prices
  make a spread.  A crash needs only two orders: one that is committed or
  half done, one that comes after; here one price and one quantity do, because what is
  asked is whether books and positions survive.  Two books show that a rollback in one
  leaves the other alone and that collateral is summed over both.  One trade of the
  indexer (`MaxIndexed`) comes before, between and after those of the two orders, and
  so creates the rows, or finds them.
* *Indexer.* A page of one event makes every multi-event window span pages;
  three ledgers and a window of two give windows that end before, at and after
  the head, and events that arrive while the pages are read.  Flushing every
  second batch leaves a written batch without a checkpoint.  Two records of one batch
  are one that aborts it, first or last, for good or through a fault, and one that is
  lost with it or notices.  A deposit behaves like a resolution of a listed market, and
  is left out.
* *Resolution.* Two candidates may be of the same market or of two; two workers
  may hold the same snapshot.  Clock 2 and window 1 separate a young from an
  old candidate.
* *Settlement.* Two attempts distinguish a retry from the last attempt, one
  permitted stall a requeue from a stalled failure, and two workers share the
  account; they are both configured, both not, or one of each.  The single fault may be
  a crash, a lost lock, a failed call or a late inclusion at any step.
* *Oracle.* Three polls are an entry, one that meets its key, and one that comes
  after the key is gone; two results tell the content key from the market's.
  Two fallback providers and one retry distinguish the first, a middle and the
  last failure at each level.  `MaxRetries` 2 gives workers that retry and
  workers that dead-letter at once.  Markets share nothing but the stream and
  the poll's loop, so one is enough for the keys.
* *Api.* Three requests are an order with an admin's change between its read and
  its insert and a second one that opens the market again; four reach the
  burst where at most 2 may pass: one at the start of a window, one at its end and two
  in the next are 4 in exactly a window's length, which `NoBurst` just allows, and 3 in
  less, which `SlidingWindow` does not.  Clock 3 holds a window of 2
  with both borders; the market's end falls inside.
* *Audit.* Three trades are two of one taker, which share a time and conflict,
  and one of another market, which conflicts on the global stream only, after its
  first write.  Cap 2 makes the stream of a market trim, batch 2 gives full and
  short batches.
* *History.* Four rows with three times give ties, a tie across a page border,
  and inserts before, at and after the border.  A page of one row has the most
  borders.

`MaxCrashes`, `MaxIndexed`, `MaxFaults`, `MaxPolls`, `MaxClock`, `MaxTime`, `MaxLedger` and
`MaxQuantity` are bounds of the models, not of the code.  Faults are bounded because a system whose calls
always fail makes no progress; the theorems hold for every bound.

Deadlock is checked in every run.  The matching, settlement, oracle, history and
API modules may come to rest, in an explicit step (`Quiescent`, `Idle`,
`AllAnswered`) whose guard says that everything is answered; the loops of the
indexer and of the finalization worker never stop, and the backfill may always
be started again.

### Fairness

* `MatchingService!Fairness`: callbacks of the event loop run, Postgres and
  Redis answer or the client times out, and the container runtime restarts a
  dead process.  A client never has to send and nothing has to crash.
* `Indexer!FairSpec`: the timer fires, the RPC and Postgres answer, a dead
  process is restarted, the network closes ledgers.  A call may still fail
  `MaxFaults` times.
* `Resolution!FairSpec`: time passes and `setInterval` of every running worker
  fires.
* `Settlement!FairSpec`: the workers' calls are answered, BullMQ's stalled check
  runs, and a pending transaction is included or expires.
* `OraclePoll!FairSpec`: timers fire, and Redis and Postgres answer the polls.  No
  provider has to answer, no poll has to start, and no worker has to run: no entry
  point starts one.  `WorkerFairSpec` adds workers that run and are answered.  Only
  `oracle_nack` uses it, where it can only help the claim to hold: the entry stays where
  it is even if a worker keeps asking.
* `AuditLog!FairSpec`: Redis and Postgres answer a running script.  Nobody has to
  start it, and the stream may grow while it runs.

All of it is weak fairness: none of these steps is disabled and enabled again
without the system having moved on.

## 4. Where the code and its documentation disagree

1. **Fills may never be enqueued** (`matching_enqueue`).  `docs/architecture.md:53`
   says matched fills are enqueued for settlement.  A failed audit write makes
   `placeOrder` throw after the commit, a rejected `xadd` is only logged, and a
   crash loses the hand-off; nothing resumes it from the `trades` table.
2. **A nacked submission is never redelivered** (`oracle_nack`).
   `redis-submission-queue.ts:302` says nack makes the message visible again.  It
   claims the entry for the consumer that has it, and `dequeue` reads only entries
   nobody has been given.  The market's key stays until it expires.
3. **The rate limiter has no sliding window** (`api_window`).
   `docs/rate-limiting.md:3` says it has.  `applyLimit` opens a fixed window with a key's
   first request and a new one with the first request after it: what passed at the end
   of the old window does not count in the new one, so that up to twice the maximum less
   one pass in less than a window's length.  `QuotaIsExact` says that it is never more.

Read in the code and not checked by a run of its own:

*Indexer and settlement*

* A missing market blocks ingestion, although the comment at
  `batchWriter.ts:246` says it never does: the caught foreign-key error has aborted
  the transaction, every later record fails, and the window is retried until the
  market has a row.  When the aborting trade is the last record of its batch no
  error is reported and the batch is lost instead.  The same catch (line 309) swallows
  every other error of the upserts, so that a deadlock loses a batch of listed markets
  too.  `OnlyTradesAreLost` bounds the loss.
* A user's first sale on the chain leaves a position of 0 instead of a negative one
  (`Math.max(0, ...)`, `batchWriter.ts:282`), although a later sale subtracts in full:
  that the API's and the indexer's trades add up is true but for such sales
  (`PositionsMatchTrades`).
* Positions opened after a market was finalized (`matching-service.ts:294`,
  `batchWriter.ts:272`) are never settled; `ResolvedOnce` speaks of the one settlement a
  market has.
* A trade can be settled twice, although `docs/queue-consumer.md:136` says
  duplicate deliveries are discarded: the key is written after the confirmation,
  and one crash in between is enough.  `DuplicatesNeedFaults` shows the other
  half: without a fault it never happens.
* A job that BullMQ fails as stalled is never dead-lettered, contrary to
  `docs/dead-letter-log.md:7`; `FailedIsDeadLettered` makes it the only exception.
* The settlement producer writes a raw Redis stream, the consumer reads a BullMQ
  queue; Settlement starts from jobs that are in BullMQ.
* Losing candidates stay `PROPOSED` and fail in every poll; a finalization
  overwrites an admin's `CANCELLED`.

*Oracle*

* Two overlapping polls put two submissions of one market in flight, although the
  comment at `redis-submission-queue.ts:141` says the market-level key prevents it:
  the key is checked before and set after the XADD.  `OverlapsNeedFaults` shows the
  other half: one poll at a time, each further submission in flight needs a fault.
* `oracle-service.ts:78` says 4xx and invalid responses skip the fallback; the
  message of an invalid response and of a 429 contains none of the substrings
  `isRetryableError` looks for, so both are retried and fall back.
* With the Redis client of `apps/oracle/main.ts` neither key of the submission
  queue is ever written, and every poll adds another submission.
* `SubmissionWorker` signs nothing: it verifies the stored signature against the
  time of processing, so that verification succeeds only within the signed
  millisecond.  The model lets `Verify` go either way.
* A later oracle report changes `proposedOutcome` of a row whose `createdAt` stays
  (`apps/workers/src/oracle/main.ts:202`): the new outcome inherits the age of the
  old one.  `WindowRespected` is about the row's age, as the worker's query is.

*API, audit log and history*

* `src/api/routes/orders.ts` does not parse at this commit (line 398), does not
  import `verifyStellarSignature`, and its POST handler inserts a row without
  calling `placeOrder`; its reply uses names that are not defined.
  `errorHandler.ts` uses undefined names too.  MatchingService is modelled at its
  own entry point.
* There is no nonce: a signed message sent again within the tolerance stores a
  second order.  The model lets clients repeat messages.
* The market's row is read before the insert and not locked: an order may be
  stored after its market was closed.  `AcceptedWhileOpen` says what remains true.
* `audit` may hold a trade that was rolled back, because the write starts before
  the transaction; the backfill then puts it into the `trades` table.
* `audit.ts:40` says a match creates two entries, and the comment at 63-70 that
  Redis increments the sequence number by itself.  An id `timestamp-0` that is
  taken is refused, and the fallback repeats both writes: a conflict on the global
  stream leaves the trade twice in the stream of its market
  (`CopiesNeedConflicts`).
* `backfill-trades.ts` reads `audit:trades:global` without the key prefix, which is
  `vatix:` by default: it finds an empty stream and ends with success.
* `orders.ts:237-244` ignores the `marketId` filter that lines 188-191 document;
  `docs/orders-route.md` documents `page` and `total` where the code has a cursor.
* Trades of one millisecond may come in any order on every page, so that the
  offset walk may repeat or miss them without any insert;
  `TradeWalkErrorsNeedInserts` is stated without such ties.

*Matching*

* Two orders of one millisecond may change places when the book is rebuilt;
  `PriceTimePriority` is stated on `createdAt` and so allows it.

## 5. What is proved

`tlapm` checks every step of the eight proof modules.  A theorem holds for every
value of the constants that satisfies the assumptions of the module that declares
them: any number of orders, users, books, events, workers, markets, trades,
requests, addresses, any windows, quotas, page and batch sizes, and any bound on
clocks, crashes and faults.  The assumptions say that bounds are numbers and not
zero where the code has none, and that sets the code iterates over, sums over or
counts (orders, users, books, workers, polls, trades, rows) are finite; rows and
trades are numbers where the code compares their ids.

| Module | Theorem | Property |
| --- | --- | --- |
| `MatchingProofs` | `TypeCorrect` | `TypeOK` |
| | `BookMatchesDb` | `BookAgreesWithDb` |
| | `OrdersNeverOverfilled` | `NoOverfill` |
| | `CommittedTradesAreLegal` | `TradesAreLegal` |
| | `AnswersAreTrue` | `ToldIsCommitted` |
| | `BookIsUncrossed` | `NoCrossedOrders` |
| | `MatchingIsPriceTime` | `PriceTimePriority` |
| | `FilledQuantityIsTraded` | `FilledIsTraded` |
| | `PositionsAreNet` | `PositionsMatchTrades` |
| | `Linearizable` | `ImplementsExchange` |
| `IndexerProofs` | `TypeCorrect` | its type invariant |
| | `EventsWrittenOnce` | `WrittenOnce` |
| | `CursorIsMonotone` | `CursorNeverMovesBack` |
| | `Refinement` | `ImplementsEventLog` |
| | `LossesAreTrades` | `OnlyTradesAreLost` |
| `ResolutionProofs` | `TypeCorrect` | its type invariant |
| | `MarketsResolvedOnce` | `ResolvedOnce` |
| | `WindowsRespected` | `WindowRespected` |
| | `ResolutionsAreFinal` | `FinalIsFinal` |
| `SettlementProofs` | `TypeCorrect` | `TypeOK` |
| | `CompletedTradesAreSettled` | `CompletedIsSettled` |
| | `FailedJobsAreDeadLettered` | `FailedIsDeadLettered` |
| | `NoDuplicateWithoutFault` | `DuplicatesNeedFaults` |
| `OracleProofs` | `TypeCorrect` | `TypeOK` |
| | `AcknowledgedIsHandled` | `AckedIsHandled` |
| | `CandidatesAreSubmitted` | `CandidateIsSubmitted` |
| | `FaultsBoundOverlaps` | `OverlapsNeedFaults` |
| `ApiProofs` | `LimiterIsExact` (the limiter alone), `ApiImplementsLimiter`, `ApiQuotaIsExact` | `QuotaIsExact` |
| | `ApiTypes` | `TypeOK` |
| | `OrdersAreAcceptedWhileOpen` | `AcceptedWhileOpen` |
| `AuditProofs` | `ResolvedIsLogged` | `LoggedInBoth` |
| | `CopiesAreExplained` | `CopiesNeedConflicts` |
| | `BackfillIsComplete` | `BackfillComplete` |
| `HistoryProofs` | `CursorPagingIsExact` | `OrderWalkExact` |
| | `OffsetErrorsNeedInserts` | `TradeWalkErrorsNeedInserts` |

Each rests on an inductive invariant (`InductiveInvariant`, `Spec => []IInv`, in all
but `ApiProofs`, which has `LimiterInv` and `ClosedInv`), proved from its initial case
and one lemma per action.

* *Matching: the book.* `BookAgreesWithDb` speaks of the moments when no call is
  between matching and `addOrder`.  To carry it across such a call, `BookInv` says
  what the book lacks meanwhile: exactly the call's trades until the commit,
  exactly the taker's remainder after it.  That needs the call to be the only one
  on its book (`HeadHolds`: it is the head of the mutex's queue), its rows to
  appear with its commit (`RowsFollowCalls`) and its locals to be fresh
  (`LocalsInv`).  `NoOverfill` then follows: the transaction adds to
  `filledQuantity` what the book says is open, and the book is right.  `LegalInv`
  carries the single self-trade check through the loop.
* *Matching: answers.* `ToldInv`: a call's trades are written with its row and stay
  what they are until it ends, so what the hand-off reads from the call's locals
  after the commit is what Postgres has.
* *Matching: priority.* `PlaceInv` ties the arrival stamps of a loaded book to
  `createdAt`: at one price an older row is ahead, in a book that grew order by
  order and in one that was rebuilt from the database, and a call that adds its
  remainder is newer than everything that rests.  `PriorityInv`: what a call has
  traded with was never behind what is left, and what is left when it stops with
  a remainder does not match.  The first half gives `PriceTimePriority` at the
  commit, the second `NoCrossedOrders`.
* *Matching: sums.* `FilledIsTraded` and `PositionsMatchTrades` sum a function over
  a set.  The induction behind sums is done without an operator parameter: a
  nonempty set of numbers has a least element (`Least`), so a property given as a
  set that holds of 0 and of successors holds of all (`NatSetInduction`).  From it
  come the lemmas on sums: of zeros, of a sum of functions, over a union, over a
  product.  `FilledInv` says that a call's quantity is its remainder and the sum of
  its trades; a commit adds one row of trades to the table, and its terms are the
  terms the transaction adds to the two positions.  A trade of the indexer adds the same
  to `shares` and to `onChain`, but for the sale that creates a row; no row is created
  twice, so the surplus is one sale's quantity for ever.
* *Matching: the refinement.* `Linearizable` shows that a commit is a `Place` whose
  quantities are the call's trades and that every other step stutters.  `Remaining`
  equals what the row has left because of `FilledIsTraded` (`ExchangeSum`), so the
  orders `Facing` the taker are the open rows, and `BookInv` says how the book differs
  from them: by the call's trades.  `LegalInv` then gives the self-trade clause and
  what the order accepts, `PriorityInv` the two clauses on what it leaves,
  `PlaceInv` that no placed order has a later time, and `SumBounds` that the trades
  stay within the quantity.  Reading this off the commit alone is what the invariants
  are for: the check, the matching and the commit are three moments, and other calls,
  failures and a rebuilt book lie between them.
* *Indexer.* `FetchInv` says that, of the window, all events up to the paging
  token are fetched, and after the last page all events up to the `latest` head;
  so that the cursor, the smaller of the two ends, covers only written events
  or dropped ones (`DoneInv`, for the cursor in memory and the saved one).  A write
  that reports no error has either written the whole window or was aborted by its last
  record, a trade, which makes everything before it in the window an excused trade: an
  earlier record of another kind would come after the trade in the transaction and
  report the abort.  `Excused` also says why that trade failed: it always does, or a
  fault was spent.  `CursorInv` keeps the saved cursor behind the one in memory.
  The refinement maps a `Write`, `WriteAborts`, `WriteFail` or `Crash` that commits to
  `WriteBatch`, an abort without an error to `DropBatch`, `Save` and `StopFlush` to
  `Checkpoint` and everything else to a stutter.
* *Resolution.* `BatchInv`: what a worker holds was eligible when it was read
  and stays old enough, whatever happens to its status.  With the unique index
  this gives `ResolvedOnce` and `WindowRespected`.
* *Settlement.* `LockInv`: a job has at most one lock holder and is active while
  it has one.  `AttemptInv`: that holder's `attempts` is one more than BullMQ's
  counter, so the comparison that writes the dead letter and the one that fails
  the job agree.  `WorkInv`: past the poll, the transaction is confirmed, or the
  worker has no configuration and the trade is in `offChain`.
  `ChanceInv` is about duplicates: the settlements a trade has and the chances of
  another one (workers on their way to `sendTransaction`, a pending transaction,
  a job that will be taken again) are together at most one more than the faults.
  A fault-free step passes a chance on (a waiting job becomes a sender, a sender
  a pending transaction, that one a settlement or a retry) and never makes one; a
  worker that gives up a transaction which may still settle pays for the retry with a
  fault.  It needs `ChainInv`, one decision per sequence number and one pending transaction
  per account.
* *Oracle.* `WorkerInv` says what a worker past each of its calls has done, and that
  no entry is given to two workers; `AckedIsHandled` and `CandidateIsSubmitted` follow.
  `OverlapInv` counts the entries that may still lead to the removal of a market's
  key (`Live`: not acknowledged, or in a worker's hands): at most one per fault, and
  one more while the key is set or about to be (`Covered`).  `EnqueueInv` ties the
  queue's producers to the polls that run them.
* *Limiter.* `Good` relates the counter of a window to the history of one key: the
  last `min(count, max)` admissions lie in the current window; its first one and all
  earlier ones are no later than its start, and those `max` or more before that first
  one at least a window's length earlier.  One lemma for each case
  of `applyLimit` (first request, next request, refusal, passing time) keeps it, and
  `GoodIsExact` draws both halves of `QuotaIsExact` from it.  Every step of `Api` is a
  step of the limiter or leaves it alone, so `Spec => LimiterSpec` carries the
  result over.
* *Orders.* `ClosedInv`: a request in `closed` has not passed the check, its market
  is not open now, and the row it may have read fails the check at every later
  time, because the clock only moves towards a market's end.

* *Audit log.* `CommandInv` reads off a command where its call is: the stream it is
  for and whether Redis is to make the id say which entries exist and how many
  copies there may be.  `LogInvOf` is the same for a call that has ended, and
  `StreamInv` keeps ids increasing, also across trimming, and equal to the trade's
  time without a conflict.  `ScriptInv`: a trade the backfill owes and has not
  written is in its batch, or in the stream at or behind the cursor; a short batch
  leaves nothing behind it.
* *Paging.* `OrderInv`: the rows after the cursor are closed under the order of the
  query and not shown yet, and every steady row before the cursor is shown.
  `TradeInv` counts instead: rows shown, rows repeated and rows in hand together
  are at most the places on the pages and at most the rows of the table, which
  bounds the repeats by the inserts; a steady row not shown yet has at least as
  many newer rows as the pages had places, which bounds the misses.

Every safety invariant and every action property of a passing run is a theorem.
Checked by TLC only: the liveness properties (`EveryCallAnswered`,
`EveryEventWritten`, `EligibleIsFinalized`, `EveryJobEnds`, `EveryPollEnds`,
`BackfillEnds`), whose fairness speaks of `ENABLED` and is
beyond the prover, and the three expectations of section 4 that the code does not
meet, which TLC refutes.

## 6. What is not modelled

* The in-memory `SubmissionQueue` (no entry point uses it) and
  `BullMQSubmissionQueue` (nothing writes to it).
* The other read routes (markets, positions, health, metrics) and audit queries:
  single queries that change no state, and arithmetic on one row.  Quota headers
  and the fields of replies.
* `RedisService`, `PrismaService` and shutdown: thin wrappers; their failures
  appear as failing calls.  `RedisService` stays disconnected after its last
  retry, which the modules see as calls that fail.
* XDR decoding, signatures, price formatting, logging, configuration, OpenAPI and
  seed data: data without behaviour over time, or stateless.
* The cached depth, and the 24-hour expiry of the idempotency key.
* Trades on the chain between a user and itself; quantities of the chain are taken to
  fit the range of the matching model (the overflow of a position is in `Indexer`, as a
  statement that fails).
* Prisma, Postgres, Redis: a call succeeds, fails, or takes effect and fails.

## 7. Plan

The order follows what is worth most: first the matching service, which every
trade depends on, then the pipelines that carry its results.

| Step | Modules | State |
| --- | --- | --- |
| 1 | `MatchingService`: orders, books, transactions, crashes | modelled, checked, proved |
| 2 | `Indexer` against `EventLog` | modelled, checked, refinement proved |
| 3 | `Resolution`: candidates and finalization | modelled, checked, proved |
| 4 | `Settlement`: worker, queue and chain | modelled, checked, proved |
| 5 | `SubmissionQueue`, `OraclePoll` | modelled, checked, proved |
| 6 | `RateLimiter`, `Api`: windows, authentication, order and admin requests | modelled, checked, proved |
| 7 | `AuditLog`: stream ids, their fallback, the backfill | modelled, checked, proved |
| 8 | `History`: the paged routes | modelled, checked, proved |
| 9 | an abstract exchange (orders and trades without books, calls or crashes) that `MatchingService` implements | modelled, checked, refinement proved |

"Proved" means every safety property of the step's runs.  A possible extension is
to give `Exchange` the positions, which `PositionsMatchTrades` covers by itself now.
