# A TLA+ model of the swing-trading screener

The repository is a swing-trading screener for the KOSPI market. A FastAPI
backend collects daily bars from the Toss API, screens and ranks them once a
day, publishes a watchlist and runs backtests over past watchlists; a Next.js
client shows the results. This directory holds a TLA+ model of both: the
stateful core of the backend, its request handlers and pure algorithms, and the
pages of the client that overlap requests; the TLC configurations that check
it; and proofs checked by TLAPS.

Contents: [Inventory](#inventory) · [Modules](#modules) ·
[Runs](#runs-and-what-they-show) · [Proofs](#proofs) ·
[Disagreements](#where-the-code-and-its-documentation-disagree) ·
[Not modelled](#what-is-not-modelled) · [Plan](#plan) ·
[Running the checks](#running-the-checks)

Paths of source files are relative to `src/backend/src/screener/` unless they
start with `docs/`, `frontend/` or are a file of the repository's root.

## Inventory

### Components, their state and their operations

| Component | State | Operations |
|---|---|---|
| Daily watchlist pipeline (`modules/market/pipeline/`) | table `watchlist_pipeline_executions`, advisory lock per date, locals of each `run()` | `run`: weekend check, `acquire` (lock, recover stale, refuse or insert), sync, load inputs, scan, rank, publish, fail |
| Watchlist repository and readers (`modules/market/watchlist/`, `api/watchlist/`, `api/screener.py`) | table `watchlist_entries` | `save` (delete and insert in a savepoint); `list`, `latest`, `history`, `exists`, screener results |
| Market synchronisation (`modules/market/sync.py`, `infrastructure/repositories.py`) | tables `stocks`, `daily_bars`, `sync_jobs`, `sync_job_runs`; one `asyncio.Lock` per runner and process | `stocks.run`, `bars.run`, `all`; batches, resume after the latest stored bar, failure record |
| Toss adapter (`infrastructure/toss.py`) | cached token, expiry, lock; time of the last chart call | `get`, `invalidate`, `_request` (retries, one renewal after 401), chart pagination, parsing |
| Backtests, independent mode (`modules/backtest/executor.py`) | table `backtest_trades` | `simulate_signal`, `calculate_metrics` |
| Backtests, portfolio mode (`modules/backtest/portfolio.py`) | cash, positions, realized profit, peak; tables of trades and snapshots | `execute`: plan entries, then per day exits, entries, liquidation, marking, snapshot |
| Backtest runs (`modules/backtest/service.py`, `domain.py`, `repository.py`, `api/backtests/`) | table `backtest_runs` | `create` (pending, running, completed or failed), `get`, `list`, `analyze`, `portfolio` |
| Backtest analysis (`modules/backtest/analysis.py`) | none | folds over the ordered trades |
| Screening, scanning, ranking, indicators (`modules/market/{screening,scanning,ranking,indicators}/`) | none | pure functions over a window of bars |
| Realtime technical analysis (`modules/market/technical_analysis.py`, `application.py`) | none | aggregation of minute bars, classification |
| Notifications (`modules/notifications/`) | attempts of a delivery | one event per finished run, fan-out, bounded retries |
| Scheduler, lifespan, admin API (`modules/market/scheduler.py`, `main.py`, `api/admin_watchlist_pipeline.py`) | the APScheduler job | call `run()` |
| Identity (`modules/identity/`) | tables `users`, `refresh_sessions` | login, refresh (rotation), logout |
| KRX universe, configuration, migrations, scripts | bundled files | start-up and maintenance only |
| Browser client (`frontend/src/`) | access token, per-page state, promise caches | overlapping requests, last answer wins |

### How they interact

* The scheduler and the admin API call the pipeline (through the notification
  decorator). The pipeline calls `SyncCoordinator.all()`, reads bars, and
  publishes through the watchlist repository in the transaction that also
  records its own success.
* The coordinator is also called directly by the admin sync routes. Two
  processes share only the database: the pipeline excludes them with an
  advisory lock, the sync services only with a per-process `asyncio.Lock`.
* Every market call goes through the Toss adapter. All coroutines of a process
  share one token cache; issuing a token invalidates the previous one
  (`docs/TOSS_API_INTEGRATION.md`).
* Backtests read the bars that synchronisation stored, and the signals of the
  same strategy that the pipeline ranks.
* Readers see the database at READ COMMITTED, one snapshot per statement.
* A request has one transaction, which `get_db_session` commits after the
  handler has returned.
* The pages talk to the backend through `lib/api.ts`; the tabs of a browser
  share its refresh cookie and nothing else. Answers arrive in any order.

### What is hard, and what makes each part correct

*Pipeline.* Several replicas may run the same date; a replica may die between
any two awaits and leave a `running` row; a stale row is recovered by a timeout
that cannot tell a dead owner from a slow one; deletion, insertion and the
success record must appear as one step. Correct when at most one run owns a
date, history is immutable, what readers get is the newest success, only a
forced reanalysis replaces a success, no call waits for ever and an abandoned
date becomes usable again.

*Synchronisation.* The next run resumes after the latest stored bar, so a lost
batch would become a permanent hole; two replicas upsert the same rows in
batches; the number of inserted rows is computed by a SELECT before the upsert.
Correct when histories have no holes, a recorded success is complete, counts
are right where they can be, locks never outlive their call, and symbols
upserted in a fixed order cannot deadlock.

*Toss adapter.* Requests read the token, await the answer, and then decide
about a token that may have been replaced meanwhile. Correct when renewals are
coalesced, a good token is never discarded, one renewal after a 401 suffices
unless the service changes the token again, and retries are bounded.

*Backtests.* Long deterministic computations with many boundary cases: bars
missing on the entry, exit or last day, several entries on one day competing
for cash, rounding of every stored column. Correct when money is conserved, the
buffer is kept, every signal is accounted for, everything is liquidated,
nothing uses a price that is not known yet, and both modes apply the same
trading rules.

*Sessions.* Several tabs rotate one refresh token; handlers check it in an
earlier statement than they write it; a response may be lost after its commit.
Correct when the cookie the browser ends up with is usable, a login has one
live session and none after its logout, and no guarded page waits for ever.

*Readers.* An endpoint issues up to three SELECTs and a publication may commit
between any two. Correct when undisturbed answers agree with each other and
disturbed ones are never older than the request.

*Backtest runs.* One transaction from `pending` to the end, a savepoint in one
mode and a plain flush in the other. Correct when a committed run's rows and
status belong together and every endpoint can serve it.

*Pages.* Timers, buttons, effects and selections overlap requests. Correct when
a page shows what its user chose last and its indicator belongs to an open
request.

*Pure algorithms.* Many thresholds and windows, and several quantities that are
computed twice by different code. Correct when both computations agree, where
they are meant to, and each agrees with its definition.

*Outgoing conversations.* The data provider chooses the next cursor of a chart;
the chat service may post a message and lose the answer. Correct when charts
have no holes, paging and retrying end, and one failing provider harms nobody.

`PROJECT.json` lists the hazards at their lines with the properties that cover
them.

## Modules

| Module | Models | Role |
|---|---|---|
| `WatchlistPipeline` | `pipeline/service.py`, `pipeline/repository.py`, `watchlist/repository.py` (`save`) | component |
| `WatchlistPublishing` | what the pipeline promises readers | abstract specification |
| `WatchlistPipelineProofs` | | theorems about `WatchlistPipeline` |
| `MarketSync` | `sync.py`, `infrastructure/repositories.py` | component |
| `MarketSyncProofs` | | theorems about `MarketSync` |
| `TossClient` | `TokenManager` and `_request` in `infrastructure/toss.py` | component |
| `TossClientProofs` | | theorems about `TossClient` |
| `TradeRules` | `BacktestParameters`, `simulate_signal` in `backtest/executor.py` | pure operators |
| `Portfolio` | `backtest/portfolio.py`, over `TradeRules` | component |
| `PortfolioProofs` | | theorems about `Portfolio` |
| `AuthSessions` | `identity/`, `shared/database.py`, `frontend/src/lib/api.ts`, `AuthGuard.tsx` | component |
| `ScreenerResults` | the readers of `watchlist/repository.py`, `api/watchlist/router.py`, `api/screener.py` | component |
| `BacktestRuns` | `backtest/{service,domain,repository}.py`, `api/backtests/`, `execute()` around both simulations | component |
| `ScreenerPage`, `AnalysisPage`, `WatchlistPage`, `BacktestPages` | the pages of `frontend/src/features/` and the promise caches | components |
| `TossCharts` | `daily_bars` in `infrastructure/toss.py` | component |
| `Notifications` | `modules/notifications/` | component |
| `WebApplication` | the nine modules above in one specification | composition |
| `WebApplicationProofs` | | theorems about each of the nine, and all of them about the composition |
| `TradeAnalysis` | `backtest/analysis.py`, `calculate_metrics` in `backtest/executor.py` | pure operators |
| `SwingScreening` | `screening/swing.py`, `indicators/` | pure operators |
| `Ranking` | `ranking/ranker.py`, threshold and cut of the pipeline | pure operators |
| `TechnicalAnalysis` | `technical_analysis.py` | pure operators |
| `Algorithms` | inputs for, and properties of, the four modules above | instance |
| `Ordering` | `sorted()` and list comprehensions, as the four use them | pure operators |
| `AlgorithmsProofs` | | theorems about statistics, ranking and screening |
| `InstrumentProofs` | | theorems about the timeframes and the analysis of one instrument |
| `FoldTheorems` | | lemmas: induction, sums, maxima, sorting and folds over data of any size |
| `MC...` | | the instances TLC checks |

Several modules keep, next to a definition, the same definition with a small
mistake (`... Mutant: ...`). They are not part of any specification; replacing
the definition by its mutant makes the property named in `PROJECT.json` fail,
which shows that the property depends on that piece of code.

### WatchlistPipeline

A request is one call of `run()`. `pc[r]` is where it stands, `arg[r]` its date
and `force_reanalysis`, `execution[r]` the single row it may create,
`watchlist[d]` the committed items of a date, `advisory[d]` the holder of
`pg_advisory_xact_lock`. One action is what happens between two awaits on the
database:

| Code | Actions |
|---|---|
| weekend check, start of `run()` | `SkipWeekend`, `Submit` |
| `acquire()` | `LockDate`, `ReadRunning`, `ReadSucceeded`, then one of `RefuseIdle`, `RefuseRunning`, `RecoverOnly`, `Acquire` |
| `_stage()`, each its own session | `SetStage` |
| `sync.all()`, `_inputs()`, scan, rank | `Sync`, `Inputs`, `Scan`, `Rank` |
| the publishing transaction | `LoadRow`, `FlushFinish`, `DeleteItems`, `InsertItems`, `CollideSave`, `CommitSave`, `RollbackSave` |
| the `except` branch | `Raise`, then `RecordFailure` |
| process death or cancellation; passage of the stale timeout | `Crash`, `Expire` |

PostgreSQL is modelled by what the code relies on: READ COMMITTED statements,
row locks of uncommitted updates, unique constraints that block and then
collide, and roll-back of a dead session. `finish()` loads the row and flushes
only the columns that differ, so a column that has the same value as the loaded
one keeps whatever another transaction wrote: `loaded` remembers the one that
matters. Screening, scanning and ranking are their
counts: the properties depend on how many items are published and by whom, not
on which symbols they are.

`Overrun` states the assumption everything hinges on. With `Overrun = FALSE`
a row becomes stale only after its run is dead, that is, the configured
timeout exceeds the longest run. With `Overrun = TRUE` a live run may be
recovered by another.

`WatchlistPublishing` is the abstract specification: per date one cell,
replaced as a whole by one success at a time. Locks, stages, failures and
crashes must be invisible in it. `ImplementsPublishing` maps the succeeded
rows to its history and `watchlist` to its items.

### MarketSync

A call is `sync.all()`, `stocks.run()` or `bars.run()` in one of several
processes. `lock[p][j]` is the runner's `asyncio.Lock`, `audit[c][j]` the
`sync_job_runs` row, `bars[s][d]` the call that inserted a bar, `pending[c]`
what its open transaction has written. `mem[c]` holds the locals of
`DailyBarSyncService`: end date, symbols left, latest dates read at the start,
the filled part of the batch and the count. Time passes (`NextDay`), stocks are
listed (`ListStock`), replicas die with their locks and transactions (`Crash`),
and any step inside the `try` may raise (`Raise`). `UpsertBars` takes row locks
by waiting until no other open transaction has written the same bar. `Raise`
models what SQLAlchemy does with the objects of a session that is rolled back;
see the disagreements below.

### TossClient

The coroutines of one process. Tokens are numbered in the order of issue, and
`live` is the one the service accepts. `GetCached`, `WaitForLock`, `Recheck`,
`AskForToken` and the answers of the issuer are `TokenManager.get`; `Invalidate`
discards the cached token only when it is still the rejected one. `_request` is
`Send` followed by one of its answers. The environment expires the cached token
(`Expire`), revokes it (`Revoke`, which also stands for another replica asking
for one) and cancels callers (`Cancel`). The back-off sleeps and the chart
throttle only delay a request.

### TradeRules and Portfolio

Rates are numbers of `D`ths and money is an integer in units of 1/`D`^4, in
which the code's Decimal products are exact; `Quantize` is
`Decimal.quantize(MONEY)` with its half-even rule, applied to every stored
column as the code does. `ExitRule` (stop before target before holding limit,
an open beyond a limit is the price) is written once and used by both modes;
`SimulateSignal` is the independent mode as a closed definition: the exit day is
the *first* eligible day on which the rule fires.

`Portfolio` is `execute()` step by step: `PlanEntries` (or `PlanFails`, the
`KeyError` described below), then each day `OpenDay`, `Carry`/`Hold`/`Exit` for
every open symbol, `ExitsDone`, `Skip` or `Enter` for every planned signal in
order, `LiquidateEntry` on the last day, and `EndDay`, which marks the
positions and appends the snapshot. Prices of a bar are drawn when the loop
first comes to its day, so that all price histories are explored without being
enumerated in advance.

### AuthSessions

`sessions` is the `refresh_sessions` table by token, `jar` the cookie all tabs
share, `requests` every request sent: presented token, what the handler decided
(`HandleRefresh`, `HandleLogin`, `HandleLogout`), whether its transaction has
committed (`CommitRequest`, `CommitFails`) and whether its answer has arrived
(`Deliver`, `LoseResponse`). The declared FastAPI range contains releases that
commit before the response and releases that commit after it; `responseFirst`
leaves it open. A behaviour has at most one fault, since two make everything
possible. `contested` is a history variable: the tokens that two open requests
had in common, which are exactly the ones for which rotation cannot keep its
promise.

### ScreenerResults

One reader, one SELECT per step, against a database in which executions start
and publications commit at any time; `before` is the snapshot when the request
arrived. Rows without an execution (from before executions were recorded) are
possible initial states, because `exists`, `latest` and `history` treat them
specially.

### BacktestRuns

A post is one `POST /backtests`: schema check, `create`, `start`, the executor's
outcomes (`ExecuteFails`, `StoreRows`, `StoreRowsFails`, `MetricsFail`), then
`CompleteRun` or `FailRun`, `Respond` and the commit, or `AbortRun` for a crash or
a cancelled request. `StoreRowsFails` differs between the modes: the independent
mode flushes inside a savepoint, the portfolio mode does not, so its session
cannot be used any more. The endpoints that read a run appear as what they would
answer for each committed row.

### Pages

Each page keeps the variables of its component, the requests in flight with what
their closures captured, and the effects React still owes. Answers arrive in any
order. `LoadCached`/`FetchSettles` are the promise caches; the two panels over
them differ in code but not in behaviour, and are one panel here.

`WatchlistPage` has the server it reads beside it, since `load()` takes the label
from one GET and the items from another, and the pipeline may commit between
them: the succeeded dates, the dates with older rows (`LegacyDates`), which the
first execution hides. Choosing a date changes the label at once (`ChooseDate`);
the router shows the new URL some time later (`UrlChanges`), unless another
navigation comes first (`Traverse`), and the effect that starts the load runs
after that (`ListEffect`). The answer to the second GET arrives as it is read.

### TossCharts and Notifications

`TossCharts` reads pages of at most `MaxCandles` bars backwards from a provider
that may hand out any cursor and revise a bar between two pages; `regular` says
whether all cursors so far were meant well. `Notifications` delivers one event
through several providers. An attempt is answered for certain (2xx posts, a 4xx
does not), or it leaves open whether the message arrived: a timeout, a network
error or a 5xx, which are retried, and any other exception (a connection closed
without a response, a body that cannot be decoded), which ends the delivery at
once. `posted` is what the channel shows, `unsure` counts the attempts of the
second kind.

### WebApplication

These nine parts share no variable, so a property of one is decided by its own
steps; `part` selects the one that moves. One run checks them all.

### TradeAnalysis, SwingScreening, Ranking, TechnicalAnalysis

Operators over sets and sequences of small integers. Quotients stay fractions
where the code keeps a Decimal, and are rounded half up to hundredths where it
quantizes. Windows are constants (20 and 60 days become 3 and 5) so that a few
bars fill them. Sentences the code builds are represented by the conditions
under which it builds them. `sorted()` and conditional comprehensions are
`InOrder` and `KeepIf` of `Ordering`. `ScreeningAssumption` gives the constants
of `SwingStrategy` their kinds (the minimum close and value are integers, windows
positive, lookbacks and the minimum history naturals) and says that they pass
the strategy's own `__post_init__`.

## Runs and what they show

All bounds are constants of the configurations.

**`pipeline_safe`** — three requests, one date, up to two items, no overrun,
requests symmetric. `OneOwner`, `PublishedIsNewestSuccess`,
`OutcomesAreJustified`, `TerminalIsFinal` and the refinement
`ImplementsPublishing`, with failures and crashes at every step. Three requests
are what the interesting schedules need: one that dies, one that recovers its
row, and one that reanalyses or is refused in the meantime. Two items tell a
replaced list from a merged one and a shorter list from a longer one. Dates do
not interact except through requests, so one is enough.

**`pipeline_live`** — two requests over a trading day and a weekend day, *with*
overruns, under fairness. `OneRunningPerDate` needs no assumption about the
timeout. `EveryRunReturns`: neither the advisory lock nor the locks of two
publishing transactions are waited for indefinitely, including the schedule in
which a stale owner and its replacement delete and insert the same date at the
same time. `AbandonedIsRecovered`: a stale row is taken out of `running` by the
next request for its date.

**`pipeline_doc_nobar`** and **`pipeline_overrun_published`** — two
counterexamples; see below.

**`sync_safe`** — two calls in one or two replicas, two symbols (one suspended
on one day), three days, batches of one, symmetric calls. `NoGap`,
`SuccessIsAsRecorded`, `StateIsCoherent`. Three days are the
least on which a hole between two stored bars can exist, and batches of one
commit between symbols, so that every failure leaves a prefix behind.

**`sync_live`** — two replicas and one batch that holds both symbols, so that
transactions wait for each other's rows. `EveryCallEnds`: the upserts run in
symbol order, so there is no circular wait, and the symbol loop ends. A hold of
one row while waiting for the other needs two symbols per batch, not more.

**`sync_doc_failure`** — a counterexample; see below.

**`toss`** — two requests, one transient retry, three losses (expiries,
revocations, lost answers). `IssuingIsExclusive` (as many renewals as there was
cause for, and the lock with whoever asks), `RetriesAreEarned` (a request fails
with 401 only if the service changed the token while it ran, and sends are
bounded), `AcceptedTokenIsKept`, and `EveryRequestEnds` under fairness. Three losses allow
a renewal, its revocation and a second one within one request, which is more
than its single renewal can absorb.

**`portfolio`** — two symbols, five days, signals on the first two days, every
combination of missing bars, three bars that between them stay inside the
limits, open beyond the target, open beyond the stop and cross it during the
day, one or two open positions allowed. Two symbols compete for cash and for
the single slot; two signal days give a signal for a symbol that is still open;
five days leave room for an entry, the holding limit of two days, a re-entry
and the last day. `AccountsBalance` (conservation, final liquidation, stored snapshots),
`BufferIsKept`, `SignalsAreAccountedFor`, `ModesAgree`, `NoLookAhead`.
The first day has no bar in this instance, since no signal can precede it.

**`portfolio_missing_bar`** — a counterexample; see below.

**`web`** — the nine parts of `WebApplication`. A property that has several
aspects is a conjunction of named ones, each with its own comment.

| Part and bounds | Properties |
|---|---|
| sessions: two tabs, four requests, one fault | `CookieIsUsable`, `SessionsOfALogin` |
| readers: two dates, three publications, legacy rows or none | `ReadersAreConsistent` |
| pages: two dates, symbols or runs; three to five requests, on the watchlist page two loads | `PagesShowTheSelection`, `PagesSettle`, `OneFetchPerRun` |
| backtest runs: two posts, both modes, every failure | `StoredRunsAreSound` |
| charts: four days in any combination, pages of two, one revision | `ChartIsWhole` |
| notifications: two providers, two retries | `NotifiedOnce` |
| sessions, charts, notifications under fairness | `EverythingEnds` |

Two tabs and four requests contain a sign-in, two overlapping rotations and a
logout; three overlapping loads are what it takes for the middle answer to come
last, and two on the watchlist page, which has no order to keep: its history
variables start afresh with a load that meets no other, so a third one adds no case
(TLC finds nothing with three either, on the part alone, and the theorem is for
any number); four days in pages of two leave a page that ends exactly at, one before and
one after the start. Where the code itself does not hold the property without
exception, the exception is part of the property's statement, and listed below.
The bounds let a behaviour end, so this run does not check deadlock.

**`algorithms`** — trade lists of up to three trades, bar sequences of up to
seven bars, up to three ranked results, minutes around an hour, a day and both
bucket boundaries, and every configuration with lookbacks up to three.
`StatisticsHold` and `MetricsMatchAnalysis` (backtest statistics against their
definitions, their breakdowns and each other), `WindowsAreFull` (the history a
configuration asks for fills every window, and a longer one adds nothing but
through the exponential average), `SetupsAreSound`, `RankingIsSound`,
`FramesAgree` (the three timeframes are one chart) and `AnalysisIsBacked`
(verdict, levels and baselines against the numbers shown). Deadlock is off
because inputs end.

### Fairness

`FairSpec` requires weak fairness of the steps of each request or call
separately, never of the environment: the asyncio event loop resumes every
coroutine whose await has been answered, PostgreSQL answers a statement unless
it waits for a lock (a guard in the model), and the HTTP clients have timeouts,
so each awaited answer arrives as a value or as an exception. Failures, crashes,
expiries and the passage of the stale timeout are not owed to anyone. Strong
fairness is nowhere needed: each lock is waited for by finitely many calls,
each of which takes it finitely often. `WebSpec` is fair to the server's
handling, commit and answer of each request, to the guard's next request, to the
turns of the paging loop and to each delivery, for the same reasons; users,
selections, revisions and faults are owed to nobody. Deadlock is checked in
every run of the core; those specifications stutter explicitly (`Ended`) once
all calls have ended.

## Proofs

TLAPS checks the following for every value of the constants that the modules'
assumptions allow: sets of requests, dates, replicas, symbols and tabs of any
size, every limit, and every set of parameters the code accepts. All safety
properties of the passing runs are stated by one of these theorems.

### WatchlistPipelineProofs

| Theorem | States | Assumes |
|---|---|---|
| `TypeCorrect` | `Spec => []TypeOK` | |
| `OneRunning` | `Spec => []OneRunningPerDate` | |
| `OwnersExclude` | `Spec => []OneOwner` | `~Overrun` |
| `HistoryIsFinal` | `Spec => TerminalIsFinal` | `~Overrun` |
| `NewestIsPublished` | `Spec => []PublishedIsNewestSuccess` | `~Overrun` |
| `PipelineImplementsPublishing` | `Spec => ImplementsPublishing` | `~Overrun` |
| `OutcomesHaveReasons` | `Spec => []OutcomesAreJustified` | `~Overrun` |

None of these is inductive by itself. The argument has four layers, each
resting on the one before.

1. `AcquireInv` needs no assumption on time. Whoever is between `LockDate` and
   its decision holds the date's advisory lock, so nobody else inserts a running
   row; therefore the running row it has read (possibly none) is still the only
   one the date can have when it inserts its own.
2. `OwnerInv`, without overruns: a run at work still has a running, fresh row,
   and a stale row belongs to a dead run. With `OneRunningPerDate` this gives
   `OneOwner`. It also shows that a recovery only rewrites rows that are still
   running, hence `TerminalIsFinal`. The delicate part is `SeenStaleIsRunning`:
   `acquire()` reads the row, awaits another query and then writes, and what it
   read must still be true.
3. `PublishInv`: the owner began after every success of its date and is forced
   exactly when there is one. Reading "running" and "succeeded" takes two
   statements, and the run may commit between them; `SeesSuccess` says
   precisely when the second read is reliable, and that it is in every case in
   which `acquire()` goes on to insert. `SnapshotIsCurrent` says that the rows
   an open DELETE removes are all the rows there are. Together they make the
   commit replace the list of the newest success by that of a newer one, which
   is also the step of `WatchlistPublishing`.
4. `OutcomeInv`: what a run reports is what its row says, and a success has
   replaced another only by force. The row it needs is `OwnerIsLatest`: nobody
   inserts a row for a date while its owner is at work, so the owner's is the
   newest of its date and a later success began after its end.

`~Overrun` cannot be dropped from the last five: TLC refutes each of them with
overruns (`pipeline_overrun_published` records one).

### PortfolioProofs

| Theorem | States | Invariant |
|---|---|---|
| `BufferSafety` | `Spec => []BufferIsKept` | `BufferInv` |
| `NothingIsForeseen` | `Spec => []NoLookAhead` | `LookInv` |
| `NothingIsLeftOpen` | a finished run has reached its last day and holds nothing | `LookInv` |
| `ModesTradeAlike` | `Spec => []ModesAgree` | `ModesInv` |
| `SignalsAccounted` | `Spec => []SignalsAreAccountedFor` | `SignalsInv` |
| `BooksBalance` | `Spec => []AccountsBalance` | `LimitsInv`, `CashInv`, `RowsInv` |

They hold for every universe of symbols, calendar, price set and all accepted
parameters. `QuantumAssumption` (in `TradeRules`) says that the unit in which
prices and the capital are given is a multiple of `MONEY`, 1/10^8. It is used for one
thing: the capital, the first equity of a run, is then not changed by rounding.
Each invariant assumes the ones above it.

* `BufferInv` adds to the buffer the types of cash, positions and bars, that
  planned signals have a bar on their entry day, and that the bars read so far
  are among the possible ones. The heart is a lemma about `affordable_quantity`:
  the largest quantity whose cost and commission fit in cash minus buffer leaves
  at least the buffer, also when the position's size is the smaller limit.
  `BufferIsKept` itself excludes commission and tax that exceed the proceeds of
  a sale.
* `LookInv`: while a day is processed, an open position is valued at the latest
  close before it, at its entry price on its first day, and never at a later
  one. Bars are drawn only for symbols that trade that day, and on the last day
  every open position is examined, so that what is open after the exits was
  entered that very day.
* `ModesInv` relates each position and each trade to the bars read so far: a
  signal is planned on the first day after it on which its symbol trades, an open
  position has survived the exit rules on every day since with a bar, and a trade
  that was not forced by the end of the period closed on the first day that the
  rules name. The last lemma, `SimulatedAlike`, computes `simulate_signal()`
  from such a history: it finds the same day and returns the same trade.
* `SignalsInv` puts each signal in one place: still to come (`Upcoming`), held,
  traded, or skipped; no two trades have the same signal. Skips are only counts in the
  code, so `Counted` says that the signals not yet skipped and the sum of
  the counts are all the signals. An entry, an exit and a skip each move one
  signal from one place to another.
* `CashInv` is conservation, cash and the cost of the open positions being the capital
  and the realized profit: `close_position()` and the entry each exchange one
  for the other, and marking changes the price of a position, not its cost.
* `RowsInv` says of each stored row that it balances to within a quantum and
  that its peak is the highest equity stored up to it. `quantize()` is off by at
  most half a quantum and is monotone, so that the rounded sum of two amounts
  is at most one quantum from the sum of the rounded ones, and the peak of the
  rounded equities is the rounded peak. `DrawdownIsLargest` derives what `execute()`
  reports: the largest stored drawdown is, to a quantum, the largest fall.
* `LimitsInv` is the rest of `TypeOK`: no more positions than `max_open_positions`,
  none of quantity zero, and counts that are naturals.

Conservation and the count are about sums over sets of any size, for which see
`FoldTheorems`.

### FoldTheorems

What the proofs need about data of any size. The library's induction theorems take
an operator as a parameter, which the provers cannot instantiate; the lemmas here
argue by a smallest counterexample instead, a finite set of naturals having a
minimum, and state induction over a *set* (`UpToInduction`, `SubsetInduction`).

* Sums. `MapThenSumSet` takes the members one by one in an order of its own; any
  member can be taken first (`SumTakes`), hence changing one value changes the sum
  by the difference (`TotalChange`), equal values give equal sums (`TotalSame`),
  and a sum is the sum of the sums over the parts of a partition (`TotalOfParts`).
  A sum lies between size times the least and size times the greatest value
  (`TotalBetween`) and grows with a common factor (`TotalScales`).
* Sorting. If a relation orders a finite set strictly and totally, `InOrder` lists
  every member once and in that order (`SortedLists`). There is only one such
  list (`ListsAreOne`), so any two ways to sort agree; and what a comprehension
  keeps of a list is in the list's order (`KeptAreListed`).
* Folds. The function that `FoldLeft` chooses exists, so a fold over a sequence is
  the loop it stands for, one state per turn (`FoldLeftExists`).

### AlgorithmsProofs

| Theorem | States |
|---|---|
| `StatisticsAreRight`, `StatisticsAlwaysHold` | `StatisticsHold`: of any finite set of trades with ids of their own; `AlgorithmsSpec => []StatisticsHold` |
| `MetricsAreRight`, `MetricsAlwaysMatch` | `MetricsMatchAnalysis`, likewise |
| `RankingIsRight`, `RankingAlwaysSound` | `RankingIsSound`: of any batch of complete results with symbols of their own; `AlgorithmsSpec => []RankingIsSound` |
| `WindowsAlwaysFull` | `AlgorithmsSpec => []WindowsAreFull`: the accepted ones of its configurations, histories of any length |
| `SetupsAlwaysSound` | `AlgorithmsSpec => []SetupsAreSound`, likewise |

The runs feed inputs from small sets. A theorem about `AlgorithmsSpec`, here and in
`InstrumentProofs`, lifts the bounds on their *number* and leaves those sets; the
lemmas behind it are general: they take any chart, history, batch or set of trades
with the properties that the invariants name.

The statistics: dates, profits and symbols are any integers and the number of
trades is any. The arguments are loop invariants over the turns of the two loops.

* `AnalysisAt` relates the state after k trades to the curve: the peak is the
  highest point so far, the drawdown the largest fall so far, a streak counter the
  length of the run that ends here (`Ending`) or the longest one so far (`Longest`).
  `RunsGrow` and `RunsEnd` are the two ways a run goes on.
* The breakdowns divide the trades: each trade is in exactly one row (`Divides`),
  which needs that every exit reason is in the enumeration that
  `by_exit_reason` goes through. The four figures are totals over trades, so their
  sums over the rows are the totals over all trades (`RowsAddUp`).
* `Together` runs the loops of `calculate_metrics` and of the analysis in lockstep,
  once `LoopsSeeOneOrder` has shown that distinct exit dates make the two sort keys
  agree: the equity and its peak are the capital plus the realized profit and its
  peak, and the largest *share* of a peak is never more than the largest fall is of
  the capital.

The ranking: `ResultsInv` says of the delivered results what the scanner
guarantees (`Batch`): every one has the metrics and a score for each matched
setup, and no symbol occurs twice.

* The sort key ends in the symbol, so it orders the candidates strictly and totally
  (`KeysOrderScores`, from `SmallerKeyFour`); a strict total order has one listing,
  so the order of delivery cannot matter (`RankIsCanonical`, `RankOfAnyOrder`).
* `SelectionIsFirst` describes the cut by places: the selected are the first
  `MaximumCandidates` of the qualified. From that follow that nobody better is left
  out and that, without one result, the rest moves up at most (`BatchWithoutOne`,
  `SelectionSurvives`).
* Every score is within 0 and 100 because rounding half up never leaves an interval
  of whole numbers (`RoundingStays`, `WeightedFour`), and the total is monotone in the
  setup score because rounding and the cap keep order (`AverageKeepsOrder`).

The screening: `ScreeningInv` says that a configuration under test consists of
integers and that the bars are bars, with a low under and a high over the close.

* `AcceptedWindows` is the arithmetic behind `__post_init__`: a history as long as it
  asks for fills every window the code cuts from it. `SuffixIs`, `PriorBarsIs`,
  `SuffixOfSuffix` and `PriorOfSuffix` say which bars a window holds;
  `BoxDepends`, `ContractionDepends`, `CommonDepends` and `PullbackDepends` that each
  part of the strategy reads its windows and averages only, hence `LongerAgrees`.
* `EmaLoops` unfolds the exponential average into its turns; with it, and by
  `MeanBetween`, every average lies between the lowest and the highest of the closes
  it averages (`AveragesBetween`).
* Scores and rules are functions of ratios. `SameRatio` relates two quotients that
  differ by a common factor of both terms; it preserves every comparison
  (`SameRatioJudged`) and every score (`SameRatioScored`, where the rounding is the
  hard part). Multiplying all prices by one positive factor and all volumes by another
  multiplies every window's sums and extremes and every average (`WindowScales`,
  `MeansScale`, `EmasScale`), so that all ratios stay the same (`BoxScales`,
  `PullbackScales`, `ContractionScales`, `SetupsScale`).
* A box breakout closes above its whole window and a pullback below the peak of its
  own, so the two exclude each other while the pullback's window is not the longer
  one (`PeakAndHighest`, `BoxOrPullback`). The primary setup is the first of the best because the matched
  ones are a list in the order of `SetupOrder` (`SetupsListed`, `PrimaryIsBest`).

### InstrumentProofs

| Theorem | States |
|---|---|
| `FramesAlwaysAgree` | `AlgorithmsSpec => []FramesAgree`: any number of minutes and days |
| `AnalysisAlwaysBacked` | `AlgorithmsSpec => []AnalysisIsBacked`, likewise |

The timeframes: `MinutesInv` says that the minutes are a `Chart`, a list by time of
bars with times of their own.

* `IsSummary` describes a candle of a *set* of bars, without the list it was made
  from: the opening price of the earliest, the close of the latest, the extremes, the
  total volume. `CandleSummarises` says that the code's candle is one and
  `SummariesAgree` that there is only one, so two candles agree as soon as they are
  about the same bars.
* `SummaryOfSummaries`: when a set of bars is cut into parts that follow one another,
  a candle of the parts' candles is a candle of the whole. The volumes are a sum of
  sums (`TotalOfParts`).
* The rest is arithmetic of the clock: buckets follow the order of the times
  (`BucketsFollow`), a five-minute bucket lies within one of ten minutes
  (`BucketsNest`), and no bucket crosses midnight, because buckets are cut from the
  hour (`BucketsWithinDay`). With that, candles are a chart again (`AggregateIsChart`),
  hence `TwoLevels`, `FramesCarryAll` and `SessionsAgree`.

The analysis of an instrument: `DaysInv` adds that the daily bars have increasing dates,
none after the quote's day, and that the price is a quotient with a positive divisor.

* `NotLessFollows`: the comparison of quotients by cross multiplication is transitive
  when the divisors are positive. Every average and every extreme that the summaries
  show is such a quotient or missing (`IntradayValues`, `DailyValues`), so the
  chains of comparisons that define the trends may be shortened to what the verdict
  claims (`TrendsSay`, `VerdictBacked`).
* `_levels` merges equal prices. The merged ones are finitely many classes that their
  prices order strictly (`LevelsDiffer`, `LevelsAreOrdered`), so each side is a
  list outwards from the price, and a level that is not among the first three comes
  after the third (`NearestAreShown`, `LevelsEnclose`).
* `ComparesBack` is the case distinction on whether today's bar is already there.

### MarketSyncProofs

| Theorem | States | Assumes |
|---|---|---|
| `LocksFollowRuns` | `Spec => []StateIsCoherent` | |
| `RecordedSuccessIsTrue` | `Spec => []SuccessIsAsRecorded` | |
| `HistoryHasNoHoles` | `Spec /\ []CallsAreBrief => []NoGap` | |
| `ShortHistoryHasNoHoles` | `Spec => []NoGap` | `MaxDay <= Window + 2` |

They hold for any calls, replicas, symbols, days, suspensions and batch sizes.

* `StateInv` says that a call works on the job at the head of its order, that its
  loop has a symbol left and room in its batch, and that who is inside a runner
  holds that runner's lock and nobody else does.
* `WorkInv` carries the work done through the loop: every bar owed to a symbol that
  is behind the loop is stored or written in the open transaction, and what the
  loop holds of the symbol at hand is exactly what is owed and not yet there.
* `CountInv` does the same for `inserted_rows`. The count is a SELECT before the
  upsert, so it needs that all calls are in one replica, where the runner's lock
  keeps a second count out; that condition is part of `InsertedIsCounted`.
* `GapInv` is what makes resuming after the latest bar safe. `NoGap` alone is not
  inductive: a commit of a stretch `Start..end` closes up with the stored bars only
  if the stored bars of the window have no hole either, and a call that found a
  symbol empty starts at the beginning of *its* window, not of today's.

The last point is where the proof found a limit of the code. A call that is
still in its loop more than `Window + 1` days after its end date, while another
replica fills a newer window of the same new symbol, would leave a hole between
the two, and no later run would fill it. The window of the code is years and a
call takes minutes, hence the hypothesis `CallsAreBrief`; the run `sync_safe` has a
calendar too short for it to fail, which is what `ShortHistoryHasNoHoles` uses.

### TossClientProofs

`TokenIsIssuedOnce` (`[]IssuingIsExclusive`), `OneRenewalIsEnough`
(`[]RetriesAreEarned`) and `AcceptedTokenSurvives` (`AcceptedTokenIsKept`) hold
for any requests, retries and losses. `IssueInv` adds that a valid cached token
is the newest issued and nobody is asking for another, that a token rejected on
the way stays rejected, and that every token but one has been paid for by a
loss. `RetryInv` counts, per request, its sends and the changes of the accepted
token since it began: when it is on its second token, the first was really lost.

### WebApplicationProofs

| Theorem | States | Inductive invariant |
|---|---|---|
| `ScreenerPageIsRight` | `ShownIsSelected`, `LoadingHasAnOwner`, `RunIsWaiting` | `ScreenerInv` |
| `AnalysisPageIsRight` | `AnalysisIsForSymbol`, `SpinnerIsOwned` | `ChartInv` |
| `WatchlistPageIsRight` | `ListMatchesDate`, `ListSettles` | `VisitInv` |
| `BacktestPagesAreRight`, `CacheFetchesOnce` | `PanelIsForRun`, `PanelIsServed`, `SelectionIsLastChoice`, `RowsAreThePage`, `OneFetchPerRun` | `PanelInv`, `TableInv` |
| `CookieStaysUsable`, `LoginHasOneSession` | `CookieIsUsable`, `SessionsOfALogin` | `RequestInv`, `TokenInv`, `FamilyInv` |
| `ReadersSeeOneState` | `ReadersAreConsistent` | `ReadersInv` |
| `RunsAreStoredWhole` | `StoredRunsAreSound` | `RunsInv` |
| `ChartHasEveryDay` | `ChartIsWhole` | `ChartsInv` |
| `RunIsAnnouncedOnce` | `NotifiedOnce` | `NotifyInv` |
| `WebTypeOKAlways`, `LateAnswersAreDropped`, `IndicatorsAreOwned`, `PartsKeepTheirPromises` | all invariants of the run `web`, under `WebSpec` | the above |

* The pages: the answer that may still be shown is the one whose number is the
  current one, and it was asked for with the current selection. The watchlist
  page and the table of trades have no such number in the code; their invariants
  say what an answer is for as long as requests never overlapped.
* `VisitInv` follows the only load of the watchlist page: what the history told is
  not newer than what `latest()` would answer now (`Underway`), and once it has
  answered the same holds of the label (`Labelled`). The conditions are on the
  router too: a choice that is still on its way is no label of the list below it,
  and `Labelled` says nothing of it until the URL is that date.
* Sessions, for any number of tabs and requests: the argument follows a token
  through its life. `RequestInv`: a token is presented only after its answer has
  reached the browser. `TokenInv`: once a request that presented it has been answered, the cookie has moved on, so
  two requests present one token only while both are unsettled, and then `contested`
  has it; hence the row that a pending request is about to revoke is the live one
  of its family. `FamilyInv`: at most one live row per uncontested family, none
  after a logout.
* `ReadersInv` follows a read from statement to statement: what it has found so far
  was there when it began or has been committed since, tables only grow, and if
  nothing was committed in between all its parts are of one state.
* `RunsInv` orders the steps of one request: which rows exist, which status the row
  has and which answer is possible, given how far the transaction has come.
* `ChartsInv` says that all wanted days after the cursor have been collected. The
  step that needs work is that a full page of at most `MaxCandles` bars is the
  *newest* part of what lies before the cursor, which is an argument about
  cardinalities.
* `NotifyInv` says of each delivery (`Sound`) that the attempts that left its message
  open are behind it and account for all it has posted before it succeeds.

Each of these is about one module with its own `Next`. `WebApplicationProofs` carries
them over: seen through the variables of one part, a behaviour of `WebSpec` is a
behaviour of that part, the steps of the others being stutters.

Every inductive invariant named here was checked by TLC on the instance of its run
before it was proved. Two constants got a stronger assumption than the models
needed to run: `AuthSessions` assumes a tab and a request (`AuthAssumption`), and
`WatchlistPage` a visit (`ListAssumption`): without them there is no page at all.

### Only model-checked

* Liveness (`EveryRunReturns`, `AbandonedIsRecovered`, `EveryCallEnds`,
  `EveryRequestEnds`, `EverythingEnds`): fairness is outside the prover's reach.

## Where the code and its documentation disagree

Each of the first four has a run whose counterexample shows it.

1. **A date without bars is a success, not a skip.** `_inputs()` returns an
   empty list and the run goes on to publish an empty watchlist;
   `_finish_skipped` (`pipeline/service.py:225`) is never called.
   `docs/daily-watchlist-scheduler.md:17-19` says that the run is skipped
   (`pipeline_doc_nobar`, `NoBarIsSkipped`).
2. **An overrunning owner can publish under another execution's funnel.** If a
   recovered run commits after its replacement, the items are the older run's
   while `latest_succeeded()` returns the newer row; `docs/screener-v1.md:31`
   promises the items of the authoritative execution
   (`pipeline_overrun_published`, `PublishedIsNewestSuccess`). Under the same
   assumption `OneOwner` and `TerminalIsFinal` fail too.
3. **A failed daily-bar run stays `running`.** The `except` branch rolls back
   and then reads `run.id`, which the rollback has expired
   (`sync.py:66`). `ARCHITECTURE.md:175-176` says that a failure is recorded
   and the exception re-raised (`sync_doc_failure`, `FailureIsRecorded`).
4. **A calendar day without any bar of the signalled symbols stops a portfolio
   backtest** with a `KeyError` (`backtest/portfolio.py:242`), although missing
   bars are said to be carried (`portfolio.py:4`) (`portfolio_missing_bar`,
   `MissingBarsAreCarried`).

Smaller differences met while modelling, without a run of their own:

* `docs/daily-watchlist-scheduler.md:33-34` says that a date has at most one
  running or succeeded row; since migration 0008 reanalysis adds further
  succeeded rows, and only running ones are unique.
* On the last day the portfolio mode closes every position at the close as
  `end_of_period`, even when the bar crosses the stop; the independent mode
  applies the stop. `ModesAgree` is therefore about the other exits.
* `parse()` accepts commission and tax rates whose sum exceeds one, for which a
  sale costs money; `BufferIsKept` excludes them.
* An opening price of zero is skipped as `invalid_price` by the portfolio mode
  and divides by zero in the independent one.
* Columns of a trade or snapshot are rounded one by one, so stored columns
  balance only to within one quantum (`SnapshotsBalance` states how far).
* A breakeven trade keeps both streaks in `calculate_metrics`
  (`backtest/executor.py:213`) and resets them in `analysis.py`, and the two
  sort trades that share an exit date differently. `MetricsMatchAnalysis` states
  what remains equal.

Exceptions the code makes to what a reader would expect, part of the
statements of the properties:

* *Sessions.* Two overlapping refreshes of one token both succeed and fork the
  family; a logout that overlaps a refresh, or follows a lost answer, leaves a
  live session behind (`SessionsOfALogin` excludes contested tokens and faults).
* *Readers.* `results()` may pair the funnel of one execution with the newer
  items of the next (`api/screener.py:67`). Legacy rows are served by
  `/watchlist/{date}` and refused by the results endpoint and by history once an
  execution exists.
* *Backtest runs.* `calculate_metrics` runs after the savepoint
  (`executor.py:351`): if quantizing fails there, which takes an initial capital
  of 1e20 or more, a failed run keeps its trades. A failing flush in portfolio
  mode (`portfolio.py:462`) loses the run altogether. An `execution_mode` inside
  `parameters` passes the schema (`api/backtests/schemas.py:29`), but such a run
  is never committed.
* *Screener page.* `execute()` reloads the date of the render that started it
  (`screener-dashboard.tsx:293`); retrying the bootstrap with a date selected
  shares one flag and one error with the load of that date (`:466`).
* *Watchlist page.* There is no request counter: answers of an abandoned date
  are applied (`watchlist-dashboard.tsx:24`). The old list stands as ready under a
  newly chosen date until `router.push` and the effect are done (`:28`), and for good
  if a navigation back to the same URL replaces the choice. Without a date in the
  URL label and items are answers to two GETs (`:20-23`): a publication in between puts newer items under the
  older date, and the first execution, which hides rows from before the
  executions table, can do the opposite.
* *Backtest pages.* `select()` and `created()` select their run again when its
  details arrive (`backtests-dashboard.tsx:36`).
* *Screening.* The exponential average depends on where the history begins, so
  the pipeline (the last bars it needs) and the analysis page (240 days) can
  differ in the pullback rule that uses it; `docs/realtime-stock-analysis.md:31`
  promises "the existing multi-setup screener result". `__post_init__` does not relate the
  range lookback to the long one, whose window is then cut silently
  (`swing.py:332`). Contraction and pullback can match together.
* *Technical analysis.* Before today's bar exists the 20-day range leaves out the
  last completed day (`technical_analysis.py:263`), and a single bar of today is
  compared with itself (`:259`).
* *Charts.* Only a repeated cursor is refused: cursors that are always new are
  followed for ever, and bars of pages read at different times can belong to
  different adjustments. `PagingEnds` holds because cursors are finitely many in
  the model.
* *Notifications.* A post that timed out or got a 5xx may appear twice; a connection
  that ends without a response is not retried (`slack.py:38`), and its message may
  have been posted all the same, so a delivery that is given up need not have posted
  none. The caller of `run()` waits for all retries.

## What is not modelled

* `BreakoutStrategy` and `CandidateRanker.rank`, which `main.py` does not wire,
  the engine's dispatch and the scanner's loop.
* Decimal's 28 digits; wording of messages; hashing and signing of tokens.
* Paging of the backtest lists, the create form, the comparison view, filters
  and rendering of the pages.
* The spacing of chart calls, which only delays a request, and the conversion of
  the provider's fields.
* Configuration, logging, health, the KRX universe file, migrations as upgrade
  steps, one-shot scripts and page rendering: no state changes at run time.
* APScheduler's cron evaluation: the scheduler is one more caller of `run()`.
* In `MarketSync`, revisions of stored bars: an upsert of an existing bar
  changes its prices only, which no property refers to. Delisting: the provider's
  `stock_master()` returns listed stocks only (`infrastructure/toss.py:230`), so
  the upsert never deactivates a row and the active symbols only grow.
* In `Portfolio`, the duplicate-bar error (excluded by the primary key of
  `daily_bars`) and the final flush of rows, which is a single step.

## Plan

Built so far, in this order: the pipeline with its abstract specification and
proofs; synchronisation; the Toss client; the portfolio with its first proof; the
request side (`WebApplication`) and the pure algorithms; then the proofs about
synchronisation, the Toss client, every part of the request side, the rest of
the portfolio, and every invariant of `Algorithms`. Left:

1. `ScreenerResults` over `WatchlistPublishing` by refinement instead of by its own
   publishing step.

## Running the checks

    tlasany WatchlistPipeline.tla
    tlc -workers 2 -config pipeline_safe.cfg MCWatchlistPipeline
    tlapm WatchlistPipelineProofs.tla
    tlapm WebApplicationProofs.tla

Every `.cfg` names its properties; `PROJECT.json` lists which module goes with
which configuration and what to expect. The longest run is `web`, three
to four minutes with two workers.
