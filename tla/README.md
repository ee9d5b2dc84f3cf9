# A verification project for Mercury

Mercury is a research platform for trading strategies: campaigns of backtests
run by a pool of workers over a PostgreSQL queue, paper trading by replay and
live, the monitoring of deployed strategies, the life cycle of ML models,
versioned data, and research services that search, score and promote.
The modules in this directory model its core in TLA+, TLC checks them on small
instances, and TLAPS proves theorems about them for every instance.
Every definition is translated from the code; `PROJECT.json` maps each one to
the lines it stands for.

Contents: 1 inventory, 2 plan, 3 campaigns, 4 optimization studies, 5 paper
replay, 6 live sessions, 7 strategy health, 8 ML models, 9 dataset lineage,
10 the research desk, 11 the runs that must fail, 12 worth knowing, 13 not
modelled.

## 1. Inventory

### Campaign queue and workers (`app/campaigns/service.py`, `scripts/run_worker.py`, `app/api/routes/campaigns.py`)

*State* (rows of PostgreSQL, `app/models/campaign.py`): a campaign (status,
`budget_used`, `final_conclusions`), its planned experiments (status,
`evaluation` with the optional `test_metrics`), at most one job per experiment
(status, worker, `attempt_count`, `cancel_requested`, `available_at`,
`heartbeat_at`), decision records, and the backtests that were run.

*Operations.* HTTP: create, run (with an optional batch size), cancel a
campaign, cancel a job, get the report. Worker: one transaction that recovers
expired leases, restores missing jobs, refreshes the campaign and claims a job;
a second one that executes it. Both go through SQLAlchemy sessions with
`autoflush=False`, at READ COMMITTED and without a version column, so a flush
writes the columns an object changed over whatever was committed since it was
read.

*Hard behaviours.* Workers, API requests and a finalization that any of them
may run interleave on the same rows; a handler runs for minutes without a
heartbeat, so its lease can expire under it; a crash leaves a RUNNING row; the
campaign's status, budget and report are whole-column overwrites.

*What makes it correct.* One worker per leased job, claims within the attempt
budget, an experiment decided once and tested once, the locked test split spent
only after the exploration, finished jobs never reopened, a report that agrees
with the completed experiments, and an end to every submitted campaign.

### Paper replay (`app/paper_trading/service.py`, `execution.py`, `broker.py`, `portfolio.py`, `risk.py`, `strategy.py`)

*State* (of one request): the portfolio (cash, position, average entry price,
realized profit), the list of pending orders with the bar each is due in, the
liquidity left in the current bar, the counters of the metrics, and the rows of
orders and fills.

*Operations.* Per bar: execute the due orders in list order, take the
strategy's signal on the bars before, check its order against the risk limits,
fill it at once or queue it behind the latency; at the end, the metrics.

*Hard behaviours.* Nothing runs concurrently, but orders overlap: risk is checked
at submission and fills come bars later, in parts, under three execution models;
two code paths fill orders in one bar; neither the strategy nor the risk engine
looks at orders in flight.

*What makes it correct.* Every accepted order stays in the queue until it is
filled, is filled when its latency has passed and never before, orders share a
bar's liquidity, the books balance and agree with the stored fills, and the
metrics account for every requested unit.

### Components that keep state across requests

| component | state and operations | what is hard |
| --- | --- | --- |
| Optimization studies (`campaigns/study_service.py`) | a study row and a trial for each planned experiment; create, run, cancel, get | every read derives the rows from the campaign, and a GET rolls back what it derived |
| Live paper sessions (`paper_trading/live_service.py`, `market_data/live.py`) | a session row and a thread with its own portfolio; bars, reconnects, stop | stop races the thread's status writes; a failed transaction leaves memory ahead of the rows; the process dies |
| Strategy health (`strategy_health/service.py`) | lifecycle row, observations, decisions, schedules, triggers | automatic and explicit transitions overlap; observations may be late; duplicate triggers |
| ML model lifecycle (`ml_research/lifecycle.py`, `service.py`) | models, artifact files, drift records, promotions | promotions that read the same champion; files that outlive their transaction |
| Market data and lineage (`data/service.py`, `experiments/service.py`, `research_artifacts/service.py`) | market rows, datasets, versions, Parquet files, cached features, experiments | files are written before the rows that name them, outside of any transaction |
| Strategy evolution (`evolution/`) | generations of candidates and a champion in one long transaction | market rows committed meanwhile change what later backtests see |
| Production simulation (`production_simulation/service.py`) | cycles of a research and a deployment window, the champion's lifecycle | ties, late eligibility, windows that overlap |
| Evaluation suite (`evals/service.py`) | benchmarks, workflow experiments, champions of each component | overlapping promotions update only the columns that differ from their read |
| Research workflow, memory, sources (`research/`, `memory/`, `research_sources/`) | default versions, studies, model usage, lessons, attachments | first requests race for the default rows; a node that raises; a quota counted before the insert |
| Decision governance (`governance/service.py`) | append-only decision records with hashes | part of the campaign, health and lineage steps; not a module |

### Components that compute

Their state is their argument, and what can go wrong are boundaries and leaks of
the future: temporal splits and walk-forward windows (`campaigns/splits.py`,
`walk_forward.py`), parameter search and planning (`campaigns/optimization.py`,
`service.py`), backtests and the strategy DSL (`strategy_dsl/`, `backtesting/`,
`native/`), portfolios (`portfolio/engine.py`), regimes (`regimes/`), factors
(`factor_research/engine.py`), stress tests (`stress_testing/engine.py`), as-of
alignment (`alternative_data/alignment.py`), model routing (`model_routing/`).

`PROJECT.json` lists every component with what is modelled of it, and under
`hazards` what is hard to test, line by line, with the properties it led to. A hazard
whose case every property excludes has none, and its note says what the model does there.

## 2. Plan

Done, in this order:

1. `CampaignQueue`: the campaign, its jobs, workers and requests; properties in
   `CampaignProperties`, model values in `MCCampaign`, proofs in
   `CampaignProofs` (whatever interleaves, then prompt transactions).
2. `JobQueue`, the abstract promise of a durable queue; `CampaignProofs` shows
   that the campaign implements it.
3. `OptimizationStudies` composed with the campaign, proved about in
   `CampaignProofs`.
4. `PaperReplay` on `PaperAccount`, `ReplayProperties`, `ReplayProofs`.
5. `LiveSession`, `StrategyHealth`, `ModelLifecycle`, `DatasetLineage`: one
   module each with its `...Properties`, `MC...` and `...Proofs`.
6. The research services, one module each, composed by `ResearchDesk` and checked
   together; `ResearchProofs` (the services that take steps) and `AnswerProofs`
   (those that compute an answer).

What would come next: `POST /jobs/work` (claim and execution in one session) as
an action of `CampaignQueue`; the registration of features and named
snapshots.

## 3. The campaign model

### Correspondence

`CampaignQueue` models one campaign. `db` holds the committed rows; `view[a]` is
the identity map of actor *a*'s open transaction, i.e. what it has read.
`Write`, `FlushJob` and `RecoveredCampaign` say which columns a flush writes:
those whose object value differs from the loaded one.

| code | model |
| --- | --- |
| `create_campaign` | `Init` |
| worker loop, first `with SessionLocal()` (`recover_stale_jobs`, `recover_interrupted_campaigns`, `claim_next_job`) | `Poll`, or `PollRead` then `PollWrite`, both through `PollCommit` |
| `execute_claimed_job`, lease check and first reads | `ExecStart`, `LeaseLost` |
| handler, `_raise_if_cancelled`, `_retry_or_fail`, `finally`, `_refresh_campaign_state` | `CancelBefore`, `Succeed`, `Fail`, `Interrupt`, all through `ExecCommit` |
| `_refresh_campaign_state`, `finalize_campaign`, `_run_locked_test_evaluations` | `RefreshCampaign`, `FinalizeCampaign`, `Evaluates` |
| `run_campaign`, `cancel_campaign`, `cancel_job`, `get_report` | `RunCampaign`, `CancelCampaign`, `CancelJob`, `GetReport` inside `Request`, or `RequestRead` then `RequestWrite` |
| a process or its connection dies | `Crash`, `Restart` |
| the heartbeat passes the cutoff; `available_at` passes | `LeaseExpires`, `BackoffElapses` |

A transaction is one step, or two when its name is in the constant `Slow`: a
step that reads and a step that commits. `Slow` names the assumption under
which a property holds, and most of the findings live on the other side of it.
With `"handler"` in `Slow` a lease may expire while its handler runs; without it
a lease outlasts its handler. With `Slow = {}` transactions are *prompt*.
A worker's last transaction is one step because its UPDATE of the campaign row
(the budget, `finally`) locks out the other finishers until it commits.

The data is abstracted to what the properties tell apart. Timestamps are three
booleans (due, heartbeat fresh or old). The order in which workers pick jobs is
nondeterministic, which covers every priority. Scores are a constant total
order. A backtest has three outcomes: success, a deterministic error (before or,
with a stress study, after the experiment was marked completed), a transient
error. `runtime_seconds`, rankings, portfolios, evolution and the wording of the
report are left out.

### The abstract queue

`JobQueue` says what its users may expect of a durable queue, in terms of the
state of each job, how often it was claimed and which worker holds it: one
holder at a time, at most `MaxAttempts` claims, only the holder or its death
ends a claim, waiting jobs may be withdrawn, and what is over stays over.
`CampaignProperties` instantiates it: a job's state is the status column, its
claims are `attempt_count`, and the job a worker holds is its `task`, from the
commit of the claim to the commit that ends the execution. `ImplementsJobQueue` is the
abstract specification as a property: each transaction of the code is a step of
the abstract queue or none. One poll both recovers jobs and claims one, so an
abstract step may maintain any number of jobs and start one of them.

### Runs

| run | bounds | what it shows |
| --- | --- | --- |
| `campaign_prompt` | 3 experiments, 2 finalists, 2 workers, 3 requests of every kind, batches of 1 and 3, 2 attempts, 1 crash, `Slow = {}` | `PromptInv`, `LeaseExclusive`, `DecidedOnce`, `TestedOnce`, `CompletedReportIsCurrent`, `WorkersKeepTestLocked`, `ImplementsJobQueue` |
| `campaign_slow` | 2 experiments, 2 workers, 2 requests to cancel or report, leases expire under handlers, polls commit stale reads, with a study (section 4) | `IInv`, `BudgetNeverOvercounts`, `StudyFollowsCampaign` |
| `campaign_live` | 1 experiment, 2 workers, 1 crash, 3 requests, polls and requests that commit stale reads, fairness | `CampaignSettles` |

Two workers and two experiments are the least with which a lease changes hands
while another job finishes; three experiments and two finalists make a later
finalization replace a finalist of an earlier one; two attempts give one retry
and one exhausted budget; three requests give a second batch after a report.
The liveness run has one experiment: what can keep it from settling are the two
workers that take its job from each other and the finalizations that other
polls and requests commit over theirs; a second one made it too large.
The bounds are `MaxRequests`, `MaxCrashes` and `MaxAttempts`, and everything else
is finite by construction. Workers are symmetric in the safety runs.
`campaign_prompt` and `campaign_slow` check deadlock as well: a campaign is never
out of steps, since an idle worker polls.

Outside prompt transactions TLC refutes `DecidedOnce` (two workers read the
experiment as planned), `TestedOnce` (two finalizations overlap) and
`CompletedReportIsCurrent` (an older one commits late), and the budget may lose counts when two workers finish together. `CancellationIsDurable`
fails even with prompt ones (section 11).

### Fairness

`LiveSpec` assumes weak fairness of each step of the worker loop (`Poll`,
`PollWrite`, `ExecStart`, the end of a handler): the loop has no exit besides an
exception. It assumes that a request once started commits and that time passes
(`LeaseExpires`, `BackoffElapses`). It does not assume that a crashed worker
comes back, because docker-compose.yml gives the worker no restart policy, nor
anything about which outcome a handler has. `CampaignSettles` therefore holds
because the other worker recovers the lease; with every worker dead nothing is
promised, and the bound of one crash keeps one alive.

### What is proved

`CampaignProofs` holds for all values of the constants that
satisfy `ConstantsAssumption`: any number of experiments, workers, clients, attempts,
requests and crashes, and any `Slow`.

*Whatever interleaves.* `IInv` is `TypeOK`, `Shape` (control and data agree),
`ViewsBehind` and the four safety properties. None of the four is inductive
alone: a slow finalizer stores a report computed from its reads, and a worker
writes a budget computed from its reads. `ViewsBehind` is what makes such a
write harmless: whatever an actor has read as completed is still completed, and
a budget it has read is covered by the completed experiments, even without the
one it is about to add. `ViewsStayBehind` shows that commits keep this, because
experiments never leave the completed set. From it follow `TypeCorrect`,
`SuccessIsBacked`, `BudgetIsBounded`, `ConclusionsAreBacked` and
`CompletionIsReported`.

*Prompt transactions.* The theorems from here on assume `Slow = {}`. `PromptInv` says that a job a worker has
claimed is RUNNING, its own and fresh; that an executing worker's copy of the
row differs from the committed one by a cancellation request at most; that a
claimable job has an attempt left; and that a decision exists for completed
experiments only, at most one. Then every step leaves finished rows alone
(`FinishedStay`), and `LeasesAreExclusive`, `AttemptsAreBounded`,
`DecisionsAreUnique` and `FinishedJobsAreFinal` follow.

*The job queue.* Initial states map to initial states, and `PromptInv` makes every
step an abstract step or a stutter. The lemmas go by what a transaction does to the rows: a claim's row
is due and has attempts left, a recovered row is old and so held by nobody who
could still commit, and the copy a worker ends its claim with is the committed
row. The theorem is `QueueIsImplemented`.

*The locked test split.* `EvaluationInv` says that the test
metrics on file remember every evaluation, one for each tested experiment, and
that a campaign shown as completed reports all its completed experiments and has
tested all its finalists. It needs `PromptInv`: a finalization evaluates the
finalists without test metrics, and with current reads those are the ones never
evaluated. `TestsAreUnique`, `ReportsAreCurrent` and `TestStaysLockedForWorkers`
follow, the last because a refresh finalizes only when no job it sees is active,
and a prompt refresh sees the committed rows (`SeenIsRecovered`).

*Model-checked only:* `CampaignSettles`, since liveness under fairness is out of
the prover's reach.

## 4. Optimization studies

`OptimizationStudies` extends `CampaignQueue` by the row of a study and its
trials. `StudyRun` and `StudyCancel` are the campaign's own requests followed by a
synchronisation they commit; `Shown` is what a GET derives and rolls back.
`SyncedTrials` and `SyncedStudy` translate `sync_study_trials`: a completed
experiment makes its trial VALID or REJECTED, a cancelled campaign prunes the
others, and a failed campaign leaves the study as it was. The score of a trial
is reduced to being set.

`StudyFollowsCampaign`, in `campaign_slow`: whatever the rows lag behind, what a
request shows agrees with the campaign: a trial has a verdict exactly when its
experiment is completed, a study is COMPLETED exactly when its campaign is and
then has a report, and a trial is pruned or a study cancelled only if the
campaign was ever cancelled. The history variable
`wasCancelled` is needed because a campaign can leave `cancelled` again.

*Proved* (in `CampaignProofs`): the study's requests change the campaign as its own run and cancel
do, so `StudyKeepsCampaign` carries `IInv` over. `StudyIsFaithful` proves
`StudyFollowsCampaign` from `StudyInv`, which says what the stored rows owe to the
campaign (a scored trial's experiment is completed, a pruned one presupposes a
cancellation), and from `NextKept`: no step of the campaign, however stale its
reads, takes back a completed experiment or its report. It holds for any number
of experiments, workers, requests and crashes.

## 5. The replay model

### Correspondence

`PaperAccount` holds the pure functions (strategy sizing, risk, execution,
booking), `PaperReplay` the loop of `create_session`.

| code | model |
| --- | --- |
| `HistoricalReplayStream.events`, next iteration | `NextBar` |
| split of `pending_orders`, the loop over `due_orders` | `Due`, `IsFirstDue`, `ExecuteDue`, `Postpone` |
| `PaperBroker.execute`, `_execute` | `FillQuantity`, `FillPrice`, `Fill`, `Traded`, inside `Execute` |
| `MovingAverageSignalStrategy.on_market` | `Trends`, `Direction`, `IntendedQuantity` |
| `RiskEngine.check`, `_rejection_reason` | `Passes`, `Accepted`, `EstimatedCash` |
| what follows the signal, to the end of the bar | `Hold`, `Reject`, `Defer`, `FillAtOnce` |
| `Portfolio.apply_fill` | `Bought`, `Sold`, `ApplyFill` |
| the metrics, the returned row | `Complete`, `Completed` |

`phase` is the point of the loop: between bars, or executing due orders. A bar
is its open and the quantity that `volume * max_participation_rate` lets trade;
`remaining` is `remaining_liquidity`. `orders` is the table of orders;
`booked` is what the properties need of the table of fills: the quantity filled
in this bar and the fees paid on buys.

Abstractions. Quantities and money are integers in units of the eighth decimal
the code rounds to, rates are percentages and divisions round down. The
comparison of the moving averages is free from the bar after `slow_window` on.
The square-root impact is any member of `Impacts`. A replayed bar has no bid or
ask, so the quote is the synthetic one. The close of a bar only enters the
averages and the snapshots, and is left out with them. The position carries its
book cost instead of the average entry price, so a partial sale releases a
proportional cost. The exception branch is left out: the one exception of the
order path, execution.py:174, cannot occur (`QueueIsOpenOrders`).

The model takes it that `_persist_order` updates the row it merged before. That
is so in the session of the unit tests; `SessionLocal` turns autoflush off, and
then `merge` does not see a row that was not flushed. What the library does
there is outside the repository and was not run; it deserves a look.

### Run

`replay` checks `ReplayInv`, `QueueIsOpenOrders`, `BooksBalance`, `LimitsHoldAtFill`,
`FilledOnTime`, `MetricsReconcile`, `NoLookahead`, and that there is no deadlock.
Its bounds: latencies 0, 1 and 2, opens 100 and 200, liquidity 0 to 2 against a
position limit of 3, rates of 10 per cent, two bars of warm-up and seven bars
(`MaxBars`). Five bars after the warm-up let a buy be partially filled, its
remainder postponed by a bar without volume, and two exits overlap; a latency of
2 puts two orders in flight under every model; a liquidity below the position
limit makes fills partial; the cash of 600 is close enough to its orders that
both cash and limits reject some.

Several properties state the case in which the code keeps them, and the case is
part of what they say. `Plain` (no liquidity limit, latency at most 1) is where at
most one order is in flight; outside it books and position diverge as
`position_diverges` shows. `NothingDropped` leaves out an immediate order that
meets a bar without volume, which the code forgets (service.py:236).
`LiquidityShared` leaves out the immediate path, and `LimitsHoldAtFill` is about
immediate ideal fills, the only ones priced as the risk engine assumed.

### What is proved

`ReplayProofs` holds for all rates, limits, prices, volumes, latencies and any
number of bars. Neither `LiquidityShared` nor `BooksBalance` is inductive.
`ReplayInv` adds `LiquidityAccounted` (what a bar has filled and what remains
make up its liquidity), and `InFlight`: with plain fills at most one order is
pending, it is due in the next bar, and a sale is for exactly the position. So a
sale never meets the clamp of `apply_fill`, and `SoldBalance` shows that it then
turns book cost and profit into cash, whatever the price. `ExecuteEffect` carries
this through the execution of an order and is shared by `ExecuteDueInv` and
`FillAtOnceInv`. The theorems are `ReplayInductive`, `LiquidityIsShared` and
`BooksAreBalanced`.

`QueueInv` is about which orders the queue holds and when. `QueueIsOpenOrders` is
not inductive without `OrdersAged` (an open order has something left, so an
execution that fills all of it may take it out) and `QueueScheduled` (an entry is
due when its latency has passed, and between bars none is overdue). The lemmas
`RemoveQueued` and `AppendQueued` say what taking one entry out, or adding one,
does to the set of queued orders, and each action has one lemma on top of
them. From `QueueInv` follow `NoOrderIsLost`, `FillsAreOnTime` and the action
property `NoOrderLooksAhead`.

`LimitsAreHeld` (cash and position limits where orders fill at once at the mid)
assumes `UsualRates`: commission and slippage of at most 100 per cent. The
request schemas only ask for rates of at least zero (paper_trading/schemas.py:23),
and above 100 per cent a sale costs more than it brings in, which the risk engine
does not check; TLC finds the negative cash when the run's commission is set to
250. The other theorems need no such assumption.

`MetricsAddUp` proves `MetricsReconcile`, which adds up the orders by two folds over
sets. The prover has no induction over a fold, so `MetricsInv` counts instead:
a sum over the orders is the number of their units, pairs of an order and one of its
units (`UnitsOf`), and the library has the cardinalities of sets. What the
orders asked for is then what was filled and what the queue still holds, and each
step moves one block of units from one side to the other.

*Model-checked only:* nothing of this section; that the replay ends and never
deadlocks is the run's.

## 6. Live sessions

`LiveSession` models the thread of one session, the feed, the request that stops
it and the rows both write.

| code | model |
| --- | --- |
| `create_session`, start of the thread | `Init`, `Start` |
| `run`: the loop, its reconnects, its end and its failure | `Connect`, `LeaveLoop`, `Disconnect`, `StreamEnds`, `Reconnect`, `Finish`, `RecordFailure` |
| one bar: the timestamp check, the limit, strategy, order and commit | `Receive`, then `Trade`, `StrategyError` or `LoseBar` |
| `stop_session`: set the event, join for five seconds, read and write the row | `StopAsk`, `StopRead`, `StopWrite` |
| the process dies | `Die` |

Rows of a transaction that fails are rolled back (`Fails`), `memory` is not: the
counter of events and the portfolio move on. A feed restarts wherever it likes.
Orders fill at once, so the portfolio is the number of its open positions and
the stored fills add up to `row.net`.

Run `live` (2 events, 1 reconnect, a feed of 4 bars, 2 faults, 2 drops, 2 stops):
a limit of two leaves a bar to lose and one to record, and two of every fault
allow a second one during the handling of the first. `LiveInv`: the limit is
kept although lost bars count, and the position on file strays from the one in
memory by one for each lost transaction at most. `MarketRowsInOrder`: no bar is
recorded twice or out of order over reconnections. `StoppedForGood` (liveness):
a session asked to stop ends for good, whatever the thread writes after the
request gave up waiting, unless the process died. `CHECK_DEADLOCK FALSE`,
because a session really ends.

*Fairness.* The thread runs on (weak fairness of `Runner`), but in `stream` only
once the event is set: a silent feed may never deliver a bar, but the
adapter polls the event (`market_data/live.py`). A stop request that was started
finishes. No fairness for deliveries, drops, faults or stop requests.

*Proved* (`LiveProofs`, for any limit, feed and bounds): `LiveIsBounded` and
`BarsAreInOrder`. The inductive invariant says where each bound comes from: a bar
in hand is counted but not yet recorded (`Counted`), a bar recorded at the limit
has set the stop event, after which no bar is taken in hand, and the memory of
the thread is never older than its rows (`Ahead`).
`StoppedForGood` is model-checked only, liveness like `CampaignSettles`.

## 7. Strategy health

`StrategyHealth` has one strategy, and every request is a step that reads and a
step that commits. `Flush` writes the columns that differ from what was read, which
is how two transactions can each write one of two columns; `overwritten`
remembers that a commit hit a row it had not read, and properties that hold only
without one say so. `RecordObservation` (with `AssessHealth` and the triggers of
event schedules), `Transition`, `CreateSchedule` and `RunDueSchedules` are the
four operations, `Abort` a transaction that fails, `NextDay` the calendar. A
window is reduced to the flags it raises; windows arrive in any order.

Run `health` (2 clients, 4 requests, five kinds of window, 2 timestamps, a hybrid
schedule with a cadence of 2, 3 days): two clients are the least that overlap,
four requests allow two poor windows, a transition and one that races it.
`HealthInv` (the ledger of decisions explains the state, and the lifecycle
agrees with it until a commit overwrites an unread row), `DegradedTwice` (never degraded on a first poor window, late
windows included), `RetiredForGood` (action property), `CadenceKept` (one trigger
a day, and no review before its cadence).

*Proved* (`HealthProofs`, for any clients, windows, requests and days and any finite
set of schedules): `HealthIsExplained`, `DegradationIsConfirmed`,
`ReviewsKeepTheirCadence` and `RetirementIsFinal`. `HealthInv` is inductive because of
two conjuncts that the properties alone lack: `ReadsBehind` (what an open
transaction has read is a prefix of what is committed, so what it concludes from
two poor windows still has them) and `ReviewsDated` (`last_run_at` is never before
a review it counts, so a schedule that is due was not reviewed within its cadence).
A commit over a row its transaction had not read sets `overwritten`; the steps
that do not are the ones `Flush` applies to exactly what was read, which is where
the proofs split.

## 8. ML models

`ModelLifecycle`: `Begin` reads, `Persist` writes the artifact of an evaluation or
a retraining, `RecordDrift` and `DecidePromotion` are the other two operations,
`Commit` and `Abort` end a request. The file stays when the transaction does not
commit. A training is reduced to its artifact and whether it raises a flag.

Run `model` (2 clients, 3 keys, 4 requests, results that share a checksum and
differ in their flag, drift windows at two times, three kinds of evidence):
three models let one champion be superseded by another whose own promotion
overlapped a third. `TitlesFollowPromotions`: the statuses can be rebuilt from the
promotion rows, unless promotions overwrote each other. `ModelInv`: a row's
artifact is on disk and is its own, and no single window makes a retraining
eligible; that the two need not be consecutive is in section 12.

*Proved* (`ModelProofs`, for any clients, keys, artifacts and requests): `RegistryIsSound`
and `TitlesAreExplained`. `ModelInv` is inductive thanks to `ReadsBehind`: the
request was accepted on what it read, what it read is still in the registry, and
the artifact it wrote before its commit is still its own, because the path names
the checksum (`PathNames`) and no request writes another artifact to it. The
titles need `RowsAgree` besides: promotions name registered models.

## 9. Dataset lineage

`DatasetLineage` follows a backtest through its statements, because the order of
file writes and row inserts is the point: `ReadMarket`, `FindDataset`,
`CreateDataset`, `FindVersion`, `TakeNumber`, `WriteVersion`, `InsertVersion` for
one that reads market rows, `ReadVersion` for one on a stored version,
`Materialize` and `InsertCache` for its feature, `Record` for the experiment.
`Ingest` commits market rows at any point, `Fail` rolls back rows and leaves
files. An insert waits for an open transaction with the same unique key and
fails if that commits. `ReplayedBars` and `Differences` are the reproduction of
an experiment. A checksum is named by the data it is taken of; hash collisions
are left out. `Writers` are the sessions that make versions.

Run `lineage` (2 sessions, one of them a writer, 3 days in overlapping windows, 2
dataset ids, 3 versions, 3 experiments): three days give two windows that share
a bar and data that measures the same although it differs; the second id is for
a dataset whose first insert was rolled back. `StoredDataIsImmutable`,
`LineageInv` (versions numbered without a gap and distinct) and
`ReproductionIsFaithful`. With two writers the first fails (section 11).

*Proved* (`LineageProofs`): `VersionsAreImmutable` and `ReproductionsAreFaithful`,
for any days, readers and failed transactions, under `OneWriter` (at most one
session makes versions), the assumption the violation run shows to be
needed. The inductive invariant says what each point of a transaction knows:
the number it took is not a committed one, hence the file it replaces is no
version's; and the frame it computes a feature from is the file of the version
it has read.

`VersionsAreNumbered` proves `LineageInv` under `OneWriter` as well, from
`NumberingInv`: from the point where it has found its dataset, the session that
makes versions works on the committed dataset or on the first one, its data is
that of no version, and the number it took follows all the others. A new version
therefore extends `1 .. Cardinality(versions)` by one (`NumbersOfDataset`), which
the library's facts about cardinalities settle without an induction.

## 10. The research desk

`ResearchDesk` composes the research services. A behaviour is about one of them:
a question and its answer, for the ones that compute, or a run of steps. One run,
`research`, puts every question of a small instance to each service and explores
every behaviour of the others (about 640,000 states); its questions are in
`MCResearch`, chosen so that every branch of the code is taken.

| module | what it translates | property |
| --- | --- | --- |
| `TemporalSplit` | `build_split`, walk-forward windows, the rows a model is fitted to, as-of alignment | `TestStaysLocked`, `NothingLooksAhead` |
| `StrategyRules` | validation and evaluation of DSL strategies, the positions and trades of a backtest | `NothingLooksAhead`, `SeriesAreCut` |
| `Portfolio` | aligned dates, rebalancing, the data each weight comes from | `NothingLooksAhead` |
| `Regimes` | the window of a label, runs of equal labels, robustness flags | `NothingLooksAhead`, `SeriesAreCut`, `EvolutionKeepsBest` |
| `FactorResearch` | scores, composites, ranks, weights, neutralization | `NothingLooksAhead`, `WeightsAreBalanced` |
| `StressPaths` | scenarios, block bootstrap | `NothingLooksAhead` |
| `ParameterSearch` | spaces, constraints, grid, random, spread and optimizer, the plan of a campaign | `SearchStaysInBudget` |
| `ModelRouting` | evidence, utility, budget, fallbacks | `RoutingKeepsBudget` |
| `Evolution` | generations, champion decisions, survivors and mutants; `MarketRowsChange` | `EvolutionKeepsBest` |
| `ProductionSimulation` | candidate selection, cycles, handovers, stop on drawdown | `ChampionsNeverReturn` |
| `WorkflowPromotion` | benchmarks, contests, promotions in a read and a commit | `PromotionIsEarned` |
| `ResearchEvidence` | default versions, retrieval, the nodes with their model calls, study, usage, lesson; attachments and their quota | `EvidenceIsWhole` |

The series are kept as short as a boundary needs: a window, one element before it
and one after. A backtest is asked about at fees and slippage of 1, 100 and 150
per cent, so that a sale brings cash, nothing, or less than nothing. Where a
computation is floating point, the model keeps which data it is computed from: a
regime's label *is* its window, a weight *is* the set of periods it comes from.
`NothingLooksAhead` then says that an answer does not change when what comes later
does, which is checked by asking the same question about a prefix. Evolution has
three generations, since the second mutates mutants; promotions have two sessions,
three versions of two components and three promotions, so that one overlaps
another and a third follows; research has two desks, two studies and five
documents under a quota of two documents and three bytes. `CHECK_DEADLOCK FALSE`:
a question is answered once.

### What is proved

*Promotions* (`PromotionsAreEarned`, for any versions, rules and sessions). The
inductive invariant adds what a session holds between its read and its commit: the
experiment it has read stays won, and the champion it has read was earned and has
been replaced at most.

*Evidence* (`EvidenceIsComplete`, for any desks, documents and quota).
`EvidenceInv` says that the committed rows are exactly what the committed studies
account for, usage and lessons included, and that what a session holds is what it
has seen of them. The quota needs more: several sessions attach to one study at a
time, and each checks what it has read, so one of the open sessions still has room
for its document in the quota that all together may exceed. Bytes are counted as
units, as the orders of the replay are.

*The test split* (`TestIsLocked`, for any dates given or derived): no induction
over the windows is needed, since every window is placed by its index
(`SplitIsAnswered`).

*Simulations* (`ChampionsAreFinal`). `SimulationInv`: the deployed candidate
was eligible when it was chosen and stays so, because eligibility only grows with
time, so the next choice is the same candidate or one with a higher Sharpe ratio.
Every other version with an event was listed with a lower one. So a version that is
listed once (`ListedOnce`) and was replaced is never chosen again.

*Evolution* (`EvolutionIsMonotone`, for any population, scores and generations).
`EvolutionInv` carries the frame of a generation: it is bred from the one before
and starts with the best of that one. Ranking is a sort; `RanksAreTaken` is
what the proof needs of it: in a strict order of a finite set every rank is taken,
so the sorted sequence leaves nobody out.

*Answers* (`AnswerProofs`). `AnswersAreComputed` says that an answer given is what the
service computes of the question asked, which every step keeps. The rest is about
the pure functions, for series of any length. Most are recursive functions of
the bar; the prover has no induction over an operator, but it has a least element
of every set of numbers. `Induct` turns that into an induction over a set of
positions, `Iterates` shows that the recursive functions exist, and with
them two that agree at their start and in their step agree everywhere.

- `AnswersKnowNoFuture` (`NothingLooksAhead`): a release is found in time
  (`FoundInTime`), and positions, scores, regimes, weights and stressed paths are
  those of the prefix (`TradedInTime`, `ScoredInTime`, `LabelledInTime`,
  `HeldInTime`, `ChargedInTime`), because the windows they compare are
  (`WindowsAgree`) and a condition holds alike when its comparisons do (`HoldsAlike`,
  whatever it nests). A block of the bootstrap keeps the order of its days
  (`BlocksInOrder`).
- `SeriesAreCovered` (`SeriesAreCut`): `AccountHolds` is the loop invariant of the
  backtest. The requests bound neither fee nor slippage, and the theorem holds for any:
  below 100 per cent each (`UsualCosts`) an account is in the market exactly when its
  position says; from there on it may be out against its position, but only after a sale
  and without cash (`Stranded`), and after one round trip for good when sales lose money
  (`OnceAround`). The sign of what a sale brings is all that is kept of its amount
  (`ProceedsSign`). `ScanHolds` is the invariant of the regime scan: the runs closed
  so far cover the bars up to the start of the open one, each ends where the next
  starts and has another label.

- `RoutingIsSound` (`RoutingKeepsBudget`): the best of a set of models is in it and none
  of it is worth more (`BestIsBest`), and a chain ends at its first answer or at its
  first error that the next model may not mend (`ChainEnds`). A measured model outbids
  one without results (`MeasuredOutweighs`) only under `UsualCalls`, the hypothesis of the
  theorem: at most 500 dollars for a thousand tokens and five minutes for an answer.
  The code bounds neither, and a cost or a latency high enough makes the router prefer
  the model nobody measured; the questions of the run are far below.

- `SearchIsSound` (`SearchStaysInBudget`): what is picked at some positions of a list is
  each of them once (`PickedItems`), so a list without its repeats has all its items
  (`UniqueItems`). Picks of a spread are more than one candidate apart before they are
  rounded, so they are different after it, and the first and the last are the ends
  (`RoundsApart`, `PicksSpread`). A plan is a table read row by row (`RowAndColumn`):
  the symbol changes only at the end of a row (`PlanHolds`).

- `WeightsAreSound` (`WeightsAreBalanced`): the ranks are those of a strict order
  (`RanksAreSound`, with `RanksAreTaken`). Sums are recursive functions over the
  positions of a list: one that has the better parts is larger (`TotalGrows`), and a sum
  is linear in its parts (`TotalIsLinear`), which is why what neutralization takes from
  a sector, the mean as often as it has positions, is what was there
  (`SectorsAreNeutral`). The quantile of a rank is a quotient that grows by less than one
  from rank to rank while there are as many assets as quantiles (`QuantilesCover`).

The assumptions say what a request is after validation: dates are days
(`SplitsAssumption`), releases are finitely many (`ReleasesAssumption`), closes are a
sequence and windows are numbers (`SignalsAssumption`; the schema asks for 2 at
least), a regime looks back at one bar or more (`SeriesAssumption`;
regimes/schemas.py:13 says 3), a block is no longer than its path
(`StressAssumption`; stress_testing/engine.py:84 rejects others), documents have
a largest size (`EvidenceAssumption`), the first population is not empty and
valid (`EvolutionAssumption`), candidates are a finite list (`RequestsAssumption`),
models come in the order of their registration and every call of one has an outcome
(`RoutingAssumption`), a space is a list of parameters with a list of values each
(`SearchAssumption`), an asset scores a number or nothing, weights are numbers and
not all zero, and a bucket holds half of the assets at most (`WeightsAssumption`;
factor_research/schemas.py:37, engine.py:159-161; `NoScoreAssumption`).
TLC evaluates them on the questions of the run. `MaxNesting` bounds how deep a
condition nests, in the model and so in the proofs: three levels.

Every invariant of this run is proved; the instance of TLC shows that the questions it
asks reach every branch, and the mutants that each invariant can fail.

## 11. Runs that must fail

Each shows one statement of the documentation that the code does not keep.

| run | statement | what happens |
| --- | --- | --- |
| `cancelled_reopened` | docs/workers.md: "Cancellation is durable" | the worker of a running job writes `running`, `failed` or `completed` over `cancelled` |
| `position_diverges` | docs/paper_trading.md: the tables "store the reconstructable execution record" | two exits in flight sell one position twice, and the stored fills no longer add up to it |
| `dataset_overwritten` | docs/data.md: a version is "a validated, checksummed Parquet snapshot" | two sessions take the same version number; the one whose insert fails has already replaced the file of the other |

## 12. Worth knowing

Behaviour met while modelling that the models keep, or leave aside as noted, and
that no run is about. None of it was executed; each is a reading of the code.

*Campaigns.* A report request that overlaps the finalization of the last job
evaluates the finalists a second time (docs/campaigns.md:33 says "on the test
split once"), and commits a report of fewer experiments if it read them earlier.
One that comes early finalizes a campaign that still has active jobs and so
unlocks the test split (docs/campaigns.md:32). A worker that lost its lease writes
RETRYING over a successor's last attempt, and a stress study that raises after the
experiment was marked completed leaves a failed job with a completed experiment
(docs/reliability.md). A cancel request that meets a transient error leaves a
RETRYING job nobody may claim. A campaign all of whose jobs were cancelled stays
`running`, and every poll finalizes it again with a new decision. Recovery creates
jobs for planned experiments that a `run` with a batch size left out. A request
that repeats a symbol repeats idempotency keys.

*Studies.* The stored status is never COMPLETED, and a run after completion
stores RUNNING. A failed campaign leaves its study RUNNING, and no trial is ever
FAILED (docs/optimization.md:46). A PRUNED trial may still complete. The trial
budget is per symbol. The grid takes the first `max_variants`, and `as_dict` of
a numeric parameter cannot be parsed again. The study and the fitness of an
evolution read a walk-forward key `consistency`; the aggregate writes
`return_consistency`.

*Paper trading.* The remainder of a buy and a new exit of one bar are each filled
from the whole cap (docs/execution_model.md). An immediate order that meets a bar
without volume is forgotten (service.py:236). A replay that raises is marked failed
in the transaction its route rolls back (service.py:294). `orders` counts fills
and rejections; the estimate of the cash leaves out spread and impact. A live
stop writes STOPPED and the thread may write another status after it before it
ends (docs/live_execution.md:56).

*Health and models.* A window with a small sample lifts a suspension
(docs/strategy_lifecycle.md:21). A window whose request read the strategy before
it was retired writes its state over the retirement (the same line: "cannot be
automatically reactivated"); other requests that overlap may leave the state of
one beside the lifecycle of the other. Drift windows need not be consecutive
(lifecycle.py:110, docs/ml_research.md:18). Promotions that overlap may leave a
champion that a promotion has superseded. Labels of training rows may fall into
the validation period.

*Data.* A feature whose file is lost is recomputed and then fails on its unique
key, every time. A registered feature version is returned even if the
implementation differs. A second artifact of one campaign meets the unique key.

*Research services.* A backtest at a fee or a slippage of 10000 basis points or
more, which schemas/experiment.py:17-18 admit, has no cash after a sale, so
engine.py:76 skips its later purchases while the equity curve goes on. The first
weights of a portfolio use the whole sample (portfolio/engine.py:80-82), a
rejected rebalance counts as turnover, and dynamic weights are not validated. A
regime's `end` equals its start (regimes/engine.py:94), and labels with another
lookback replace those of the same version. Top and bottom quantiles of an odd
universe overlap. The first champion of an evolution bypasses the blocking flags
(docs/evolution.md), a memory hint of volatility stops the mutation of windows,
and an empty population raises an IndexError. A simulation's session starts with
the research window (production_simulation/service.py:78;
docs/production_simulation.md:10 says "unseen deployment interval"), and a failed
one is rolled back by the route. A replaced workflow champion keeps its status, an
old experiment can promote again, a version may be compared with itself, the
baseline need not be the champion (evals/service.py:141-168), and overlapping
promotions can leave one version with another's experiment. A node that fails
rolls back the usage of its calls (docs/model_routing.md: "Every call is
persisted"). First requests race for the default versions, and the loser gets an
uncaught IntegrityError. Overlapping attachments can exceed the quota. A spread
samples the grid with its repeats, and so may return fewer variants than asked for
while there are more (optimization.py:185-188).

## 13. Not modelled

- `POST /jobs/work` (a development helper that claims and executes in one
  session), `heartbeat()` (no caller in the worker loop), two workers under one
  name, and row-lock deadlocks between a finishing worker and recovery, which are
  below the grain of a transaction per step.
- `GovernanceService` as a module of its own: its records are counted where they
  are written. Hash chains, and whether two payloads have one hash, are data.
- Floating point: metrics, scores, statistics, allocation rules, path metrics and
  embeddings. The models keep which data they use and how results are compared.
- The fallback executor and the escalation policy of model routing have no caller
  besides tests; the chain is modelled, the policy is not. `kill_action`
  PAUSE and FALLBACK_TO_CASH do nothing in the code. Triage of research ideas
  (`research_intelligence`) has no caller.
- Research artifacts' rendering, dashboard, observability, read-only routes,
  migrations and the frontend: views without a protocol.
- Providers, network and file system faults below "the transaction fails".
