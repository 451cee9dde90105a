# Verification of the cross-market quant platform

TLA+ models of the platform, the TLC runs that check them on small instances, and TLAPS proofs of
their main properties for every value of the constants. The reference is always the code; source
paths below are relative to the repository root. `PROJECT.json` lists the components, runs, hazards,
theorems and, for every definition, the source lines it stands for.

Contents: 1 inventory, 2 the modelled components (module, properties, bounds, proofs), 3 proofs in
general, 4 what the code says and does not keep, 5 what is not modelled, 6 plan.

## 1. Inventory

| component | state it keeps | operations | what is hard | modules |
|---|---|---|---|---|
| strategy governance (`packages/strategy_governance`, `packages/persistence/strategy_governance.py`) | rows of strategy versions, change requests, evaluation runs, promotion decisions, audit events | propose, validate and derive, evaluate, transition, roll back | a call is several transactions; evidence is read before the state is changed; calls may be lost between two of them | `StrategyGovernance`, `StrategyPolicy`, `StrategyLifecycle`, `ParameterSchema` |
| model registry and daily promotion (`packages/persistence/repositories.py`, `packages/models/registry.py`, `scripts/daily_top10_forecast.py`) | model rows, artifact files | register, attach artifact, transition, look up PRODUCTION, train and promote | row and artifact are two stores; check and update are two transactions; two processes | `ModelRegistry`, `ModelRules`, `ModelLifecycle` |
| admin tools (`apps/quant-admin-mcp/tools.py`) | registry, pending promotions, job cache, kill switch (memory); jobs, audit log (durable) | register, shadow, request/approve promotion, promote, roll back, kill switch, jobs | requests approved late; two paths to the same transition; a restart forgets half of the state | `AdminTools` |
| automation (`packages/automation`) | last retraining per model (memory) | retrain on drift, guard the IC, review the week | swallowed errors, artifact and record out of step | `Automation` |
| daily-bar ingestion (`packages/ingestion`, `sql_bar_repo.py`, `data_quality`, `apps/worker/tasks.py`) | bar rows, watermark | one call: read mark, fetch, check, upsert, advance | rows and mark are two stores; overlapping calls, retries, lost calls, revised and unordered bars | `Ingestion` |
| point-in-time stores (`data_sources/sql_repos.py`, `sql_bar_repo.py`, `packages/fundamentals`, `packages/instruments`) | dated rows with the moment they became available; instruments and alias intervals | write a batch, read as of a moment, add an alias, resolve | restatements, backfills, an upsert that deletes what refers to the row | `ReferenceData` |
| features and labels (`packages/features`, `packages/labels`) | none | compute a feature set as of a moment, forward return | look-ahead; missing values | `Features` |
| inference, read tools, API (`packages/inference`, `apps/quant-read-mcp`, `apps/api`) | none | forecast, batch, screen, admit, resolve, evaluate a proposal | order of the refusals; one instrument failing many; what the caller claims | `Serving` |
| paper trading (`packages/ledger_paper`, `packages/broker`) | journal, balances, positions | deposit, apply a fill, run a cycle, value, reconcile | orders sized once and placed one by one; a refusal after posting; rounding | `PaperTrading`, `LedgerAccounts` |
| risk engine and proposals (`packages/risk`) | none | layers in order, smaller weight by bisection | short-circuit, monotonicity, boundaries | `RiskPolicy` |
| portfolio builder, currency conversion (`packages/portfolio`, `packages/fx`) | none, dated rates | weights from scores, exposures, convert as of a day | inverse and missing rates, limits | `PortfolioBuilder` |
| backtest and execution (`packages/backtest`, `packages/execution`) | none | fill an order, walk a signal over bars | trading on what was not known | `Execution` |
| corporate actions (`packages/corporate_actions`) | none | adjust a series backward or forward | ex-dates without a bar | `PriceAdjustment` |
| shadow tracking and drift suspension (`strategy_governance/shadow.py`) | predictions and their outcomes | record, settle, track record, suspend | late settlement; a verdict on an old record; a failed suspension | `ShadowTracking` |
| factor governance (`service.py:476-583`) and the evaluator (`evaluator.py`, `packages/datasets`, `packages/training`) | factor versions | register, retire, available at a date; nested folds, purge and embargo | factors change while an evaluation runs; look-ahead at the boundary of a window | `FactorGovernance`, `WalkForward` |
| metrics (`packages/evaluation`, `packages/drift`, `models/isotonic.py`) | none | IC, drawdown, calibration, gate, drift levels | loops that edit several lists in step; ties | `EvaluationMetrics` |
| model families (`models/regime.py`, `rule_gated.py`, `gbm_scorer.py`, `ranker.py`) | fitted thresholds and stumps | fit, classify, gate, rank | missing features, ties, what the model behind a rule may answer | `ModelFamilies` |
| scheduler (`apps/scheduler`, dispatch in `apps/worker`) | last run per job, run history (memory), RQ queue | due check, run with retries, enqueue | restart, overlong runs, failure of one job among many | `Scheduler` |
| other learners, adapters, calendars, reporting, observability, HTTP plumbing, common types | none of their own | numerical learning, network I/O, rendering, parsing | – | – |

How they interact. The scheduler dispatches worker tasks, which call ingestion, inference and
evaluation; the admin API calls ingestion directly, so two callers may work on one instrument. The
admin MCP server owns an in-memory model registry and calls the governance service; the automation
calls the admin tools; the daily script and the inference service share the SQL model registry. The
drift suspender calls the governance service; the evaluator reads its factors. Ingestion fills the
bar table that features and forecasts read as of a moment. Paper trading takes its signals from
inference and its prices from the bar repository. Shared state is always one of: the database (rows
changed by single transactions), the memory of one process, or files (artifacts, reports).

What makes each component correct is stated as the properties of its module in section 2; the
hazards behind them are listed in `PROJECT.json`, each at its line.

## 2. The modelled components

Conventions. One module per component, one action per operation or, where an operation is several
transactions, per transaction, with a program counter per caller. A component without state is a
module of operators. Operators named `X_Something` stand before `X` and are plausible bugs in it; the
properties have been seen to fail with each of them. Floats are exact integers or fractions
(`<<numerator, denominator>>`) wherever a property depends on the number.

`MC*` modules give constants, inputs and symmetry. Some of them put parts that share no state into
one run: a behaviour picks its part in the first state (`focus`, `trading`) and the others stay at
rest, so the run is the union of the parts and not their product. An algorithm is a step that
picks one input (`job`), and its property compares what the code computes for it with a reference
definition. Deadlock is not checked: callers may stop calling, and every model is bounded by a number
of calls.

### Strategy governance

`StrategyPolicy` has the transition table and the guards of `policy.py`. `StrategyGovernance` is the
service over its repositories: `LoadRequest`, `SaveVersion`, `MarkValidated`, … are the transactions
of one call; `Crash` loses a caller between two of them. `StrategyLifecycle` is the abstract promise:
a version moves along the allowed edges in single steps and needs evidence to enter SHADOW, CANARY
or PRODUCTION and an approval to enter PRODUCTION. `ParameterSchema` is the whitelist of `policy.py`
and its readable diff of two parameter sets.

* `governance_calls`, a version's life (two callers, one version, two evaluation runs): no update is
  lost (`OneMovePerState`), the evidence stands although it is read before the state is changed
  (`EvidenceOnRecord`), a decision names the evidence it was taken on (`DecisionNamesItsEvidence`).
* `governance_calls`, lineage (two labels, two requests, valid and invalid parameters, concurrent
  derivations): no version descends from itself (`LineageAcyclic`).
  The constraint `Focus` of `MCGovernanceCalls` keeps the two situations apart.
* `governance_crash` (two callers, one lost): once no call is under way the decisions explain the
  state unless a caller was lost (`HistoryExplainsState`), the service refines `StrategyLifecycle`,
  and liveness `EveryMoveIsRecorded`: a state entered gets its decision row unless a caller was lost.
  Fairness: `WF_vars(Continue(c))` for each caller: a Python call that has begun runs on; nobody is
  obliged to start a call. No symmetry there, as it is not sound for liveness.
* `governance_label_reuse` (violation): see section 4.
* in run `research`, `ChangesAreExplained`: parameters that pass the whitelist are declared, complete
  and in range; the diff of two sets turns one into the other and is empty only for sets that differ
  at most in the type of a number.

Bounds: two callers are every pairwise interleaving of transactions, which is where a compare-and-set
can lose; one version suffices because versions share only requests and lineage, which the
lineage part checks with two of each.

Proofs (`StrategyGovernanceProofs`): types, `OneMovePerState` (the rank of a state only climbs along
recorded moves), `EvidenceOnRecord` (a caller past its look-up *holds* evidence, and evidence once
found stands), `ApprovedIffProduction` (the approval column is set on exactly the PRODUCTION rows),
`OnlyValidParams`, `VersionsImmutable`, `ValidatedHasVersion`, `LineageAcyclic` (a parent has its row
before its child, so a new row cannot close a circle), `DecisionNamesItsEvidence` (all newest runs of
a version have one stamp), `HistoryExplainsState` (as long as nobody is lost every state that was
left was reached by a decision, stored or about to be) and the refinement. The invariant is needed because each of these speaks of the moment after the update while the check was made one or
two transactions before it: the parts `EvidenceHeld`, `ApprovalHeld`, `ParamsHeld`, `VersionSaved`
carry the fact in the caller's locals. `ChangesAreExplained` is proved in `ResearchProofs`, for any two
sets of parameters and the platform's schema.

### Model registry and daily promotion

`ModelRules` has the transition rules, shared as in the code by the SQL registry and the in-memory
one. `ModelRegistry` models the SQL registry with its artifact store and `_get_or_train_model`.
`ModelLifecycle` is the one-step lifecycle.

* `registry_race` (two processes, two versions, one loss): no row stays without its artifact
  (`RowHasArtifact`), a forecast comes from an approved version (`ForecastIsApproved`), two live
  versions only ever come from a race (`TwoLiveMeansRace`), the registry implements the lifecycle.
  Five moves are enough for two versions to be registered, promoted and one of them to be retired.
* `registry_two_live` (violation): the race itself.

Proofs (`ModelRegistryProofs`): all of these, and that a gate stands behind every version in service
and an approval behind every live one; the invariant follows a call through its steps (`Reserved`,
`Stored`, `Registered`, `Checked`) and says what the row and the artifact are at each.

### Admin tools and automation

`AdminTools`: the server is one synchronous process, so a tool is one step; `Restart` may fall
between any two of them and between the two durable writes of a job's creation. A write of the job
store may raise, and the server goes on with the cache already set (`_queue` and `_mark_job` set it
first): `saved` is FALSE then, and `unsaved` remembers the job. The audit sink is a list and does not
raise. `Automation` is the
loop above it, in the order of `scripts/run_self_thinking.py`: `CheckAndRetrain` (stamp, train, attach
the artifact, register, log), `ReviewWeek` (the IC guard, whose rollback never succeeds, and the
review), `NextDay`, and a restart of the loop's process.

* `admin_tools`, people: two people, two versions, one request, ten calls, one restart. One PRODUCTION
  version per model (`OneProductionPerModel`), an audited promotion with the approval on the record
  (`ProductionIsAudited`), two people behind a requested promotion (`RequestTakesTwo`). Ten calls are
  enough to register two versions, bring both to SHADOW, promote one, demote it and approve an old
  request for the other.
* `admin_tools`, the jobs (two of them, ten calls, one restart): `CacheAgreesWithStore`: the cached
  status is the stored one unless the latest write of the job in this process raised or found no row,
  and a job in the audit log has a row, whatever fails. It does not say that a failed write is harmless:
  until the restart `job_get_status` answers a status that the restart takes back.
* `admin_tools`, the loop beside two calls of people: `LoopIsBounded`: retrainings of a model keep
  their distance also when the new version could not be registered, an artifact has a record, and no
  week in which the guard acted is called healthy. Three days and three retrainings hold one that is
  too early, one that is just in time and one after it; the drift reports lie at and just below each
  threshold.

* `admin_tools`, the scheduler: see there.

Proofs (`AdminToolsProofs`): types, `OneProductionPerModel`, the gate behind every version in
service, `ProductionIsAudited`, from one lemma about a permitted, recorded move (`MoveSound`; every
tool that changes a record goes through it), `RequestTakesTwo` and `CacheAgreesWithStore`; and of the
loop `LoopIsBounded`, from the invariant that a model's stamp is that of its latest retraining
(`StampsFollow`) and that no tool removes a record.

### The way of the data: ingestion, stores, features, serving

`Ingestion`: a call reads the watermark, fetches bars above it, checks them, upserts and advances;
watermarks belong to a process (in-memory store), the table to all. The adapter may return any bars,
in any order, revised, with or without faults. `ReferenceData`: batches are written, aliases added,
instruments registered again, the clock moves, and an `ask` notes what every as-of read says of a
moment; `events` notes what may explain a later different answer. `Features` and `Serving` are
operators: the feature library, and what `InferenceService`, the batch, the screen and the read tools
answer over the tables (a *world*), including what the MCP server is really wired to (`ServerWorld`).

Run `ingestion` has a `focus`:

* `ingest` (two callers, at most one without a sink, two processes, dates 1..2, three calls, one loss): a watermark's date has
  its row (`MarkIsStored`), what a call reports is covered by the mark even when its own advance is
  refused (`EmittedIsCovered`), a refusal means another call has overtaken it
  (`RegressionMeansOvertaken`), a row below the mark is rewritten only by an overtaken call
  (`MarkedRowsStand`). Two dates are enough for a window to be empty, whole or half new; three calls
  let one start after another has failed.
* `store` (moments 0..2, two batches, two sources, two names): `AsOfReadsHold`: what is read as of a
  moment shows nothing later, is the latest of what was there, agrees between the two
  implementations, and changes afterwards only for the reasons the code has (a backfill, a restated
  row, an instrument registered again). Two moments and two batches are the least with a before, an
  after and a revision.
* `features`: `FeaturesSeeThePast` (histories of 2 to 4 bars in either order, up to two of them late,
  prices of 0, windows of 2): no feature sees a later bar, a split changes none, all are in range.
* `serve`: `ToolsAgree`: forecasts one by one, in a batch and in a screen are the same and
  change with no later bar; limits the backend knows cannot be talked away; targets and resolved
  instruments are consistent; the server as wired has no forecast and lets no trade through. Three
  instruments are one domestic, one foreign and one fund; two days are a return.
  The currency split of a forecast is that of the service; no read tool hands it an instrument's
  currency or a converter.

Proofs (`IngestionProofs`): the four properties of `ingest`, and that a strict call stores no faulty
bar and marks only advance, for any number of callers, processes and dates. The invariant
`MarkStands` says what a call knows of the mark it read (`KeptAbove`, `KeptClean`, `KeptStored`); the
latest date of a window exists by the well-foundedness of < (`GreatestIsLatest`). `AsOfReadsHold` is
proved of the stores for any moments, batches, sources and names: that an answer given keeps its word
is inductive with the types alone; that the two implementations agree needs what the books in memory
are to the tables, sorted and with every row and every alias (`FactBook`, `AliasBook`; `insort` keeps a
book sorted and adds nothing else, `InsortedKeeps`).

`ToolsAgree` is proved of every call `ChooseCall` can make (`Asks` is the invariant), most of it for
any tables: later bars are invisible (`LaterBarsChangeNothing`) and what is admitted today has a
forecast (`AdmissionHolds`) for any finite set of bars with prices. A batch and a screen, of any number
of instruments, say what the answers one by one say (`ScreensAgree`): a set sorted by a total order is
a sequence in which each member comes after all of those before it (`SortedInOrder`, by induction over
finite sets), fractions with positive denominators are such an order (`FractionOrder`), and so no one
left out of the top has a better score (`BestFirst`). A layer that rejects ends the trace, so what is
traded passed permission, name, gross and currency limits (`RejectedNotTraded`), which with a known
portfolio are those of the backend (`BackendDecides`). The names of a proposal stay within their limit
for any scores, scaled or not (`ProposalKeepsNames`, over sums of finite sets); a monthly target
compounds to no less than the same one a year, for any target (`YearlyIsMore`). `NothingAssumption`
says that `Nothing` is none of the values it stands in for.

### Trading: paper trading, risk, portfolio, execution

`PaperTrading`: `StartCycle` sizes all orders with one look at cash and positions, `Fill`/`NoFill`
place them one by one in any order, `EndCycle` returns; `Deposit` and `DirectFill` are other users of
the portfolio between cycles (the code is single-threaded). Money is integral; slippage and
commission are free within bounds. The other modules are operators: `LedgerAccounts` (double entry,
average cost, valuation, limit orders, reconciliation), `RiskPolicy` (the eight layers and
`propose`), `PortfolioBuilder` (both builders, exposures, rates), `Execution` (three execution models
and the signal backtest), `PriceAdjustment`.

Run `paper_trading`, either trading or one `job`:

* trading (three instruments, two markets, prices 1..2, weight 1/2, three operations): the journal
  explains the positions unless an oversell was refused after it was posted
  (`JournalExplainsPositions`), no sell of a cycle fails (`SellsStayCovered`), and buys overdraw the
  cash by no more than rounding, slippage and commission, as long as they are at most 1/max_weight
  many and in the base currency (`OverdraftBounded`). Three operations are a deposit, a cycle that
  buys and a cycle that sells or is refused; three instruments are one buy more than the weight
  allows.
* `ProposalsRespectLimits` (every subset of eight flaws, both sides and markets, weights of 64ths;
  three scores): nothing is traded past a failed hard layer; a trimmed proposal passes the whole
  engine, and no weight larger by a 64th would have; portfolios keep name, gross and cash limits and
  leave no better score out.
* `ValueIsConserved` (four bars with a gap and up to two actions; rates of two pairs on three days;
  up to three deposits and orders): adjusted prices keep the ratios of the raw ones, conversions there
  and back cancel, accounts cancel and the portfolio is worth its deposits and gains.
* `FillsFollowDecisions` (three bars with a gap, halts, a delisting; backtests of up to four bars): no
  order is filled at or before its decision or past a bar it could have used, nor one of a share on a
  halted day (the fund model accepts `halted_dates` and does not look at them), and a backtest says the
  same of a bar whatever comes later, earns without costs and short sales the product of what prices
  did while its position was held, and never gains at constant prices.

Proofs (`PaperTradingProofs`): `JournalExplainsPositions`, `SellsStayCovered`, `OverdraftBounded` and
the types, for any instruments, prices, weights and rates. The first two need each other to be
inductive. The third needs to know why there is money for the next buy: `FundsInv` has a budget, a
witness that no step of the cycle changes, which each buy still open costs at most and which the
account holds once for each of them, so no sum over the cycle is needed.

The books (`BooksBalanced`) are proved for any list of deposits and orders, not only for three. The
books after each entry are a function of its number. A posting adds legs that cancel out, so the
four accounts of a currency always do (`AllKept`). A buy adds the same to account and average cost; a
sell leaves in the account what it earned beyond the cost of the rest (`BuyAgrees`, `SellAgrees`), so
`CostsAgree` holds after every entry as long as no sell was refused: a refused one is posted all the
same. What cash and shares are worth at a mark changes by what the entry adds (`WorthStep`). With the
two theorems on prices and rates below this is `ValueIsConserved` (`ValueAlwaysConserved`).

Proofs (`TradingProofs`), all for any inputs and not only those of the run. Risk: the layers up to the
first hard failure are what `Trace` returns, and the bisection of `propose` keeps an interval whose
lower end passes and whose upper end does not (`Brackets`). Portfolio: sums of weights over a
set of instruments, by induction over its subsets, give the limits of either builder and the equality of
exposures and weights. Execution: the bar of a fill is the first after its decision, and a later
decision never has an earlier one. Backtest (`BacktestHonest`, for any bars and signals): its states are
a function of the day, of which there is one because no least day is without; the state of a day is
typed, equal for two histories that agree up to it (`PrefixAgrees`), holds the position its signal
asked for, and its mark is the last one times what prices did (`ProductStep`); at constant prices
`FlatAt` (the equity is at most the start, a position was entered at the price and the slippage) is
kept by every trade. The last needs `Modest`: commission and slippage together are at most an eighth
of a price, 1250 basis points. The defaults are 3 and 5 (`backtest/engine.py:22`); costs beyond the
worth of a position make equity negative, and the product of two such losses is a gain.

Prices (`AdjustmentKeepsRatios`, for any history and actions): the products of the past and of the
future are again functions of the bar, each the one of the neighbour times a factor, and two prices
multiplied by them have the raw ratio times the later day's factor. The theorem needs no order of the
bars and no factor other than 0. Rates (`ConversionsAlwaysAgree`, for any finite set of USD and CNY
rates of positive parts): a rate is known if either direction has one until the day, and if one
direction alone is quoted the rate back is the inverse.

### Research: shadow tracking, factors, evaluation, models

`ShadowTracking`: predictions are recorded for any day up to today, settled late or in several calls,
and the drift check reads the track record, then the row, then swaps it, beside other people's
decisions. `FactorGovernance`: an evaluation is handed a list of factors, and factors are registered
and retired before it ends; its folds come from `WalkForward`. `EvaluationMetrics` and
`ModelFamilies` are operators. Run `research` has a `focus`:

* `shadow` (two versions, two days, horizons 1 and 2, two predictions, returns of ±10 %):
  `TrackRecordIsHonest` (a settled outcome is the return of exactly its horizon, all of it past),
  `DroppedStaysOut` (what was reported as suspended is out of service), `VerdictsFollowLifecycle` (a
  verdict on an old record only moves a version along an exit it has). Two predictions are the minimum
  sample, one of which may be settled late; two versions share one record.
* `factors` (three factors, dates 1, 3, 6 over six days, four events): `FoldsArePointInTime`. Three
  factors are one more than the least a fold takes; the dates lie before, inside and after a window. An
  evaluation without a list (`factor_versions` None, the default, `evaluator.py:207`) filters nothing and
  is left out.
* `algorithms`: `StatisticsAreSound` (the running-peak drawdown is the worst stretch whichever way
  the outcomes are sorted; the KS distance is never below its supremum; histograms lose nothing),
  `ModelsAreMonotone` (isotonic calibration is the least-squares fit; regimes follow the return; of
  boosted stumps, each round takes the best split there is with the means of the rows its threshold
  really separates, what is left of a label is what the model does not answer, and never grows; a rule
  keeps vetoed rows out of training, and vetoed names behind eligible ones as long as the model behind
  it gives positive scores), `TrainingDoesNotSeeTest` (purge and embargo; the windows of
  `walk_forward`, whose training rows end before the test window and whose labels end at most a horizon
  of bars inside it), `GateNeedsFolds` (an evaluation without folds does not pass the gate against
  baselines that earn something), `ChangesAreExplained` (above). Inputs of up to four elements over
  three values have ties, plateaus, and blocks that merge backward twice. Groups to rank have four rows
  (fewer make the fit raise), two features, three labels, two learning rates and two rounds: the second
  round works on residuals.
* `calibrator`, `vetoed_is_picked`, `walk_forward_leak` (violations): see section 4.

The learner of `ModelFamilies` is exact: a model's numbers are integers over one denominator, so ties
between splits are real ties, of which the first wins as in the code. `RankerScore` adds the stumps
learnt from the labels and those learnt from the contrasts of pairs. The sum need not rank a group by
its labels even where each learner is in order: `MCResearch` assumes, and TLC confirms, four rows with
rising labels of which two change places (`RankerCanMisorder`).

Proofs (`ResearchProofs`): the three properties of `shadow` and the types (nothing is assumed of the
verdict itself, and that a sum of returns is a number is not needed); `FoldsArePointInTime` (the rows
behind a list that was read are still there when it is used, active or retired, and two starts of folds
are a multiple of the step apart); `TrainingDoesNotSeeTest` for any days in order, horizon, windows
and embargo, from `PurgeSeparates` and `WalkLooksBack` (the day a horizon of bars before the predicted
row lies in the test window, so after every training row); `ChangesAreExplained`, from `DiffExplains`; and
`GateNeedsFolds`, from two facts: without folds both metrics are 0, and a candidate with 0 passes no
gate against a baseline that has 0 or more.

`StatisticsAreSound` is proved for inputs of any length. Drawdown (`WorstStretchFound`, no day losing
everything): the new value over the running peak is the lowest of its ratios to earlier values
(`WorstSoFar`); a value over an earlier one is the growth of the stretch between them; and the curve of
the reversed returns is the mirror image of the curve, value times value a constant, so neither falls
further than the other. KS distance (`DistanceNeverMissed`, sorted samples): for every value v the walk
either has not passed the counts of v or has covered their gap (`StepMissesNothing`), and what is left
when one sample is used up is smaller; without repetitions each place the walk stops at is the one of a
value (`StepIsSharp`), so it is no more than the supremum. Histogram (`BinsNeverLose`, sorted edges): a
bin adds values no bin before it has, and the last one takes those in none. The loops are recursive
functions; that there is such a function is `WalkExists`, by the least length without one.

### Scheduler

`Scheduler`: `run_due` and `enqueue_due` go through the jobs in list order (`Poll`, `NotDue`,
`NextJob`); a run is its first attempt, its retries and its end (`Begin`, `Again`, `Finish`), and the
clock (`Tick`) may pass between any two of them. The calls are made by one thread, so they do not
overlap. A cron expression is a set of firing times. `ParamsRaise` is the exception nothing catches,
`SchedulerRestart` empties the executor, whose state is all in memory.

* `admin_tools`, the scheduler (two jobs, one retry, a look-back of two ticks, a clock of four, one restart, every set
  of firing times): between a run's end and the call that starts the job's next run lies a firing time
  (`OneRunPerFire`); a call that ends normally leaves no firing time of its window unanswered
  (`NothingLeftDue`). Four ticks hold a firing time before, during and after a run and one that has
  left the window; the second job shows what a slow first one does to it.

Both are of one process' life: after a restart the code runs a firing time again. A time that
passes while the job runs counts as answered by that run, as in the code. No liveness is stated:
while the parameter provider keeps raising for a job, the jobs after it are never reached.

Proofs (`SchedulerProofs`): the types and both properties, for any number of jobs, firing times,
retries and window. The invariant says that the last-run entry is the end of the latest run
(`LastIsLatest`) and that the jobs a call has passed are clear of firing times (`PassedAreClear`).

## 3. Proofs in general

Each proof module shows `Init => IInv`, `IInv /\ [Next]_vars => IInv'` and that `IInv` implies the
property, with the invariant's parts as separate lemmas per action. The assumptions are those stated
in the modules (`ConstantsAssumption`, `SizesAssumption`, `NumbersAssumption`, …): bounds are
naturals, `None` is nobody's name, sets of dates and prices are of the stated kind. The bounds are
constants, so the theorems hold for every bound.

Some invariants are proved and no longer run, since the proof says more than the small instance did:
the types, `ApprovedIffProduction`, `OnlyValidParams`, `VersionsImmutable`, `ValidatedHasVersion`,
`GateBeforeService` (registry and admin tools), `LiveIsApproved`, `PlaceholderIsApproved`,
`BadRowsAreAsked` and `MarksOnlyAdvance`. They were checked on the same instances before they were
proved.

The provers cannot instantiate the library's induction theorems, which take an operator. Where a
theorem needs induction over data it is stated with sets: the least counterexample of a set of naturals
(`LeastExists`), or a set of good subsets that has the empty one and grows by one element
(`SetInduction`).

Only model-checked: liveness (`EveryMoveIsRecorded`: fairness and ENABLED are out of the prover's
reach), and `FeaturesSeeThePast` and `ModelsAreMonotone`, which compare folds and sorted sequences with
reference definitions. The learner inside `ModelsAreMonotone` sorts rows, and the value of
`SortSeq` is out of the provers' reach.

## 4. What the repository says and the code does not keep

Shown by a run (findings of `PROJECT.json`):

* a second request derived under a used label is marked VALIDATED while its parameters are dropped
  (`persistence/strategy_governance.py:303`; run `governance_label_reuse`);
* two processes leave two PRODUCTION versions of a model (`persistence/repositories.py:324`; run
  `registry_two_live`);
* a trained isotonic calibrator does not answer with the fit inside a pooled block
  (`models/isotonic.py:70`; run `calibrator`);
* a name the rule vetoed is picked before an eligible one when the model behind the rule may score at
  or below 0 (`models/rule_gated.py:77`; run `vetoed_is_picked`);
* `walk_forward` trains on labels that end after the first rows it predicts "out of sample"
  (`training/walkforward.py:86`; run `walk_forward_leak`).

Read in the code, modelled where they arise, without a run of their own:

*Governance, registry, tools*

* a strategy may have two PRODUCTION versions (`service.py:371` looks at one version only);
* a caller lost between the update and the decision row leaves a state without a decision
  (`service.py:394`), which is why `HistoryExplainsState` speaks of calls that were not lost;
* an evaluation stored between the look-up of the latest one and the update is not looked at
  (`service.py:358-361`);
* in `policy.py` a boolean passes for a number, and the diff takes `True`, `1` and `1.0` for equal
  while the content hash tells them apart;
* the admin rollback is one person's and leaves the model without a live version (`tools.py:331-343`);
  the kill switch is forgotten by a restart (`tools.py:122`) and nothing takes queued jobs
  (`tools.py:149`); after a restart a finished job is reported without its stored result
  (`tools.py:199`, though `tools.py:125` says that jobs survive);
* the automation stamps a retraining before it is registered, replaces the artifact of a label that is
  taken and then raises (`auto_retrain.py`); the IC guard's rollback never succeeds, its error is
  swallowed and the event says it was triggered (`ic_guard.py:72`); the weekly review's "critical"
  text speaks of a downgrade whether there was one or not.

*Data and serving*

* registering an instrument again deletes its row and, by cascade, all its aliases
  (`instruments/sql_repo.py:101`), though the service "never rewrites history"; a fact sent again
  erases the one before it, unlike in `FactStore`;
* the read backend does not filter quality, returns the bars of all sources of a date
  (`db_backends.py`), and a market hint does not narrow matches of a local name;
* an instrument with no visible bar makes a whole screen or batch fail (`inference/service.py:126`),
  where the manifest promises NO_FORECAST; the read server is wired to an empty registry and passes
  no permissions, so it answers every forecast with `no_production_model` and every proposal with a
  rejection (`ServerFailsClosed`);
* `risk_evaluate_proposal` checks the present exposures, not the *post-trade* ones `risk/engine.py`
  speaks of: the proposed weight is in none of them, and a failed limit is never trimmed;
* `FxConverter` reads rates without a moment of availability, and an old direct rate hides a newer
  inverse one.

*Trading*

* the engine's `max_weight` bounds an order, not a position (`engine.py:102`), the number of buys is
  computed and not used (`engine.py:140`), a refused sell stays in the journal (`ledger.py:193-198`);
* the ledger promises realised profit on a sell and posts none, and its balance check compares a
  valuation with itself; a limit buy may fill above the bar's high; the reconciliation keeps the last
  fill of an order only;
* the fund model fills an order of a halted day (`backtest/execution.py:256`), though the module says
  that a halted order is returned as a `NoFill`;
* slippage is counted twice in a backtest's cost, the last position is never closed; the builder's
  final scaling cannot act; a factor whose ex-date has no bar is never applied.

*Research*

* the track record mixes all versions of a strategy, and a prediction may be recorded for a day
  already past; a suspension that loses its swap is swallowed;
* with a horizon of one day no fold is ever run, and an evaluation without folds scores zero, which
  passes the gate against baselines that lose; labels of the last training rows reach into the test
  window of the nested folds, too; `purge_and_embargo` counts a horizon in calendar days while labels
  count bars, and its embargo takes rows from the start of the validation window, not those "whose label
  horizon overlaps the test window" (`datasets/splits.py:7`); the reproduction hash covers the first and the last close only;
* registering a factor under a used label reports the new availability while the table keeps the old
  one; registering a retired one is audited as a success and changes nothing;
* the one-pass KS distance overestimates with ties, and a histogram counts values below its first edge
  in the last bin; every contrast a ranker is trained on is positive, and its answer need not be the
  "monotone scalar that respects the pairwise ordering" (`ranker.py:84`) it is said to be; with fewer
  than four contrasts its training raises.

## 5. Not modelled

Per component, with the reason, in `PROJECT.json`. In short: numerical learning, network and
rendering, constant tables and pure parsing are out of a model checker's reach or have no state to
get wrong; roots, logarithms and Sharpe ratios are left out of the statistics. `SqlPaperLedger`,
`SqlPredictionRepository`, `validate_factor_availability` and `validate_factor_dependencies` are called
by tests only. Inside the modelled components: the worker's RQ loop, the corporate-action and
fundamentals tasks, the renderings of schedule and review, the status tables of the API.

Hazards known and without a property, because the code does the wrong thing and nothing in the
repository promises the right one: a late bar at or below the watermark is skipped for ever
(`ingestion/pipeline.py:95`), a non-strict call stores what a strict one refuses (`pipeline.py:110`),
jobs run in list order whatever their `depends_on` says (`scheduler/executor.py:111`), the kill switch
is lost on restart (`tools.py:122`), the IC guard does not roll back (`ic_guard.py:72`), the track
record mixes versions (`shadow.py:133`).

## 6. Plan

In order of importance:

1. Proofs of what is only model-checked: `FeaturesSeeThePast`, then `ModelsAreMonotone`.
2. The composition of `ShadowTracking` with the transactions of `StrategyGovernance`, in which the
   other people's decisions are not whole.
3. The corporate-action and fundamentals tasks of the worker over `ReferenceData`.
