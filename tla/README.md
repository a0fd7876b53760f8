# A TLA+ verification of forex-trading-agent

The platform collects market data and point-in-time evidence (news, forecasts,
macro observations, calendar events) into PostgreSQL and reads it back "as of" an
instant for research. Its core promise is not about trading but about *history*:
what is stored is append-only, numbered, ordered in time and never contradicts
what a reader was told before, whatever runs concurrently or dies half-way. This
directory models that core from the source, checks it with TLC and proves part of
it with TLAPS.

Paths below are relative to `src/src/forex_agent` unless they start with `src/`.

## The system

Hexagonal: `domain` (pure values and algorithms), `application/use_cases` (one
class per operation), `application/ports`, `infrastructure` (SQLAlchemy async
repositories, HTTP adapters), `apps` (API, CLI), `src/scripts` (batch entry
points). There is no in-process shared state worth the name: processes and asyncio
tasks interact **through the database**, each call in a session of its own under
READ COMMITTED. Every `await` on a repository is a point where any other call may
commit. The recurring shape is *read what is there, decide, write later*, made safe
by unique constraints and `INSERT .. ON CONFLICT DO NOTHING`, sometimes followed by
a re-read of the row that was in the way.

| component | state | operations | interacts by | hard part | what makes it correct |
|---|---|---|---|---|---|
| News evidence recording (`record_news_observation`, `news_repository`) | items, identity mappings, item vintages | record an observation; as-of reads | called per item by ingestion runs | two runs meet the same item; failure inside the first write; stale "latest" | item, mapping and revision 0 together; contiguous, time-ordered histories; nothing reported is lost |
| News ingestion (`ingest_news_source_once`, `http_fetch`) | operational observations | fetch with retries, dedupe, validate, record | calls the recorder per item | error in the middle of a response, repeated polls | all-or-nothing validation, harmless replay |
| Candle backfill (`backfill_candles`, `backfill_lock`, watermark and candle repositories) | candles, one watermark per series, advisory locks | backfill `[start, end)` | provider, lock, two repositories | crash between page and watermark, concurrent backfills, forming candles | the watermark never claims what is not stored and finished, and never shrinks |
| Connection pools (`session`) | two engines' pools | checkout, return | lock holders and sessions | waiting for a slot while holding another | nobody waits for a waiter |
| Candle boundaries (`candle_boundary`, `candle_pagination`, `candle_gaps`) | none | floor, end, paginate, find gaps | used by backfill and gap checks | daylight-saving transitions | walking candle by candle agrees with flooring |
| Candle aggregation (`candle_aggregation`) | none | build coarser candles | reads checked candles | 3 and 5 hour buckets | whole buckets only |
| Structured forecasts (`record_structured_forecast` and its repository) | claims, vintages | record a vintage; production and research reads | validator, repository | three reads before one write | one forecast per evidentiary basis |
| Forecast outcomes, evaluations, performance snapshots | bindings, outcome vintages, evaluations, cohorts, snapshots | record, resolve, evaluate, freeze | build on each other's vintages | identity claimed in a loop; populations as of a cutoff over ledgers that grow | exclusive identities; no hindsight; one payload per basis |
| Macro observations and release timing | observation vintages, provisional and verified timing | backfill, verify, remediate | scripts of several code versions over one table | conditional updates that lose | what was reported is stored; older evidence never replaces newer |
| Policy-rate state and differentials | derived | state on two axes, readiness, differential | macro vintages | decisions stored under dates before or after their announcement | no look-ahead; nothing newer passed over unexamined |
| Economic calendar | occurrences, mappings, schedule and release vintages | poll schedules, poll releases | event-risk snapshot | occurrence, mapping and vintage are separate commits | one occurrence per item; repeated polls add nothing |
| Source registry and attribution | sources, identity and attribution vintages | bootstrap, resolve, profile | reads the news tables | racing bootstraps of different registries | one kind per source; evidence before judgement |
| Semantic annotation, canonicalization | annotation and relation vintages | classify, relate, review | read news vintages | basis that moves on; a human review against automatic methods | reviews win |
| Snapshots for pairs and event risk | none | read-only compositions | all news tables; the calendar | four tables read one after the other while passes write | a settled instant keeps its answer |
| Trading research (`trade_simulation`, `incremental_strategy`, `strategies`, indicators) | none | replay, simulate | candles | incremental against batch; transitions | same signals; no look-ahead; trades are what an account earns |
| Schema and migrations (`src/alembic`, `infrastructure/db/models`) | the tables and what is in them | upgrade, downgrade, in one transaction each | every repository writes into the tables | columns filled in for old rows; downgrades that drop evidence | the revision says what the tables are; no evidence is lost; what is filled in is true |
| Adapters, API, CLI, research scripts | | | | I/O | not modelled |

`PROJECT.json` lists every component with its status, and under `hazards` every
place found so far that a test would hardly reach, with the properties that watch it.

## Plan

Order: the evidence ledger first (it is what every other component is an instance
of), then the market-data pipeline, then the other ledgers, then compositions.

1. `VintageLedger`, `NewsLedger`: abstract ledger and the news recorder. *Done, proved.*
2. `CandleBackfill`, `CandleWalk`, `LockPools`. *Done, proved.*
3. `StructuredForecast`, `ForecastOutcome`. *Done, proved.*
4. `NewsPipeline`, `PairNews`: all passes over the news tables, and the pair snapshot
   over them; `SourceRegistry`, `SourceProfile`: attribution, fetch retries, and the
   source profile, composed with those passes. *Done, proved.*
5. `ForecastScoring`: evaluations, populations and performance snapshots;
   `ForecastDefinitions`, `ForecastPilots`: the definitions they rest on and the scripts
   that register them. *Done, proved.*
6. `PolicyRateState`, `PolicyRates`: histories, timing remediation, differentials;
   `EconomicEvents`: the calendar and the event-risk snapshot. *Done, proved.*
7. `CandleAggregation`, `Indicators`, `Strategies`, `Backtest`: the trading research
   over the checked candles. *Done, proved.*
8. `Schema`, `TableModels`, `Revisions`, `Migrations`: the database under all of it.
   *Done.*
9. Left to prove: `Migrations`.

Abstract specifications: `VintageLedger` for the append-only tables; the fixed answer
of a settled instant for everything that is read "as of"; the reference form of a
strategy for its incremental form, and the account that follows the signals for the
trades.

## Modules

| module | models | state and actions |
|---|---|---|
| `VintageLedger` | the promise of an append-only evidence table | `ledger`; `Append` |
| `NewsLedger` | `RecordNewsObservation.__call__` over `SqlAlchemyNewsRepository` | committed rows `mapping`, `items`, `vintages`; per call `pc` (its next await), what it holds (`key`, `latest`), its `outcome`. `LookupIdentity`, `InsertItemAndMapping`, `CommitFirstVintage` are the three awaits of `register_source_item_with_first_vintage`; `ListVintages` and `AddVintage` those after it; `Abort` a failure at any of them |
| `CandleBackfill` | `BackfillCandles`, `IngestCandles`, `PostgresBackfillLock` for one series | `candles`, `watermark`, `lock`; per call its range, the plan of the sub-operation, the page and the provider's answer. One action per await; `Fetch` may find the provider unavailable; `Crash` ends a call anywhere and frees the lock |
| `CandleWalk` | `candle_start_boundary`, `candle_end_time`, and the loops of `split_into_pages` and `find_gaps` | one loop iteration per step |
| `LockPools` | the two engines' pools, advisory locks, sessions | connections held, lock owners; checkout, commit, unlock, close |
| `StructuredForecast` | `RecordStructuredForecast.__call__` and its repository | `claims`, `vintages`; per call its candidate and the latest vintage it read; `GetClaim`, `ReadLatest`, `ReadHistory`, then `InsertClaim`/`CommitClaim` or `AddVintage` |
| `ForecastOutcome` | `RecordForecastOutcome.__call__`, its repository, and `ResolveForecastOutcomeAsOf` | `bindings`, `vintages`; per call its candidate and the latest vintage it read. `ReadLatest` is the top of the loop; `CheckBinding` verifies a known key, `InsertBinding`/`CommitBinding` claim a new one, and a lost claim goes through `ClassifyKey` and `ClassifyIdentity` back to `ReadLatest`; a dry run classifies first and writes nothing |
| `PairNews` | the as-of reads over the news tables and `GetPairNewsEvidenceSnapshot` | pure: eligible evidence, annotation states, stories (union-find over relations), `Told` per story, `Snapshot` |
| `NewsPipeline` | `IngestNewsSourceOnce`, `CanonicalizeNewsOnce`, `ClassifyNewsOnce`, human reviews, with `RecordNewsCanonicalRelation` and `RecordNewsSemanticAnnotation` | `vintages`, `relations`, `annotations`; per worker the await its pass is at, its instant, what is left to record, the latest row it read. One action per await; `RecordNewsObservation` is one step here, `NewsLedger` takes it apart |
| `SourceProfile` | publisher resolution and `GetSourceOperationalProfileAsOf` | pure |
| `SourceRegistry` | `BootstrapSourceRegistry` with `RecordSourceIdentityVintage` and `RecordSourceAttribution`, `fetch_text` and the recording of its attempts; the specification of all passes over the news tables | adds `sources`, `identities`, `attributions`, `attempts` |
| `ForecastScoring` | `EvaluateStructuredForecast`, `BuildForecastPerformancePopulationAsOf`, `CalculateForecastPerformance`, `AssessForecastPerformanceEvidence`, `RecordForecastPerformanceSnapshot` | `outcomes`, `evaluations`, `snapshots`; calls read latest, then history, then insert. What they are given comes from the module below |
| `ForecastDefinitions` | `RecordForecastOutcomeDefinition`, `RecordForecastEvaluationProtocol`, the three `DefineForecastPerformance*`; the specification of scoring | adds `definitions` (five tables of numbered versions) and per worker the `script` it runs: `Compare` and `Insert` per definition, then `Score`. `Ask` is a caller without a script. The definitions somebody went on with although they are not on record (`divergent`) are a history variable |
| `ForecastPilots` | `import_pilot_forecast_evaluation.py`, `demonstrate_forecast_performance_pilot.py` | their definitions and the calls they end with |
| `PolicyRateState` | `policy_rate_state`, `research_readiness`, and the differential feature | pure |
| `PolicyRates` | `BackfillPolicyRateHistory`, `VerifyPolicyRateReleaseTiming`, `RemediateReleaseTiming`, `ComputePolicyRateDifferential` | `history` per currency; per worker its script and the writes left. The code version that classified a decision (`warrant`) and what was reported (`acknowledged`) are history variables |
| `PolicyRateRegistry` | `policy_rate_registry`: every definition and declared gap, and the validation done on import | constants; `RegistryIsValid` and `GapsAreWhereNothingIsDefined` are assumptions TLC evaluates |
| `ReleaseTimingRule`, `ReleaseTimings` | `release_timing_rule`, `policy_rate_release_timing_registry`: conventions, listed decisions and excluded dates, on a calendar and the time zones they name | constants |
| `EconomicEvents` | `IngestOfficialCalendarSchedule`, `IngestOfficialCalendarRelease`, `GetEventRiskEvidenceSnapshot` | `occurrences`, `mapping`, `schedules`, `releases`; one action per await, a poll may die at each |
| `CandleAggregation` | `aggregate_candles` | the range `CandleWalk` has checked, with any subset of its source candles stored |
| `Indicators`, `Strategies` | the averages, ATR, ADX and every strategy in its reference and its incremental form | pure |
| `Backtest` | `run_backtest_incremental`, `run_sealed_window_backtest`, `simulate_trades` | one step per candle; the trades are an operator over the hypotheses |
| `Schema` | tables, constraints and statements as PostgreSQL has them | pure: a statement maps tables and rows to tables and rows, or fails |
| `TableModels` | the tables as the models declare them | constants |
| `Revisions` | every migration: the statements of its upgrade and its downgrade, its guards and its data steps | constants |
| `Migrations` | a database that is upgraded, downgraded and written to | `db`: revision, tables, rows. `Migrate` runs every statement on the way to another revision or none; `Write` is a transaction of the code of the day |
| `MC*` | | constants, symmetry and refinement mappings for TLC |
| `*Proofs` | | theorems |

Operators marked "Mutant" in the modules are not used by the specifications: each is
a plausible bug, and TLC finds the property it is listed with violated when it takes
the place of the real definition.

Abstractions worth knowing:

- A database session is its committed effect. What is uncommitted is invisible,
  except that a conflicting insert waits for it (`Holders`, `Registering`).
- Texts, decimals, evidence objects and the like are model values; the modules keep
  only which of them the code compares. In `NewsLedger` a content is what
  `_modeled_facts` compares besides channels; in `StructuredForecast` a basis is the
  pair (algorithm version, evidence), and `correction_reason`, which nothing
  compares, is left out. `ForecastOutcome` does the same with the outcome's definition
  version and evidence, and an identity is the tuple `ForecastOutcomeIdentityBinding`
  holds; part of it is in the payload the code compares, so `SamePayload` includes it. A dry run ends with an outcome of its own, where the code
  returns what the write would have returned.
- Instants are small numbers. In `NewsLedger` an observation carries the instant it
  was fetched at and may be recorded any time later.
- In `CandleBackfill` candle starts are an arbitrary set of numbers, unequally
  spaced, and the pages of the plan tile it. That is what `CandleWalk` justifies for
  every granularity but H3 (see Findings). The provider is assumed to serve a candle
  as complete once its end has passed; no caller asks beyond the present.
- In `LockPools` a call has a session of its own, as concurrent callers in the
  repository have. The dataset scripts reuse one session for calls made one after
  another, which alone cannot compete with itself.

- `SourceRegistry.Plans` says which passes may run together, how many, how often a
  request is tried and what is stored before: a plan is chosen initially, so that
  each combination has a state space of its own. A pass that a script gives an
  instant with `--as-of` is a pass started at that instant that reads later. With
  `attempts = 0` nobody records the attempts and a fetch, its retries included, is one
  step; otherwise every attempt and its report are steps of their own.
- Similarity of two texts, and what the classifier reads in them, are part of a
  content. Aliases, identifiers and web sites are part of an identity's name.
- In `PolicyRates` the registries are constants, one per deployed code version; an
  operator deploys newer versions only (`Deployable`). `MCPolicyRates` gives it the
  eras of `PolicyRateRegistry` and, as the last version, `ReleaseTimings`, with dates
  and instants as they are; institutions, units, citations and notes are left out.
  Calendar and time zones are exact for the years the registries reach.
- In `ForecastDefinitions` a script carries its definitions and scores with those,
  stored or not. Scripts of any releases run beside each other: the loser of a race
  for one version is told UNCHANGED (as in finding 2) and scores with what it carries,
  which is not on record. A caller of the library brings any object: one that is
  stored, one that says something else under a stored name, or one whose name nobody
  registered, which the foreign keys refuse. The history variable `divergent` keeps
  the definitions that differ from what is stored and were gone on with; no step
  depends on it. Outcomes arrive under stored definitions at any moment; the import's
  own recording of forecast and outcome is `StructuredForecast`'s and
  `ForecastOutcome`'s matter.
- A Decimal is a multiple of 1/`Scale` and division rounds down, where the code rounds
  to 28 digits: only the order of operations and the comparisons matter. A bar is the
  middle of bid and ask, a constant half spread apart.
- In `Migrations` nobody writes while a command runs (the guards count first and drop
  afterwards, so a writer in between would go unseen). A row knows its `truth`, the
  columns its writer knew, and `holds` what the tables of the day could keep; only
  columns that a constraint, a migration or a property looks into are given. Rules of
  one column's form (not empty, a natural number) and checks that relate columns by
  shape are compared between migrations and models but evaluated over no row; column
  types, indexes and server defaults that migrations do not use are left out.

## Runs

| run | shows |
|---|---|
| `news_ledger` | two workers, three calls about one item over two instants, with aborts at every await: first observations are atomic, nothing reported is lost, every step is one append to `VintageLedger` or nothing (`LedgerSpec`), and every call ends |
| `candle_backfill` | two backfills and an `IngestCandles` call, three calls in all, pages of two candles over candles of unequal length of which some were not traded, with crashes and provider failures everywhere. `CoverageIsFinal` is claimed only while no `IngestCandles` call has been made: that call takes no lock and may write back an older answer |
| `candle_walk` | all day-aligned granularities over spring, fall and ordinary days except H3 in spring, every hourly start within twelve hours before the transition and every end up to thirty hours after: bounds stay on the grid and gap checks expect it (`ExpectsTheGrid`). Then, over one such range: candles aggregated from every granularity that divides the coarser one, all of them stored or all but one; or every strategy over six hourly candles of three shapes with warm-up (H4 candles finished or not): incremental equals reference, no look-ahead, trades earn what the account earns |
| `candle_walk_h3` | violation, finding 1 |
| `lock_pools` | the two sides of the database, one at a time. Three calls of one series, two lock connections, one session connection: every call ends, so the pools never deadlock. Then six sets of documents (candles and macro observations, events, news, judgements of news, outcomes, scores), each document written at any revision that has its tables, with upgrades and downgrades by one revision or all the way in between: `SchemaIsItsRevision`, `EvidenceSurvives`, `BackfillsAreTrue`. The sets make every guard, data step and constraint decide both ways |
| `structured_forecast` | two workers, three racing calls on one claim over two instants: one basis read three ways and another basis, every mix of dry runs and rejections; determinism, settled answers, refinement of `VintageLedger` |
| `structured_forecast_unchanged` | violation, finding 2 |
| `forecast_outcome` | two workers, three calls among the submissions on two keys and two identities, with dry runs and rejections: exclusive identities, stable resolutions, and that the retry loop ends |
| `forecast_scoring` | two workers, three plans. Four calls about one event: evaluations of three forecasts under two protocols, snapshots at two cutoffs recorded at three instants, while the outcome's releases arrive in either mode. Three calls about an event and a decision, with a benchmark of each kind (a series, a value, a class), a fixed release, and callers who registered nothing. Three runs of the pilot scripts, of one release or of releases that changed a definition, narrowed a cohort, leave out a version, add one, or bring a benchmark, racing with each other and with a caller of the library whose protocol is its own: no retrospective input behind a production score, nothing known after the cutoff in a snapshot, the earliest issue of an event counts, every score follows from the definitions on record or from one its caller went on with uncompared |
| `news_pipeline` | six plans: ingestion, canonicalization, classification and review over stored items; the last three without ingestion, three passes over three items; three ingestions and canonicalizations from nothing; three bootstraps of four registries; an ingestion and a bootstrap; an ingestion whose requests are retried and recorded. Reviews stand, judgements rest on what was known, replays are harmless, and the snapshot and the profile of a settled instant do not change |
| `policy_rates` | two currencies, one announced before and one after the date decisions are stored under, one with two eras, on the registries in the code; three versions of the timing registry; five scripts, two at a time: no look-ahead, nothing newer unexamined, reported is stored, newer evidence stands |
| `economic_events` | three polls, two at a time, of a package that is once read as a single indicator, and of a decision listed twice and announced by two sources, each poll dying anywhere: one occurrence per item, packages are one event, repeats add nothing, settled snapshots stand |

`FinalStaysFinal`, `PastIsFrozen`, `WrittenIsStored`, `OwnersWaitForWorkers` and the type invariants of the
proved modules are theorems and no longer part of a run, as is `BasisIsDeterministic` of
`ForecastOutcome` and of `ForecastScoring`. `PagesHoldTheirCandles` of `CandleWalk` is
stated and holds in TLC, but is no run's property.

**Bounds.** A race here needs two calls in flight over a history a third one began;
three calls give every pairing of creation, revision, conflict and abort, and TLC's
mutant runs confirm that the cases occur; what the theorems cover holds for any
number. Two instants are enough for "earlier", "same" and "later" of a stamp and a
write; of the two in `news_pipeline` only the first is ever settled, which is the case
the property is about. Two values of each
compared field are enough to differ. For `CandleBackfill` a horizon of five instants
over five candle starts allows a first range, a forward and a backward extension of
more than one page, a request at a candle in formation, and a resumption after a
crash. In `policy_rates` five scripts are a backfill per currency, a verification, a
remediation and a question; the decisions include one with a conservative bound only, one
announced the day before the date it is stored under, and one no rule resolves. In
`forecast_scoring` one evaluated forecast is some data and two are a sample, where
the code asks for five and twenty: the classes of adequacy are all met with few
forecasts. In `candle_walk` periods of one to three candles over six
candles pass through the warm-up of every indicator and out of it. Symmetry is used
over the workers only, in runs without liveness, where only invariants and action
properties are checked. Deadlock checking is off because the
bounded systems stop when their calls are used up (`LockPools` never stops, but
calls may be idle).

**Fairness.** Weak fairness of a call's own next step: the asyncio event loop and
PostgreSQL serve every call that can proceed. Strong fairness is added where a call
queues for something others take and release again: the advisory lock (PostgreSQL
grants it to waiters in turn) and the pools (waiters are served in order). No
fairness is assumed of new calls, of the clock, of crashes or of failures.

## Proofs

- `NewsLedgerProofs`: one inductive invariant conjoins the four state invariants
  that TLC checks and `WorkersConsistent`. None is inductive alone: contiguity of histories needs that a
  remembered `latest` is still stored (`WorkersConsistent`), atomicity needs that a
  candidate key belongs to nobody else, and `NoLostObservation` needs that channels
  only grow. The action property `PastIsFrozen` and the refinement
  `NewsImplementsLedger` follow from it. Assumptions: `NewsAssumption` only (the
  bounds are natural numbers and the "no value" constants are not values).
  Its last part is about `VintageLedger` itself: the ledger's order is inductive
  (`AppendKeepsOrder`); its two consequences (the latest entry by number is the latest
  by time; the past is settled) follow for every set of subjects, times and payloads,
  assuming only that revisions and instants are natural numbers (`Numbered`). Whatever
  implements the ledger inherits them.
- `CandleProofs`, about the backfill: an invariant in layers, each inductive given those before.
  *Typed*: types, the roles of the two kinds of call, and `LockHeldThroughout`, from
  which at most one backfill is between its lookup of the watermark and its end.
  *Planned*: given that exclusion, what the lock's holder remembers of the watermark
  (`plan`, `page`) is what the watermark is, which no longer follows once two calls
  may interleave. *Stored*: between a page's upsert and the watermark's update the
  page is in the table. *Final*: while no `IngestCandles` call has been made, a
  fetched page is complete. `CoverageIsStored`, `CoverageIsFinal`, `DoneCoversRequest`
  and `NothingRefetched` are consequences of the layers; `WatermarkOnlyGrows` and
  `FinalStaysFinal` of a step under them. Assumptions: `GridAssumption` (candle
  starts are natural numbers, 0 among them, every instant has a last candle start
  before it) and `BackfillAssumption` (a page holds at least one candle; the "no
  value" constants are not values). That the code's own grid is such a grid, and is
  walked consistently, is the part about the walk below.
  A further part is about `LockPools`: `HeldWhenNeeded`, which relates every connection
  to the part of its call's life that needs it, is inductive together with
  `LockNeedsConnection`; that a lock owner never waits for a lock waiter is an immediate
  consequence, for any pool sizes, of the two engines being different.
- `CandleProofs`, about the walk and what is made of its candles (`CandleWalk`,
  `CandleAggregation`, `Strategies`, `Backtest`), for ranges, page lengths, parameters,
  prices and dates of any size. All these theorems assume `<<3, 1>> \notin Cases`: no H3
  over a spring transition, which is where finding 1 shows the statement to be false.
  - *The walk.* `EveryCandleEnds` is arithmetic about the wall clock: for every
    granularity and transition left, the end of a candle is the next instant that the
    definition of the boundary calls a start. The invariant `WalkIInv` (page starts and
    the cursor are candle starts while the loop goes on; what `find_gaps` expects so far
    is the grid up to where it is) then gives `ExpectsTheGrid`.
  - *Aggregates.* A walk by source candles from one start reaches every source start of
    the bucket and, where it tiles, its end; so members equal to what it reached cover
    the bucket (`WholeBucket`).
  - *Incremental is reference.* `IncrementalIsReference` is not inductive: the signal of
    one candle says nothing of the next one. `ReplayIInv` adds what is remembered: the
    averages are the averages of all closes (`CrossoverMemory`), the sums and the index
    those of all moves (`GatedMemory`), the window the last bars (`ChannelMemory`,
    `ExpansionMemory`), and the cursor stands behind exactly the coarse candles visible
    by the last opening (`TimeframesMemory`), for which the dataset has to be in order
    and on the grid. That a fold over one more value is one more update is proved for
    `Folded` and `Kept`, recursive functions that take the place of the library's folds,
    by induction over the length (`Upwards`, from the well-foundedness of the naturals).
  - *No look-ahead.* `SignalsUseThePast`: the end of a coarse candle is the next boundary,
    so what the code calls visible is what is over by the definition of the boundary.
  - *Trades.* Hypotheses are of candles so far, one per candle, in their order
    (`HypothesesAreOfTheCandles`), so the checks `simulate_trades` makes of order and
    membership never raise. `TradesEarnTheAccount` follows two ledgers candle by candle
    (`Books`): what the trades have earned, and the price of what is open, is what the
    account received for its exposure so far; closing at the end settles both.

  Assumptions: `WalkAssumption`; `StrategyAssumption`, which is what the constructors of
  the strategies require of their periods and thresholds; `BacktestAssumption`: bars are
  bars (`Ohlc`'s checks), prices of coarse candles are natural numbers, the strategies
  are among those of the code.
- `StructuredForecastProofs`: the recorder reads claim, latest vintage and history at
  three moments and writes later, without a lock. The invariant that makes it safe
  combines `Contiguous` (revisions are numbered without gap or repeat, in time order)
  and `CallsOK` (what a call read is still there, and no row up to the latest one it
  read contradicts it). A revision number is then free only if nothing was added since
  the latest vintage was read (`NothingBehind`), so the history that was checked is the
  whole history at the time of the write. Determinism per basis, the atomicity of
  claim and first vintage, and `WrittenIsStored` are parts of the invariant;
  `AnswersAreSettled` and the refinement of `VintageLedger` follow. Assumption:
  `ForecastAssumption`.
- `ForecastOutcomeProofs`: the same argument, after a loop that claims a key. What it
  adds to the invariant is `ClaimIsExclusive`: between the insertion of a binding and
  its commit no committed and no uncommitted binding clashes with it, so a first
  vintage starts an empty history, and a key that is found bound has the candidate's
  identity when the history is read. `KeysMeasureOneThing` and `BasisIsDeterministic`
  are parts of the invariant; `ResolutionsHold` follows because a row is only ever
  appended after all others in number and in time (`AppendKeeps`), and so does the
  refinement of `VintageLedger`. Assumption: `OutcomeAssumption`.
- `EconomicEventsProofs`: mappings are never taken back, so a poll past its mapping
  writes about the occurrence its item leads to (`RowsAreMapped`, `CallOK`). For the
  groups of packages the invariant says who may still map to an occurrence: a poll of
  a schedule that is about to record its mapping minted the key itself
  (`ClaimsAreExclusive`), and items of releases are never items of schedules
  (`NamespaceAssumption`: each adapter writes its own constant as the source of its
  items, and none is used by adapters of both kinds), so at most one item of a
  schedule leads to an occurrence and its group is that item (`GroupsAreItems`).
  `attach_release_group` therefore never raises (`GroupsAreNeverContested`). Responses
  are taken apart by a recursive function of the community modules; that this yields
  entries of the response's own items (`EntriesType`) is proved by induction over sets
  of numbers (`Upwards`, from the least element of a non-empty set of them).

- `ForecastDefinitionsProofs` (for `ForecastScoring` and `ForecastDefinitions`
  together): a key and a revision name one row for ever in all three ledgers
  (`Numbered`), so what a candidate was derived from is what its row refers to whenever
  it is read, and the evaluations a snapshot counts stay the same (`CountedStays`)
  although others are added to the very population it was drawn from. A candidate past
  its reads contradicts nothing up to the latest row it read (`Checked`), as with the
  other recorders. `ScoresAreOnRecord` rests on an account of what callers bring:
  whatever a script no longer has to register, and whatever a caller of the library
  scores under, is `Accounted`, that is, stored with the same content or kept in
  `divergent`. The comparison puts it there, or the lost insertion does
  (`GoingOnAccounts`), and it stays so because a stored version never changes
  (`OnRecordStands`). A candidate follows from an accounted definition
  (`EvaluationExplained`, `SnapshotExplained`); that a stored definition of the same
  content explains it as well is `SameFields`; and foreign keys keep a row from naming
  nothing (`Named`). The admissible set of selections is taken
  apart by `SelectionsCountOnce`. Assumptions: `ScoringAssumption` (a claim and a
  revision name one forecast), `DefinitionsAssumption`, and `PlansAssumption`: what is
  stored at first has its versions, once each, and a script scores with definitions it
  carries (they are constants of the two scripts). Nothing is assumed of which releases
  race, nor of what a caller of the library brings. Without `divergent` the statement
  is false: an evaluation keeps the protocol's name, not its content, so that the
  definitions stored under the names need not explain the score.

- `PolicyRatesProofs`: a row's timing is the date it is stored under, or what some
  version resolved it to (`RowOK`), so a row the readiness check admits was public when
  it is said to be released. What the check does not admit it must not use either. A
  decision in use at the instant itself, or before it, lies within the window and was
  examined. A decision in use three or six months before may lie behind the window; then
  the latest one the window opens with was released by then, because its timing is
  within the margin of its date, and would be in use instead (`NothingAhead`). That a
  window reaches that far is `WindowReaches`, from the least and the greatest element
  of a finite set (`Extremes`, proved by induction over its size).
  `NewerEvidenceStands` needs that the version that last classified a row is known to
  explain its timing (`Warranted`) and that a correction was called for by timing no
  newer version than the run's had given (`Corrects`). Assumptions: `RatesAssumption`,
  `PublicationsAssumption` (providers return numbers under dates the model has) and
  `TimingAssumption`, which says two things of the registries that the code does not
  enforce. `Truthful`: no decision is timed before its announcement, nor more than
  fourteen days after the date it is stored under; the docstring of
  `compute_policy_rate_differential.py` (lines 39-53) calls the margin padding and not a
  proof, and this is what it has to cover. `NeverReverts`: timing that a version
  corrected is not what a later version says; otherwise a correction read long ago finds
  the timing it read again, and its predicate lets it through. TLC evaluates both on
  the registries in the code.

- `SourceRegistryProofs` (for `SourceRegistry` and `NewsPipeline` together: five kinds of
  passes over six tables). All of them read a latest row, some then a whole history, and
  write later under the next number. The invariant says of each step between what its
  pass knows (`CallOK`): the numbers up to the row it read are taken, by rows of the past
  of its instant (`Reserved`). Rows are never removed and come one at a time under a free
  number (`Written`, `TablesGrow`), so what a pass knows outlasts what others do
  (`OthersKnow`), and the next number is free only if nothing was written behind what
  was read. `ReviewsStand` is then that an automatic relation is the first of its pair
  (`AutomaticComesFirst`): the pass read none, so its number is zero, and a verdict
  written meanwhile has taken it. `EvidenceBeforeJudgement` needs that the entries of a
  bootstrap name an organization before they attribute to it, at every point of the list
  (`Grounded`), which holds of the lists a registry gives (`ReadCandidatesKnows`) and of
  what is left of them. `ReplaysAreHarmless` needs that the same grounds always say the
  same (`Deterministic`), which is what the second read of each recorder is for, and of
  observations that a run's later ones never differ from its earlier ones (`RecordOK`).
  Assumptions: `PipelineAssumption` and `RegistryAssumption`: types; what is stored at
  first are first vintages, of an item one each, finitely many; a reply has a status
  exactly if it is a response. That the latest row exists, and that a finite history
  without gap has no number beyond its length, are inductions over numbers (`Upwards`).
  What a run keeps of its responses is a fold of the community modules over the positions
  of a sequence (`Distinct`); that the fold has a result (`FoldExists`) and stays among
  the observations (`FoldStays`) is proved by the same induction.
  `SettledInstantsKeepTheirAnswer` has two halves. One is about operators and any
  tables: the snapshot and the profile go by what is known at the instant, by when items
  were first seen, and by the sources that known attributions name, and by nothing else
  (`SnapshotsAgree`, `ProfilesAgree`). The other is about steps: what is written is
  stamped with the instant its pass read the clock at (`SettledWrites`), an item keeps
  its one first vintage (`FirstsStay`), and a source that is named was registered.

Only model-checked: `Migrations` (`SchemaIsItsRevision`, `EvidenceSurvives`,
`BackfillsAreTrue`: a concrete chain of statements, over which there is no constant to
generalize but the rows); `PagesHoldTheirCandles` of `CandleWalk`; all liveness
(`EveryCallEnds` and the absence of pool deadlock, which rest on fairness and ENABLED),
and the two findings.

## Findings

1. `candle_walk_h3`: for H3, the walk by `candle_end_time` leaves the grid of
   `candle_start_boundary` at the spring-forward, because the candle that starts at
   the skipped 02:00 New York time is read as starting at 03:00, and three hours
   later is 06:00 rather than 05:00. Page starts, and the `earliest_ingested` taken
   from them when extending backward, are then not candle boundaries, against the
   docstring of `backfill_candles.py` (lines 25-27); `find_gaps` walks the same way.
   Every other granularity realigns.
2. `structured_forecast_unchanged`: a recorder that loses a race returns `UNCHANGED`
   although what it submitted differs from everything stored, against the docstring
   of `record_structured_forecast.py` (lines 50-53).

Met while modelling, and kept as the code has it; no run is about them:

- *Policy rates.* A provisional decision stored under a date after the instant asked
  for and more than the margin after the decision used is not examined, though it may
  be public already: `NothingNewerUnexamined` states exactly what holds, which is less
  than the docstring of `compute_policy_rate_differential.py` (about lines 50-66) says.
  A backfill run again after a verification reports every classified change point as
  a conflict, though `src/scripts/backfill_policy_rate_history.py:18-19` calls it
  idempotent. A verification that races another one stops with a `ValueError`
  half-way; so does a backfill at an inverted target range. A remediation by an older
  deployment that starts reading after a newer one's undoes its corrections
  (`Deployable` excludes it). Exact GBP timing has no effective instant, so
  differentials on effective rates with GBP are never available.
- *News.* "The same historical instant always reproduces the same answer"
  (`get_pair_news_evidence_snapshot.py:8-12`) holds once no pass stamped at or before
  that instant is under way, and the four tables are read one after the other. A
  NOT_SAME_STORY verdict between two items that a third one joins makes every later
  snapshot refuse. A review recorded during a canonicalization ends the pass with
  `OutOfOrder`.
- *Sources.* A bootstrap counts an attribution it revised as unchanged
  (`bootstrap_source_registry.py:222-225`). A bootstrap that lost the registration of a
  source to an equal first identity is told UNCHANGED although another revision may
  stand by now. The coverage of a source profile looks at items of any time
  (`get_source_operational_profile_as_of.py:354`), and its publisher is that of one of
  several items first seen at once, in the order rows happen to come in (328-346);
  `SettledInstantsKeepTheirAnswer` leaves the first out and takes all of the second.
- *Scoring.* Scores need not follow from the definitions stored under the names they
  give. The loser of a race for a version is told UNCHANGED though what it holds is
  not stored (`record_forecast_evaluation_protocol.py:114-117`; the other four
  registrations do the same), and the import scores with its own object
  (`import_pilot_forecast_evaluation.py:294`). A caller of the library may bring any
  protocol or cohort, as nothing compares it and the row keeps name and version only,
  so that what `evaluate_structured_forecast.py:17-20` calls "structurally impossible",
  an outcome the protocol's own policy would not have selected, is impossible for the
  object brought and possible for the protocol registered under its name.
  `ScoresAreOnRecord` states exactly how far scores agree with what is on record, and
  its run contains both cases. An evaluation recorded late, with an availability before the cutoff,
  changes the population behind a snapshot, and an identical replay of a snapshot with
  two members may be refused: what is computed is in row order, what is stored is
  read back sorted (`record_forecast_performance_snapshot.py:398-405`,
  `forecast_performance_repository.py:679`). A pending revision is overlooked when the
  newer evaluation is excluded.
- *Calendar.* Overlapping polls can append what was observed earlier as the later
  revision, so the latest revision is not the latest known
  (`ports/economic_event_repository.py`, `add_schedule_vintage`). A release poll that
  comes before the first schedule registers an event of its own for good. An event
  whose poll died before its mapping is never found again. Grouping carries no date.
- *Migrations.* A downgrade of `ecdb152af0a8` drops `source_published_at` unguarded,
  though its docstring says neither change can lose data on its own. A candles table
  that `635084cc3eb0` was downgraded on while it held rows can never be upgraded again
  (its new column is required and has no default). `80877afdbe75` refuses to upgrade
  over two outcomes whose dates differ only in a fraction of a second, and the
  downgrade of `3b03a0c4f0ba` over two such bindings. The tables of migrations and
  models agree at the latest revision, but for the server defaults of six columns and
  the index `ix_evaluation_key_availability`, which only the migrations have.
  `src/alembic/env.py` imports nine of the models, though its comment (lines 10-11)
  says all: autogenerate would not know the tables of the others.
- *Strategies.* The docstring of `multi_timeframe_trend.py` says crossovers alternate
  in direction; two averages that coincide exactly make them repeat (long, level, long).

## Not modelled

Parsing, HTTP beyond retries, formatting, dashboards, research statistics:
no state of their own, or data rather than control. Of the modelled components the
status in `PROJECT.json` says what is left out: dry runs of some recorders, listings
for inspection, consensus and actual values of calendar events (which nothing writes), and
confusion counts. Loss of the lock's connection while a backfill goes on is listed
as a hazard and not modelled: the lock of the model is never lost.
