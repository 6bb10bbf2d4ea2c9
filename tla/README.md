# A verification development for fuggers-py

fuggers-py is a Python library for fixed-income analytics: dates and calendars,
bonds, curves, rates, inflation, credit, portfolios, and, around the pricing
code, a runtime that keeps a set of prices up to date while market data arrives
(`src/src/fuggers_py/_runtime`) and stores that keep curves, overrides and
their audit trail (`_storage`). What is hard to get right *and* hard to test is

* the runtime and the stores: `asyncio` tasks that interleave at each `await`, a
  graph with dirty flags, callers that start and stop the engine at the same
  time, timers, timestamps, and several connections to one SQLite file;
* the rules of the market that the pricing code rests on: rare dates, ends of
  months, stubs, holidays next to payment dates, notice periods, and tables that
  must agree. They have little state, but they are asked day after day, and
  what they answer on one day must fit what they answer on the next.

This development models those parts. The formulae on floating-point numbers,
most of the library's 52,000 lines, are out of reach of finite models.

The modules are plain TLA+; TLC checks small instances, and TLAPS proves the
main invariants for all values of the constants.

    tlc -workers 2 -config ReactiveEngine.cfg MCReactiveEngine
    tlapm ReactiveEngine_proofs.tla

Paths below are relative to `src/src/fuggers_py`.

## 1. Inventory

| component | state | operations | interacts with |
|---|---|---|---|
| calculation graph (`_runtime/calc_graph.py`) | nodes, edges both ways, dirty set, cached values with revisions | `add_node`, `add_dependency`, `mark_dirty`, `mark_dependents_dirty`, `update_node_value`, `query_dirty` | called by listener and engine |
| market-data listener, sources (`market_data_listener.py`, `sources.py`, `snapshot.py`, `quotes.py`) | one source per kind of data; the publisher's subscription queues | `publish`, `handle_update`, `handle_scheduler_update`, `add_quote`, `add_fixing`, `add_fx_rate`, the getters | writes sources and graph; read by pricing through an overlay |
| throttle (`scheduler.py` `ThrottleManager`) | time of the last accepted update per key | `allow`, `reset` | asked by the listener |
| schedulers (`scheduler.py`) | loop task, last date or next run, subscriber queues | `tick`, `start`, `stop`, the loops | feed the engine's incoming queue through relays |
| reactive engine (`reactive.py`) | running flag, relays, incoming queue, pricing nodes, reference cache, overlay, subscribers | `start`, `stop`, `process_once`, `register_pricing_node`, `cache_reference_data`, `subscribe_updates`, `publish_market_data_update` | everything above, pricing router, output publisher |
| pricing router (`pricing_router.py`) | the two dicts of a batch | `price`, `price_batch` | reads overlay and curves |
| coordination (`coordination.py`) | leader, partition assignments with versions, services | `acquire`, `release`, `assign`, `register` | used by the nodes of one process |
| SQLite storage (`_storage/sqlite_storage.py`) | tables for curve snapshots, overrides, audit entries, bonds, configs | insert, list, upsert, delete, append | several connections, one file |
| in-memory and file stores (`_storage`) | dictionaries; files read once | save, list by page, delete | - |
| dates, calendars, day counts (`_core`) | holidays of a dynamic calendar | holiday rules, adjust, add and count business days, settle, count days | bonds, rates, inflation |
| bonds (`bonds/`) | a schedule while it is generated; otherwise the settlement date | generate, cash flows, accrued interest, factors, calls | calendars, day counts |
| rates, inflation (`rates/indices.py`, `inflation/`) | stores of fixings | add and look up fixings, overnight coupons, reference index | calendars |
| numerical methods (`_math`) | bracket, iterate, count of a root search | bisection, hybrid, brent; interpolation, optimisation | yields, spreads, curves |
| portfolio analytics (`portfolio/`) | the positions of a builder | totals, weights, buckets, contributions, attribution | bonds |
| curves, credit, funding, volatility | none | formulae | - |
| identifiers, output records, builder, configuration | records | parse, validate, wire | - |

What makes these hard:

* **Interleaving.** `start`, `stop`, `process_once`, the relays and the
  scheduler loops are coroutines of one event loop. They interleave at each
  `await` that suspends, and only there: `stop` suspends once per task it
  cancels, `process_once` only on an empty queue, a relay only on an empty
  subscription. What is read before such a point may be stale after it.
* **Stale state.** A price is computed from the sources and kept in the graph;
  whether it is still good is told by dirty flags alone.
* **Partial failure.** A pricer, a reference provider or a publisher may raise in
  the middle of a batch; an override is committed before its audit entry.
* **Ordering.** Two relays feed one queue; timestamps are the producers';
  readers page through a table that grows and shrinks.
* **Timers.** Loops that poll a clock, restarts, ticks by hand.
* **Rare dates.** A bond is adjusted, accrued and paid by rules that meet only at
  the ends of months, around holidays, in stubs.

What makes each component correct, in a sentence each: the graph marks exactly
the transitive dependents; the engine never keeps a price older than the data
it has seen without knowing it; start and stop leave the engine wired or
quiet; timers emit once per date or instant and miss none they can reach; the
throttle bounds the rate and the staleness; a batch answers each of its
requests; there is one leader, and versions order assignments; a snapshot
version, once returned, is the caller's; overrides are unique, and every change
of one is accounted for by one audit entry; a walk over pages misses nothing
that stays; a holiday rule loses no holiday; adjusting and settling keep
the order of dates; day counts add up; schedules are regular and their loops
end; accrued interest is owed exactly on coupons still to come; principal is
repaid once; calls are where the schedule has them; what is fixed stays fixed; a
root found is a root; tables add up to the totals.

`PROJECT.json` lists the hazards with the line at which each bites.

## 2. Plan

Modules in the order they were and will be written:

1. **The core** (done): `GraphReach`, `MarkDirtyLoop`, `CalcGraph`, then
   `ReactiveEngine`, which composes graph, listener, overlay, queues and
   publisher, and `FreshPrices`, the contract it implements.
2. **Lifecycle** (done): `EngineLifecycle`, with the schedulers' tasks.
3. **Stores** (done): `SnapshotStore` with its contract `VersionedLog`;
   `OverrideStore` with its contract `AuditedMap`; `RecordPages`.
4. **Timers and gates** (done): `PeriodicLoop`, `EodScheduler`,
   `CronScheduler`, `ThrottledFeed`.
5. **Services** (done): `Coordination`, `MarketDataSources`, `PricingBatch`.
6. **The library under the engine** (done): `CivilDates`, `HolidayRules`,
   `BusinessDays` and `CalendarEdits`; `DayCounts` and `AccrualMeter`;
   `CouponSchedule`, `AccruedInterest`, `BondLife`; `FloatingCoupon`,
   `ReferenceCpi`; `RootBracket`; `PortfolioTotals`.
7. **Proofs** (done): all safety properties of graph, engine, start and stop,
   timers and gates, stores and services; of the library all but the holiday rules
   and the growth of a bond's accrued interest (see *Only model-checked*).

Abstract specifications: `FreshPrices` (a board of results, each current or
known to be stale), `VersionedLog` (an append-only log per key), `AuditedMap` (a map
and a bag of entries, one per change).

## 3. The modules

### Calculation graph

`GraphReach` defines `Downstream` as a least fixed point (what every set closed
under the dependents contains), `Marked` is what `mark_dirty` promises with its
two flags. `MarkDirtyLoop` is the loop of `mark_dirty` (calc_graph.py:219-231)
with its stack, step by step: a node taken from the stack is skipped or
expanded. `CalcGraph` has the graph record and its operations as functions from
graph to graph; it uses `Marked` for the loop, which
`MarkDirtyCorrect` justifies for every graph. The revisions of the values are
left out: nothing in the runtime compares them or passes one of its own.

### Reactive engine

`ReactiveEngine` is one run of the engine between `start` and `stop`.
A value of market data is its version, and a result is the versions it
was priced from (`read`), the series above its node at that time
(`upstream`), and whether pricing succeeded (`priced`).

| action | code |
|---|---|
| `PublishMarketDataUpdate`, `SchedulerEmit` | `MarketDataPublisher.publish`, `_AsyncFanout._publish` |
| `RelayMarketData`, `RelayScheduler` | `ReactiveEngine._relay`: a woken relay moves all items of its queue, as it suspends only on an empty one |
| `RegisterPricingNode`, `CacheReferenceData`, `SubscribeUpdates`, `UnsubscribeUpdates` | the methods of those names |
| `ProcessOnce(fault)` | `process_once`: listener, dirty propagation, the batch over dirty nodes, publication and fan-out, in one step because none of it suspends; `fault` is where an exception cuts the batch short |

`FreshPrices` is its contract: updates of series, results on a board, and for each
result either "priced from the latest data" or "stale and known to be". The
refinement maps the overlay to the latest data and dirty pricing nodes to stale ones.

`MCReactiveEngine` adds histories of what an exception kept from subscribers
and publisher, which the properties about those two need.

### Start and stop

`EngineLifecycle` has the tasks one by one: relays and scheduler loops with
their states (created, parked, cancelled, done), generations of the incoming
queue, the list of relays, the scheduler's handle, and each caller's position
in `stop`. `Stop` runs to its first suspension, `SchedulerStopped` and
`RelayStopped` are its resumptions. `process_once` reads the queue of the
generation it began in, and so it does in the model. Several callers may overlap.

### Timers and gates

`PeriodicLoop` is the poll loop with its sleep, lateness, start and stop;
`EodScheduler` and `CronScheduler` add their `tick(now)`, which the loop runs
with the clock's time and a caller by hand with that time or any other (`CallerTicks`,
from the constant `Passed`). An emission of the first says of what date it is and on
what date it was made, one of the second what time it was given and when.
`ThrottledFeed` is `ThrottleManager.allow` under timestamps in any order,
with `reset`; `accepted` is a sequence per key, so that two updates of one
timestamp are two.

### Services

`MarketDataSources` has the quotes, fixings and FX rates with their sides, an
update at a time, and what pricing reads through the overlay
(`_OverlayMarketDataProvider`, reactive.py:34-67) on top of a base provider.

`Coordination`: `InMemoryLeaderElection` and `InMemoryPartitionRegistry` as the
nodes of a process use them, with what each node believes. The registry asks
nobody who leads: any caller assigns and releases partitions.

`PricingBatch` is `price_batch`, a request per step: the key of a request is
parsed before the `try` (`KeyRaises`), then the request is priced (`PriceSucceeds`)
or its failure noted (`PriceFails`). A request is what `PricingInput` lets a
caller leave out or combine, and an output says from what it was priced (market
price, quote or curves), by which path, and whether the price was read as clean
or dirty; the numbers are left out. Reference data has an id of its own
(`BondReferenceData.instrument_id`, bonds/reference_data.py:84), so that only a
bond may lack one. A request may bring the reference data of a single bond, which
then replaces the bond and its id (pricing_router.py:595-596); as long as a request names one
id, the rules for its key and for its output agree (`IdsAgree`).

### Stores

`SnapshotStore`: `insert_curve_snapshot` reads the next version in one statement
(`ReadVersion`) and writes it in another (`WriteRow`, which the primary key
guards, or `InsertFails`); a walk over the pages of `list_curve_snapshots` is a
`CountRows` and a `SelectPage` per page. `VersionedLog` is the contract.

`OverrideStore`: `SaveOverride` and `DeleteOverride` are the first transaction,
`AppendAuditEntry` or `AuditRaises` the second, `Retry` a caller that repeats a
call that raised. SQL's comparison with NULL is modelled, because the table has
no unique constraint and relies on an explicit `IS NULL`. `AuditedMap` is the
contract; its log is a bag, since two connections may append in another order
than they committed.

`RecordPages`: portfolios in a dictionary, listed at once, and bonds in a table,
counted and selected apart, while records are stored and deleted. A record is its
key and its label, for what `PortfolioFilter.matches` looks at besides id and date
(currency, source, instrument, name); a filter is a set of each. So a record
leaves the listing when it is deleted, and also when it is replaced by one that the
filter does not match. A page is an offset into what is listed when it is read. A walk
may miss as many records as rows left the listing meanwhile, and not only as many as are
gone at its end: a row before the cursor that is deleted, stored and deleted again moves
two others past it. Of bonds it may also end early by as many as came between the
COUNT and the SELECT of a page (`late`).

### Dates, calendars and day counts

Dates are day numbers, as `datetime.date.toordinal` has them; `CivilDates`
(`_core/types.py`) converts and adds. `HolidayRules` has the holidays of a year
for SIFMA, TARGET2, the UK and Japan, Easter, joint calendars, and the builders'
loop over years, a year per step. `BusinessDays` is adjustment by the
conventions, adding and counting business days and settlement, on any calendar that
has an open weekday. A search looks through a week more than there are holidays.
`CalendarEdits` changes the holidays of one and merges it with another while
they are used. `DayCounts` has each convention's days and year fraction in
units of 1/1,603,080 of a year (the least multiple of 360, 365, 366 and the
numbers of coupons), so that sums are exact; `AccrualMeter` reads them day by day
from a set of start dates. Years are counted in two ways, as in the code: ISDA sums
over them, AFB adds them one to the date that the last one ended on.

### Bonds

`CouponSchedule` is `Schedule.generate`: an iteration of the forward or backward
loop per step of `Generate`, with the end-of-month rule, stubs and penultimate
dates. `AccruedInterest` is what is due and owed on a settlement date: periods,
payment dates, ICMA reference periods, accrued interest as a fraction of the
coupon, ex-dividend. `BondLife` lets the settlement date run from issue to
maturity, a day per `NextDay`, and adds sinking factors (in units of which the constant
`Notional` says how many there are), calls and puts; `IsBond` is what the constructors accept. `SampleBonds` are the bonds that are run: month ends, stubs at each end, holidays, ex-dividend
days, factors and call windows on and off the schedule.

### Coupons and index levels

`FloatingCoupon` is an overnight coupon while its fixings come in: the business
days of the accrual period, the date each of them observes (lookback, observation
shift, lockout), and whether its rate is the fixing or a projection; rates are
told by their origin. `ReferenceCpi` is the reference index with its lag and
interpolation over fixings that are published, revised and found under
aliases, in exact integers.

### Root search

`RootBracket` has bisection, hybrid and brent on a grid with an arbitrary
function. The formulae that propose a point (Newton, secant, inverse quadratic)
are any point they may propose; what the code then does with a point, it does.

### Portfolios

`PortfolioTotals` builds a portfolio position by position; its tables (totals,
sectors, maturities, contributions, attribution) are operators on the positions.
The tables match by name, so that positions have names, and their analytics names
of their own: a `Holding` that was given analytics reports those as they are
(_analytics_utils.py:110-111), under whatever name they carry. Two lots of one bond have
one name. Sums are
the library's folds over functions, so that they can be reasoned about.

### Modules for runs

Components that share no state are explored in one run without their
interleavings, which would add nothing: in `MCCalls`, `MCFlow`, `MCStore`, `MCServices`
and `MCAnalytics` the variable `part` picks one component, and the variables of
the others stay as they are. `MCAnalytics` extends the modules whose theorems need
most lemmas (root search, calendars, day counts, bonds) and instantiates the others. `MCReactiveEngine` and `MCBondLife` are instances of one.

## 4. The runs

| run | instance | shows |
|---|---|---|
| `engine` | 1 quote, 1 fixing, 2 pricing nodes in a chain, a scheduler node without pricing input, 1 subscriber; reference provider and publisher may raise | `Fresh`; `AppliedInOrder`; `BatchCompletes`; `ViewsFollowGraph`; `OutputsPublished`; the refinement `KeepsPricesFresh` |
| `engine_live` | 1 quote, 2 pricing nodes, scheduler on one of them | `EventuallyRepriced` |
| `calls` | every graph on 3 nodes, every root, both flags; 1 caller, 2 starts, 2 events | `MarksExactlyDownstream`, `CallReturns` (unless an excluded root depends on itself); `CleanStartsAndStops`, `HandledInOrder`, and under fairness `StopReturns`, `HandledWhileRunning` |
| `flow` | 2 keys, window 2, timestamps 0 to 4 in any order; days of 4 instants, checks every 2, up to 1 late, 14 instants; callers tick with the clock's time or with 2 or 9, twice at most with another date | `RateBound`, `WithinOneWindow`; `EmitsOnce`, `NoneMissed` |
| `store` | 2 writers, 1 reader, 2 curves, 3 rows each; 2 connections, a place with and without a date, 2 values, 5 changes; portfolios of 2 ids with and without a date, or 2 bonds, with 2 labels and any filter, pages of 1, 3 changes during a walk | `ReturnedStays`, `PagesMissNothing`, the refinements `KeepsLog` and `KeepsAuditedMap` |
| `services` | 3 nodes, 1 partition; 2 instruments, 2 fixings, 1 pair, 4 updates; every batch of up to 3 of 10 requests | `VersionsTell`, `ReadsAreNewest`, `BatchAnswers` |
| `analytics` | years 1900 to 2199; a calendar of any weekend and 3 holidays; accruals of 400 days from 8 starts; 8 bonds; 6 coupons; 14 months of fixings; every function on 7 points; portfolios of up to 4 of 9 positions, two of them with analytics that were supplied | `NoHolidayLost`, `BusinessDaysKeepOrder`, `AccrualsAddUp`, `ScheduleIsRegular`, `BondRunsOn` (the loop of every schedule ends, and interest then accrues from day to day), `AccruedFollowsCoupons`, `PrincipalIsRepaid`, `CallsAreCoherent`, `CouponKnownAhead`, `RateSettles`, `CpiHasNoJump`, `CpiStays`, `RootIsRoot`, `BisectionConverges`, `TablesReconcile` |
| `lifecycle_loops` | 2 callers, 3 starts | a violation of `OneLoop`, see below |
| `sources_store` | as `services` | a violation of `StoreIsMerged`, see below |
| `bonds_accrued` | a bond from 30 April to 30 April | a violation of `AccruedIsDefined`, see below |
| `bonds_penultimate` | four quarters with a penultimate date | a violation of `ScheduleGenerated`, see below |
| `batch_badid` | as `services` | a violation of `FailureIsCaptured`, see below |

**Bounds.** They are constants named `Max...` and appear only in guards of
producers. Two versions per series suffice for an old update to meet a newer
one in the queues; two pricing nodes in a chain for a result that is stale two
edges away; a node without pricing input for a dirty node that is passed over.
Two starts give one restart, three give the second one a lost task needs. Three
rows with a limit of one give a walk of three pages with inserts between them, and
three changes a row that is deleted, stored and deleted again, or replaced out of the
filter and back. In
`flow` the checks just fit between run time and midnight
(`CheckInterval + MaxLate = DayLength - RunTime`), and the instants of the
cron expression lie closer together than two checks, further apart, and past
the end of the clock; a caller that passes 2 or 9 is behind the clock or ahead of it by
days or instants, and two such ticks of another date give one there and one back. Three requests give a failure between two successes and
two requests of one key. Three hundred years hold every pattern of weekdays,
leap years and, but for a few, Easters. 400 days of accrual pass each anniversary
and a whole leap February; a bond of a year and more has every month end in
it that the rules tell apart, and a Saturday to a Monday of each kind that the
conventions do. Three values of a function (negative, zero, positive, beyond
the tolerance or not) are all that the solvers look at. The invariants that are
proved do not depend on the bounds.

**Fairness.** `engine_live`: weak fairness of each relay, because the event
loop runs a ready task eventually, and of `ProcessOnce`, because the application
is to keep calling it (its documented use); none of producers or registrations.
`calls`: weak fairness of the loop of `mark_dirty`, which is a function that runs
on; of each task, of each suspended caller, and of the
consumer, which calls `process_once` with a timeout; none of start and stop.
`StopReturns` is stated for one caller; two callers that overlap can hang (see
the notes below). `analytics` and `bonds_penultimate`: weak fairness of the loop
of `Schedule.generate`, a function again; none of the calendar.

**Deadlock** is not checked where a system may really stop: all bounds used
up, engine stopped, call returned, bond repaid.

### Disagreements between code and documentation

*Two loops* (`lifecycle_loops`). `_BaseScheduler.stop` awaits the loop it
cancelled and then clears `_task` (scheduler.py:176), whatever it names by
then. A `start` in between has stored a new loop there; its handle is lost, no
later `stop` cancels that loop, and the next `start` creates a second one, where the
docstring says "if it is not already running".

*Fixings that vanish* (`sources_store`). `to_fixing_store` returns the overlay's
fixings alone once there is one (reactive.py:63-64): after the first fixing
update, of whatever index, floating-rate notes are priced without the base
provider's fixings, though the class documents a merge "instead of replacing it outright".

*Accrued interest that raises* (`bonds_accrued`). A fixed bond accrues between
unadjusted dates and passes the adjusted payment date along; the calculator
raises when that date precedes the end of the period (accrued.py:65). Under
`MODIFIED_FOLLOWING`, the default, this is every period that ends on the last
weekend of a month.

*A schedule without end* (`bonds_penultimate`). The branch for the penultimate
date (schedule.py:126) is taken again for every date that is rolled back to
before it and puts the date back on it. With a regular period before
the last one, the loop never ends.

*A batch that is lost* (`batch_badid`). An id that does not parse raises outside
the `try` (pricing_router.py:253), and with it goes the whole batch, whose
docstring says "without aborting the remaining batch".

Met while modelling, and stated as the weaker property that does hold:

* A reference provider that raises leaves `process_once` (reactive.py:270 is
  outside the `try`), so the later nodes of the batch are not priced.
  `BatchCompletes` says what a raising batch leaves dirty.
* A publisher that raises leaves a result in the graph, clean and unpublished
  (reactive.py:263-265), and the batch's updates reach no subscriber:
  `OutputsPublished` and `ViewsFollowGraph` name exactly those results.
* `mark_dependents_dirty` never returns on a node that depends on itself
  (calc_graph.py:222): `CallReturns` excepts it.
* `start` while `stop` is suspended can also leave the engine running without a
  queue, or `stop` waiting for relays it never cancelled (reactive.py:202-213):
  the lifecycle properties are for one caller.
* An insert between the COUNT and the SELECT of a page makes a walk end early
  (sqlite_storage.py:352), and a deletion, or a replacement that the filter does not
  match, shifts rows past the cursor (portfolio_store.py:68): `PagesMissNothing` counts both.
* "Emit once per date" (scheduler.py:211) holds of the clock's dates only: `tick(now)` with
  another date makes the scheduler forget the last one and emit for it again
  (scheduler.py:229, 238). `EmitsOnce` says that a second update for a date comes only across
  such a tick. A later `now` given to the cron scheduler moves its next run past the
  instants up to it (scheduler.py:281): `NoneMissed` takes them for answered by that tick.
* A `Holding` whose supplied analytics go by another name than its own is missing from
  the tables that match the two names, in silence (portfolio/bucketing/__init__.py:101-104,
  58), or is counted as the position that has that name: `TablesReconcile` says by exactly how
  much the tables fall short.
* Reference data of a single bond replaces bond and id of a request whatever id was asked
  for (pricing_router.py:595): the output is stored under one id and names another.
* A delete whose audit entry failed is never audited by its retry, which finds
  nothing to delete (sqlite_storage.py:506): `KeepsAuditedMap` counts the entry
  as refused to the caller.
* A run time closer to midnight than the check interval can miss a date
  (scheduler.py:229), and the cron scheduler answers no
  instant before its first tick (scheduler.py:275): `NoneMissed` has both conditions.
* After a partition is released its versions start over (coordination.py:160):
  `VersionsTell` compares between two releases.
* Two requests of a batch with one key: only the last one's answer is sure to be
  there, and the key may be in outputs and errors at once (pricing_router.py:255).
  The key prefers `instrument_id`, the route the id passed as the instrument.
* A market price of zero counts as none (pricing_router.py:685), and the
  bond of the reference data replaces the one that is passed.
* A lag in calendar days with `MODIFIED_FOLLOWING` may settle on the trade date
  or before it (settlement_rules.py:72): `BusinessDaysKeepOrder` promises
  settlement after the trade for business days.
* Coupon dates are rolled from one another, not from an anchor (schedule.py:121),
  so that 30 August becomes 28 August by way of February: `ScheduleIsRegular`
  allows three days. A first regular date before the start begins the schedule.
* `ActActIcma.year_fraction` raises on an empty or negative interval
  (daycounts.py:250), which the module's head (daycounts.py:3) says is negated;
  `AccrualsAddUp` leaves ICMA to the bonds, and of ACT/365L says only that it
  does not run back within a year.
* On the call date after an open window the price is still the window's
  (callable.py:152), and `first_call_after` and the yield to worst ignore a
  window that is open: `CallsAreCoherent` says so. The flows to a call end with the first
  one paid on its date (callable.py:336): a short stub paid on that date, too, is left out.
* A period that starts on a closed day earns nothing until the first open one
  (indices.py:221), while the rate is divided by the whole period; weights
  are not shifted by an observation shift, and the publication lag is not used.
* On the first of a month the reference index requires its second fixing,
  though it has no weight (reference.py:56).
* `hybrid` raises on a flat slope inside a valid bracket (hybrid.py:72), where
  bisection would go on: `RootIsRoot` speaks of what is returned.
* Of two lots of one bond the tables that keep a value per name count one
  (portfolio/bucketing/__init__.py:100): `TablesReconcile` says of them only what holds while no
  two analytics have one name. `bucket_dv01` adds up all items of a name (58-60): two lots in one maturity
  bucket are right, and the property says so. Matured bonds are in no maturity bucket.

## 5. The proofs

All theorems hold for every value of the constants that satisfies the named
assumptions of the modules; there are no bounds on graphs, nodes, updates,
connections, rows, requests or time beyond the constants. Every safety property
of the runs `engine`, `calls`, `flow`, `store` and `services` is a theorem, and of
`analytics` all but `NoHolidayLost`. A module of proofs extends the module of the run, so that a theorem is about the very
property that TLC checks; where the run explores several components (`PartSpec`),
the component's steps are steps of the run or stutter.

**Graph** (`GraphReach`, `Calls_proofs`). `Downstream` is closed under the
dependents, is the least such set, and grows with the edges. `MarkDirtyCorrect`:
partial correctness alone (`dirty = before \cup Marked` at the end) is not inductive;
`LoopInv` adds that each marked node has its dependents marked or on the stack,
and that nothing on the stack is beyond the promise. At the end the stack is empty,
so the marked set is closed and contains the least closed set.

**Start and stop** (`Calls_proofs`, about `EngineLifecycle`).
`CleanStartsAndStopsHolds` and `HandledInOrderHolds`, for any number of restarts
and events, but for one caller (`OneCaller`): with two neither holds, as
`lifecycle_loops` shows of the first. Neither is inductive.

* `Phases` says where the engine can be: running, stopped, or in a stop that waits
  for the scheduler's loop or for the first or second relay of the last
  start; and in each of them which tasks can still run (all of older starts have
  ended) and where a relay delivers.
* `InOrder` says which queue comes before which: those of an older start before
  those of a newer one, in one start the incoming queue before the
  subscriptions, and everything handled before all that `process_once` can still
  come to read (`Reads`). A `process_once` that a restart left on an old queue may
  still take from it; once it has gone on to a newer queue it never reads the
  old one again, which is why what a stop leaves behind does not come back.

**Engine** (`ReactiveEngine_proofs`). `FreshHolds` and `ImplementsFreshPrices`:
`Fresh` is not inductive; a batch prices from the
overlay, so one must know that an update only ever moves its series
forward (`QueuesAscend`: versions in the queues are newer than the one
applied and ascend across both queues), and that a node once downstream of a
series still is, so that the update dirties it (`StillUpstream`, from edges never
being removed, with the lemmas of `GraphReach`). The proof has a lemma for each
action; `ProcessOnce` covers every fault. Each step of the engine is a step of
`FreshPrices` or stutters.

* `AppliedInOrderHolds` adds `NothingLost`: each version that was sent and is not
  applied is in a queue. That the two queues together hold them ascending and
  once, the property says with quantifiers, not by comparing sequences.
* `ViewsFollowGraphHolds`, `OutputsPublishedHolds` and `BatchCompletesHolds` are
  about `MCSpec`, with the histories of what an exception kept from a client. The
  lemma `BatchOutcome` says what a batch leaves under each fault; `BatchCompletesHolds` says of
  one that returns that no registered node is dirty, and of one that raises while it resolves a
  node that this one still is.

**Timers and gates** (`Flow_proofs`). The throttle: `RateBoundHolds`,
`WithinOneWindowHolds`, and `NeverBackHolds` (a throttled key never goes back in
time between resets), for timestamps in any order, two of one timestamp included. The schedulers, for every
check interval, lateness, run time, length of day and set of instants:

* `EmitsOnceHolds`: the date emitted last is the one that `tick` compares with, and of two
  emissions on the clock's dates with none of another date between them the
  later is for the later date (`DatesFollow`); each cron emission was given a time no earlier
  than the first instant after the one before it (`NextRunFollows`, `EmissionsWait`), so
  that emissions map to instants one to one, which bounds their number.
* `NoneMissedHolds`: while the loop runs, every date or instant up to its last
  check is answered, or was ahead of it (`ChecksEmit`, `ChecksAnswer`). For dates this needs that checks are no
  further apart than run time and midnight, and the step of a check is where it
  is needed: the date of the check is still the date that is due.

**Stores** (`Store_proofs`).

* `ReturnedStaysHolds`, `ImplementsVersionedLog`: a version a writer has read is at
  most one past the newest, so the primary key leaves it only the end of the log.
* `ImplementsAuditedMap`: overrides and their audit log implement `AuditedMap`
  through a mapping that computes the entries still to be written from the calls that
  are between their transactions; what that rests on is that these are finitely
  many. SQL's comparison, with its `IS NULL` branch, is equality of keys
  (`MatchesIsEqual`).
* `PagesMissNothingHolds`: the invariant bounds what the walk has passed by and not
  seen by the number of rows that left the listing. Its heart is about ranks in finite sets:
  after a change no more rows have come to lie before an offset than
  went (`MovedUp`), and a page has every row between two offsets (`PageAndOffset`). Between
  COUNT and SELECT there are no more rows than were counted and came since (`GrowsByWhatCame`),
  which bounds what a walk that ends early leaves out.

**Services** (`Services_proofs`).

* `OneLeaderHolds`, `VersionsTellHolds`: a node that takes itself for the leader is the
  leader, and no assignment is from a term (the releases of its partition so far)
  to come.
* `ReadsAreNewestHolds`: under each key the sources hold the newest update about it, and
  each side of a rate the newest that carries it (`StoredFrom`); the reads follow,
  those that fall back to the mid or to the base provider included.
* `BatchAnswersHolds`, for batches of any length: outputs and errors have one entry per
  key, hold the last request of every key that was reached, and, while keys differ,
  are in the order of the batch (`HasNewest`, `Ascending`).

**Library** (`BusinessDays_proofs` on dates, searches, sums and day counts;
`Analytics_proofs` about the parts of `MCAnalytics`).

* Root search: `RootIsRootHolds`, for every function on every grid, every
  tolerance, every limit of iterations and every point the formulae propose. A root
  is one for its residual, or because the function changes sign within the
  tolerance of it; the second needs `BracketKept`, that the ends of the bracket have
  opposite signs for as long as a solver runs, that brent's iterate is one of them
  and hybrid's between them. `BisectionConvergesHolds` needs `Halved`: after k
  iterations the bracket is no wider than `Size` halved k times, rounded up. Powers of
  two are out of the provers' reach, so "iterations enough" (`Enough`) is said by
  the list of these widths.
* Business days: `FollowingIsNext` and `PrecedingIsLast` (a search finds the nearest
  open day, on every calendar with an open weekday), `DaysAhead` and `DaysBehind`
  (adding n business days leaves n open days behind it). They rest on `OpenInWeeks`:
  in one week more than there are holidays an open day is left, because of an open
  weekday once a week the holidays cannot take all; a number of weeks is mapped to
  dates one to one, so nothing is induced. What sets of dates need is proved from
  cardinalities (`FirstDate`, `LastDate`, `NthDate`).
* Dates: a year or a month is an interval of day numbers (`YearOfDate`,
  `MonthOfDayBounds`, `DateInMonth`), so that the number of a month grows with the
  date (`MonthIndexAscends`) and a date is its month and its day (`DateAt`); what
  `add_months` does is said in these terms once (`MovedByMonths`).
* Calendars: `BusinessDaysKeepOrderHolds`, for every set of holidays that leaves no
  month closed, however they are edited and merged. A date between two others of one
  month is in that month (`SearchInMonth`), which is what the conventions that stay in
  a month need to keep the order of dates (`AdjustAscends`); lags are compared by
  counting open days (`LagsAscend`, `CountingUndoesAdding`).
* Day counts: `AccrualsAddUpHolds`, for every start date and any number of days. A rule
  that looks at each date alone gives it a mark (`ThirtyMark`, `IsdaMark`): a year
  fraction is the difference of two, which negates and adds up, and does not run back because
  marks ascend. For ISDA the sum over the years telescopes (`SumTelescopes`,
  `IsdaTelescopes`), since 365 and 366 days make the same number of parts. 30/360 US
  looks at both ends, and ascends for each start (`UsAscends`). For AFB the recursion is
  solved: the n-th `Anniversary` is in the same month of its year, on the same day but for a
  29 February, which is the 28th ever after (`AnniversariesAre`); a date lies between two
  of them and no others (`WholeYearsExist`, `WholeYearsAreUnique`), and the days that
  remain are never worth more than the year they go on to fill (`AfbAscends`).
* Schedules: `ScheduleIsRegularHolds` for every bond that the constructors accept. The
  invariant of the loop (`BondTypeOK`) says of each date in the list that it is an end,
  the penultimate date, or regular: whole periods from the anchor, on the anchor's
  day of the month or on one that a short month cut to, 28 or later (`IsRegular`).
  It also has to know the one loop that never ends and runs beyond maturity
  (`RollsForEver`). That the dates in order are the set they are taken from is proved
  by ranks (`DatesByRank`, `DatesInARow`).
* Life of a bond: `AccruedFollowsCouponsHolds` and `CallsAreCoherentHolds` rest on
  where the payment date of a period can lie (`PayDates`, `CouponsByDate`) for each
  convention, and coupons being paid in the order of their periods (`PaidInARow`); of windows of
  calls the first open one is the last reached or the one before it (`EntryInForce`).
* Sums: a sum over a set is one of the library's folds, which chooses its members in
  some order. `SumExists` (the recursion has a solution) and `SumsAgree` (the order
  does not matter) are proved by induction on cardinalities, with the induction itself
  from the well-foundedness of the naturals on a set (`NatInduct`), so that no theorem
  with an operator parameter is needed. `SumChanges`, `SumByGroups` and `SumSplits` are what tables need.
* Sinking funds: `PrincipalIsRepaidHolds`, for every notional and number of entries and periods. The
  principal of the periods telescopes (`PrincipalTelescopes`); the factor of
  `factor_on` is the one left by the cash flows as long as each entry is on a coupon
  date of its own (`FactorsMeet`), and then both tables repay the same (`AmortizationMeets`).
* Portfolios: `TablesReconcileHolds`, for every portfolio, set of sectors and
  list of buckets. A table whose rows never share a name reports each of its analytics in one row
  (`ReportsAddUp`, on `SumByGroups`), so that its rows add up to the total less what goes by none of its
  names (`TotalLessMissed`). Where analytics' names differ the last item of a name is the item
  itself (`LastIsItself`), and what a table by name keeps is all there is.
* Overnight coupon: `RateSettlesHolds`, and `CouponKnownAheadHolds` for every
  calendar, period, lookback, lockout and shift, and every order in which fixings
  come. By counting the open days before the end of the period: what a day
  observes has the notice between it and the last day (`ObservedEarly`, with the
  locked days of `LockedBack`), so its fixing is out, and segments follow each other
  without a gap (`SegmentsCover`).
* Reference index: `CpiHasNoJumpHolds`, for every lag, lengths of months and fixings
  (`StepWithin`, `StepOverMonthEnd`), and `CpiStaysHolds`: a fixing under another
  name or month leaves a look-up alone unless it comes before the one found
  (`LookupStays`).

### Only model-checked

* Liveness (`EventuallyRepriced`, `CallReturns`, `StopReturns`,
  `HandledWhileRunning`, `BondRunsOn`): fairness and ENABLED are out of the
  prover's reach.
* `NoHolidayLost`: the remainders of the Easter formulae are beyond the SMT solver. It
  is about a year at a time, and the run has all that the built calendars are for.
* `AccruedGrows`, which `BondRunsOn` states of a bond once its schedule is there: interest
  grows day by day, but not for every bond that the constructors accept. Under ACT/365L a
  stub of more than a year may take some back, under 30/360 one from a 30th to the 31st
  accrues nothing, and under ICMA a forward schedule ignores a penultimate date. The run
  has bonds without these.
* Start and stop with several callers, where the properties do not hold.

Modules that are proved about use fixed points and functions instead of recursion.

### What the proofs changed

A property that TLC finds true of the instances may still say too much. These did,
and each has been corrected where the proof stopped:

* A search for an open day looked through fewer days than holidays can close, and the
  month of a day was looked for up to a month 13 (`CivilDates`).
* An entire month may be closed; then no convention can stay in it. The calendars of
  the theorems are open in every month (`OpensEveryMonth`), as those of all markets are.
* `ScheduleIsRegular`: unadjusted payment dates are not on open days, and a first regular
  date after maturity makes another date the last one (schedule.py:148).
* `AccruedFollowsCoupons`: a stub that adjusting leaves nothing of is paid together with
  the coupon before it, and nobody accrues it.
* `CallsAreCoherent`: a window with an end of its own may still be open after maturity, where
  `is_callable_on` does not look (callable.py:247); and the coupon of a short stub may
  have been paid before the stub has ended.
* `PrincipalIsRepaid`: of two sinking entries on one date interest accrues on the factor of
  the last one and principal is paid to the factor of the first (sinking_fund.py:94-109).
* `PagesMissNothing`: a row may be deleted, stored and deleted again, and counts each time
  (see `RecordPages`).

## 6. Not modelled

* Formulae on floating-point numbers (yields, spreads, risk, curves, swaps, credit,
  funding, volatility, optimisation): no state, and nothing a finite
  model could enumerate. In the engine a price is what it was computed from.
* Parsing, codecs, file and transport layers, identifiers, configuration: input and output.
* Of the calendars the Brazilian tables, of the day counts BUS/252, of the router the
  resolution of curve roles; a batch request whose own reference data is looked up
  a second time by a provider.
* In the engine, a pricing input with `market_data` or `reference_data` of its own, or
  without an id (reactive.py:290-314): in the model every input has an id, and is priced from the
  overlay and the engine's cache and provider.
* A schedule of frequency zero, which is its start and end date (schedule.py:88): the bonds of
  `CouponSchedule` pay every so many months.
* What a fixing says: `add_fixing` of a date that has one overwrites it (indices.py:364-374). In
  `FloatingCoupon` a rate is told by the date it was fixed on, and `RateSettles` says that a day
  goes on reading that date; in `ReferenceCpi` and `MarketDataSources` overwriting does change the value.
* The revisions of the values in the graph, which nothing in the runtime reads.
* The overlay that pricing reads ignores inflation fixings, FX rates and surfaces
  (market_data_listener.py:195 stores them): a price is not theirs to make stale.
* Memory: queues are unbounded in the code and in the models, up to the bounds of the runs.
* Wall clocks that are set back.
