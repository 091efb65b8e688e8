# forex-scalper in TLA+

A verification project for the live trading path of forex-scalper: a Python bot
that turns an OANDA price stream into candles, decides on entries, sizes them
through a risk manager, keeps a ledger in SQLite and reconciles it with the
broker, under a kill switch, an operator with Telegram commands, and systemd,
which starts the process again whenever it ends.

## 1. Inventory: the system and what is hard about it

| Part | State | Operations | Talks to | Hard to test | What makes it correct |
|---|---|---|---|---|---|
| `RiskManager` (risk_manager.py) | balance, open positions, day accounts, halt flag, loss streak | `evaluate`, `register_fill`, `close_position`, lazy rollover | called by bot, reconciler, Telegram | the day changes between calls and nothing runs at midnight; /resume against the limit; caps that were checked on an older balance | the day's accounts are those of the day; nothing is entered past the limit; heat and factor caps |
| `Repository` (persistence.py) | tables `trades`, `state`, `day_snapshots` | `record_open`, `record_close`, `set_halt`, `clear_halt`, `upsert_day` | written by bot, reconciler, Telegram | each statement commits alone; the process dies between two | a booked row is final; a halt survives |
| `PositionReconciler`, `CloseReasons` | reasons by trade | `sync`, `reconcile_on_startup`, `_close_one`, `mark` | broker, repository, risk manager, journal | every call of `_close_one` can raise after others have had effect; trades end after the list was read | every trade that ended is booked, once, with its reason |
| `LiveEngine`, `ScalpBot`, `TradeManager` | (the above) | `process_event`, `on_candle_close`, `_try_enter`, `manage` | broker, reconciler, risk manager | broker acts between any two requests; lost responses | one trade per pair; memory mirrors rows and broker |
| Watchdog, runner (live.py) | queue, tasks, stop event | `_run_producer`, `_consume`, `_watchdog`, `run_live` | stream thread, engine, systemd | thread against event loop, shutdown races | a dead stream ends the process, which comes back |
| Price stream (stream.py) | aggregators, resamplers, failure window | `add_tick`, `add`, `reset`, `iter_events` | OANDA, producer | reconnects in the middle of a bucket | no candle from a torn minute; no lookahead |
| Cross rates (live_engine.py, data.py, pip_value.py) | resolved instruments, rates, throttle | `refresh`, `_refresh_one` | broker, risk manager | failing quotes, stale rates | no rate, no entry |
| Telegram (telegram_control.py) | none of its own | /halt, /resume, /status, /positions | risk manager, repository | commands at any moment, before the reconciliation too | an acknowledged halt holds |
| `OandaBroker` (execution.py) | none | orders and closes once, reads with retries | OANDA | a lost response to an order | no order is sent twice |
| Signals (bias, regime, setups, indicators) | none, they read the windows of `MarketState` | `get_bias`, `get_regime`, `detect` | `ScalpBot` | every rule is written twice, long and short; overlapping windows behind one length check | long and short are one rule; no average is undefined where it is used; no setup against its bias |
| `SessionFilter`, calendar (session.py, calendar_feed.py) | events by pair | `can_enter`, `load_events` | `ScalpBot`, `run_live` | boundaries, bad rows, a gate that stops more than entries | entries outside the window and near a release never, managing always |
| Backtest (backtest.py) | replay broker, records | `resolve_candle`, `on_candle_close`, `_on_close` | the live pipeline, risk manager | the order within a candle; results that disagree with the risk manager | no lookahead, no luck, one set of books; the candles of the live bot |
| History download (fetch_history.py, `load_csv`) | cursor, result, files | `paginate_candles`, `_fetch_page_with_retry`, `write_csv`, `main` | OANDA, files, the backtest | edges of pages, gaps, a clock that goes on, a kill in the middle of a file | every candle of the range once; a replay never has a hole |

The process is one asyncio loop and a daemon producer thread. Everything from
`sync` to an entry is synchronous, so handlers do not interleave with one
another; what interleaves is the broker (stop loss and take profit fire between
two requests), the wall clock (midnight), the operator between two events, and
the end of the process at any point.

## 2. Modules

| Module | Models | State and actions |
|---|---|---|
| `RiskOps` | risk_manager.py as operators on a record | `Evaluated` and `Approves` split `evaluate` into effect and answer; `RegisterFill`, `ClosePosition`, `Rollover` |
| `RiskManager` | one `RiskManager` over days | `Enter`, `NoEntry`, `Close`, `Halt`, `Resume`, `Midnight`; `ledger` observes what the trading day really did |
| `HaltLifecycle` | the kill switch in memory, in the state table and at the operator | the three committed statements of `set_halt`/`clear_halt` are three actions; crashes and midnight fall between them |
| `TradeLife` | abstract: a trade is filled, ends, is booked once; a trade that an unreliable environment hid may be lost instead | a trade goes `Forward` or is `Lost`, with weak fairness of `Book` |
| `LiveTrading` | `LiveEngine.process_event`, `TradeManager`, `_try_enter`, watchdog, boot, over broker, rows and `RiskOps` | `pc` is where the process is; a step is what happens between two requests; each failure is an action guarded by `Faults` and counted by `MaxFaults` |
| `Candles` | the bucket arithmetic of `TickAggregator`, `CandleResampler` and `backtest.aggregate` | operators: `Added`/`Emitted` are the state and the answer of `add_tick` and `add`; `Aggregate` (the set of `aggregate`'s candles) and `FedBy` (those that are over, in order) are the offline reference |
| `MarketFeed` | stream, aggregators, resamplers, warm-up, rolling windows | `Quote` (with the whole `_process` of the candle it closes), `Minute`, `Connect`, `Disconnect`, `Restart` with warm-up |
| `LiveRunner` | producer thread, asyncio loop, queue, consumer, watchdog, shutdown, systemd, and the failure window of `iter_events` | one action per step of the thread and per ready callback of the loop |
| `CrossRates` | `CrossRateBook`, the retries of `OandaBroker`, `pip_value_per_unit` | one action per request of a refresh; `Candle` starts it, `Size` is the entry that uses the rates |
| `Session` | session.py, calendar_feed.py | operators: `LoadEvents`, `InSession`, `NewsBlackout`, `CanEnter` |
| `Backtest` | `Backtester.run` with the replay broker, `TradeManager` (time stop and trailing), `on_candle_close` | one action, `Replay`, per candle of the data: resolve, manage, gate, evaluate, fill |
| `Signals` | bias.py, regime.py, setups.py, indicators.py over a window of candles | operators down to the indicators, in exact fractions; the one action, `AddCandle`, grows the window |
| `History` | fetch_history.py `main`, and `backtest.load_csv` | `FetchPage`, `Retry`, `Dies`, `Write`, `WriteCut`, `TimePasses`; `Load` is what the backtest makes of a file |
| `RiskOps_proofs` | lemmas about `RiskOps`: sums over sequences and sets, what a list lacks after a removal, the types of the manager's operators | `RiskOps` |
| `RiskManager_proofs`, `HaltLifecycle_proofs`, `LiveTrading_proofs`, `LiveRunner_proofs`, `MarketFeed_proofs`, `Prices_proofs` (of `CrossRates` and `Signals`), `Replay_proofs` (of `Backtest` and `History`) | the theorems | |
| `MCRiskManager`, `MCLiveTrading`, `MCMarketFeed`, `MCLiveRunner`, `MCCrossRates`, `MCBacktest`, `MCSignals`, `MCHistory` | values of the constants for TLC | |

`RiskManager`, `LiveTrading` and `Backtest` extend `RiskOps`: the arithmetic is
written once. `LiveTrading` instantiates `TradeLife` with a refinement mapping from rows
and broker state to the stage of each trade. The other modules meet it at an
event: `MarketFeed` says what a candle is, `LiveRunner` that it arrives, once and
in order, `LiveTrading` what `process_event` does with it and with the ledger,
`CrossRates` the pip value it sizes with. The process handles one event at a
time, so these four can be checked apart.

### Choices of abstraction

* Money is in integer cents; the fractions of `RiskConfig` are numerators over
  `Scale`; `round(x, 2)` is "the nearest cent, either one on a tie", because the
  tie depends on the binary value of the float.
* In `LiveTrading`, `RiskManager` and `Backtest` what a setup finds is a signal from a
  small set, and "there is none" is always possible (`NoEntry`): they hold for any
  signals, more than `detect` gives (`Detected`). `Signals` says which ones there are, and that they agree with their bias, so
  the strict test of bot.py:95 has nothing to reject. `Backtest` has the session gate.
* In `Signals` prices are whole points and averages exact fractions: what is shown of
  a comparison holds up to the rounding of floats. One window stands for the three
  timeframes, and `Detect` is asked for every bias and regime, not only for those of
  the window. Setup B is off by default (`enable_setup_b`) and on in the run.
* In `History` a candle is the time at which it starts, a page is the set of its candles (they come in
  order), and a row may be cut; the broker
  has any set of candles. The file of an earlier download is not there at the start.
* `LiveTrading` is one trading day without /halt: days and halts are the subject
  of the other two modules. A pair is only traded in one direction there
  (`OneWayAssumption`): an order against an open position would net at the
  broker, which is the broker's arithmetic and not this code. The trailing stop
  is off by default and left out.
  A close is answered in one of three ways: it ended the trade or found it gone
  (`TimeStop`, `WatchClose`), it raised with or without effect (`...Lost`), or it had no
  fill and the trade stands, marked, while the loop goes on (`...Unfilled`).
* In `MarketFeed` a tick is the candle of one price, so aggregator and resampler
  are one operator. The queue between them is first in, first out and nothing in
  a candle depends on when it is handled, so the tick that closes a candle and
  its `_process` are one step. The broker's ticks come in the order of time.
* In `LiveRunner` `process_event` is one step in which only the thread moves, and
  events are numbers round a ring that the backlog cannot fill. The exit code is
  left out: the unit has `Restart=always`.
* In `CrossRates` a rate is a fraction, 1/mid or mid; `pip_size` is a constant
  factor of both and left out. `_last_refresh = None` is an age beyond the throttle.
* In `Backtest` a price is a whole number of half pips, the take profit is exact for
  the constants of the run, and a record keeps the money and not its R. The loop has
  one thread and no requests, so a candle is one step. The calendar is what a caller
  puts in `bot.session`; `backtest.main` itself loads none, so its statistics
  include entries that the live gate would have held back.
* In `HaltLifecycle` money is one bit: does the realised loss stand at the limit.

## 3. Runs

| Run | Properties | Shows |
|---|---|---|
| `risk_manager` | `TypeOK`, `LazyRolloverExact`, `HeatWithinCap`, `WorstDayBounded`, `NoEntryPastLimit` | two days of entries, closes, /halt, /resume with the default configuration in cents: the lazily rolled accounts are exact, nothing is entered past the limit, heat stays under its cap while losses shrink the balance, a day cannot lose more than limit plus heat |
| `halt_lifecycle` | `TypeOK`, `HaltHasCause`, `ManualHaltHolds`, `DailyHaltHolds` | a halt that took hold today is in force today over any crash and restart, and none outlives its cause |
| `live_faults` | `ClosedOnlyIfOver`, `BookedOnce`, `BrokerReasonTrue`, `EveryTradeKnown`, `OneTradePerInstrument`, `RiskMirrorsRows`, `BalanceIsBooked`, `ImplementsTradeLife` | with any two faults of any of thirteen kinds a row is closed only for a trade that is over, and only once; rows, broker and memory agree between two events, and results are counted once, unless one of the faults each property names has happened; and under fairness every trade that ended is booked, unless a crash, a lost order response or a failed row hid it |
| `market_feed` | `MarketIsReplay`, `MinuteOfOneConnection`, `SeriesOrdered`, `UntornCandlesTrue` | over reconnects and a restart within buckets the higher candles are those `backtest.aggregate` cuts from the same 1M candles, at the same moment; no 1M candle mixes two connections; a bucket that no disconnect tore is the broker's own candle |
| `live_runner` | `EveryEventOnceInOrder`, `NoEventInShutdown`, `ExhaustedExactly`, `DeadStreamRestarts`, `WatchdogRuns`, `EventsFlowAgain` | events reach the engine once and in order, none in a shutdown; the stream is given up exactly at its limit, a dead one ends the process, the watchdog is not starved, and after any trouble events flow again |
| `cross_rates` | `TypeOK`, `FreshWhenSized`, `PipValueTrue`, `RatesComeBack` | quotes that fail and move between the requests of a refresh: a trade is sized with a rate that was not due, or was fetched since, or whose own fetch failed; never without one; and every rate comes back |
| `backtest` | `GateHoldsEntriesOnly`, `BooksAgree`, `NoLookaheadNoLuck`, `LossWithinRisk` | every short series of candles over two days: the session and the calendar hold back entries and nothing else; broker, risk manager and records agree; no candle closes what it opened, and a candle that spans both levels pays the stop; a loss stays within the approved risk and the cost of dealing |
| `history` | `HistoryComplete`, `ReplaysPrefix`, `DownloadEnds` | for any candles of two pairs, failing requests, a running clock and a kill anywhere: a pair that `main` is done with has every candle of the range once; a file that loads is a beginning of the history without a hole; the download ends |
| `signals` | `MirrorSymmetric`, `DecisionsGrounded` | for every window of up to seven candles, with the prices upside down the bias turns round, the regime stays and the setups find the same signal the other way; past the length checks no average is undefined; no signal is against its bias |
| `halt_manual` (violated) | `ManualHaltUntilResume` | a /halt ends at midnight, against telegram_control.py:88 |
| `halt_limit` (violated) | `LimitHaltsDay` | a limit reached over the stale flag of an earlier day is not recorded; a restart trades on |
| `live_balance` (violated) | `BalanceFromBroker` | the result of a trade that closed while the bot was down is counted twice |

### Bounds

* `risk_manager`: 2 days and 4 closes. Four positions is the configured maximum
  and the daily limit takes three full losses, so a limit, a resume against it, a
  fourth close and a rollover over open positions all occur.
* `halt_lifecycle`: 3 days, because a stale flag needs one day to be set, one to
  go stale and one to show; 2 positions, so that a close is possible while
  another position stands.
* `live_*`: 2 trades in 2 pairs and 2 faults. What goes wrong in this code takes
  one trade and one fault, or two of either (a lost close, then a restart; two
  closes of which the first one raises); the theorems of section 5 have no bound.
* `market_feed`: 4 ticks over 5 minutes, buckets of 2 and 3 minutes (one divides
  the clock's end and one does not), windows of 2 candles, 2 connections, 1 restart.
  Two ticks tear a bucket, a third closes it and a fourth closes the next one; the
  window is full after two. One pair: pairs meet only at a reconnect, which
  resets them all. The bounds end the run, hence `CHECK_DEADLOCK FALSE`.
* `live_runner`: 3 failures in a window of 3 units, with sleeps of 1 and 2, so
  that failures leave the window, stand on its edge and exhaust it; a backlog of 2
  is the least in which an event can overtake another. No bound on time, restarts
  or trouble.
* `cross_rates`: one currency quoted each way, one not at all and the account's
  own, a throttle of 2 units, 2 attempts a request. No bound on time.
* `backtest`: days of 5 minutes with a session of 3, data up to the first session minute
  of the second day, six prices, a stop of 2 half pips and a target of 3. A candle can
  span both levels; a trade can be stopped on the day after its entry, trailed, stalled
  in the session, after it and in a blackout; one full loss reaches the daily limit.
  The data end, hence `CHECK_DEADLOCK FALSE`.
* `history`: candles of 2 minutes, pages of 2, a range of 6 minutes that begins within
  a candle, 3 attempts, a clock that may complete one candle more. Every set of traded
  candles: full pages, a page that ends at the last candle, gaps at an edge, an empty
  pair. Two pairs, so that one is done when the other one dies.
* `signals`: averages over 2 candles, slope over 1, structure and body over 2 and 3;
  four shapes: a trend candle and a rejection behind a gap, each way. Seven candles are
  the least in which every bias and regime occurs, with both setups both ways, and the
  signal of the window's own bias and regime. The mirror is a price with round levels
  alike on both sides. Candles end, hence `CHECK_DEADLOCK FALSE`.
* Every property has a mutant of the code under `PROJECT.json`: an operator with a
  plausible bug, for which TLC finds the property violated under the same cfg.

### What a fault costs

`happened` observes which kinds of fault have struck in the run so far. A property that does not survive a fault says so itself
with `NoneOf`:

* `Reconciled` excludes `openRow` and `orderLost` (the trade is unknown until the
  next restart adopts it, which is what the code promises), `bootRead` (the startup
  reconciliation is declared non-fatal, live.py:333: the bot then trades with an
  empty position list until the next restart, so the duplicate, heat and factor
  gates do not see what is held), `closeRow` and `journal` (memory and table differ
  until the next sync).
* `BalanceIsBooked` excludes `closeRow`: `close_position` runs before
  `record_close`, so when the table write raises the next sync counts the same
  result a second time.
* `ImplementsTradeLife` calls the environment reliable while `crash`, `orderLost` and
  `openRow` have not struck, and after them a trade may be lost: one that ends before
  its row exists is in neither list that `reconcile.py` compares and is never booked.
  No fault of the other ten kinds loses a trade.

### Behaviour seen while modelling that no run carries

* Closing the hedge leg can leave a USD bet above `max_factor_exposure`
  (risk_manager.py:263): the cap is tested at entry only.
* A restart makes the current balance the day's start balance and the day's realised
  loss 0 (live.py:286, and live.py:288 overwrites the day's snapshot, which nothing reads
  back): a day with restarts can lose the daily limit several times. The build-out plan
  (docs/superpowers/plans/2026-06-14-forex-scalper-live-buildout.md:446) has it that "a
  restart never loses the halt flag, daily P&L baseline, or trade ledger".
* A crash, or a journal that raises, between `record_close` and `set_halt`
  (reconcile.py:123-147) leaves a limit that was reached unrecorded; the close is booked,
  so nothing makes up for it, and a restart trades on that day. `DailyHaltHolds` begins
  where the halt is recorded. The design of 2026-06-18 (line 105) wants each close-journal
  write wrapped "so a logging error can't prevent the actual close/risk update"; it is not.
* When the response to an order is lost after the fill nothing knows the trade until the
  next restart, and the next signal enters the pair again: sending an order once does not
  by itself rule out the double position that execution.py:176 is about.
  `OneTradePerInstrument` and `EveryTradeKnown` name `orderLost` for this reason.
* A table write that raises after `close_position` has the result counted twice in the
  balance (reconcile.py:124); see `BalanceIsBooked` above.
* A stop loss that fires between the snapshot and the time stop is booked as
  `time_stop` (trade_manager.py:60); the direction that holds is
  `BrokerReasonTrue`.
* A reconnect resets the aggregators but not the resamplers (stream.py:346,
  live_engine.py:182): a 15M or 1H bucket with a gap in it is emitted as complete.
  So is the bucket in which the process was started. `UntornCandlesTrue` is what
  remains true.
* A stream that the broker closes in good order is opened again at once
  (stream.py:313): no sleep and no failure counted, however often.
* The queue has no bound and an event carries its price: while a request retries
  events wait, and are then traded on at the price they came with (live.py:351).
* The replay fills a stop at its level however far the price gapped past it
  (backtest.py:127), where the live bot would lose more; it tests levels against mid
  prices; and a trade that is open when the data ends is in no record. With trailing
  on, `_on_close` measures R from the trailed stop.
* `load_csv` (backtest.py:293) says it tolerates rows with missing fields, but
  `csv.DictReader` makes `None` of a field that is not there, and `None.strip()` raises
  (backtest.py:303): a file that was cut within a row does not load. One that was cut
  within the last price loads with that price wrong.
* The download has the candle that covers `start` too, which began before it
  (fetch_history.py:128, `includeFirst`).
* A candle without a body counts as one that went up (models.py:52), so at a doji a long
  pullback may fire whose mirror image does not (setups.py:68, 78).
* The throttle of `CrossRateBook.refresh` is set before the requests, and a rate
  that cannot be fetched stays in use without limit (live_engine.py:88).

## 4. Fairness

`FairSpec` has weak fairness of `Program`, what the process does by itself when
nothing fails. It stands for three facts: candles keep coming (the stream
reconnects, or the process ends and systemd, `Restart=always`, starts it again),
the asyncio loop runs what is ready, and failures are finitely many (`MaxFaults`).
Nothing is assumed of the broker: a trade may stay open for ever.

`LiveRunner` accounts for the first of these facts. Its `FairSpec` assumes that the
thread is scheduled, that a stream without trouble connects and brings ticks, that
time passes, that the loop runs its callbacks in order, that the interpreter exits,
and that systemd starts the process again (`Restart=always`, `RestartSec=10`).
Failures and restarts are not assumed to end: `EventsFlowAgain` has "the trouble is over
at some time" as its premise, and allows for `--max-runtime-seconds`, which
may end every run before an event is handled. `CrossRates` assumes that candles come and requests end.
`History` assumes that a request ends, in an answer or an exception, and that the
process runs or ends; not that a request ever succeeds.

## 5. Proofs

Checked by TLAPS for every value of the constants that satisfies the named
assumptions (`RiskAssumption`, `RunAssumption`, `StopAssumption`, `BoundsAssumption`,
`LiveAssumption`, `OneWayAssumption`, `RunnerAssumption`, `FeedAssumption`, `BacktestAssumption`,
`SessionAssumption`, `SignalsAssumption`, `HistoryAssumption`).
`StopAssumption` is needed by the two bounds on money only: an account that does not start
in debt, a heat cap that is a fraction of it, and trades that lose no more than their stop.
`OneWayAssumption` (a pair is traded one way) stands for the broker's netting of opposite
trades, which is not modelled.

* `TypeCorrect`, `RolloverExact`, `KillSwitch` (RiskManager_proofs). The invariant
  is `DayAccounts`: if the manager's day is today its accounts are the ledger's,
  and if not the day has realised nothing yet. From it `Rollover` gives exact
  accounts, and `Evaluated` has set the flag whenever the loss stands at the limit.
* `HeatCapped`, `WorstDay` (RiskManager_proofs): `HeatWithinCap` and `WorstDayBounded` for
  any number of positions, signals, results and days. Every step is classified by what it does
  to the money (`MoneyMoves`): it opens one position within the cap (`Opens`), takes one out with
  a result no worse than its stop (`Loses`), or keeps the positions (`KeepsPositions`), the day's accounts
  with them or renewed (`NewDay`). `OneEach` (a pair
  has one position, so a close removes one) makes the second exact: the heat falls by what is
  risked, the balance by no more. That the cap, a fraction of the balance, survives the
  loss needs `MaxGrossHeat <= Scale`; that it bounds the day needs `Solvent` (the account
  covers its heat, and the peak is no less than the balance).
* `RiskOps_proofs` has no theorem of the specification: it proves what the folds of `RiskOps`
  compute. A fold over a set is shown to satisfy its recursion by the smallest set on
  which it would not (`FoldHasSolution`), the prover having no induction, and from that: a sum loses
  what a removal takes, gains what an append adds, does not depend on the order, and is not negative.
* `HaltTypeCorrect`, `ManualHalt`, `DailyHalt` (HaltLifecycle_proofs). `HaltInv`
  says that a halt held today is in memory while the process runs, and in the
  table (with its reason and its day) whenever the process could die, and follows
  the three statements of a handler in flight. `SwitchHasCause` has an invariant of
  its own, `CauseInv`: a flag, in memory or in the table, has a cause that is not
  older than what the expiry test can see.
* `NoLiveTradeBooked`, `BookedRowsAreFinal` (LiveTrading_proofs). `LedgerInv`:
  a row exists only for a filled trade, closed rows are of trades that are over,
  and what a loop has still to visit has an open row and is over at the broker,
  so a list that was read long ago cannot book a live trade.
* `NoTradeForgotten` (LiveTrading_proofs): `EveryTradeKnown` for any number of trades.
  `KnownInv` follows a trade from its fill to its row, and through the crash and the
  boot that may fall between the two: what the broker has without a row is in hand, or
  will be in the list that the boot reads and adopts.
* `ImplementsTradeLifeSafety`: the initial states and every step of `LiveTrading`
  map to `TradeLife`'s, or stutter, under the refinement mapping `Stage`. `WrittenInv`
  says where a trade without a row can be while the environment is reliable, `DealMoves`
  which way a trade can go at the broker.
* The four theorems on money and memory (LiveTrading_proofs) share `StepKinds`: every step
  of the specification is one of a few kinds (`StepKind`: it only looks, the broker or the bot
  ends a trade, a trade is filled, registered, booked or miscounted, orphans are adopted, a
  process boots or leaves), and each invariant is proved once per kind.
  `BrokerClosesAreTheBrokers` (`BrokerReasonTrue`): `ReasonInv` follows the reason from the bot's
  own close through the dictionary to the row; `AdoptRead` says that the boot's list holds every open row.
  `BalanceFollowsTable` (`BalanceIsBooked`): the booked results are a sum over the trades, which a
  booking raises by its own result (`BookedMore`) and everything else leaves (`BookedSame`).
  `PairTradedOnce` (`OneTradePerInstrument`) and `MemoryMirrorsTable` (`RiskMirrorsRows`) rest on one
  invariant, `PairInv`: trades in play (at the broker, in the table or in hand) have different
  pairs, and the manager's positions stand one to one for the open rows and the trade in hand. Neither half is
  inductive alone: only the memory keeps the second trade of a pair out, and only because
  pairs differ does a close take the right position.
* `QuietShutdown` (LiveRunner_proofs). `ShutdownInv`: once the shutdown began the
  consumer has no turn and no callback can wake it, and a process that is down has
  left neither thread nor callback.
* `EventsInOrder` (LiveRunner_proofs): `EveryEventOnceInOrder` for any backlog. `OrderInv`: the line of
  events (the queue, then the callbacks that are ready to put, then what the thread hands over
  next) is numbered on from the event expected, round a ring that the backlog cannot fill. A callback
  lines up (`LineUp`), moves from the loop to the queue (`LineMoves`) or is served (`LineServed`).
* `GivenUpExactly` (LiveRunner_proofs): `ExhaustedExactly` for any limit, window and backoff. `WindowInv`: the deque
  is the end of the history of failures, and what it lacks is older than the window; what is that
  old stays so, which makes popping from the left enough.
* `RatesTypeCorrect`, `FreshRates`, `TruePipValues` (Prices_proofs). `DoneRate`:
  a rate that the refresh under way is done with is no older than that refresh,
  or its fetch failed; `TrueRate`: a rate is the worth of a quoted currency
  until its quote moves. Both are stated for the currencies outside `todo`, or for
  all, so the order and the number of currencies do not matter.
* `Grounded` (Prices_proofs): `DecisionsGrounded` for any periods, thresholds and
  prices, and windows of any length. `EndsInWindow` is the arithmetic behind the regime's
  length check (the baseline's places, `step` apart, lie in the window with room for an
  average before the first), `SetupsFollowBias` the case split over the setups.
  `SignalsAssumption` asks that `ema_period + 5` candles also hold the setup's ATR and
  its swing, which the defaults (20, 14, 5) do and `_pullback` does not check.
* `LongAndShortAreOneRule` (Prices_proofs): `MirrorSymmetric` for any periods, thresholds and
  candles, and windows of any length. `IsTurned` says that a fraction is another one upside down, over the
  same denominator; sums, blends and shifts keep it (`TurnedBlend`, `TurnedShift`) and comparisons turn round
  (`TurnedLess`). An average is a fold, so the one of the mirrored window goes in lockstep with the first (`SmoothedIs`,
  `SmoothedTurned`); true ranges and bodies are the same, and so the ATR and the regime. `LevelTurned` is the arithmetic
  of `round`: half to even is its own mirror image, because the axis is a level. `Matched` carries a
  signal through the two setups, once for long and, turned round again, for short. Of the constants it needs
  that the thresholds are fractions, the shapes of candles whole points and every lookback positive.
* `GateHoldsOnlyEntries`, `BooksAlwaysAgree`, `NoLookaheadInReplay`, `ReplayLossWithinRisk`
  (Replay_proofs): the four properties of `Backtest` for any spread, slippage, session, calendar, configuration and
  series of candles. `ReplayInv`: there is one trade and its position, or neither (`OneStory`), since one pair is replayed and
  `evaluate` refuses a second position of a pair; the position has the direction, the units and
  the risk of the trade (`Holds`); the records add up to the accounts, and none is of a later day than they
  are. So the folds over the open trades, which the broker and the manager run, do their body once or
  not at all (`ResolveOnce`, `LoopOverNone`), and a candle either leaves the trade, trails its stop, or closes it
  once (`Played`). That a loss stays within the risk needs the rounding of the units downwards and a
  stop that is only ever moved towards profit; the gate, that nothing but an entry reads the calendar.
* `HistoryIsComplete`, `FilesReplayPrefix` (Replay_proofs): the invariants of `History` for any range, page size and
  gaps. `DownloadInv`: while `main` asks for pages its result is every candle up to the cursor (`Collected`), when it writes
  it is the whole range (`Fetched`), and a file is always a beginning of the history. `PageBegins` says that a page leaves no gap and
  that a short one is all there is, whether the data ended or a candle was still forming; `PageCollects` that each way out of the loop
  has the whole range, and that the net for a cursor that stands still never catches. Between two pages the clock goes on, and one candle of the range
  may complete: `OneForming`, from the grid of the candles, says that there is no more than one.
* `LiveIsBacktest` (MarketFeed_proofs): `MarketIsReplay` for any timeframes, window and stream. No induction
  over data is needed, because the resampler is compared with `aggregate` after every candle. `Holds`:
  the bucket under construction is the last group that `aggregate` would make of the candles
  so far (`MadeOf` says what a candle of a group is, without `Max` and `CHOOSE`). `HoldsMore` keeps it so with one more
  candle, and `FedMore` shows that what `Emitted` returns is what the backtest feeds next. Both need
  the minutes to rise (`Rising`), and `FedMore` that `sorted` puts a later bucket last (`InOrderAppend`, by ranks).
  `WindowMore`: cutting a window after every append is cutting it once at the end.
* `WholeMinutes` (`MinuteOfOneConnection`): `AggregatorHolds` says that the aggregator has the last
  minute of its connection, all of it, and `Emissions` that the candles so far are whole minutes
  (`OfMinute`) that came before it. A tick joins that minute or closes it (`Joins`, `Closes`); every other step
  leaves the candles alone, or empties the aggregator (`FeedMoves`).
* `CandlesInOrder` (`SeriesOrdered`): `WarmInv` has a time `since`, that of the last boot, by which
  everything loaded was over and before which nothing was streamed; a bucket that begins before
  `since` but is streamed still starts no earlier than the last one loaded ends (`BucketOver`).
* `UntornIsTrue` (`UntornCandlesTrue`): `CoverInv` says that of a connection made since the last boot
  every minute but the last was emitted. So if all ticks of a bucket came over one, each is in a
  minute that the resampler got, and a bucket of whole minutes is the bucket of their ticks
  (`MadeOfTwice`), in the order in which they came.

Only model-checked: all liveness, which is out of the prover's reach: `RatesComeBack`, `DownloadEnds`, the
liveness half of `ImplementsTradeLife`, and the liveness of `LiveRunner`.

## 6. Not modelled

The configuration, the journal's rows, the notifier and the smoke test are values,
formatting and output; a journal that raises is a fault of `LiveTrading`. Of the
broker the trailing stop (`modify_stop`) is modelled in `Backtest` only: it is off in the
live bot by default. Of the backtest the report, the split by date and the synthetic data
are left out. /status and /positions change nothing; /status calls the bot halted by the
flag of the table too, which outlives the rollover (telegram_control.py:101). What floats
round in the indicators is outside the exact fractions of `Signals`.

## 7. Plan

Done, in this order: risk manager; kill switch; live trading over `TradeLife`;
candles and stream; runner; cross rates; session and backtest; the refinement with every
fault, and what a crash may lose; history download; signals.

To come:

1. Two traded pairs in opposite directions with the broker's netting, which would lift
   `OneWayAssumption`.
2. The boot of `LiveTrading` over the days and halts of `HaltLifecycle`.
