------------------------------ MODULE Backtest -------------------------------
(***************************************************************************)
(* Backtester.run: each historical minute is first played against the open *)
(* trades (BacktestBroker.resolve_candle) and then given to the live       *)
(* pipeline (ScalpBot.on_candle_close: TradeManager, SessionFilter, the    *)
(* setups, RiskManager, the broker's fill).  The loop has one thread, so   *)
(* one candle is one step.                                                 *)
(*                                                                         *)
(* Prices are half pips, money is cents.  What the setups find on a candle *)
(* is an input; so is the calendar, which a caller may put in bot.session  *)
(* and which run_live loads from a file.                                   *)
(***************************************************************************)
EXTENDS RiskOps, Session

CONSTANTS
    Instrument,         \* the one pair of a Backtester
    StartBalance,
    HalfSpread, Slippage,   \* half pips
    PipCents,           \* cents that half a pip is worth per unit
    TpNum, TpDen,       \* tp_r_multiple = TpNum / TpDen
    MaxMinutes, MinProgress, UseTrailing, TrailStart, TrailDistance,
    Atrs,               \* the ATRs a signal may have, in pips
    Prices, Horizon,    \* bounds: mid prices, and the last minute of the data
    CalendarFiles       \* the calendars to try: sets of rows

ASSUME BacktestAssumption ==
    /\ Instrument \in Instruments \ {""}
    /\ {StartBalance, HalfSpread, Slippage, PipCents, TpNum, MaxMinutes,
        MinProgress, TrailStart, TrailDistance, Horizon} \subseteq Nat
    /\ TpDen \in Nat \ {0}
    /\ UseTrailing \in BOOLEAN
    /\ Atrs \subseteq Nat
    /\ Prices \subseteq Int
    /\ \A rows \in CalendarFiles : \A row \in rows :
          row.time # <<>> => row.time[1] \in Int

VARIABLES
    calendar,   \* the rows of the calendar file
    candle,     \* the candle of the last iteration, <<>> before the first
    trades,     \* BacktestBroker._trades, in the order of insertion: their
                \* units, entry, stop, target and the time they were opened
    risk,       \* RiskManager
    records     \* Backtester.records: the time and the money of each close

vars == <<calendar, candle, trades, risk, records>>

Candle == {c \in [time : 0..Horizon, high : Prices, low : Prices, close : Prices] :
              c.low <= c.close /\ c.close <= c.high}

Events == LoadEvents(calendar)
-----------------------------------------------------------------------------
\* BacktestBroker.  The operators take and return what a candle changes,
\* s = [trades, risk, records]; c is the candle, whose time is broker.now.

Bid(c) == c.close - HalfSpread
Ask(c) == c.close + HalfSpread

Pnl(t, price) == (price - t.entry) * t.units * PipCents

\* Mutant: the loss is booked to the day the trade was opened on.
ClosedOnEntryDay(s, t, price, c) ==
    [trades |-> RemoveFirst(s.trades, t),
     risk |-> ClosePosition(s.risk, Instrument, Pnl(t, price), Day(t.opened)),
     records |-> Append(s.records, [time |-> c.time, pnl |-> Pnl(t, price)])]

\* The trade leaves the broker and _on_close tells the records and the risk
\* manager.
Closed(s, t, price, c) ==
    [trades |-> RemoveFirst(s.trades, t),
     risk |-> ClosePosition(s.risk, Instrument, Pnl(t, price), Day(c.time)),
     records |-> Append(s.records, [time |-> c.time, pnl |-> Pnl(t, price)])]

HitsStop(t, c) == IF t.units > 0 THEN c.low <= t.stop ELSE c.high >= t.stop

HitsTarget(t, c) ==
    IF t.units > 0 THEN c.high >= t.target ELSE c.low <= t.target

\* Mutant: a candle that spans both levels pays the target.
ResolveTargetFirst(s, t, c) ==
    IF HitsTarget(t, c) THEN Closed(s, t, t.target, c)
    ELSE IF HitsStop(t, c) THEN Closed(s, t, t.stop, c)
    ELSE s

Resolve(s, t, c) ==
    IF HitsStop(t, c) THEN Closed(s, t, t.stop, c)
    ELSE IF HitsTarget(t, c) THEN Closed(s, t, t.target, c)
    ELSE s

ResolveCandle(s, c) ==
    FoldLeft(LAMBDA acc, t : Resolve(acc, t, c), s, s.trades)
-----------------------------------------------------------------------------
\* TradeManager.

Exit(t, c) == IF t.units > 0 THEN Bid(c) ELSE Ask(c)

Gain(t, c) == (Exit(t, c) - t.entry) * (IF t.units > 0 THEN 1 ELSE -1)

Stalled(t, c) == c.time - t.opened >= MaxMinutes /\ Gain(t, c) < MinProgress

NewStop(t, c) ==
    IF t.units > 0 THEN Exit(t, c) - TrailDistance ELSE Exit(t, c) + TrailDistance

Trails(t, c) ==
    /\ UseTrailing
    /\ Gain(t, c) >= TrailStart
    /\ IF t.units > 0 THEN NewStop(t, c) > t.stop ELSE NewStop(t, c) < t.stop

ManageOne(s, t, c) ==
    IF Stalled(t, c) THEN Closed(s, t, Exit(t, c), c)
    ELSE IF Trails(t, c)
    THEN [s EXCEPT !.trades = ReplaceAll(@, t, [t EXCEPT !.stop = NewStop(t, c)])]
    ELSE s

Manage(s, c) == FoldLeft(LAMBDA acc, t : ManageOne(acc, t, c), s, s.trades)
-----------------------------------------------------------------------------
\* ScalpBot._try_enter.  A signal's direction always agrees with the bias that
\* setups.py took it from, so the bias check rejects nothing.

SignalOn(direction, atr) ==
    [instrument |-> Instrument, direction |-> direction,
     spread |-> 2 * HalfSpread, atr |-> atr, pipValue |-> Scale * PipCents]

\* Mutant: the size is rounded up.
UnitsRoundedUp(r, sig) == RiskMills(r) \div (StopHalfPips(sig) * sig.pipValue) + 1

Units(r, sig) == RiskMills(r) \div (StopHalfPips(sig) * sig.pipValue)

\* evaluate's stop and target are set off the close, place_market_order fills
\* across the spread.
Filled(r, sig, c) ==
    LET stop == StopHalfPips(sig)
        d == sig.direction
    IN  [units |-> d * Units(r, sig),
         entry |-> IF d > 0 THEN Ask(c) + Slippage ELSE Bid(c) - Slippage,
         stop |-> c.close - d * stop,
         target |-> c.close + d * ((TpNum * stop) \div TpDen),
         opened |-> c.time]

TryEnter(s, sig, c) ==
    LET r == Evaluated(s.risk, Day(c.time))
    IN  IF ~Approves(r, sig) THEN {[s EXCEPT !.risk = r]}
        ELSE {[trades |-> Append(s.trades, Filled(r, sig, c)),
               risk |-> RegisterFill(r, Instrument, sig.direction, amount),
               records |-> s.records] : amount \in RoundToCent(RiskMills(r))}

\* Mutant: the gate that holds entries back holds back the managing too.
GateBeforeManage(s, c, signals) ==
    IF CanEnter(Events, Instrument, c.time)
    THEN IF signals = {} THEN {Manage(s, c)}
         ELSE UNION {TryEnter(Manage(s, c), sig, c) : sig \in signals}
    ELSE {s}

\* signals holds what the setups found on the candle: one signal or none.
OnCandleClose(s, c, signals) ==
    IF CanEnter(Events, Instrument, c.time) /\ signals # {}
    THEN UNION {TryEnter(Manage(s, c), sig, c) : sig \in signals}
    ELSE {Manage(s, c)}
-----------------------------------------------------------------------------
\* The risk manager's first day is the one of the run, after all of the data.
Init ==
    /\ calendar \in CalendarFiles
    /\ candle = <<>>
    /\ trades = <<>>
    /\ risk = NewRisk(StartBalance, Day(Horizon) + 1)
    /\ records = <<>>

\* load_csv sorts the minutes; there may be gaps, within a day or over night.
\* fetch_history, which writes the file, repeats no minute.
Later(c) == \A last \in ToSet(candle) : last.time < c.time

Replay(c, signals) ==
    /\ \E s \in OnCandleClose(
                ResolveCandle([trades |-> trades, risk |-> risk,
                               records |-> records], c), c, signals) :
            /\ trades' = s.trades
            /\ risk' = s.risk
            /\ records' = s.records
    /\ candle' = <<c>>
    /\ UNCHANGED calendar

Detected == {{}} \cup {{SignalOn(d, atr)} : d \in {-1, 1}, atr \in Atrs}

Next == \E c \in {c \in Candle : Later(c)}, signals \in Detected : Replay(c, signals)

Spec == Init /\ [][Next]_vars
-----------------------------------------------------------------------------
\* session.py:4, "block NEW entries (open trades are still managed)": no open
\* trade was entered outside the session or near a release that the file
\* announces for its pair or for all, whatever the file's other rows are like;
\* and however the session, a blackout or a gap in the data falls, no trade
\* that the time stop condemns is open once a later candle was handled.
GateHoldsEntriesOnly ==
    \A i \in DOMAIN trades :
        LET t == trades[i] IN
        /\ t.opened % DayLength \in SessionStart..(SessionEnd - 1)
        /\ \A row \in calendar :
              (row.instrument \in {Instrument, "*"} /\ row.time # <<>>)
                => t.opened \notin (row.time[1] - BufferBefore)
                                       ..(row.time[1] + BufferAfter)
        /\ \/ t.opened = candle[1].time
           \/ candle[1].time < t.opened + MaxMinutes
           \/ Gain(t, candle[1]) >= MinProgress

Total(amounts) == FoldLeft(LAMBDA sum, amount : sum + amount, 0, amounts)

PnlOf(some) == Total([n \in DOMAIN some |-> some[n].pnl])

PnlOn(day, some) ==
    Total([n \in DOMAIN some |-> IF Day(some[n].time) = day THEN some[n].pnl ELSE 0])

\* The broker, the risk manager and the statistics tell one story: a position
\* per open trade, in its direction; a balance that the records add up to; and
\* a day's result that is that of the records of the day.
BooksAgree ==
    /\ Len(risk.open) = Len(trades)
    /\ \A i \in DOMAIN trades : risk.open[i].direction * trades[i].units > 0
    /\ risk.balance = StartBalance + PnlOf(records)
    /\ risk.dayPnl = PnlOn(risk.day, records)

NewRecords == SubSeq(records', Len(records) + 1, Len(records'))

\* backtest.py:125, "Stop checked first (pessimistic)", and the order of run: a
\* candle closes no trade that it opened, and pays a trade no more than the
\* worst of the levels it reached.
PaysTheWorst ==
    /\ NewRecords # <<>> => trades # <<>>
    /\ \A r \in ToSet(NewRecords), t \in ToSet(trades), c \in ToSet(candle') :
          /\ HitsStop(t, c) => r.pnl <= Pnl(t, t.stop)
          /\ HitsTarget(t, c) => r.pnl <= Pnl(t, t.target)

NoLookaheadNoLuck == [][PaysTheWorst]_vars

\* A trade that is stopped out loses at most what the risk manager approved for
\* it plus what its fill cost, half a spread and the slippage; any other close
\* may cost the other half of the spread.  That holds across gaps in the prices
\* only because the replay fills a stop at its level.
CostsWhatWasApproved ==
    \A r \in ToSet(NewRecords), t \in ToSet(trades), c \in ToSet(candle') :
        LET cost == Slippage + (IF HitsStop(t, c) THEN 1 ELSE 2) * HalfSpread
        IN  \E p \in ToSet(risk.open) :
               -r.pnl <= p.risk + Magnitude(t.units) * cost * PipCents

LossWithinRisk == [][CostsWhatWasApproved]_vars
=============================================================================
