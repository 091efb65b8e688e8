----------------------------- MODULE LiveTrading -----------------------------
(***************************************************************************)
(* The trading pipeline of one account: LiveEngine.process_event (sync,    *)
(* manage, enter), the watchdog, and the boot of run_live, over the        *)
(* broker's trades, the rows of the Repository and the RiskManager.        *)
(*                                                                         *)
(* The process is one thread, so its steps are in sequence ("pc"); the     *)
(* broker closes trades between any two of them, requests fail, and the    *)
(* process dies and comes back.  A step is what happens between two        *)
(* requests.  All of it is one trading day: days are RiskManager's and     *)
(* HaltLifecycle's subject, and so is the operator's /halt.                *)
(***************************************************************************)
EXTENDS RiskOps, FiniteSets

CONSTANTS
    StartBalance,
    Signals,        \* the signals setups.py may produce
    Outcomes,       \* profits and losses of a trade, in tenths of its risk
    MaxTrades,      \* bound: trades ever filled
    Faults,         \* what may go wrong, of FaultKinds
    MaxFaults       \* bound: how often

FaultKinds ==
    {"restart",     \* the process ends between two events (FatalStreamError)
     "crash",       \* the process is killed
     "read",        \* a read of open trades or prices raises
     "bootRead",    \* the same, in reconcile_on_startup
     "balance",     \* account_summary raises
     "pnlUnknown",  \* closed_trade_pnl returns None
     "orderLost",   \* the order is filled, the response is lost
     "closeLost",   \* the response to a close is lost, or it is refused
     "closeUnfilled",   \* a close is answered without a fill
     "openRow",     \* record_open raises
     "closeRow",    \* record_close raises
     "journal",     \* the journal file cannot be written
     "stop"}        \* a trade stands without a stop loss

ASSUME LiveAssumption ==
    /\ Instruments # {}
    /\ StartBalance \in Int
    /\ Signals \subseteq Signal
    /\ Outcomes \subseteq Int
    /\ MaxTrades \in Nat \ {0}
    /\ Faults \subseteq FaultKinds
    /\ MaxFaults \in Nat

\* An order against a position of the account would net with it at the broker.
ASSUME OneWayAssumption ==
    \A s, t \in Signals :
        s.instrument = t.instrument => s.direction = t.direction

Trades == 1..MaxTrades
Day == 1

VARIABLES
    deal,       \* the broker: trade -> its state there
    rows,       \* the trades table: trade -> its row
    dbHalted,   \* the state table: a halt of today
    risk,       \* the RiskManager
    reasons,    \* CloseReasons
    pc,         \* where the process is
    pending,    \* the trades its loop has still to visit
    seen,       \* the broker's open trades as reconcile_on_startup read them
    faults,     \* faults so far (for the bound)
    happened,   \* observer: the kinds of fault so far
    base        \* observer: the balance of this boot, less what was booked then

store == <<rows, dbHalted>>
memory == <<risk, reasons>>
control == <<pc, pending, seen>>
count == <<faults, happened, base>>
vars == <<deal, store, memory, control, count>>

\* risk is what the bot means to lose: the broker does not know it.
NoDeal ==
    [status |-> "none", instrument |-> CHOOSE i \in Instruments : TRUE,
     direction |-> 1, risk |-> 0, pnl |-> 0, by |-> "nobody", stop |-> TRUE]

NewRow(status, amount, pnl, reason) ==
    [status |-> status, risk |-> amount, pnl |-> pnl, reason |-> reason]

Init ==
    /\ deal = [t \in Trades |-> NoDeal]
    /\ rows = [t \in Trades |-> NewRow("none", 0, 0, "none")]
    /\ dbHalted = FALSE
    /\ risk = NewRisk(StartBalance, Day)
    /\ reasons = [t \in Trades |-> "none"]
    /\ pc = "down" /\ pending = {} /\ seen = {}
    /\ faults = 0 /\ happened = {} /\ base = StartBalance

-----------------------------------------------------------------------------
SumOf(Amount(_), trades) ==
    FoldFunctionOnSet(+, 0, [t \in Trades |-> Amount(t)], trades)

AtBroker == {t \in Trades : deal[t].status = "open"}
OpenRows == {t \in Trades : rows[t].status = "open"}
ClosedRows == {t \in Trades : rows[t].status = "closed"}
BookedPnl == SumOf(LAMBDA t : rows[t].pnl, ClosedRows)

Counted(kind) ==
    /\ kind \in Faults /\ faults < MaxFaults
    /\ faults' = faults + 1 /\ happened' = happened \cup {kind}

Fault(kind) == Counted(kind) /\ UNCHANGED base

Goto(label, trades) == pc' = label /\ pending' = trades /\ UNCHANGED seen

\* ---- the broker -----------------------------------------------------------

Becomes(t, status, pnl, by, stop) ==
    deal' = [deal EXCEPT ![t] =
        [status |-> status, instrument |-> deal[t].instrument,
         direction |-> deal[t].direction, risk |-> deal[t].risk,
         pnl |-> pnl, by |-> by, stop |-> stop]]

\* The trade t ends with one of Outcomes; nothing happens to one that is over.
Ends(t, who) ==
    IF deal[t].status = "open"
    THEN \E outcome \in Outcomes :
            Becomes(t, "closed", (outcome * deal[t].risk) \div 10, who,
                    deal[t].stop)
    ELSE UNCHANGED deal

\* Stop loss or take profit.
BrokerClose(t) ==
    /\ t \in AtBroker
    /\ Ends(t, "broker")
    /\ UNCHANGED <<store, memory, control, count>>

StopVanishes(t) ==
    /\ t \in AtBroker /\ deal[t].stop
    /\ Fault("stop")
    /\ Becomes(t, "open", 0, "nobody", FALSE)
    /\ UNCHANGED <<store, memory, control>>

BrokerBalance == StartBalance + SumOf(LAMBDA t : deal[t].pnl, Trades)

\* ---- sync, and the closes of reconcile_on_startup: _close_one -------------

\* Mutant: only trades the RiskManager holds are looked for.
SyncReadHeld ==
    /\ pc = "idle"
    /\ Goto("sync", {t \in OpenRows \ AtBroker :
                       \E n \in DOMAIN risk.open :
                           risk.open[n].instrument = deal[t].instrument})
    /\ UNCHANGED <<deal, store, memory, count>>

SyncRead ==
    /\ pc = "idle"
    /\ Goto("sync", OpenRows \ AtBroker)
    /\ UNCHANGED <<deal, store, memory, count>>

\* Mutant: a failed read passes for an empty list.
SyncReadFailsEmpty ==
    /\ pc = "idle" /\ Fault("read")
    /\ Goto("sync", OpenRows)
    /\ UNCHANGED <<deal, store, memory>>

SyncReadFails ==
    /\ pc = "idle" /\ Fault("read")
    /\ Goto("manage", {})
    /\ UNCHANGED <<deal, store, memory>>

\* Where an exception in _close_one leads: sync is skipped for this candle, a
\* failed startup reconciliation is not fatal.
Abandon ==
    /\ pc' = (IF pc = "sync" THEN "manage" ELSE "idle")
    /\ pending' = {} /\ seen' = {}

TakenReason(t) ==
    IF reasons[t] # "none" THEN reasons[t]
    ELSE IF pc = "sync" THEN "broker_close" ELSE "broker_close_startup"

Settle(t, pnl) ==
    /\ reasons' = [reasons EXCEPT ![t] = "none"]
    /\ risk' = ClosePosition(risk, deal[t].instrument, pnl, Day)

RecordClose(t, pnl) ==
    rows' = [rows EXCEPT ![t] =
                NewRow("closed", rows[t].risk, pnl, TakenReason(t))]

CloseOne(t, pnl) ==
    /\ pc \in {"sync", "adopt"} /\ t \in pending
    /\ Settle(t, pnl)
    /\ RecordClose(t, pnl)
    /\ dbHalted' = (dbHalted \/ risk'.halted)
    /\ Goto(pc, pending \ {t})
    /\ UNCHANGED deal

CloseKnown(t) == CloseOne(t, deal[t].pnl) /\ UNCHANGED count

CloseUnknown(t) == Fault("pnlUnknown") /\ CloseOne(t, 0)

ClosePnlRaises ==
    /\ pc \in {"sync", "adopt"} /\ pending # {}
    /\ Fault(IF pc = "sync" THEN "read" ELSE "bootRead")
    /\ Abandon
    /\ UNCHANGED <<deal, store, memory>>

\* record_close raises: the risk manager has been told, the table has not.
CloseRowFails(t) ==
    /\ pc \in {"sync", "adopt"} /\ t \in pending
    /\ Fault("closeRow")
    /\ Settle(t, deal[t].pnl)
    /\ Abandon
    /\ UNCHANGED <<deal, store>>

\* Mutant: the journal is written before the table.
CloseJournalFirst(t) ==
    /\ pc \in {"sync", "adopt"} /\ t \in pending
    /\ Fault("journal")
    /\ Settle(t, deal[t].pnl)
    /\ Abandon
    /\ UNCHANGED <<deal, store>>

\* The journal raises: set_halt and the other closes are not reached.
CloseJournalFails(t) ==
    /\ pc \in {"sync", "adopt"} /\ t \in pending
    /\ Fault("journal")
    /\ Settle(t, deal[t].pnl)
    /\ RecordClose(t, deal[t].pnl)
    /\ Abandon
    /\ UNCHANGED <<deal, dbHalted>>

SyncDone ==
    /\ pc = "sync" /\ pending = {}
    /\ Goto("manage", {})
    /\ UNCHANGED <<deal, store, memory, count>>

\* ---- on_candle_close: TradeManager.manage ---------------------------------

\* The event of an instrument that is not traded ends here.
NotTradeable ==
    /\ pc = "manage"
    /\ Goto("idle", {})
    /\ UNCHANGED <<deal, store, memory, count>>

ManageRead ==
    /\ pc = "manage"
    /\ Goto("managing", AtBroker)
    /\ UNCHANGED <<deal, store, memory, count>>

\* open_trades or get_price raises: on_candle_close gives the candle up.
ManageReadFails ==
    /\ pc = "manage" \/ (pc = "managing" /\ pending # {})
    /\ Fault("read")
    /\ Goto("idle", {})
    /\ UNCHANGED <<deal, store, memory>>

Keep(t) ==
    /\ pc = "managing" /\ t \in pending
    /\ Goto("managing", pending \ {t})
    /\ UNCHANGED <<deal, store, memory, count>>

\* Mutant: the mark is not kept.
MarkNothing(t, reason) == UNCHANGED reasons

Mark(t, reason) == reasons' = [reasons EXCEPT ![t] = reason]

\* Marked first, closed then; a trade that is gone by now answers 404.
TimeStop(t) ==
    /\ pc = "managing" /\ t \in pending
    /\ Mark(t, "time_stop")
    /\ Ends(t, "bot")
    /\ Goto("managing", pending \ {t})
    /\ UNCHANGED <<store, risk, count>>

\* close_trade raises, whether the broker has closed the trade or not.
TimeStopLost(t) ==
    /\ pc = "managing" /\ t \in pending /\ Fault("closeLost")
    /\ Mark(t, "time_stop")
    /\ Ends(t, "bot") \/ UNCHANGED deal
    /\ Goto("idle", {})
    /\ UNCHANGED <<store, risk>>

\* The answer has no fill, or closes no trade: close_trade returns None, as it
\* does for a trade that is gone, and the loop goes on although this one stands.
TimeStopUnfilled(t) ==
    /\ pc = "managing" /\ t \in pending \cap AtBroker /\ Fault("closeUnfilled")
    /\ Mark(t, "time_stop")
    /\ Goto("managing", pending \ {t})
    /\ UNCHANGED <<deal, store, risk>>

ManageDone ==
    /\ pc = "managing" /\ pending = {}
    /\ Goto("enter", {})
    /\ UNCHANGED <<deal, store, memory, count>>

\* ---- on_candle_close: _try_enter ------------------------------------------

\* No entry window, no setup, a veto, a rejected order.
NoEntry ==
    /\ pc = "enter"
    /\ risk' \in {risk, Evaluated(risk, Day)}
    /\ Goto("idle", {})
    /\ UNCHANGED <<deal, store, reasons, count>>

\* evaluate approves and the broker fills the order as the trade t.
Fill(t, sig) ==
    /\ pc = "enter"
    /\ deal[t].status = "none"
    /\ \A earlier \in 1..(t - 1) : deal[earlier].status # "none"
    /\ Approves(Evaluated(risk, Day), sig)
    /\ risk' = Evaluated(risk, Day)
    /\ \E amount \in RoundToCent(RiskMills(risk')) :
          deal' = [deal EXCEPT ![t] =
              [status |-> "open", instrument |-> sig.instrument,
               direction |-> sig.direction, risk |-> amount,
               pnl |-> 0, by |-> "nobody", stop |-> TRUE]]
    /\ UNCHANGED <<store, reasons>>

PlaceOrder(t, sig) ==
    /\ Fill(t, sig)
    /\ Goto("filled", {t})
    /\ UNCHANGED count

OrderResponseLost(t, sig) ==
    /\ Fault("orderLost")
    /\ Fill(t, sig)
    /\ Goto("idle", {})

RecordOpen(t, amount) ==
    rows' = [rows EXCEPT ![t] = NewRow("open", amount, 0, "none")]

RegisterDeal(t) ==
    risk' = RegisterFill(risk, deal[t].instrument, deal[t].direction,
                         deal[t].risk)

Enter(t) ==
    /\ pc = "filled" /\ t \in pending
    /\ RegisterDeal(t)
    /\ RecordOpen(t, deal[t].risk)
    /\ Goto("idle", {})
    /\ UNCHANGED <<deal, dbHalted, reasons, count>>

EnterRowFails(t) ==
    /\ pc = "filled" /\ t \in pending /\ Fault("openRow")
    /\ RegisterDeal(t)
    /\ Goto("idle", {})
    /\ UNCHANGED <<deal, store, reasons>>

\* ---- the watchdog, between two events -------------------------------------

WatchRead ==
    /\ pc = "idle"
    /\ \E t \in AtBroker : ~deal[t].stop
    /\ Goto("watch", {t \in AtBroker : ~deal[t].stop})
    /\ UNCHANGED <<deal, store, memory, count>>

WatchClose(t) ==
    /\ pc = "watch" /\ t \in pending
    /\ Mark(t, "watchdog_no_stop")
    /\ Ends(t, "bot")
    /\ Goto("watch", pending \ {t})
    /\ UNCHANGED <<store, risk, count>>

WatchCloseLost(t) ==
    /\ pc = "watch" /\ t \in pending /\ Fault("closeLost")
    /\ Mark(t, "watchdog_no_stop")
    /\ Ends(t, "bot") \/ UNCHANGED deal
    /\ Goto("idle", {})
    /\ UNCHANGED <<store, risk>>

WatchCloseUnfilled(t) ==
    /\ pc = "watch" /\ t \in pending \cap AtBroker /\ Fault("closeUnfilled")
    /\ Mark(t, "watchdog_no_stop")
    /\ Goto("watch", pending \ {t})
    /\ UNCHANGED <<deal, store, risk>>

WatchDone ==
    /\ pc = "watch" /\ pending = {}
    /\ Goto("idle", {})
    /\ UNCHANGED <<deal, store, memory, count>>

\* ---- the process comes and goes -------------------------------------------

\* A fresh ScalpBot, whose balance is the account's.
Boot(balance) ==
    /\ pc = "down"
    /\ risk' = NewRisk(balance, Day)
    /\ base' = balance - BookedPnl
    /\ reasons' = [t \in Trades |-> "none"]
    /\ Goto("boot", {})
    /\ UNCHANGED <<deal, store>>

Start == Boot(BrokerBalance) /\ UNCHANGED <<faults, happened>>

\* BotConfig.starting_balance stands in.
StartWithoutBalance == Counted("balance") /\ Boot(StartBalance)

\* Step 1 of reconcile_on_startup; a halt of today has not expired.
RestoreHalt == risk' = [risk EXCEPT !.halted = dbHalted]

\* Mutant: every row the broker does not list, booked ones too.
BootReadAllRows ==
    /\ pc = "boot"
    /\ RestoreHalt
    /\ pc' = "adopt" /\ seen' = AtBroker
    /\ pending' = {t \in Trades : rows[t].status # "none"} \ AtBroker
    /\ UNCHANGED <<deal, store, reasons, count>>

BootRead ==
    /\ pc = "boot"
    /\ RestoreHalt
    /\ pc' = "adopt" /\ pending' = OpenRows \ AtBroker /\ seen' = AtBroker
    /\ UNCHANGED <<deal, store, reasons, count>>

BootReadFails ==
    /\ pc = "boot" /\ Fault("bootRead")
    /\ RestoreHalt
    /\ Goto("idle", {})
    /\ UNCHANGED <<deal, store, reasons>>

\* Steps 4 and 5, from what was read before the closes.
\* Mutant: the risk of the rows is forgotten.
NoKnownRisk(t) == 0

KnownRisk(t) == IF rows[t].status = "open" THEN rows[t].risk ELSE 0

PositionOf(t) == [instrument |-> deal[t].instrument,
                  direction |-> deal[t].direction, risk |-> KnownRisk(t)]

\* Mutant: orphans of the broker are left out of the table.
AdoptedNone(trades) == rows

Adopted(trades) ==
    [t \in Trades |-> IF t \in trades THEN NewRow("open", 0, 0, "none")
                      ELSE rows[t]]

\* open_positions anew, in the order of the broker's answer: newest first.
Held(trades) ==
    \E newest \in [1..Cardinality(trades) -> trades] :
        /\ \A i, j \in DOMAIN newest : i < j => newest[i] > newest[j]
        /\ risk' = [risk EXCEPT !.open =
                       [i \in DOMAIN newest |-> PositionOf(newest[i])]]

\* Mutant: positions of the trades the table knew, not of the broker's.
RebuildFromRows ==
    /\ pc = "adopt" /\ pending = {}
    /\ rows' = Adopted(seen \ OpenRows)
    /\ Held(seen \cap OpenRows)
    /\ pc' = "idle" /\ seen' = {}
    /\ UNCHANGED <<deal, dbHalted, reasons, pending, count>>

Rebuild ==
    /\ pc = "adopt" /\ pending = {}
    /\ rows' = Adopted(seen \ OpenRows)
    /\ Held(seen)
    /\ pc' = "idle" /\ seen' = {}
    /\ UNCHANGED <<deal, dbHalted, reasons, pending, count>>

\* record_open raises for an orphan.
RebuildFails ==
    /\ pc = "adopt" /\ pending = {} /\ Fault("openRow")
    /\ \E some \in SUBSET (seen \ OpenRows) :
          some # seen \ OpenRows /\ rows' = Adopted(some)
    /\ pc' = "idle" /\ seen' = {}
    /\ UNCHANGED <<deal, dbHalted, memory, pending>>

Dies(kind) ==
    /\ Fault(kind)
    /\ pc' = "down" /\ pending' = {} /\ seen' = {}
    /\ UNCHANGED <<deal, store, memory>>

Restart == pc = "idle" /\ Dies("restart")
Crash == pc # "down" /\ Dies("crash")

-----------------------------------------------------------------------------
\* What the process does of itself when nothing fails.
Program ==
    \/ SyncRead \/ SyncDone \/ NotTradeable \/ ManageRead \/ ManageDone
    \/ NoEntry \/ WatchRead \/ WatchDone \/ Start \/ BootRead \/ Rebuild
    \/ \E t \in Trades :
          \/ CloseKnown(t) \/ Keep(t) \/ TimeStop(t) \/ Enter(t)
          \/ WatchClose(t)
          \/ \E sig \in Signals : PlaceOrder(t, sig)

Broker == \E t \in Trades : BrokerClose(t) \/ StopVanishes(t)

Failure ==
    \/ SyncReadFails \/ ClosePnlRaises \/ ManageReadFails
    \/ StartWithoutBalance \/ BootReadFails \/ RebuildFails
    \/ Restart \/ Crash
    \/ \E t \in Trades :
          \/ CloseUnknown(t) \/ CloseRowFails(t) \/ CloseJournalFails(t)
          \/ TimeStopLost(t) \/ TimeStopUnfilled(t) \/ EnterRowFails(t)
          \/ WatchCloseLost(t) \/ WatchCloseUnfilled(t)
          \/ \E sig \in Signals : OrderResponseLost(t, sig)

Next == Program \/ Broker \/ Failure

Spec == Init /\ [][Next]_vars

\* Candles keep coming, the loop runs, systemd restarts the process.
FairSpec == Spec /\ WF_vars(Program)

-----------------------------------------------------------------------------
\* A row is closed only when the trade is over at the broker: the bot never
\* loses sight of a live trade, whatever is read late or fails.
ClosedOnlyIfOver ==
    \A t \in Trades : rows[t].status = "closed" => deal[t].status = "closed"

\* A booked row is final: record_open's INSERT OR REPLACE never reopens it and
\* no close is recorded twice.
BookedOnce ==
    [][\A t \in Trades : rows[t].status = "closed" => rows'[t] = rows[t]]_vars

\* No fault of these kinds has happened.
NoneOf(kinds) == happened \cap kinds = {}

\* Nothing that leaves broker, rows and memory apart until a restart gets through
\* its reconciliation: a fill whose response or row is lost, a close that raises
\* half way, a reconciliation that does not reach its end (it is not fatal).
Reconciled == NoneOf({"openRow", "orderLost", "bootRead", "closeRow", "journal"})

\* What sync books as the broker's own close was not one of the bot's.  The
\* reasons are in memory and are taken before the row is written: a row that
\* fails, or a startup reconciliation that does not get to its closes, loses
\* them.
BrokerReasonTrue ==
    NoneOf({"bootRead", "closeRow", "journal"}) => \A t \in Trades :
        rows[t].reason = "broker_close" => deal[t].by = "broker"

\* Between two events every trade that stands at the broker has an open row:
\* a fill that a crash cut off from record_open is adopted on the way up.
EveryTradeKnown ==
    pc = "idle" /\ Reconciled => AtBroker \subseteq OpenRows

OfInstrument(trades, i) == {t \in trades : deal[t].instrument = i}

\* The pair is traded once at a time, at the broker and not only in memory.
OneTradePerInstrument ==
    Reconciled =>
        \A i \in Instruments : Cardinality(OfInstrument(AtBroker, i)) <= 1

\* A position of the RiskManager is the one of the open row of the trade t.
StandsFor(position, t) ==
    /\ position.instrument = deal[t].instrument
    /\ position.direction = deal[t].direction
    /\ position.risk = rows[t].risk

\* Between two events the RiskManager holds exactly the open rows: a position
\* for each, of its pair, direction and risk, and no other one.
RiskMirrorsRows ==
    pc = "idle" /\ Reconciled =>
        \E held \in Bijection(OpenRows, DOMAIN risk.open) :
            \A t \in OpenRows : StandsFor(risk.open[held[t]], t)

\* Within one process every result that is booked has reached the balance,
\* once: the RiskManager and the table never count different results, unless
\* record_close raises after close_position has counted.
BalanceIsBooked ==
    (pc # "down" /\ NoneOf({"closeRow"})) => risk.balance = base + BookedPnl

\* The process still has the trade t in hand, to write its row: it was filled
\* just now, or the startup reconciliation has seen it at the broker.
InHand(t) == (pc = "filled" /\ t \in pending) \/ (pc = "adopt" /\ t \in seen)

\* The abstract life of a trade, which this module implements under fairness
\* whatever fails: what has ended at the broker is booked, once.  Lost is only a
\* trade that ended without a row, and none is lost before the process crashed,
\* or the answer to an order or the writing of an open row failed.
Stage(t) ==
    CASE deal[t].status = "none" -> "none"
      [] deal[t].status = "open" -> "live"
      [] deal[t].status = "closed" /\ rows[t].status = "closed" -> "booked"
      [] deal[t].status = "closed" /\ rows[t].status = "none" /\ ~InHand(t) -> "lost"
      [] OTHER -> "ended"

Life == INSTANCE TradeLife WITH
    stage <- [t \in Trades |-> Stage(t)],
    reliable <- NoneOf({"crash", "orderLost", "openRow"})

ImplementsTradeLife == Life!Spec

\* reconcile.py:5: "rebuild risk state from broker truth on startup"; so when
\* nothing is left to book, the balance is the account's.
BalanceFromBroker ==
    pc = "idle" /\ (\A t \in Trades : deal[t].status # "closed"
                                       \/ rows[t].status = "closed")
        => risk.balance = BrokerBalance

=============================================================================
