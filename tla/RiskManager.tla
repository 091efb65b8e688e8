----------------------------- MODULE RiskManager -----------------------------
(***************************************************************************)
(* One RiskManager in the life of one process: entries that evaluate       *)
(* approves and the broker fills, closes reported by the reconciler, the   *)
(* operator's /halt and /resume, and days that pass between the calls.     *)
(* "ledger" observes what the trading day really did: it is reset at       *)
(* midnight, not at the next call, and no action reads it.                 *)
(***************************************************************************)
EXTENDS RiskOps

CONSTANTS
    StartBalance,
    Signals,        \* the signals setups.py may produce
    Outcomes,       \* profits and losses of a trade, in tenths of its risk
    MaxDay,         \* bound: days
    MaxCloses       \* bound: trades closed

ASSUME RunAssumption ==
    /\ StartBalance \in Int
    /\ Signals \subseteq Signal
    /\ Outcomes \subseteq Int
    /\ MaxDay \in Nat \ {0}
    /\ MaxCloses \in Nat

\* What the two bounds below suppose: an account that is not in debt, a cap
\* that is a fraction of it, and stops that are honoured, so that a trade loses
\* at most its risk.
ASSUME StopAssumption ==
    /\ StartBalance >= 0
    /\ MaxGrossHeat <= Scale
    /\ \A outcome \in Outcomes : outcome >= -10

VARIABLES
    risk,       \* the RiskManager object
    today,      \* the UTC trading day of the wall clock
    closes,     \* trades closed so far (for the bound)
    ledger      \* observer: start, peak: balances of today; pnl: realised today

vars == <<risk, today, closes, ledger>>

TypeOK ==
    /\ risk \in Risk
    /\ today \in 1..MaxDay
    /\ closes \in 0..MaxCloses
    /\ ledger \in [start : Int, peak : Int, pnl : Int]

NewLedger(balance) == [start |-> balance, peak |-> balance, pnl |-> 0]

Init ==
    /\ risk = NewRisk(StartBalance, 1)
    /\ today = 1
    /\ closes = 0
    /\ ledger = NewLedger(StartBalance)

\* ScalpBot._try_enter: an approved order the broker fills is registered.
Enter(sig) ==
    LET r == Evaluated(risk, today)
    IN  /\ Approves(r, sig)
        /\ \E amount \in RoundToCent(RiskMills(r)) :
              risk' = RegisterFill(r, sig.instrument, sig.direction, amount)
        /\ UNCHANGED <<today, closes, ledger>>

\* _try_enter without a fill: a veto, a bias mismatch or broker_no_fill.
\* evaluate has run all the same.
NoEntry ==
    /\ risk' = Evaluated(risk, today)
    /\ UNCHANGED <<today, closes, ledger>>

\* The reconciler reports a closed trade.
Close(i) ==
    /\ closes < MaxCloses
    /\ \E outcome \in Outcomes :
         LET pnl == (outcome * risk.open[i].risk) \div 10
         IN  /\ risk' = ClosePosition(risk, risk.open[i].instrument, pnl, today)
             /\ ledger' = [start |-> ledger.start, pnl |-> ledger.pnl + pnl,
                            peak |-> IF risk.balance + pnl > ledger.peak
                                     THEN risk.balance + pnl ELSE ledger.peak]
    /\ closes' = closes + 1
    /\ UNCHANGED today

\* handle_halt and handle_resume write the flag directly.
Halt ==
    /\ risk' = [risk EXCEPT !.halted = TRUE]
    /\ UNCHANGED <<today, closes, ledger>>

Resume ==
    /\ risk' = [risk EXCEPT !.halted = FALSE]
    /\ UNCHANGED <<today, closes, ledger>>

Midnight ==
    /\ today < MaxDay
    /\ today' = today + 1
    /\ ledger' = NewLedger(risk.balance)
    /\ UNCHANGED <<risk, closes>>

Next ==
    \/ \E sig \in Signals : Enter(sig)
    \/ NoEntry
    \/ \E i \in DOMAIN risk.open : Close(i)
    \/ Halt
    \/ Resume
    \/ Midnight

Spec == Init /\ [][Next]_vars

-----------------------------------------------------------------------------
\* The rollover is lazy (risk_manager.py:174), yet whoever asks for the day's
\* accounts after it sees exactly what the trading day realised since midnight
\* and the balance it began with: no stale loss, no lost loss.
LazyRolloverExact ==
    LET r == Rollover(risk, today)
    IN  r.dayStart = ledger.start /\ r.dayPnl = ledger.pnl

\* The kill switch of the day: no position is opened on a day whose realised
\* loss stands at the limit, whatever /resume and the rollover did to the flag.
NoEntryPastLimit ==
    [][Len(risk'.open) > Len(risk.open)
         => Scale * ledger.pnl > -(DailyLossLimit * ledger.start)]_vars

\* Total open risk stays within max_gross_heat of the CURRENT balance, not only
\* of the balance of the entry, up to the half cent that round() may add; for
\* trades that lose at most their risk.
HeatWithinCap ==
    2 * Scale * GrossHeat(risk.open) <= 2 * MaxGrossHeat * risk.balance + Scale

\* The worst a day can do when every stop is honoured: the daily limit plus the
\* heat cap.  Even if all open trades were stopped out now, the day would not
\* have lost more (up to the cent rounding).
WorstDayBounded ==
    2 * Scale * (ledger.pnl - GrossHeat(risk.open))
        >= -(2 * DailyLossLimit * ledger.start)
           - 2 * MaxGrossHeat * ledger.peak - Scale
=============================================================================
