------------------------------- MODULE RiskOps -------------------------------
(***************************************************************************)
(* The arithmetic of risk_manager.py as operators on a risk record: what   *)
(* RiskManager.evaluate answers, and what register_fill, close_position    *)
(* and the lazy day rollover make of the state.                            *)
(*                                                                         *)
(* Money is an integer number of cents.  RiskConfig's fractions are        *)
(* numerators over Scale, so that amount * Scale stays an integer: a       *)
(* "mill" is a cent / Scale.  Distances are in half pips, which makes      *)
(* stop_atr_mult = 3/2 exact.                                              *)
(***************************************************************************)
EXTENDS Integers, SequencesExt

CONSTANTS
    Instruments,        \* the tradeable pairs
    UsdSign,            \* instrument -> -1, 0, 1 (DEFAULT_USD_SIGN, 0 if absent)
    StopFloor,          \* instrument -> min_stop_pips_*, in half pips
    Scale,              \* denominator of the fractions below
    RiskPerTrade, DeriskedPerTrade, MaxGrossHeat, MaxFactorExposure,
    DailyLossLimit,
    MaxConcurrent, MaxSpread, MinAtr, DeriskAfterLosses

ASSUME RiskAssumption ==
    /\ UsdSign \in [Instruments -> {-1, 0, 1}]
    /\ StopFloor \in [Instruments -> Nat]
    /\ Scale \in Nat \ {0}
    /\ {RiskPerTrade, DeriskedPerTrade, MaxGrossHeat, MaxFactorExposure,
        DailyLossLimit, MaxConcurrent, MaxSpread, MinAtr,
        DeriskAfterLosses} \subseteq Nat

Position == [instrument : Instruments, direction : {-1, 1}, risk : Int]

Signal == [instrument : Instruments, direction : {-1, 1},
           spread : Nat, atr : Nat, pipValue : Int]

\* Trading days are numbered; losses saturates at DeriskAfterLosses, the only
\* value it is compared with.
Risk == [balance : Int, open : Seq(Position), halted : BOOLEAN,
         losses : 0..DeriskAfterLosses, day : Nat, dayStart : Int, dayPnl : Int]

NewRisk(balance, today) ==
    [balance |-> balance, open |-> <<>>, halted |-> FALSE, losses |-> 0,
     day |-> today, dayStart |-> balance, dayPnl |-> 0]

-----------------------------------------------------------------------------
SumOver(Amount(_), open) == FoldLeft(LAMBDA sum, p : sum + Amount(p), 0, open)

GrossHeat(open) == SumOver(LAMBDA p : p.risk, open)

NetUsd(open) ==
    SumOver(LAMBDA p : p.direction * UsdSign[p.instrument] * p.risk, open)

Magnitude(x) == IF x < 0 THEN -x ELSE x

\* Python's round(mills / Scale, 2): the nearest cent, either one on a tie
\* (which of them depends on the binary value of the float).
RoundToCent(mills) ==
    {c \in {mills \div Scale, (mills \div Scale) + 1} :
        2 * Magnitude(Scale * c - mills) <= Scale}

LimitHit(r) == Scale * r.dayPnl <= -(DailyLossLimit * r.dayStart)

\* Nothing runs at midnight: the first call that brings a new day resets the
\* day's accounts and, with them, the halt flag.
Rollover(r, today) ==
    IF today = r.day THEN r
    ELSE [balance |-> r.balance, open |-> r.open, losses |-> r.losses,
          day |-> today, dayStart |-> r.balance, dayPnl |-> 0,
          halted |-> FALSE]

\* Mutant: the sign of the trade lost in the direction field.
RegisterFillUnsigned(r, instrument, direction, amount) ==
    [r EXCEPT !.open = Append(@, [instrument |-> instrument,
                                  direction |-> 0, risk |-> amount])]

RegisterFill(r, instrument, direction, amount) ==
    [r EXCEPT !.open = Append(@, [instrument |-> instrument,
                                  direction |-> direction, risk |-> amount])]

\* close_position's search loop: one position of the instrument goes.
Without(open, instrument) ==
    RemoveFirstMatch(open, LAMBDA p : p.instrument = instrument)

\* The removal of one matching position and the accounts of a close.
Booked(r, instrument, pnl) ==
    [balance |-> r.balance + pnl,
     open |-> Without(r.open, instrument),
     losses |-> IF pnl >= 0 THEN 0
                ELSE IF r.losses < DeriskAfterLosses THEN r.losses + 1
                ELSE r.losses,
     day |-> r.day, dayStart |-> r.dayStart, dayPnl |-> r.dayPnl + pnl,
     halted |-> r.halted]

\* Mutant: a limit reached does not halt.
NeverArmed(r) == r

\* A limit reached halts; nothing but a new day or /resume clears the flag.
Armed(r) == [r EXCEPT !.halted = @ \/ LimitHit(r)]

\* Mutant: a close that does not roll the day over first.
ClosePositionSameDay(r, instrument, pnl, today) ==
    Armed(Booked(r, instrument, pnl))

ClosePosition(r, instrument, pnl, today) ==
    Armed(Booked(Rollover(r, today), instrument, pnl))

-----------------------------------------------------------------------------
\* evaluate, split into what it does to the state and what it answers.

\* Mutant: evaluate trusts the halt flag and never looks at the day's loss.
EvaluatedFlagOnly(r, today) == Rollover(r, today)

Evaluated(r, today) == Armed(Rollover(r, today))

RiskMills(r) == r.balance * (IF r.losses >= DeriskAfterLosses
                             THEN DeriskedPerTrade ELSE RiskPerTrade)

StopHalfPips(sig) ==
    IF 3 * sig.atr >= StopFloor[sig.instrument]
    THEN 3 * sig.atr ELSE StopFloor[sig.instrument]

CheapGates(r, sig) ==
    /\ sig.spread <= MaxSpread
    /\ sig.atr >= MinAtr
    /\ \A i \in DOMAIN r.open : r.open[i].instrument # sig.instrument
    /\ Len(r.open) < MaxConcurrent

\* Mutant: the heat of the trade asked for is left out.
WithinHeatHeld(r) == Scale * GrossHeat(r.open) <= MaxGrossHeat * r.balance

WithinHeat(r) ==
    Scale * GrossHeat(r.open) + RiskMills(r) <= MaxGrossHeat * r.balance

WithinFactor(r, sig) ==
    LET contribution == sig.direction * UsdSign[sig.instrument] * RiskMills(r)
    IN  Magnitude(Scale * NetUsd(r.open) + contribution)
            <= MaxFactorExposure * r.balance

Sizable(r, sig) ==
    LET lossPerUnit == StopHalfPips(sig) * sig.pipValue
    IN  lossPerUnit > 0 /\ RiskMills(r) >= lossPerUnit

\* r is Evaluated(...): a limit hit on the way has set halted.
Approves(r, sig) ==
    /\ ~r.halted
    /\ CheapGates(r, sig)
    /\ WithinHeat(r)
    /\ WithinFactor(r, sig)
    /\ Sizable(r, sig)
=============================================================================
