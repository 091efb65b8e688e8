------------------------------- MODULE Signals -------------------------------
(***************************************************************************)
(* The decisions of bias.py, regime.py and setups.py, and the indicators   *)
(* they rest on, over a window of candles of MarketState, which grows      *)
(* candle by candle: the 1H window decides the bias, the 15M one the       *)
(* regime, the 1M one the setup.                                           *)
(*                                                                         *)
(* Prices are whole points; an average is an exact fraction, and None is   *)
(* the empty sequence.  Thresholds are fractions too.                      *)
(***************************************************************************)
EXTENDS Integers, SequencesExt, FiniteSetsExt

CONSTANTS
    BiasEma, SlopeLookback, StructureLookback,              \* BiasConfig
    AtrPeriod, AtrAvgPeriod, BodyLookback,                  \* RegimeConfig
    ExpansionTrend, DeadFloor, BodyTrend, BodyChop,
    SetupEma, SetupAtr, SwingLookback, RoundStep,           \* SetupConfig
    TouchAtr, WickRatio, LevelTol, StopAtr,
    EnableSetupB,
    Shapes,         \* bound: candles, by their gap, body and wicks
    FirstPrice, MaxCandles                                  \* bounds

\* The candles that the length checks ask for hold every window read.
ASSUME SignalsAssumption ==
    /\ {BiasEma, SlopeLookback, StructureLookback, AtrPeriod, AtrAvgPeriod,
        BodyLookback, SetupEma, SetupAtr, SwingLookback, RoundStep} \subseteq Nat \ {0}
    /\ SwingLookback <= SetupEma + 5 /\ SetupAtr < SetupEma + 5
    /\ {ExpansionTrend, DeadFloor, BodyTrend, BodyChop,
        TouchAtr, WickRatio, LevelTol, StopAtr} \subseteq [num : Int, den : Nat \ {0}]
    /\ Shapes \subseteq [gap : Int, body : Int, up : Nat, down : Nat]
    /\ FirstPrice \in Int

VARIABLE window

\* ---- fractions ------------------------------------------------------------

Frac(n, d) == [num |-> n, den |-> d]
Whole(n) == Frac(n, 1)
Less(a, b) == a.num * b.den < b.num * a.den
AtMost(a, b) == ~Less(b, a)

\* Denominators are powers of few numbers: they seldom have to be multiplied.
CommonDen(a, b) ==
    IF a.den % b.den = 0 THEN a.den
    ELSE IF b.den % a.den = 0 THEN b.den ELSE a.den * b.den

Plus(a, b) ==
    LET d == CommonDen(a, b)
    IN  Frac(a.num * (d \div a.den) + b.num * (d \div b.den), d)

Mul(a, b) == Frac(a.num * b.num, a.den * b.den)
Minus(a, b) == Plus(a, Frac(-b.num, b.den))

Sum(values) == FoldLeft(LAMBDA s, v : s + v, 0, values)
Mean(fracs) == Mul(FoldLeft(Plus, Whole(0), fracs), Frac(1, Len(fracs)))

\* ---- indicators.py --------------------------------------------------------

Distance(a, b) == IF a < b THEN b - a ELSE a - b
Extent(c) == c.high - c.low
LastOf(n, seq) == SubSeq(seq, Max({1, Len(seq) - n + 1}), Len(seq))
Closes(w) == [n \in DOMAIN w |-> w[n].close]
Highs(w) == {w[n].high : n \in DOMAIN w}
Lows(w) == {w[n].low : n \in DOMAIN w}

\* The mean of the first values, then each new one in with its weight.
Smoothed(values, period, weight) ==
    IF Len(values) < period THEN <<>>
    ELSE <<FoldLeft(LAMBDA e, v : Plus(Mul(weight, Whole(v)),
                                       Mul(Minus(Whole(1), weight), e)),
                    Frac(Sum(SubSeq(values, 1, period)), period),
                    SubSeq(values, period + 1, Len(values)))>>

Ema(w, period) == Smoothed(Closes(w), period, Frac(2, period + 1))

\* Mutant: a gap up is measured from the low.
TrueRangeOneSided(before, c) == Max({Extent(c), c.high - before})

TrueRange(before, c) ==
    Max({Extent(c), Distance(c.high, before), Distance(c.low, before)})

Atr(w, period) ==
    Smoothed([n \in 1..(Len(w) - 1) |-> TrueRange(w[n].close, w[n + 1])],
             period, Frac(1, period))

BodyRatio(c) ==
    IF Extent(c) > 0 THEN <<Frac(Distance(c.close, c.open), Extent(c))>> ELSE <<>>

AvgBodyRatio(w) ==
    LET last == LastOf(BodyLookback, w)
        ratios == FlattenSeq([n \in DOMAIN last |-> BodyRatio(last[n])])
    IN  IF ratios = <<>> THEN <<>> ELSE <<Mean(ratios)>>

\* ---- bias.py --------------------------------------------------------------

BiasReady(w) == Len(w) >= BiasEma + SlopeLookback + 1

EmaNow(w) == Ema(w, BiasEma)
EmaBefore(w) == Ema(SubSeq(w, 1, Len(w) - SlopeLookback), BiasEma)

\* The candles before the last one that make the structure.
Structure(w) == Front(LastOf(StructureLookback + 1, w))

Up(w, now, before) ==
    /\ Less(now, Whole(Last(w).close)) /\ Less(before, now)
    /\ Last(w).high >= Max(Highs(Structure(w)))

Down(w, now, before) ==
    /\ Less(Whole(Last(w).close), now) /\ Less(now, before)
    /\ Last(w).low <= Min(Lows(Structure(w)))

GetBias(w) ==
    LET now == EmaNow(w)
        before == EmaBefore(w)
    IN  CASE ~BiasReady(w) \/ <<>> \in {now, before} -> "FLAT"
          [] OTHER -> IF Up(w, now[1], before[1]) THEN "LONG_ONLY"
                      ELSE IF Down(w, now[1], before[1]) THEN "SHORT_ONLY"
                      ELSE "FLAT"

\* ---- regime.py ------------------------------------------------------------

\* Mutant: the baseline's first window has no room for its average.
RegimeReadyEarly(w) == Len(w) >= AtrAvgPeriod + 2

RegimeReady(w) == Len(w) >= AtrAvgPeriod + AtrPeriod + 2

\* range(len - window, len + 1, max(1, window // 10)).
Ends(w) ==
    LET step == Max({1, AtrAvgPeriod \div 10})
    IN  [n \in 1..(AtrAvgPeriod \div step + 1) |-> Len(w) - AtrAvgPeriod + (n - 1) * step]

AtrUpTo(w, n) == Atr(SubSeq(w, 1, n), AtrPeriod)

\* One at each of the ends; what is undefined is left out.
RollingAtrs(w) == FlattenSeq([n \in DOMAIN Ends(w) |-> AtrUpTo(w, Ends(w)[n])])

Regime(expansion, body) ==
    IF AtMost(expansion, DeadFloor) \/ Less(body, BodyChop) THEN "DEAD"
    ELSE IF AtMost(ExpansionTrend, expansion) /\ AtMost(BodyTrend, body) THEN "TREND"
    ELSE "RANGE"

GetRegime(w) ==
    LET now == Atr(w, AtrPeriod)
        base == Mean(RollingAtrs(w))
        body == AvgBodyRatio(w)
    IN  IF \/ ~RegimeReady(w)
           \/ <<>> \in {now, body, RollingAtrs(w)} \/ base.num = 0
        THEN "DEAD"
        ELSE Regime(Frac(now[1].num * base.den, now[1].den * base.num), body[1])

\* ---- setups.py ------------------------------------------------------------
\* A signal is a set: empty where None is returned.

SignalOf(direction, entry, stop, setup) ==
    [direction |-> direction, entry |-> entry, stop |-> stop, setup |-> setup]

\* The stop must be on the losing side of the close.
Stopped(direction, c, stop, setup) ==
    IF Less(Whole(0), Mul(Whole(direction), Minus(Whole(c.close), stop)))
    THEN {SignalOf(direction, c.close, stop, setup)} ELSE {}

Rejects(wick, c) == Extent(c) > 0 /\ AtMost(Mul(WickRatio, Whole(Extent(c))), Whole(wick))

PullbackReady(w) == Len(w) >= SetupEma + 5

Swing(w) == LastOf(SwingLookback, w)

LongPullback(w, c, ema, tol) ==
    IF /\ AtMost(Whole(c.low), Plus(ema, tol))
       /\ Rejects(c.close - c.low, c)
       /\ c.close >= c.open
    THEN Stopped(1, c, Whole(Min(Lows(Swing(w)))), "A") ELSE {}

ShortPullback(w, c, ema, tol) ==
    IF /\ AtMost(Minus(ema, tol), Whole(c.high))
       /\ Rejects(c.high - c.close, c)
       /\ c.close < c.open
    THEN Stopped(-1, c, Whole(Max(Highs(Swing(w)))), "A") ELSE {}

Pullback(w, bias) ==
    LET ema == Ema(w, SetupEma)
        atr == Atr(w, SetupAtr)
    IN  IF ~PullbackReady(w) \/ <<>> \in {ema, atr} THEN {}
        ELSE IF bias = "LONG_ONLY"
        THEN LongPullback(w, Last(w), ema[1], Mul(TouchAtr, atr[1]))
        ELSE ShortPullback(w, Last(w), ema[1], Mul(TouchAtr, atr[1]))

\* round(mid / step) * step, and round goes to the even one from the middle.
NearestLevel(c) ==
    LET twice == c.high + c.low
        below == twice \div (2 * RoundStep)
        rest == twice % (2 * RoundStep)
    IN  (IF rest < RoundStep \/ (rest = RoundStep /\ below % 2 = 0)
         THEN below ELSE below + 1) * RoundStep

BrokeUp(c, level, tol) ==
    AtMost(Plus(Whole(level), tol), Whole(c.high)) /\ c.close < level

BrokeDown(c, level, tol) ==
    AtMost(Whole(c.low), Minus(Whole(level), tol)) /\ c.close > level

Fade(c, bias, atr) ==
    LET level == NearestLevel(c)
        tol == Mul(LevelTol, atr)
        beyond == Mul(StopAtr, atr)
    IN  IF BrokeUp(c, level, tol) /\ bias # "LONG_ONLY"
        THEN Stopped(-1, c, Plus(Whole(c.high), beyond), "B")
        ELSE IF BrokeDown(c, level, tol) /\ bias # "SHORT_ONLY"
        THEN Stopped(1, c, Minus(Whole(c.low), beyond), "B")
        ELSE {}

LevelRejection(w, bias) ==
    LET atr == Atr(w, SetupAtr)
    IN  IF Len(w) < 5 \/ atr = <<>> THEN {} ELSE Fade(Last(w), bias, atr[1])

Detect(w, bias, regime) ==
    IF regime = "TREND" /\ bias # "FLAT" THEN Pullback(w, bias)
    ELSE IF regime = "RANGE" /\ EnableSetupB THEN LevelRejection(w, bias)
    ELSE {}
-----------------------------------------------------------------------------
NoCandles == window = <<>>

Shaped(before, s) ==
    LET open == before + s.gap
        close == open + s.body
    IN  [open |-> open, close |-> close,
         high |-> Max({open, close}) + s.up, low |-> Min({open, close}) - s.down]

AddCandle(s) ==
    /\ Len(window) < MaxCandles
    /\ window' = Append(window,
                    Shaped(IF window = <<>> THEN FirstPrice ELSE Last(window).close, s))

NextCandle == \E s \in Shapes : AddCandle(s)

WindowSpec == NoCandles /\ [][NextCandle]_window
-----------------------------------------------------------------------------
Biases == {"LONG_ONLY", "SHORT_ONLY", "FLAT"}
Regimes == {"TREND", "RANGE", "DEAD"}

\* Prices upside down, about a level: the levels on both sides are alike.
Axis == (FirstPrice \div RoundStep) * RoundStep
Turned(price) == 2 * Axis - price

MirrorOf(c) == [open |-> Turned(c.open), close |-> Turned(c.close),
                high |-> Turned(c.low), low |-> Turned(c.high)]

Mirror(w) == [n \in DOMAIN w |-> MirrorOf(w[n])]

Opposite(bias) == CASE bias = "LONG_ONLY" -> "SHORT_ONLY"
                    [] bias = "SHORT_ONLY" -> "LONG_ONLY"
                    [] OTHER -> "FLAT"

\* Long and short are one rule: with the prices upside down the bias turns
\* round, the regime stays, and the setup finds the same signal the other way.
\* Not at a candle without a body, which counts as one that went up.
MirrorSymmetric ==
    /\ GetBias(Mirror(window)) = Opposite(GetBias(window))
    /\ GetRegime(Mirror(window)) = GetRegime(window)
    /\ window # <<>> /\ Last(window).close # Last(window).open =>
         \A b \in Biases, r \in Regimes :
            LET here == Detect(window, b, r)
                there == Detect(Mirror(window), Opposite(b), r)
            IN  /\ Cardinality(here) = Cardinality(there)
                /\ \A s \in here, m \in there :
                      /\ m.direction = -s.direction
                      /\ m.entry = Turned(s.entry)
                      /\ Minus(Whole(m.entry), m.stop).num * s.stop.den
                           = Minus(s.stop, Whole(s.entry)).num * m.stop.den
                      /\ m.setup = s.setup

\* Who takes part in a decision is there: past the length checks no average is
\* undefined, so the baseline of the regime is a mean over its whole window and
\* nothing is flat, dead or empty for want of candles; and a signal agrees with
\* the bias it came from (bot.py:95 has nothing to reject).
DecisionsGrounded ==
    /\ BiasReady(window) => <<>> \notin {EmaNow(window), EmaBefore(window)}
    /\ RegimeReady(window) =>
          \A n \in DOMAIN Ends(window) : AtrUpTo(window, Ends(window)[n]) # <<>>
    /\ PullbackReady(window) =>
          <<>> \notin {Ema(window, SetupEma), Atr(window, SetupAtr)}
    /\ \A b \in Biases, r \in Regimes : \A s \in Detect(window, b, r) :
          /\ b = "LONG_ONLY" => s.direction = 1
          /\ b = "SHORT_ONLY" => s.direction = -1
=============================================================================
