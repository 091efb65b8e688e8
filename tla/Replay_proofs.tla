---------------------------- MODULE Replay_proofs ----------------------------
(***************************************************************************)
(* The candles of the past: the replay of recorded prices, for any spread, *)
(* slippage, session, calendar, risk configuration and series of candles;  *)
(* and the download of the history, for any range, page size and gaps.     *)
(***************************************************************************)
EXTENDS Backtest, History, RiskOps_proofs

\* ---- loops over the open trades ---------------------------------------------

\* The greatest of one.
LEMMA MaxOfOne == Max({1}) = 1
<1>1. \E x \in {1} : \A y \in {1} : x >= y
  OBVIOUS
<1> QED
  BY <1>1 DEF Max

\* A loop over no trade does nothing.
LEMMA LoopOverNone ==
    ASSUME NEW s, NEW c, s.trades = <<>>
    PROVE  ResolveCandle(s, c) = s /\ Manage(s, c) = s
<1> DEFINE StepR(g) == [S \in SUBSET {} |->
                          IF S = {} THEN s
                          ELSE LET n == Max(S)
                               IN  Resolve(g[S \ {n}], <<>>[n], c)]
           StepM(g) == [S \in SUBSET {} |->
                          IF S = {} THEN s
                          ELSE LET n == Max(S)
                               IN  ManageOne(g[S \ {n}], <<>>[n], c)]
           once == [S \in SUBSET {} |-> s]
           resolved == CHOOSE g : g = StepR(g)
           managed == CHOOSE g : g = StepM(g)
<1>1. \A S \in SUBSET {} : S = {}
  OBVIOUS
<1>2. once = StepR(once) /\ once = StepM(once)
  BY <1>1
<1>3. resolved = StepR(resolved)
  BY <1>2
<1>4. managed = StepM(managed)
  BY <1>2
<1>5. DOMAIN s.trades = {}
  OBVIOUS
<1>6. ResolveCandle(s, c) = resolved[{}]
  BY <1>5 DEF ResolveCandle, FoldLeft, MapThenFoldSet
<1>7. Manage(s, c) = managed[{}]
  BY <1>5 DEF Manage, FoldLeft, MapThenFoldSet
<1>8. resolved[{}] = s
  <2> HIDE DEF resolved
  <2> QED
    BY <1>3
<1>9. managed[{}] = s
  <2> HIDE DEF managed
  <2> QED
    BY <1>4
<1> QED
  BY <1>6, <1>7, <1>8, <1>9

\* A loop over one trade does its body once.
LEMMA ResolveOnce ==
    ASSUME NEW s, NEW c, NEW t, s.trades = <<t>>
    PROVE  ResolveCandle(s, c) = Resolve(s, t, c)
<1> DEFINE Step(g) == [S \in SUBSET {1} |->
                          IF S = {} THEN s
                          ELSE LET n == Max(S)
                               IN  Resolve(g[S \ {n}], <<t>>[n], c)]
           once == [S \in SUBSET {1} |-> IF S = {} THEN s ELSE Resolve(s, t, c)]
           resolved == CHOOSE g : g = Step(g)
<1>1. \A S \in SUBSET {1} : S = {} \/ S = {1}
  OBVIOUS
<1>2. {1} \ {1} = {} /\ <<t>>[1] = t /\ Max({1}) = 1
  BY MaxOfOne
<1>3. once = Step(once)
  <2>1. once[{1}] = Resolve(once[{1} \ {Max({1})}], <<t>>[Max({1})], c)
    <3>1. once[{1} \ {1}] = s /\ once[{1}] = Resolve(s, t, c)
      BY <1>2
    <3> QED
      BY <1>2, <3>1
  <2>2. once = [S \in SUBSET {1} |-> once[S]] /\ once[{}] = s
    OBVIOUS
  <2> HIDE DEF once
  <2>3. \A S \in SUBSET {1} :
           once[S] = IF S = {} THEN s
                     ELSE Resolve(once[S \ {Max(S)}], <<t>>[Max(S)], c)
    BY <1>1, <2>1, <2>2
  <2> QED
    BY <2>2, <2>3
<1>4. resolved = Step(resolved)
  BY <1>3
<1>5. DOMAIN s.trades = {1}
  OBVIOUS
<1>6. ResolveCandle(s, c) = resolved[{1}]
  BY <1>5 DEF ResolveCandle, FoldLeft, MapThenFoldSet
<1>7. resolved[{}] = s /\ resolved[{1}] = Resolve(resolved[{1} \ {1}], t, c)
  <2> HIDE DEF resolved
  <2> QED
    BY <1>2, <1>4
<1> QED
  BY <1>2, <1>6, <1>7

\* The same for the trade manager's loop.
LEMMA ManageOnce ==
    ASSUME NEW s, NEW c, NEW t, s.trades = <<t>>
    PROVE  Manage(s, c) = ManageOne(s, t, c)
<1> DEFINE Step(g) == [S \in SUBSET {1} |->
                          IF S = {} THEN s
                          ELSE LET n == Max(S)
                               IN  ManageOne(g[S \ {n}], <<t>>[n], c)]
           once == [S \in SUBSET {1} |-> IF S = {} THEN s ELSE ManageOne(s, t, c)]
           managed == CHOOSE g : g = Step(g)
<1>1. \A S \in SUBSET {1} : S = {} \/ S = {1}
  OBVIOUS
<1>2. {1} \ {1} = {} /\ <<t>>[1] = t /\ Max({1}) = 1
  BY MaxOfOne
<1>3. once = Step(once)
  <2>1. once[{1}] = ManageOne(once[{1} \ {Max({1})}], <<t>>[Max({1})], c)
    <3>1. once[{1} \ {1}] = s /\ once[{1}] = ManageOne(s, t, c)
      BY <1>2
    <3> QED
      BY <1>2, <3>1
  <2>2. once = [S \in SUBSET {1} |-> once[S]] /\ once[{}] = s
    OBVIOUS
  <2> HIDE DEF once
  <2>3. \A S \in SUBSET {1} :
           once[S] = IF S = {} THEN s
                     ELSE ManageOne(once[S \ {Max(S)}], <<t>>[Max(S)], c)
    BY <1>1, <2>1, <2>2
  <2> QED
    BY <2>2, <2>3
<1>4. managed = Step(managed)
  BY <1>3
<1>5. DOMAIN s.trades = {1}
  OBVIOUS
<1>6. Manage(s, c) = managed[{1}]
  BY <1>5 DEF Manage, FoldLeft, MapThenFoldSet
<1>7. managed[{}] = s /\ managed[{1}] = ManageOne(managed[{1} \ {1}], t, c)
  <2> HIDE DEF managed
  <2> QED
    BY <1>2, <1>4
<1> QED
  BY <1>2, <1>6, <1>7

\* A list of one trade, without it, is empty.
LEMMA RemoveOnly ==
    ASSUME NEW t
    PROVE  RemoveFirst(<<t>>, t) = <<>>
<1> DEFINE I == {n \in 1..Len(<<t>>) : <<t>>[n] = t}
<1>1. I = {1}
  OBVIOUS
<1>2. Min({1}) = 1
  <2>1. \E x \in {1} : \A y \in {1} : x <= y
    OBVIOUS
  <2> QED
    BY <2>1 DEF Min
<1>3. SelectInSeq(<<t>>, LAMBDA v : v = t) = 1
  <2> HIDE DEF I
  <2>1. I # {} /\ Min(I) = 1
    BY <1>1, <1>2
  <2> QED
    BY <2>1 DEF SelectInSeq, I
<1>4. RemoveAt(<<t>>, 1) = <<>>
  BY DEF RemoveAt
<1> QED
  BY <1>3, <1>4 DEF RemoveFirst

\* ---- the records' money -----------------------------------------------------

\* The total of a list of amounts is a sum.
LEMMA TotalIsSum ==
    ASSUME NEW amounts \in Seq(Int)
    PROVE  /\ Total(amounts) \in Int
           /\ \E g : /\ IsSum(g, [n \in 1..Len(amounts) |-> amounts[n]], 1..Len(amounts))
                    /\ Total(amounts) = g[1..Len(amounts)]
BY ListSumIsSum, ListSumType DEF Total, ListSum

\* An amount more adds itself.
LEMMA TotalOfAppend ==
    ASSUME NEW amounts \in Seq(Int), NEW amount \in Int
    PROVE  Total(Append(amounts, amount)) = Total(amounts) + amount
<1> DEFINE more == Append(amounts, amount)
           D == 1..Len(amounts)
           E == 1..Len(more)
           values == [n \in D |-> amounts[n]]
           others == [n \in E |-> more[n]]
<1>1. /\ more \in Seq(Int) /\ Len(more) = Len(amounts) + 1 /\ Len(amounts) \in Nat
      /\ more[Len(more)] = amount /\ \A n \in D : more[n] = amounts[n]
  BY AppendProperties, LenProperties
<1>2. PICK g : IsSum(g, values, D) /\ Total(amounts) = g[D]
  BY TotalIsSum
<1> HIDE DEF more
<1>3. PICK h : IsSum(h, others, E) /\ Total(more) = h[E]
  BY <1>1, TotalIsSum
<1>4. /\ Len(more) \in E /\ E \in SUBSET E /\ E \ {Len(more)} = D
      /\ D \in SUBSET E /\ D \in SUBSET D
      /\ others[Len(more)] = amount /\ \A n \in D : others[n] = values[n]
  BY <1>1
<1>5. IsFiniteSet(D)
  BY <1>1, FS_Interval
<1> HIDE DEF D, E, values, others
<1>6. h[E] = amount + h[D]
  BY <1>3, <1>4 DEF IsSum
<1>7. g[D] = h[D]
  BY <1>2, <1>3, <1>4, <1>5, SumOfPart
<1>8. g[D] \in Int
  BY <1>2, <1>4 DEF IsSum
<1> QED
  BY <1>2, <1>3, <1>6, <1>7, <1>8 DEF more

\* Nothing but zeros is nothing.
LEMMA TotalOfZeros ==
    ASSUME NEW amounts \in Seq(Int), \A n \in DOMAIN amounts : amounts[n] = 0
    PROVE  Total(amounts) = 0
<1> DEFINE D == 1..Len(amounts)
           values == [n \in D |-> amounts[n]]
<1>1. PICK g : IsSum(g, values, D) /\ Total(amounts) = g[D]
  BY TotalIsSum
<1> DEFINE Wrong == {S \in SUBSET D : g[S] # 0}
<1>2. ASSUME NEW S \in Wrong, \A x \in S : S \ {x} \notin Wrong PROVE FALSE
  <2>1. S # {}
    BY <1>1 DEF IsSum
  <2>2. PICK x \in S : TRUE
    BY <2>1
  <2>3. S \ {x} \in SUBSET D /\ S \in SUBSET D /\ values[x] = 0
    BY LenProperties
  <2>4. g[S] = values[x] + g[S \ {x}]
    BY <1>1, <2>2, <2>3 DEF IsSum
  <2>5. g[S \ {x}] = 0
    BY <1>2, <2>2, <2>3
  <2>6. g[S] = 0
    BY <2>3, <2>4, <2>5
  <2> QED
    BY <2>6
<1>3. Wrong = {}
  <2>1. Wrong \in SUBSET SUBSET D /\ IsFiniteSet(D)
    BY LenProperties, FS_Interval
  <2> HIDE DEF Wrong
  <2> QED
    BY <1>2, <2>1, SmallestSet
<1> QED
  BY <1>1, <1>3

Record == [time : 0..Horizon, pnl : Int]

\* The result of all of the records, and of those of a day, after one more.
LEMMA PnlOfAppend ==
    ASSUME NEW some \in Seq(Record), NEW r \in Record
    PROVE  /\ PnlOf(some) \in Int
           /\ PnlOf(Append(some, r)) = PnlOf(some) + r.pnl
<1> DEFINE values == [n \in DOMAIN some |-> some[n].pnl]
           others == [n \in DOMAIN Append(some, r) |-> Append(some, r)[n].pnl]
<1>1. ASSUME NEW n \in DOMAIN some PROVE some[n].pnl \in Int
  <2>1. some[n] \in Record
    OBVIOUS
  <2> QED
    BY <2>1 DEF Record
<1>2. values \in Seq(Int)
  BY <1>1
<1>5. r.pnl \in Int
  BY DEF Record
<1>3. others = Append(values, r.pnl)
  OBVIOUS
<1>4. PnlOf(some) = Total(values) /\ PnlOf(Append(some, r)) = Total(others)
  BY DEF PnlOf
<1> HIDE DEF values, others
<1> QED
  BY <1>2, <1>3, <1>4, <1>5, TotalIsSum, TotalOfAppend

\* A close adds to the day it belongs to, and to no other.
LEMMA PnlOnAppend ==
    ASSUME NEW some \in Seq(Record), NEW r \in Record, NEW day
    PROVE  /\ PnlOn(day, some) \in Int
           /\ Day(r.time) = day =>
                 PnlOn(day, Append(some, r)) = PnlOn(day, some) + r.pnl
<1> DEFINE PnlIf(s) == IF Day(s.time) = day THEN s.pnl ELSE 0
           values == [n \in DOMAIN some |-> PnlIf(some[n])]
           others == [n \in DOMAIN Append(some, r) |-> PnlIf(Append(some, r)[n])]
<1>1. ASSUME NEW n \in DOMAIN some PROVE PnlIf(some[n]) \in Int
  <2>1. some[n] \in Record
    OBVIOUS
  <2> QED
    BY <2>1 DEF Record
<1>2. values \in Seq(Int) /\ PnlIf(r) \in Int
  BY <1>1 DEF Record
<1>4. PnlOn(day, some) = Total(values) /\ PnlOn(day, Append(some, r)) = Total(others)
  BY DEF PnlOn
<1>5. Day(r.time) = day => PnlIf(r) = r.pnl
  OBVIOUS
<1> HIDE DEF PnlIf
<1>3. others = Append(values, PnlIf(r))
  OBVIOUS
<1> HIDE DEF values, others
<1> QED
  BY <1>2, <1>3, <1>4, <1>5, TotalIsSum, TotalOfAppend

\* On a day of no record there is no result.
LEMMA PnlOnNewDay ==
    ASSUME NEW some \in Seq(Record), NEW day,
           \A n \in DOMAIN some : Day(some[n].time) # day
    PROVE  PnlOn(day, some) = 0
<1> DEFINE values == [n \in DOMAIN some |->
                        IF Day(some[n].time) = day THEN some[n].pnl ELSE 0]
<1>1. values \in Seq(Int) /\ \A n \in DOMAIN values : values[n] = 0
  OBVIOUS
<1>2. PnlOn(day, some) = Total(values)
  BY DEF PnlOn
<1> HIDE DEF values
<1> QED
  BY <1>1, <1>2, TotalOfZeros

\* ---- the books of a replay --------------------------------------------------

Trade == [units : Int, entry : Int, stop : Int, target : Int, opened : 0..Horizon]

\* The stop is on the losing side of the target.
Ordered(t) ==
    \/ t.units > 0 /\ t.stop <= t.target
    \/ t.units < 0 /\ t.target <= t.stop

EntryCost(t) == Magnitude(t.units) * (HalfSpread + Slippage) * PipCents

\* The position p of the risk manager is the trade t of the broker: it has its
\* direction, and the loss at the stop was approved, save for what the fill cost.
Holds(p, t) ==
    /\ p.instrument = Instrument
    /\ p.direction = 1 <=> t.units > 0
    /\ Ordered(t)
    /\ -Pnl(t, t.stop) <= p.risk + EntryCost(t)

OneStory(some, open) ==
    \/ some = <<>> /\ open = <<>>
    \/ \E t \in Trade, p \in Position : some = <<t>> /\ open = <<p>> /\ Holds(p, t)

\* What a candle finds and leaves: one pair is traded, so there is one trade and
\* its position, or none; and no close is of a later day than the accounts.
Books(s) ==
    /\ s.risk \in Risk
    /\ s.records \in Seq(Record)
    /\ OneStory(s.trades, s.risk.open)
    /\ s.risk.balance = StartBalance + PnlOf(s.records)
    /\ s.risk.dayPnl = PnlOn(s.risk.day, s.records)
    /\ \A n \in DOMAIN s.records : Day(s.records[n].time) <= s.risk.day

\* The day of the accounts is not after the minute, but for the first one.
Current(s, minute) == s.records = <<>> \/ s.risk.day <= Day(minute)

IsState(s) == s = [trades |-> s.trades, risk |-> s.risk, records |-> s.records]

\* What the assumptions on the constants say, one by one.
LEMMA ConstantTypes ==
    /\ Instrument \in Instruments /\ Instrument # ""
    /\ StartBalance \in Nat /\ HalfSpread \in Nat /\ Slippage \in Nat
    /\ PipCents \in Nat /\ TpNum \in Nat /\ TpDen \in Nat \ {0}
    /\ MaxMinutes \in Nat /\ MinProgress \in Nat
    /\ TrailStart \in Nat /\ TrailDistance \in Nat /\ Horizon \in Nat
    /\ Scale \in Nat \ {0} /\ DayLength \in Nat \ {0}
BY BacktestAssumption, RiskAssumption, SessionAssumption
   DEF BacktestAssumption, RiskAssumption, SessionAssumption

\* A candle has whole prices, its close between the others.
LEMMA CandleTypes ==
    ASSUME NEW c \in Candle
    PROVE  /\ c.time \in 0..Horizon /\ c.time \in Nat
           /\ c.high \in Int /\ c.low \in Int /\ c.close \in Int
           /\ c.low <= c.close /\ c.close <= c.high
<1>1. Prices \subseteq Int /\ Horizon \in Nat
  BY BacktestAssumption DEF BacktestAssumption
<1>2. /\ c.time \in 0..Horizon
      /\ c.high \in Prices /\ c.low \in Prices /\ c.close \in Prices
      /\ c.low <= c.close /\ c.close <= c.high
  BY DEF Candle
<1>3. c.time \in Nat
  BY <1>1, <1>2
<1>4. c.high \in Int /\ c.low \in Int /\ c.close \in Int
  BY <1>1, <1>2, Zenon
<1> QED
  BY <1>2, <1>3, <1>4

\* A minute has its day.
LEMMA DayType ==
    ASSUME NEW minute \in Nat
    PROVE  Day(minute) \in Nat
<1>1. DayLength \in Nat \ {0}
  BY ConstantTypes
<1>2. minute \div DayLength \in Nat
  BY <1>1, QuotientType
<1> QED
  BY <1>2 DEF Day

\* Days keep the order of minutes.
LEMMA DayMonotone ==
    ASSUME NEW a \in Nat, NEW b \in Nat, a <= b
    PROVE  Day(a) <= Day(b)
<1>1. DayLength \in Nat \ {0}
  BY ConstantTypes
<1> DEFINE p == a \div DayLength
           q == b \div DayLength
<1>2. /\ p \in Int /\ q \in Int
      /\ p * DayLength <= a
      /\ b < (q + 1) * DayLength
  BY <1>1
<1> HIDE DEF p, q
<1>3. ~(q + 1 <= p)
  <2> SUFFICES ASSUME q + 1 <= p PROVE FALSE
    OBVIOUS
  <2>1. (q + 1) * DayLength <= p * DayLength
    BY <1>1, <1>2, TimesMonotone
  <2>2. (q + 1) * DayLength \in Int /\ p * DayLength \in Int
    BY <1>1, <1>2
  <2> QED
    BY <1>2, <2>1, <2>2
<1> QED
  BY <1>2, <1>3 DEF Day, p, q

\* The money of a close is a whole number of cents.
LEMMA PnlType ==
    ASSUME NEW t \in Trade, NEW price \in Int
    PROVE  Pnl(t, price) \in Int
<1>1. t.units \in Int /\ t.entry \in Int /\ PipCents \in Nat
  BY ConstantTypes DEF Trade
<1>2. (price - t.entry) * t.units \in Int
  BY <1>1
<1> QED
  BY <1>1, <1>2 DEF Pnl

\* A trade is worth more at the better price.
LEMMA PnlOrder ==
    ASSUME NEW t \in Trade, NEW a \in Int, NEW b \in Int,
           (t.units > 0 /\ a <= b) \/ (t.units < 0 /\ b <= a)
    PROVE  Pnl(t, a) <= Pnl(t, b)
<1> DEFINE u == t.units
           x == (a - t.entry) * u
           y == (b - t.entry) * u
<1>1. u \in Int /\ t.entry \in Int /\ PipCents \in Nat
  BY ConstantTypes DEF Trade
<1>2. x \in Int /\ y \in Int
  BY <1>1
<1>3. x <= y
  <2>1. CASE u > 0
    BY <1>1, <2>1, TimesMonotone
  <2>2. CASE u < 0
    <3>1. (t.entry - a) * (-u) <= (t.entry - b) * (-u)
      BY <1>1, <2>2, TimesMonotone
    <3>2. (t.entry - a) * (-u) = x /\ (t.entry - b) * (-u) = y
      BY <1>1
    <3> QED
      BY <3>1, <3>2
  <2> QED
    BY <2>1, <2>2
<1>4. Pnl(t, a) = x * PipCents /\ Pnl(t, b) = y * PipCents
  BY DEF Pnl
<1> HIDE DEF x, y
<1> QED
  BY <1>1, <1>2, <1>3, <1>4, TimesMonotone

\* The rollover makes the day's result that of the records of today.
LEMMA RolloverDay ==
    ASSUME NEW r \in Risk, NEW some \in Seq(Record), NEW today \in Nat,
           r.dayPnl = PnlOn(r.day, some),
           \A n \in DOMAIN some : Day(some[n].time) <= r.day,
           some = <<>> \/ r.day <= today
    PROVE  /\ Rollover(r, today) \in Risk
           /\ Rollover(r, today).day = today
           /\ Rollover(r, today).dayPnl = PnlOn(today, some)
           /\ Rollover(r, today).balance = r.balance
           /\ Rollover(r, today).open = r.open
           /\ \A n \in DOMAIN some : Day(some[n].time) <= today
<1>1. CASE today = r.day
  BY <1>1 DEF Rollover
<1>2. CASE today # r.day
  <2>1. r.day \in Nat /\ \A n \in DOMAIN some : Day(some[n].time) \in Nat
    <3>1. ASSUME NEW n \in DOMAIN some PROVE some[n].time \in Nat
      <4>1. some[n] \in Record
        OBVIOUS
      <4> QED
        BY <4>1 DEF Record
    <3> QED
      BY <3>1, DayType DEF Risk
  <2>2. \A n \in DOMAIN some : Day(some[n].time) < today
    BY <1>2, <2>1
  <2>3. PnlOn(today, some) = 0
    BY <2>1, <2>2, PnlOnNewDay
  <2>4. /\ Rollover(r, today).day = today /\ Rollover(r, today).dayPnl = 0
        /\ Rollover(r, today).balance = r.balance
        /\ Rollover(r, today).open = r.open
    BY <1>2 DEF Rollover
  <2> QED
    BY <2>1, <2>2, <2>3, <2>4, RolloverType
<1> QED
  BY <1>1, <1>2

\* What a close leaves: no trade, no position, and one record more, which the
\* balance and the day of the candle take in.
LEMMA ClosedBooks ==
    ASSUME NEW s, Books(s), NEW t \in Trade, s.trades = <<t>>,
           NEW price \in Int, NEW c \in Candle, Current(s, c.time)
    PROVE  /\ Books(Closed(s, t, price, c))
           /\ Current(Closed(s, t, price, c), c.time)
           /\ Closed(s, t, price, c).trades = <<>>
           /\ Closed(s, t, price, c).records
                = Append(s.records, [time |-> c.time, pnl |-> Pnl(t, price)])
<1> DEFINE today == Day(c.time)
           pnl == Pnl(t, price)
           rolled == Rollover(s.risk, today)
           booked == Booked(rolled, Instrument, pnl)
           risk2 == Armed(booked)
           row == [time |-> c.time, pnl |-> pnl]
           records2 == Append(s.records, row)
<1>1. today \in Nat /\ pnl \in Int /\ row \in Record /\ s.records \in Seq(Record)
  BY CandleTypes, DayType, PnlType DEF Record, Books
<1>2. /\ rolled \in Risk /\ rolled.day = today
      /\ rolled.dayPnl = PnlOn(today, s.records)
      /\ rolled.balance = s.risk.balance /\ rolled.open = s.risk.open
      /\ \A n \in DOMAIN s.records : Day(s.records[n].time) <= today
  BY <1>1, RolloverDay DEF Books, Current
<1> HIDE DEF rolled
<1>3. /\ booked \in Risk /\ booked.day = rolled.day
      /\ booked.dayPnl = rolled.dayPnl + pnl
      /\ booked.balance = rolled.balance + pnl
      /\ booked.open = Without(rolled.open, Instrument)
  BY <1>1, <1>2, BookedType DEF Booked
<1> HIDE DEF booked
<1>4. /\ risk2 \in Risk /\ risk2.day = booked.day /\ risk2.dayPnl = booked.dayPnl
      /\ risk2.balance = booked.balance /\ risk2.open = booked.open
  BY <1>3, ArmedType
<1> HIDE DEF risk2
<1>5. Without(s.risk.open, Instrument) = <<>>
  <2>1. PICK p \in Position : s.risk.open = <<p>> /\ p.instrument = Instrument
    BY DEF Books, OneStory, Holds
  <2>2. s.risk.open \in Seq(Position) /\ Len(s.risk.open) = 1
    BY <2>1
  <2>3. s.risk.open[1].instrument = Instrument
    BY <2>1
  <2>4. PICK k \in 1..Len(s.risk.open) :
            LacksOnly(Without(s.risk.open, Instrument), s.risk.open, k)
    BY <2>2, <2>3, Removal
  <2>5. /\ Without(s.risk.open, Instrument) \in Seq(Position)
        /\ Len(Without(s.risk.open, Instrument)) = 0
    BY <2>2, <2>4 DEF LacksOnly
  <2> QED
    BY <2>5, EmptySeq
<1>6. /\ PnlOf(records2) = PnlOf(s.records) + pnl /\ PnlOf(s.records) \in Int
      /\ PnlOn(today, records2) = PnlOn(today, s.records) + pnl
  BY <1>1, PnlOfAppend, PnlOnAppend
<1>7. /\ records2 \in Seq(Record)
      /\ \A n \in DOMAIN records2 : Day(records2[n].time) <= today
  <2>1. records2 \in Seq(Record)
    BY <1>1
  <2>2. ASSUME NEW n \in DOMAIN records2 PROVE Day(records2[n].time) <= today
    <3>1. \/ n \in DOMAIN s.records /\ records2[n] = s.records[n]
          \/ records2[n] = row
      BY <1>1
    <3> HIDE DEF records2
    <3> QED
      BY <1>1, <1>2, <3>1
  <2> QED
    BY <2>1, <2>2
<1>8. Closed(s, t, price, c) = [trades |-> <<>>, risk |-> risk2, records |-> records2]
  <2>1. RemoveFirst(s.trades, t) = <<>>
    BY RemoveOnly
  <2> QED
    BY <2>1, Zenon DEF Closed, ClosePosition, risk2, booked, rolled
<1> DEFINE z == Closed(s, t, price, c)
<1>9. /\ z.trades = <<>> /\ z.risk = risk2 /\ z.records = records2
  BY <1>8
<1>10. StartBalance \in Nat
  BY ConstantTypes
<1>14. s.risk.balance = StartBalance + PnlOf(s.records)
  BY DEF Books
<1> HIDE DEF z, records2, today, pnl
<1>11. OneStory(z.trades, z.risk.open)
  BY <1>2, <1>3, <1>4, <1>5, <1>9 DEF OneStory
<1>12. Books(z)
  BY <1>1, <1>2, <1>3, <1>4, <1>6, <1>7, <1>9, <1>10, <1>11, <1>14 DEF Books
<1>13. Current(z, c.time)
  BY <1>1, <1>2, <1>3, <1>4, <1>9 DEF Current, today
<1> QED
  BY <1>9, <1>12, <1>13 DEF z, records2, pnl

\* ---- a candle ----------------------------------------------------------------

\* How a trade is left: at its stop, at its target, or by the time stop.
LeftAt(t, c, price) ==
    \/ HitsStop(t, c) /\ price = t.stop
    \/ ~HitsStop(t, c) /\ HitsTarget(t, c) /\ price = t.target
    \/ ~HitsStop(t, c) /\ ~HitsTarget(t, c) /\ price = Exit(t, c)

Moved(t, c) == [t EXCEPT !.stop = NewStop(t, c)]

WithTrades(s, some) == [trades |-> some, risk |-> s.risk, records |-> s.records]

\* What the broker and the trade manager make of a candle.
Played(s, c, m) ==
    \/ s.trades = <<>> /\ m = s
    \/ \E t \in Trade :
          /\ s.trades = <<t>>
          /\ \/ \E price \in Int : m = Closed(s, t, price, c) /\ LeftAt(t, c, price)
             \/ /\ ~HitsStop(t, c) /\ ~HitsTarget(t, c) /\ ~Stalled(t, c)
                /\ m = s \/ (Trails(t, c) /\ m = WithTrades(s, <<Moved(t, c)>>))

\* An element replaced in a list of one.
LEMMA ReplaceOnly ==
    ASSUME NEW t, NEW new
    PROVE  ReplaceAll(<<t>>, t, new) = <<new>>
BY DEF ReplaceAll

\* The manager closes and trails at whole prices.
LEMMA ExitType ==
    ASSUME NEW t \in Trade, NEW c \in Candle
    PROVE  Exit(t, c) \in Int /\ NewStop(t, c) \in Int
<1>1. c.close \in Int
  BY CandleTypes
<1>2. HalfSpread \in Nat /\ TrailDistance \in Nat
  BY ConstantTypes
<1> QED
  BY <1>1, <1>2 DEF Exit, NewStop, Bid, Ask

\* What a candle makes of the open trade, or of none.
LEMMA PlayedCases ==
    ASSUME NEW s, IsState(s), Books(s), NEW c \in Candle, Current(s, c.time)
    PROVE  Played(s, c, Manage(ResolveCandle(s, c), c))
<1>1. CASE s.trades = <<>>
  BY <1>1, LoopOverNone DEF Played
<1>2. CASE s.trades # <<>>
  <2>1. PICK t \in Trade : s.trades = <<t>>
    BY <1>2 DEF Books, OneStory
  <2>2. t.stop \in Int /\ t.target \in Int /\ Exit(t, c) \in Int
    BY ExitType DEF Trade
  <2>3. ResolveCandle(s, c) = Resolve(s, t, c)
    BY <2>1, ResolveOnce
  <2>4. ASSUME NEW price \in Int, LeftAt(t, c, price),
               Manage(ResolveCandle(s, c), c) = Closed(s, t, price, c)
        PROVE  Played(s, c, Manage(ResolveCandle(s, c), c))
    BY <2>1, <2>4 DEF Played
  <2>5. ASSUME NEW price \in Int
        PROVE  Manage(Closed(s, t, price, c), c) = Closed(s, t, price, c)
    <3>1. Closed(s, t, price, c).trades = <<>>
      BY <2>1, ClosedBooks
    <3> QED
      BY <3>1, LoopOverNone
  <2>6. CASE HitsStop(t, c)
    <3>1. ResolveCandle(s, c) = Closed(s, t, t.stop, c)
      BY <2>3, <2>6 DEF Resolve
    <3>2. LeftAt(t, c, t.stop)
      BY <2>6 DEF LeftAt
    <3> QED
      BY <2>2, <2>4, <2>5, <3>1, <3>2
  <2>7. CASE ~HitsStop(t, c) /\ HitsTarget(t, c)
    <3>1. ResolveCandle(s, c) = Closed(s, t, t.target, c)
      BY <2>3, <2>7 DEF Resolve
    <3>2. LeftAt(t, c, t.target)
      BY <2>7 DEF LeftAt
    <3> QED
      BY <2>2, <2>4, <2>5, <3>1, <3>2
  <2>8. CASE ~HitsStop(t, c) /\ ~HitsTarget(t, c)
    <3>1. ResolveCandle(s, c) = s
      BY <2>3, <2>8 DEF Resolve
    <3>2. Manage(ResolveCandle(s, c), c) = ManageOne(s, t, c)
      BY <2>1, <3>1, ManageOnce
    <3>3. CASE Stalled(t, c)
      <4>1. Manage(ResolveCandle(s, c), c) = Closed(s, t, Exit(t, c), c)
        BY <3>2, <3>3 DEF ManageOne
      <4>2. LeftAt(t, c, Exit(t, c))
        BY <2>8 DEF LeftAt
      <4> QED
        BY <2>2, <2>4, <4>1, <4>2
    <3>4. CASE ~Stalled(t, c) /\ Trails(t, c)
      <4>1. Manage(ResolveCandle(s, c), c)
              = [s EXCEPT !.trades = ReplaceAll(@, t, Moved(t, c))]
        BY <3>2, <3>4 DEF ManageOne, Moved
      <4>2. ReplaceAll(s.trades, t, Moved(t, c)) = <<Moved(t, c)>>
        BY <2>1, ReplaceOnly
      <4>3. ASSUME NEW some
            PROVE  [s EXCEPT !.trades = some] = WithTrades(s, some)
        BY DEF IsState, WithTrades
      <4>4. Manage(ResolveCandle(s, c), c) = WithTrades(s, <<Moved(t, c)>>)
        BY <4>1, <4>2, <4>3
      <4> QED
        BY <2>1, <2>8, <3>4, <4>4 DEF Played
    <3>5. CASE ~Stalled(t, c) /\ ~Trails(t, c)
      <4>1. Manage(ResolveCandle(s, c), c) = s
        BY <3>2, <3>5 DEF ManageOne
      <4> QED
        BY <2>1, <2>8, <3>5, <4>1 DEF Played
    <3> QED
      BY <3>3, <3>4, <3>5
  <2> QED
    BY <2>6, <2>7, <2>8
<1> QED
  BY <1>1, <1>2

\* A trailing stop stays on its side of the target and loses less.
LEMMA MovedHolds ==
    ASSUME NEW t \in Trade, NEW p \in Position, Holds(p, t), NEW c \in Candle,
           ~HitsTarget(t, c), Trails(t, c)
    PROVE  Moved(t, c) \in Trade /\ Holds(p, Moved(t, c))
<1> DEFINE n == Moved(t, c)
           to == NewStop(t, c)
<1>1. /\ to \in Int /\ t.units \in Int /\ t.entry \in Int /\ t.target \in Int
      /\ t.stop \in Int /\ t.opened \in 0..Horizon
  BY ExitType DEF Trade
<1>2. n = [units |-> t.units, entry |-> t.entry, stop |-> to,
           target |-> t.target, opened |-> t.opened]
  BY DEF Moved, Trade
<1>3. /\ n.units = t.units /\ n.entry = t.entry /\ n.stop = to
      /\ n.target = t.target
  BY <1>2
<1>4. n \in Trade
  BY <1>1, <1>2 DEF Trade
<1>5. /\ HalfSpread \in Nat /\ TrailDistance \in Nat
      /\ c.high \in Int /\ c.low \in Int /\ c.close \in Int
      /\ c.low <= c.close /\ c.close <= c.high
  BY CandleTypes, ConstantTypes
<1>6. \/ t.units > 0 /\ t.stop <= to /\ to <= t.target
      \/ t.units < 0 /\ to <= t.stop /\ t.target <= to
  <2>1. CASE t.units > 0
    <3>1. to > t.stop /\ to = c.close - HalfSpread - TrailDistance
      BY <2>1 DEF Trails, NewStop, Exit, Bid
    <3>2. ~(c.high >= t.target)
      BY <2>1 DEF HitsTarget
    <3> HIDE DEF to
    <3> QED
      BY <1>1, <1>5, <2>1, <3>1, <3>2
  <2>2. CASE t.units < 0
    <3>1. to < t.stop /\ to = c.close + HalfSpread + TrailDistance
      BY <1>1, <2>2 DEF Trails, NewStop, Exit, Ask
    <3>2. ~(c.low <= t.target)
      BY <1>1, <2>2 DEF HitsTarget
    <3> HIDE DEF to
    <3> QED
      BY <1>1, <1>5, <2>2, <3>1, <3>2
  <2> QED
    BY <2>1, <2>2 DEF Holds, Ordered
<1> HIDE DEF n, to
<1>7. Pnl(t, t.stop) <= Pnl(t, to)
  BY <1>1, <1>6, PnlOrder
<1>8. Pnl(n, n.stop) = Pnl(t, to) /\ EntryCost(n) = EntryCost(t)
  BY <1>3 DEF Pnl, EntryCost
<1>9. /\ p.risk \in Int /\ EntryCost(t) \in Int
      /\ Pnl(t, t.stop) \in Int /\ Pnl(t, to) \in Int
  <2>1. Magnitude(t.units) \in Int
    BY <1>1 DEF Magnitude
  <2>4. HalfSpread \in Nat /\ Slippage \in Nat /\ PipCents \in Nat
    BY ConstantTypes
  <2>2. HalfSpread + Slippage \in Int /\ PipCents \in Int
    BY <2>4
  <2>3. EntryCost(t) \in Int
    BY <2>1, <2>2 DEF EntryCost
  <2> QED
    BY <1>1, <2>3, PnlType DEF Position
<1>10. -Pnl(t, t.stop) <= p.risk + EntryCost(t)
  BY DEF Holds
<1>11. -Pnl(n, n.stop) <= p.risk + EntryCost(n)
  BY <1>7, <1>8, <1>9, <1>10
<1>12. p.instrument = Instrument /\ (p.direction = 1 <=> t.units > 0)
  BY DEF Holds
<1> QED
  BY <1>3, <1>4, <1>6, <1>11, <1>12 DEF Holds, Ordered, n

\* ---- an entry ----------------------------------------------------------------

\* What the setups may find.
LEMMA DetectedTypes ==
    ASSUME NEW d \in {-1, 1}, NEW atr \in Atrs
    PROVE  /\ SignalOn(d, atr).direction = d
           /\ SignalOn(d, atr).instrument = Instrument
           /\ SignalOn(d, atr).pipValue = Scale * PipCents
           /\ StopHalfPips(SignalOn(d, atr)) \in Nat
<1>0. Atrs \subseteq Nat
  BY BacktestAssumption DEF BacktestAssumption
<1>1. atr \in Nat /\ 3 * atr \in Nat
  BY <1>0
<1>2. StopFloor[Instrument] \in Nat
  BY ConstantTypes, RiskAssumption DEF RiskAssumption
<1> QED
  BY <1>1, <1>2 DEF SignalOn, StopHalfPips

\* How often the divisor fits at least.
LEMMA QuotientAtLeast ==
    ASSUME NEW a \in Int, NEW d \in Nat \ {0}, NEW x \in Int, x * d <= a
    PROVE  x <= a \div d
<1> DEFINE q == a \div d
<1>1. q \in Int /\ a < (q + 1) * d
  OBVIOUS
<1> HIDE DEF q
<1>2. ~(q + 1 <= x)
  <2> SUFFICES ASSUME q + 1 <= x PROVE FALSE
    OBVIOUS
  <2>1. (q + 1) * d <= x * d /\ (q + 1) * d \in Int /\ x * d \in Int
    BY <1>1, TimesMonotone
  <2> QED
    BY <1>1, <2>1
<1> QED
  BY <1>1, <1>2 DEF q

\* The size is rounded down: what it loses at the stop was approved.
LEMMA UnitsWithinRisk ==
    ASSUME NEW r \in Risk, NEW d \in {-1, 1}, NEW atr \in Atrs,
           Sizable(r, SignalOn(d, atr)), NEW amount \in RoundToCent(RiskMills(r))
    PROVE  /\ Units(r, SignalOn(d, atr)) \in Nat \ {0}
           /\ amount \in Int
           /\ (StopHalfPips(SignalOn(d, atr)) * Units(r, SignalOn(d, atr))) * PipCents
                <= amount
<1> DEFINE stop == StopHalfPips(SignalOn(d, atr))
           loss == stop * (Scale * PipCents)
           mills == RiskMills(r)
           units == mills \div loss
<1>1. /\ stop \in Nat /\ Scale \in Nat \ {0} /\ PipCents \in Nat /\ mills \in Int
      /\ Units(r, SignalOn(d, atr)) = units
      /\ loss > 0 /\ mills >= loss
  BY DetectedTypes, ConstantTypes, RiskMillsType DEF Units, Sizable
<1>2. amount \in Int /\ mills \div Scale <= amount
  <2>1. mills \div Scale \in Int
    BY <1>1
  <2> HIDE DEF mills
  <2> QED
    BY <2>1, RoundToCentType, RiskMillsType DEF RoundToCent, mills
<1> HIDE DEF stop, mills
<1>3. loss \in Nat \ {0} /\ mills \in Nat
  <2>1. Scale * PipCents \in Nat
    BY <1>1
  <2>2. loss \in Int
    BY <1>1, <2>1
  <2> HIDE DEF loss
  <2> QED
    BY <1>1, <2>2
<1>4. units \in Nat /\ units * loss <= mills
  <2> HIDE DEF loss
  <2> QED
    BY <1>3, QuotientType
<1>5. 1 <= units
  <2> HIDE DEF loss
  <2>1. 1 * loss <= mills
    BY <1>1, <1>3
  <2> QED
    BY <1>1, <1>3, <2>1, QuotientAtLeast
<1> DEFINE x == (stop * units) * PipCents
<1> HIDE DEF units
<1>6. x * Scale = units * loss /\ x \in Int
  BY <1>1, <1>4
<1>7. x <= mills \div Scale
  <2> HIDE DEF x
  <2> QED
    BY <1>1, <1>4, <1>6, QuotientAtLeast
<1>8. x <= amount
  <2> HIDE DEF x
  <2>1. mills \div Scale \in Int
    BY <1>1
  <2> QED
    BY <1>2, <1>6, <1>7, <2>1
<1> QED
  BY <1>1, <1>2, <1>4, <1>5, <1>8 DEF stop

\* A fill and its position are one story.
LEMMA FilledHolds ==
    ASSUME NEW r \in Risk, NEW d \in {-1, 1}, NEW atr \in Atrs, NEW c \in Candle,
           Sizable(r, SignalOn(d, atr)), NEW amount \in RoundToCent(RiskMills(r)),
           NEW p, p = [instrument |-> Instrument, direction |-> d, risk |-> amount]
    PROVE  /\ Filled(r, SignalOn(d, atr), c) \in Trade
           /\ p \in Position
           /\ Holds(p, Filled(r, SignalOn(d, atr), c))
<1> DEFINE t == Filled(r, SignalOn(d, atr), c)
           stop == StopHalfPips(SignalOn(d, atr))
           units == Units(r, SignalOn(d, atr))
           cost == HalfSpread + Slippage
           gain == (TpNum * stop) \div TpDen
<1>1. /\ units \in Nat \ {0} /\ amount \in Int
      /\ (stop * units) * PipCents <= amount
  BY UnitsWithinRisk
<1>2. /\ t.units = d * units
      /\ t.entry = IF d > 0 THEN c.close + HalfSpread + Slippage
                   ELSE c.close - HalfSpread - Slippage
      /\ t.stop = c.close - d * stop
      /\ t.target = c.close + d * gain
      /\ t.opened = c.time
      /\ t = [units |-> t.units, entry |-> t.entry, stop |-> t.stop,
              target |-> t.target, opened |-> t.opened]
  BY DetectedTypes DEF Filled, Ask, Bid
<1>3. /\ stop \in Nat /\ HalfSpread \in Nat /\ Slippage \in Nat /\ PipCents \in Nat
      /\ TpNum \in Nat /\ TpDen \in Nat \ {0}
  BY DetectedTypes, ConstantTypes
<1>4. c.close \in Int /\ c.time \in 0..Horizon
  BY CandleTypes
<1> HIDE DEF t, stop, units
<1>5. gain \in Nat
  <2>1. TpNum * stop \in Nat
    BY <1>3
  <2> QED
    BY <1>3, <2>1, QuotientType
<1> HIDE DEF gain
<1>6. /\ t.units \in Int /\ t.entry \in Int /\ t.stop \in Int /\ t.target \in Int
      /\ t.opened \in 0..Horizon
  BY <1>1, <1>2, <1>3, <1>4, <1>5
<1>7. t \in Trade
  BY <1>2, <1>6 DEF Trade
<1>8. p \in Position
  BY <1>1, ConstantTypes DEF Position
<1>9. /\ Ordered(t) /\ (d = 1 <=> t.units > 0) /\ Magnitude(t.units) = units
  <2>1. CASE d = 1
    BY <1>1, <1>2, <1>3, <1>4, <1>5, <2>1 DEF Ordered, Magnitude
  <2>2. CASE d = -1
    BY <1>1, <1>2, <1>3, <1>4, <1>5, <2>2 DEF Ordered, Magnitude
  <2> QED
    BY <2>1, <2>2
<1>10. (t.stop - t.entry) * t.units = -(stop * units + units * cost)
  <2>1. CASE d = 1
    <3>1. t.stop - t.entry = -(stop + cost) /\ t.units = units
      BY <1>1, <1>2, <1>3, <1>4, <2>1
    <3> QED
      BY <1>1, <1>3, <3>1
  <2>2. CASE d = -1
    <3>1. t.stop - t.entry = stop + cost /\ t.units = -units
      BY <1>1, <1>2, <1>3, <1>4, <2>2
    <3> QED
      BY <1>1, <1>3, <3>1
  <2> QED
    BY <2>1, <2>2
<1>11. -Pnl(t, t.stop) = (stop * units) * PipCents + EntryCost(t)
  <2> DEFINE a == stop * units
             b == units * cost
  <2>1. a \in Int /\ b \in Int
    BY <1>1, <1>3
  <2>2. Pnl(t, t.stop) = (-(a + b)) * PipCents /\ EntryCost(t) = b * PipCents
    BY <1>9, <1>10 DEF Pnl, EntryCost
  <2> HIDE DEF a, b
  <2>3. -((-(a + b)) * PipCents) = a * PipCents + b * PipCents
    BY <1>3, <2>1
  <2> QED
    BY <2>2, <2>3 DEF a
<1>12. -Pnl(t, t.stop) <= p.risk + EntryCost(t)
  <2>1. EntryCost(t) \in Int /\ (stop * units) * PipCents \in Int /\ p.risk = amount
    BY <1>1, <1>3, <1>9 DEF EntryCost
  <2> QED
    BY <1>1, <1>11, <2>1
<1> QED
  BY <1>7, <1>8, <1>9, <1>12 DEF Holds, t

\* What _try_enter leaves: the trades as they were, or the one it filled where
\* there was none.
Tried(m, c, z) ==
    /\ IsState(z) /\ Books(z) /\ Current(z, c.time)
    /\ z.records = m.records
    /\ z.trades = m.trades \/ \E t \in Trade : z.trades = <<t>> /\ t.opened = c.time

\* An entry keeps the books.
LEMMA TryEnterBooks ==
    ASSUME NEW m, IsState(m), Books(m), NEW c \in Candle, Current(m, c.time),
           NEW d \in {-1, 1}, NEW atr \in Atrs,
           NEW z \in TryEnter(m, SignalOn(d, atr), c)
    PROVE  Tried(m, c, z)
<1> DEFINE sig == SignalOn(d, atr)
           today == Day(c.time)
           rolled == Rollover(m.risk, today)
           r == Evaluated(m.risk, today)
<1>1. today \in Nat /\ c.time \in Nat
  BY CandleTypes, DayType
<1>2. /\ rolled \in Risk /\ rolled.day = today
      /\ rolled.dayPnl = PnlOn(today, m.records)
      /\ rolled.balance = m.risk.balance /\ rolled.open = m.risk.open
      /\ \A n \in DOMAIN m.records : Day(m.records[n].time) <= today
  BY <1>1, RolloverDay DEF Books, Current
<1> HIDE DEF rolled
<1>3. /\ r \in Risk /\ r.day = today /\ r.dayPnl = PnlOn(today, m.records)
      /\ r.balance = m.risk.balance /\ r.open = m.risk.open
  BY <1>2, ArmedType DEF Evaluated, rolled
<1>4. /\ m.records \in Seq(Record) /\ OneStory(m.trades, m.risk.open)
      /\ m.risk.balance = StartBalance + PnlOf(m.records)
  BY DEF Books
<1>5. z \in IF ~Approves(r, sig) THEN {[m EXCEPT !.risk = r]}
            ELSE {[trades |-> Append(m.trades, Filled(r, sig, c)),
                   risk |-> RegisterFill(r, Instrument, sig.direction, amount),
                   records |-> m.records] : amount \in RoundToCent(RiskMills(r))}
  BY DEF TryEnter
<1> HIDE DEF r, today
<1>6. CASE ~Approves(r, sig)
  <2>1. z = [m EXCEPT !.risk = r]
    BY <1>5, <1>6
  <2>2. /\ z.trades = m.trades /\ z.risk = r /\ z.records = m.records
        /\ IsState(z)
    BY <2>1 DEF IsState
  <2>3. Books(z)
    BY <1>2, <1>3, <1>4, <2>2 DEF Books
  <2>4. Current(z, c.time)
    BY <1>1, <1>3, <2>2 DEF Current, today
  <2> QED
    BY <2>2, <2>3, <2>4 DEF Tried
<1>7. CASE Approves(r, sig)
  <2>1. PICK amount \in RoundToCent(RiskMills(r)) :
          z = [trades |-> Append(m.trades, Filled(r, sig, c)),
               risk |-> RegisterFill(r, Instrument, sig.direction, amount),
               records |-> m.records]
    BY <1>5, <1>7
  <2>2. m.trades = <<>> /\ r.open = <<>>
    <3>1. \A i \in DOMAIN r.open : r.open[i].instrument # Instrument
      BY <1>7, DetectedTypes DEF Approves, CheapGates
    <3>2. ASSUME NEW t, NEW p, m.trades = <<t>>, m.risk.open = <<p>>, Holds(p, t)
          PROVE  FALSE
      <4>1. r.open[1] = p /\ 1 \in DOMAIN r.open
        BY <1>3, <3>2
      <4> QED
        BY <3>1, <3>2, <4>1 DEF Holds
    <3> QED
      BY <1>3, <1>4, <3>2 DEF OneStory
  <2> DEFINE p == [instrument |-> Instrument, direction |-> d, risk |-> amount]
             t == Filled(r, sig, c)
             after == RegisterFill(r, Instrument, d, amount)
  <2>3. /\ t \in Trade /\ p \in Position /\ Holds(p, t)
    <3>1. Sizable(r, sig)
      BY <1>7 DEF Approves
    <3> QED
      BY <1>3, <3>1, FilledHolds
  <2>4. t.opened = c.time
    BY DEF Filled
  <2>5. after \in Risk
    BY <1>3, <2>3, ConstantTypes, RegisterFillType, RoundToCentType, RiskMillsType
  <2>6. /\ after.open = <<p>> /\ after.day = r.day /\ after.dayPnl = r.dayPnl
        /\ after.balance = r.balance
    <3>1. Append(r.open, p) = <<p>>
      BY <2>2
    <3>2. ASSUME NEW open
          PROVE  /\ [r EXCEPT !.open = open].open = open
                 /\ [r EXCEPT !.open = open].day = r.day
                 /\ [r EXCEPT !.open = open].dayPnl = r.dayPnl
                 /\ [r EXCEPT !.open = open].balance = r.balance
      BY <1>3 DEF Risk
    <3>3. after = [r EXCEPT !.open = Append(r.open, p)]
      BY DEF RegisterFill
    <3> HIDE DEF after, p
    <3> QED
      BY <3>1, <3>2, <3>3
  <2>7. /\ z.trades = <<t>> /\ z.risk = after /\ z.records = m.records
        /\ IsState(z)
    <3>1. sig.direction = d /\ Append(m.trades, t) = <<t>>
      BY <2>2, DetectedTypes
    <3> HIDE DEF t
    <3> QED
      BY <2>1, <3>1 DEF t, IsState
  <2> HIDE DEF t, p, after
  <2>8. Books(z)
    <3>1. OneStory(z.trades, z.risk.open)
      BY <2>3, <2>6, <2>7 DEF OneStory
    <3> QED
      BY <1>2, <1>3, <1>4, <2>5, <2>6, <2>7, <3>1 DEF Books
  <2>9. Current(z, c.time)
    BY <1>1, <1>3, <2>6, <2>7 DEF Current, today
  <2> QED
    BY <2>3, <2>4, <2>7, <2>8, <2>9 DEF Tried
<1> QED
  BY <1>6, <1>7

\* ---- a step --------------------------------------------------------------------

\* The books agree with each other once the open trade was played.
LEMMA PlayedBooks ==
    ASSUME NEW s, IsState(s), Books(s), NEW c \in Candle, Current(s, c.time),
           NEW m, Played(s, c, m)
    PROVE  IsState(m) /\ Books(m) /\ Current(m, c.time)
<1>1. CASE s.trades = <<>> /\ m = s
  BY <1>1
<1>2. ASSUME NEW t \in Trade, s.trades = <<t>>, NEW price \in Int,
             m = Closed(s, t, price, c)
      PROVE  IsState(m) /\ Books(m) /\ Current(m, c.time)
  <2>1. IsState(m)
    BY <1>2 DEF IsState, Closed
  <2> QED
    BY <1>2, <2>1, ClosedBooks
<1>3. ASSUME NEW t \in Trade, s.trades = <<t>>, ~HitsTarget(t, c), Trails(t, c),
             m = WithTrades(s, <<Moved(t, c)>>)
      PROVE  IsState(m) /\ Books(m) /\ Current(m, c.time)
  <2>1. PICK p \in Position : s.risk.open = <<p>> /\ Holds(p, t)
    <3>1. PICK t2 \in Trade, p \in Position :
             s.trades = <<t2>> /\ s.risk.open = <<p>> /\ Holds(p, t2)
      BY <1>3 DEF Books, OneStory
    <3>2. t2 = t
      BY <1>3, <3>1
    <3> QED
      BY <3>1, <3>2
  <2>2. Moved(t, c) \in Trade /\ Holds(p, Moved(t, c))
    BY <1>3, <2>1, MovedHolds
  <2>3. /\ m.trades = <<Moved(t, c)>> /\ m.risk = s.risk /\ m.records = s.records
        /\ IsState(m)
    BY <1>3 DEF WithTrades, IsState
  <2>4. OneStory(m.trades, m.risk.open)
    BY <2>1, <2>2, <2>3 DEF OneStory
  <2>5. Books(m)
    BY <2>3, <2>4 DEF Books
  <2>6. Current(m, c.time)
    BY <2>3 DEF Current
  <2> QED
    BY <2>3, <2>5, <2>6
<1> QED
  BY <1>1, <1>2, <1>3 DEF Played

Here == [trades |-> trades, risk |-> risk, records |-> records]

\* A candle was handled, or none yet.
Handled ==
    \/ candle = <<>> /\ trades = <<>> /\ records = <<>>
    \/ \E k \in Candle : candle = <<k>> /\ Current(Here, k.time)

\* The inductive invariant of the replay.
ReplayInv ==
    /\ calendar \in CalendarFiles
    /\ Handled
    /\ Books(Here)
    /\ GateHoldsEntriesOnly

\* A candle that comes is later than the one before it.
LEMMA LaterCurrent ==
    ASSUME Handled, Books(Here), NEW c \in Candle, Later(c)
    PROVE  Current(Here, c.time)
<1>1. CASE records = <<>>
  BY <1>1 DEF Current, Here
<1>2. CASE records # <<>>
  <2>1. PICK k \in Candle : candle = <<k>> /\ Current(Here, k.time)
    BY <1>2 DEF Handled
  <2>2. k \in ToSet(candle)
    BY <2>1 DEF ToSet
  <2>3. k.time < c.time /\ k.time \in Nat /\ c.time \in Nat
    BY <2>2, CandleTypes DEF Later
  <2>4. Day(k.time) <= Day(c.time) /\ Day(k.time) \in Nat /\ Day(c.time) \in Nat
    BY <2>3, DayMonotone, DayType
  <2>5. risk.day <= Day(k.time) /\ risk.day \in Nat
    BY <1>2, <2>1 DEF Current, Here, Books, Risk
  <2> QED
    BY <2>4, <2>5 DEF Current, Here
<1> QED
  BY <1>1, <1>2

\* One iteration of run: the open trade is played, then an entry is tried, or not.
Stepped(c, m) ==
    /\ Played(Here, c, m) /\ Books(m) /\ Current(m, c.time)
    /\ \/ Here' = m
       \/ CanEnter(Events, Instrument, c.time) /\ Tried(m, c, Here')
    /\ Books(Here') /\ Current(Here', c.time)
    /\ candle' = <<c>> /\ calendar' = calendar

\* Every step handles a later candle, in the way Stepped describes.
LEMMA StepCases ==
    ASSUME ReplayInv, Next
    PROVE  \E c \in Candle : Later(c) /\ \E m : Stepped(c, m)
<1>1. PICK c \in Candle, signals \in Detected : Later(c) /\ Replay(c, signals)
  BY DEF Next
<1> DEFINE m == Manage(ResolveCandle(Here, c), c)
<1>2. IsState(Here) /\ Books(Here) /\ Current(Here, c.time)
  BY <1>1, LaterCurrent DEF ReplayInv, IsState, Here
<1>3. Played(Here, c, m)
  BY <1>2, PlayedCases
<1> HIDE DEF m
<1>4. IsState(m) /\ Books(m) /\ Current(m, c.time)
  BY <1>2, <1>3, PlayedBooks
<1>5. PICK z \in OnCandleClose(ResolveCandle(Here, c), c, signals) :
         trades' = z.trades /\ risk' = z.risk /\ records' = z.records
  BY <1>1 DEF Replay, Here
<1>6. candle' = <<c>> /\ calendar' = calendar
  BY <1>1 DEF Replay
<1>7. CASE z = m
  <2>1. Here' = m
    BY <1>4, <1>5, <1>7 DEF Here, IsState
  <2> QED
    BY <1>1, <1>3, <1>4, <1>6, <2>1 DEF Stepped
<1>8. ASSUME NEW sig \in signals, z \in TryEnter(m, sig, c),
             CanEnter(Events, Instrument, c.time)
      PROVE  \E n : Stepped(c, n)
  <2>1. PICK d \in {-1, 1}, atr \in Atrs : sig = SignalOn(d, atr)
    BY <1>8 DEF Detected
  <2>2. Tried(m, c, z)
    BY <1>4, <1>8, <2>1, TryEnterBooks
  <2>3. IsState(z)
    BY <2>2 DEF Tried
  <2>4. Here' = z
    BY <1>5, <2>3 DEF Here, IsState
  <2> QED
    BY <1>3, <1>4, <1>6, <1>8, <2>2, <2>4 DEF Stepped, Tried
<1>9. z = m \/ \E sig \in signals :
                 z \in TryEnter(m, sig, c) /\ CanEnter(Events, Instrument, c.time)
  BY <1>5 DEF OnCandleClose, m
<1> QED
  BY <1>1, <1>7, <1>8, <1>9

\* The invariant holds before the first candle.
LEMMA ReplayInit ==
    ASSUME Init
    PROVE  ReplayInv
<1>1. /\ calendar \in CalendarFiles /\ candle = <<>> /\ trades = <<>>
      /\ records = <<>> /\ risk = NewRisk(StartBalance, Day(Horizon) + 1)
  BY DEF Init
<1>0. Horizon \in Nat /\ StartBalance \in Nat
  BY ConstantTypes
<1>2. Day(Horizon) + 1 \in Nat /\ StartBalance \in Nat
  BY <1>0, DayType
<1>3. risk \in Risk /\ risk.open = <<>> /\ risk.balance = StartBalance /\ risk.dayPnl = 0
  BY <1>1, <1>2, RiskAssumption DEF NewRisk, Risk, RiskAssumption
<1>4. PnlOf(<<>>) = 0 /\ PnlOn(risk.day, <<>>) = 0
  <2>1. <<>> \in Seq(Record) /\ <<>> \in Seq(Int) /\ DOMAIN <<>> = {}
    OBVIOUS
  <2>2. PnlOn(risk.day, <<>>) = 0
    BY <2>1, PnlOnNewDay
  <2>3. Total(<<>>) = 0
    BY <2>1, TotalOfZeros
  <2>4. [n \in DOMAIN <<>> |-> <<>>[n].pnl] = <<>>
    OBVIOUS
  <2> QED
    BY <2>2, <2>3, <2>4 DEF PnlOf
<1>5. Books(Here)
  <2>1. Here.trades = <<>> /\ Here.risk = risk /\ Here.records = <<>>
    BY <1>1 DEF Here
  <2>2. OneStory(Here.trades, Here.risk.open)
    BY <1>3, <2>1 DEF OneStory
  <2> QED
    BY <1>2, <1>3, <1>4, <2>1, <2>2 DEF Books
<1>6. GateHoldsEntriesOnly
  BY <1>1 DEF GateHoldsEntriesOnly
<1> QED
  BY <1>1, <1>5, <1>6 DEF ReplayInv, Handled

\* What can_enter lets through is within the session and away from the releases.
LEMMA GateOfEntry ==
    ASSUME calendar \in CalendarFiles, NEW minute \in Nat,
           CanEnter(Events, Instrument, minute)
    PROVE  /\ minute % DayLength \in SessionStart..(SessionEnd - 1)
           /\ \A row \in calendar :
                 (row.instrument \in {Instrument, "*"} /\ row.time # <<>>)
                   => minute \notin (row.time[1] - BufferBefore)
                                    ..(row.time[1] + BufferAfter)
<1>1. minute % DayLength \in SessionStart..(SessionEnd - 1)
  <2>1. DayLength \in Nat \ {0} /\ SessionStart \in Int /\ SessionEnd \in Int
    BY SessionAssumption DEF SessionAssumption
  <2>2. minute % DayLength \in Int
    BY <2>1
  <2>3. SessionStart <= minute % DayLength /\ minute % DayLength < SessionEnd
    BY DEF CanEnter, InSession
  <2> QED
    BY <2>1, <2>2, <2>3
<1>2. ASSUME NEW row \in calendar, row.instrument \in {Instrument, "*"},
             row.time # <<>>,
             minute \in (row.time[1] - BufferBefore)..(row.time[1] + BufferAfter)
      PROVE  FALSE
  <2> DEFINE ev == [instrument |-> row.instrument, time |-> row.time[1]]
  <2>1. row.instrument # ""
    BY <1>2, ConstantTypes
  <2>2. ev \in Events
    BY <1>2, <2>1 DEF Events, LoadEvents
  <2>3. ev \in Relevant(Events, Instrument)
    BY <1>2, <2>2 DEF Relevant
  <2>4. row.time[1] \in Int /\ BufferBefore \in Nat /\ BufferAfter \in Nat
    BY <1>2, BacktestAssumption, SessionAssumption
       DEF BacktestAssumption, SessionAssumption
  <2>5. ev.time - BufferBefore <= minute /\ minute <= ev.time + BufferAfter
    BY <1>2, <2>4
  <2> QED
    BY <2>3, <2>5 DEF CanEnter, NewsBlackout
<1> QED
  BY <1>1, <1>2

\* No trade that the time stop condemns stays, and a new one was let in.
LEMMA GateStep ==
    ASSUME ReplayInv, NEW c \in Candle, NEW m, Stepped(c, m)
    PROVE  GateHoldsEntriesOnly'
<1> DEFINE Allowed(t) ==
             /\ t.opened % DayLength \in SessionStart..(SessionEnd - 1)
             /\ \A row \in calendar :
                   (row.instrument \in {Instrument, "*"} /\ row.time # <<>>)
                     => t.opened \notin (row.time[1] - BufferBefore)
                                            ..(row.time[1] + BufferAfter)
           Managed(t) == c.time < t.opened + MaxMinutes \/ Gain(t, c) >= MinProgress
<1>1. \A i \in DOMAIN trades : Allowed(trades[i])
  BY DEF ReplayInv, GateHoldsEntriesOnly
<1>2. ASSUME NEW t \in Trade, ~Stalled(t, c) PROVE Managed(t)
  <2>1. Gain(t, c) \in Int /\ c.time \in Int /\ t.opened \in Int /\ MaxMinutes \in Int
    <3>1. Exit(t, c) - t.entry \in Int
      BY ExitType DEF Trade
    <3>2. Gain(t, c) \in Int
      BY <3>1 DEF Gain
    <3>3. c.time \in Nat /\ MaxMinutes \in Nat
      BY CandleTypes, ConstantTypes
    <3> QED
      BY <3>2, <3>3 DEF Trade
  <2>2. MinProgress \in Nat
    BY ConstantTypes
  <2> QED
    BY <1>2, <2>1, <2>2 DEF Stalled
<1>3. ASSUME NEW i \in DOMAIN m.trades PROVE Allowed(m.trades[i]) /\ Managed(m.trades[i])
  <2>1. m.trades # <<>>
    BY <1>3
  <2>2. PICK t \in Trade :
          /\ trades = <<t>> /\ ~Stalled(t, c)
          /\ m.trades = <<t>> \/ m.trades = <<Moved(t, c)>>
    <3>1. m = Here => m.trades = trades
      BY DEF Here
    <3>2. ASSUME NEW t \in Trade, trades = <<t>>, NEW price \in Int,
                 m = Closed(Here, t, price, c)
          PROVE  FALSE
      <4>1. m.trades = RemoveFirst(<<t>>, t)
        BY <3>2 DEF Closed, Here
      <4> QED
        BY <2>1, <4>1, RemoveOnly
    <3>3. \A t : WithTrades(Here, <<Moved(t, c)>>).trades = <<Moved(t, c)>>
      BY DEF WithTrades
    <3>4. Here.trades = trades
      BY DEF Here
    <3> QED
      BY <2>1, <3>1, <3>2, <3>3, <3>4 DEF Stepped, Played
  <2>3. Allowed(t) /\ Managed(t)
    BY <1>1, <1>2, <2>2
  <2>4. Moved(t, c).opened = t.opened /\ Gain(Moved(t, c), c) = Gain(t, c)
    BY DEF Moved, Trade, Gain, Exit
  <2>5. Allowed(Moved(t, c)) /\ Managed(Moved(t, c))
    BY <2>3, <2>4
  <2>6. m.trades[i] = t \/ m.trades[i] = Moved(t, c)
    BY <1>3, <2>2
  <2> HIDE DEF Allowed, Managed
  <2> QED
    BY <2>3, <2>5, <2>6
<1>4. ASSUME NEW i \in DOMAIN trades'
      PROVE  /\ Allowed(trades'[i])
             /\ trades'[i].opened = c.time \/ Managed(trades'[i])
  <2>1. Here'.trades = trades'
    BY DEF Here
  <2>2. CASE trades' = m.trades
    BY <1>3, <1>4, <2>2
  <2>3. ASSUME NEW t \in Trade, trades' = <<t>>, t.opened = c.time,
               CanEnter(Events, Instrument, c.time)
        PROVE  Allowed(trades'[i]) /\ trades'[i].opened = c.time
    <3>1. trades'[i] = t
      BY <1>4, <2>3
    <3>2. Allowed(t)
      BY <2>3, GateOfEntry, CandleTypes DEF ReplayInv
    <3> QED
      BY <2>3, <3>1, <3>2
  <2> HIDE DEF Allowed, Managed
  <2> QED
    BY <2>1, <2>2, <2>3 DEF Stepped, Tried
<1>5. candle'[1] = c /\ calendar' = calendar
  BY DEF Stepped
<1> QED
  BY <1>4, <1>5 DEF GateHoldsEntriesOnly

\* Every candle keeps the invariant.
LEMMA ReplayStep ==
    ASSUME ReplayInv, [Next]_vars
    PROVE  ReplayInv'
<1>1. CASE UNCHANGED vars
  BY <1>1 DEF vars, ReplayInv, Handled, Books, Current, Here, GateHoldsEntriesOnly
<1>2. CASE Next
  <2>1. PICK c \in Candle : \E m : Stepped(c, m)
    BY <1>2, StepCases
  <2>2. PICK m : Stepped(c, m)
    BY <2>1
  <2>3. GateHoldsEntriesOnly'
    BY <2>2, GateStep
  <2>4. Handled' /\ Books(Here)' /\ calendar' \in CalendarFiles
    BY <2>2 DEF Stepped, Handled, ReplayInv
  <2> QED
    BY <2>3, <2>4 DEF ReplayInv
<1> QED
  BY <1>1, <1>2

\* ---- what the checks state, for every configuration -------------------------------

\* The invariant always holds.
LEMMA ReplayInvariant == Spec => []ReplayInv
<1>1. Init => ReplayInv
  BY ReplayInit
<1>2. ReplayInv /\ [Next]_vars => ReplayInv'
  BY ReplayStep
<1> QED
  BY <1>1, <1>2, PTL DEF Spec

\* The session and the calendar hold back entries and never the managing of a
\* trade that is open.
THEOREM GateHoldsOnlyEntries == Spec => []GateHoldsEntriesOnly
<1>1. ReplayInv => GateHoldsEntriesOnly
  BY DEF ReplayInv
<1> QED
  BY <1>1, ReplayInvariant, PTL

\* The broker's trades, the risk manager's positions, balance and day, and the
\* records of the statistics agree after every candle.
THEOREM BooksAlwaysAgree == Spec => []BooksAgree
<1>1. ASSUME ReplayInv PROVE BooksAgree
  <2>1. /\ OneStory(trades, risk.open)
        /\ risk.balance = StartBalance + PnlOf(records)
        /\ risk.dayPnl = PnlOn(risk.day, records)
    BY <1>1 DEF ReplayInv, Books, Here
  <2>2. CASE trades = <<>> /\ risk.open = <<>>
    BY <2>1, <2>2 DEF BooksAgree
  <2>3. ASSUME NEW t \in Trade, NEW p \in Position,
               trades = <<t>>, risk.open = <<p>>, Holds(p, t)
        PROVE  BooksAgree
    <3>1. p.direction * t.units > 0
      <4>1. p.direction \in {-1, 1} /\ t.units \in Int
        BY DEF Position, Trade
      <4>2. (p.direction = 1 /\ t.units > 0) \/ (p.direction = -1 /\ t.units < 0)
        BY <2>3, <4>1 DEF Holds, Ordered
      <4> QED
        BY <4>1, <4>2
    <3>2. Len(risk.open) = Len(trades)
      BY <2>3
    <3>3. ASSUME NEW i \in DOMAIN trades
          PROVE  risk.open[i].direction * trades[i].units > 0
      <4>1. risk.open[i] = p /\ trades[i] = t
        BY <2>3, <3>3
      <4> QED
        BY <3>1, <4>1
    <3> QED
      BY <2>1, <3>2, <3>3 DEF BooksAgree
  <2> QED
    BY <2>1, <2>2, <2>3 DEF OneStory
<1> QED
  BY <1>1, ReplayInvariant, PTL

\* What SubSeq cuts off the end of a list that grew by none or by one.
LEMMA NewOnes ==
    ASSUME NEW some \in Seq(Record), NEW r \in Record
    PROVE  /\ SubSeq(some, Len(some) + 1, Len(some)) = <<>>
           /\ SubSeq(Append(some, r), Len(some) + 1, Len(Append(some, r))) = <<r>>
<1> DEFINE more == Append(some, r)
           n == Len(some) + 1
<1>1. /\ n \in Nat /\ Len(some) \in Nat /\ Len(more) = n /\ more[n] = r
      /\ Len(some) < n
  BY AppendProperties, LenProperties
<1>2. SubSeq(some, n, Len(some)) = <<>>
  BY <1>1, SubSeqEmpty
<1> HIDE DEF n, more
<1> DEFINE last == SubSeq(more, n, n)
<1>3. /\ last \in Seq(Record) /\ Len(last) = n - n + 1
      /\ \A i \in 1..(n - n + 1) : last[i] = more[n + i - 1]
  <2>1. \A i \in n..n : more[i] \in Record
    BY <1>1
  <2> QED
    BY <1>1, <2>1, SubSeqProperties
<1>4. Len(last) = 1 /\ last[1] = r
  BY <1>1, <1>3
<1> HIDE DEF last
<1>5. last = <<r>>
  <2>1. last = [i \in 1..Len(last) |-> last[i]]
    BY <1>3
  <2> QED
    BY <1>4, <2>1
<1> QED
  BY <1>1, <1>2, <1>5 DEF last, more, n

\* What is recorded on a candle: nothing, or the close of the trade that was open
\* before it, at one of the prices at which a trade is left.
LEMMA Recorded ==
    ASSUME ReplayInv, NEW c \in Candle, NEW m, Stepped(c, m)
    PROVE  \/ NewRecords = <<>>
           \/ \E t \in Trade, p \in Position, price \in Int :
                 /\ trades = <<t>> /\ risk.open = <<p>> /\ Holds(p, t)
                 /\ NewRecords = <<[time |-> c.time, pnl |-> Pnl(t, price)]>>
                 /\ LeftAt(t, c, price)
<1>0. records \in Seq(Record) /\ records' = m.records /\ OneStory(trades, risk.open)
  <2>1. Here'.records = records' /\ Here.records = records /\ Here.trades = trades
        /\ Here.risk = risk
    BY DEF Here
  <2> QED
    BY <2>1 DEF ReplayInv, Stepped, Tried, Books
<1>1. CASE m.records = records
  <2>1. [time |-> c.time, pnl |-> 0] \in Record
    BY CandleTypes DEF Record
  <2> QED
    BY <1>0, <1>1, <2>1, NewOnes DEF NewRecords
<1>2. ASSUME NEW t \in Trade, trades = <<t>>, NEW price \in Int,
             m = Closed(Here, t, price, c), LeftAt(t, c, price)
      PROVE  \E p \in Position :
                 /\ risk.open = <<p>> /\ Holds(p, t)
                 /\ NewRecords = <<[time |-> c.time, pnl |-> Pnl(t, price)]>>
  <2> DEFINE row == [time |-> c.time, pnl |-> Pnl(t, price)]
  <2>1. row \in Record
    BY CandleTypes, PnlType DEF Record
  <2>2. records' = Append(records, row)
    BY <1>0, <1>2 DEF Closed, Here
  <2>3. NewRecords = <<row>>
    BY <1>0, <2>1, <2>2, NewOnes DEF NewRecords
  <2>4. PICK t2 \in Trade, p \in Position :
          trades = <<t2>> /\ risk.open = <<p>> /\ Holds(p, t2)
    BY <1>0, <1>2 DEF OneStory
  <2>5. t2 = t
    BY <1>2, <2>4
  <2> QED
    BY <2>3, <2>4, <2>5
<1>3. \A t : WithTrades(Here, <<Moved(t, c)>>).records = records
  BY DEF WithTrades, Here
<1>4. Here.records = records /\ Here.trades = trades
  BY DEF Here
<1> QED
  BY <1>1, <1>2, <1>3, <1>4 DEF Stepped, Played

\* No candle closes what it opened, and none pays better than the worst level it
\* reached.
THEOREM NoLookaheadInReplay == Spec => NoLookaheadNoLuck
<1>1. ASSUME ReplayInv, Next PROVE PaysTheWorst
  <2>0. PICK k \in Candle : \E n : Stepped(k, n)
    BY <1>1, StepCases
  <2>1. PICK m : Stepped(k, m)
    BY <2>0
  <2>2. ToSet(candle') = {k}
    BY <2>1 DEF Stepped, ToSet
  <2>3. CASE NewRecords = <<>>
    BY <2>3 DEF PaysTheWorst, ToSet
  <2>4. ASSUME NEW t \in Trade, NEW p \in Position, NEW price \in Int,
               trades = <<t>>, Holds(p, t),
               NewRecords = <<[time |-> k.time, pnl |-> Pnl(t, price)]>>,
               LeftAt(t, k, price)
        PROVE  PaysTheWorst
    <3>1. ToSet(trades) = {t}
      BY <2>4 DEF ToSet
    <3>2. ToSet(NewRecords) = {[time |-> k.time, pnl |-> Pnl(t, price)]}
      BY <2>4 DEF ToSet
    <3>3. t.stop \in Int /\ t.target \in Int
      BY DEF Trade
    <3>4. HitsStop(t, k) => Pnl(t, price) <= Pnl(t, t.stop)
      BY <2>4, <3>3, PnlType DEF LeftAt
    <3>5. HitsTarget(t, k) => Pnl(t, price) <= Pnl(t, t.target)
      <4>1. Pnl(t, t.stop) <= Pnl(t, t.target)
        BY <2>4, <3>3, PnlOrder DEF Holds, Ordered
      <4> QED
        BY <2>4, <3>3, <4>1, PnlType DEF LeftAt
    <3>6. trades # <<>>
      BY <2>4
    <3> QED
      BY <2>2, <3>1, <3>2, <3>4, <3>5, <3>6 DEF PaysTheWorst
  <2> QED
    BY <1>1, <2>1, <2>3, <2>4, Recorded
<1>2. ReplayInv /\ [Next]_vars => [PaysTheWorst]_vars
  BY <1>1
<1> QED
  BY <1>2, ReplayInvariant, PTL DEF Spec, NoLookaheadNoLuck

\* A trade that the time stop leaves costs at most its stop and half a spread.
LEMMA ExitWithinSpread ==
    ASSUME NEW t \in Trade, Ordered(t), NEW c \in Candle, ~HitsStop(t, c)
    PROVE  Pnl(t, t.stop) - Magnitude(t.units) * HalfSpread * PipCents
             <= Pnl(t, Exit(t, c))
<1> DEFINE worst == IF t.units > 0 THEN t.stop - HalfSpread ELSE t.stop + HalfSpread
<1>1. /\ t.units \in Int /\ t.stop \in Int /\ t.entry \in Int
      /\ HalfSpread \in Nat /\ PipCents \in Nat /\ Exit(t, c) \in Int
  BY ConstantTypes, ExitType DEF Trade
<1>2. /\ c.high \in Int /\ c.low \in Int /\ c.close \in Int
      /\ c.low <= c.close /\ c.close <= c.high
  BY CandleTypes
<1>3. worst \in Int
  BY <1>1
<1>4. \/ t.units > 0 /\ worst <= Exit(t, c)
      \/ t.units < 0 /\ Exit(t, c) <= worst
  <2>1. CASE t.units > 0
    <3>1. ~(c.low <= t.stop) /\ Exit(t, c) = c.close - HalfSpread
      BY <2>1 DEF HitsStop, Exit, Bid
    <3> QED
      BY <1>1, <1>2, <2>1, <3>1
  <2>2. CASE t.units < 0
    <3>1. ~(c.high >= t.stop) /\ Exit(t, c) = c.close + HalfSpread
      BY <1>1, <2>2 DEF HitsStop, Exit, Ask
    <3> QED
      BY <1>1, <1>2, <2>2, <3>1
  <2> QED
    BY <2>1, <2>2 DEF Ordered
<1>5. Pnl(t, worst) <= Pnl(t, Exit(t, c))
  BY <1>1, <1>3, <1>4, PnlOrder
<1>6. Pnl(t, worst) = Pnl(t, t.stop) - Magnitude(t.units) * HalfSpread * PipCents
  <2> DEFINE a == (t.stop - t.entry) * t.units
             b == Magnitude(t.units) * HalfSpread
  <2>1. a \in Int /\ b \in Int
    BY <1>1 DEF Magnitude
  <2>2. (worst - t.entry) * t.units = a - b
    <3>1. CASE t.units > 0
      <4>1. worst - t.entry = (t.stop - t.entry) - HalfSpread
            /\ Magnitude(t.units) = t.units
        BY <1>1, <3>1 DEF Magnitude
      <4> QED
        BY <1>1, <4>1
    <3>2. CASE t.units < 0
      <4>1. worst - t.entry = (t.stop - t.entry) + HalfSpread
            /\ Magnitude(t.units) = -t.units
        BY <1>1, <3>2 DEF Magnitude
      <4> QED
        BY <1>1, <4>1
    <3> QED
      BY <3>1, <3>2 DEF Ordered
  <2>3. Pnl(t, worst) = (a - b) * PipCents /\ Pnl(t, t.stop) = a * PipCents
    BY <2>2 DEF Pnl
  <2> HIDE DEF a, b
  <2>4. (a - b) * PipCents = a * PipCents - b * PipCents
    BY <1>1, <2>1
  <2> QED
    BY <2>3, <2>4 DEF b
<1> QED
  BY <1>5, <1>6

\* However the prices jump, a trade loses no more than was approved for it, its
\* cost at entry, and, but for a stop, half a spread.
THEOREM ReplayLossWithinRisk == Spec => LossWithinRisk
<1>1. ASSUME ReplayInv, Next PROVE CostsWhatWasApproved
  <2>0. PICK k \in Candle : \E n : Stepped(k, n)
    BY <1>1, StepCases
  <2>1. PICK m : Stepped(k, m)
    BY <2>0
  <2>2. ToSet(candle') = {k}
    BY <2>1 DEF Stepped, ToSet
  <2>3. CASE NewRecords = <<>>
    BY <2>3 DEF CostsWhatWasApproved, ToSet
  <2>4. ASSUME NEW t \in Trade, NEW p \in Position, NEW price \in Int,
               trades = <<t>>, risk.open = <<p>>, Holds(p, t),
               NewRecords = <<[time |-> k.time, pnl |-> Pnl(t, price)]>>,
               LeftAt(t, k, price)
        PROVE  CostsWhatWasApproved
    <3> DEFINE half == Magnitude(t.units) * HalfSpread * PipCents
               cost == Slippage + (IF HitsStop(t, k) THEN 1 ELSE 2) * HalfSpread
    <3>1. ToSet(trades) = {t} /\ ToSet(risk.open) = {p}
      <4>1. \A x : ToSet(<<x>>) = {x}
        BY DEF ToSet
      <4> QED
        BY <2>4, <4>1
    <3>2. ToSet(NewRecords) = {[time |-> k.time, pnl |-> Pnl(t, price)]}
      BY <2>4 DEF ToSet
    <3>3. /\ t.stop \in Int /\ t.target \in Int /\ Exit(t, k) \in Int
          /\ t.units \in Int /\ Magnitude(t.units) \in Nat
          /\ HalfSpread \in Nat /\ Slippage \in Nat /\ PipCents \in Nat
      <4>1. t.units \in Int /\ t.stop \in Int /\ t.target \in Int
        BY DEF Trade
      <4>2. Exit(t, k) \in Int /\ Magnitude(t.units) \in Nat
        BY <4>1, ExitType DEF Magnitude
      <4> QED
        BY <4>1, <4>2, ConstantTypes
    <3>4. half \in Nat /\ EntryCost(t) \in Int /\ p.risk \in Int
      <4>1. Magnitude(t.units) * HalfSpread \in Nat
        BY <3>3
      <4> QED
        BY <3>3, <4>1 DEF EntryCost, Position
    <3>5. Magnitude(t.units) * cost * PipCents
            = EntryCost(t) + (IF HitsStop(t, k) THEN 0 ELSE half)
      <4>1. CASE HitsStop(t, k)
        BY <3>3, <4>1 DEF EntryCost
      <4>2. CASE ~HitsStop(t, k)
        <5>1. cost = (HalfSpread + Slippage) + HalfSpread
          BY <3>3, <4>2
        <5> DEFINE a == Magnitude(t.units)
                   w == HalfSpread + Slippage
        <5>2. a \in Int /\ w \in Int /\ HalfSpread \in Int /\ PipCents \in Int
          BY <3>3
        <5> HIDE DEF a, w
        <5>3. a * (w + HalfSpread) * PipCents
                = a * w * PipCents + a * HalfSpread * PipCents
          <6>1. a * (w + HalfSpread) = a * w + a * HalfSpread
            BY <5>2
          <6>2. a * w \in Int /\ a * HalfSpread \in Int
            BY <5>2
          <6> QED
            BY <5>2, <6>1, <6>2
        <5> QED
          BY <4>2, <5>1, <5>3 DEF EntryCost, a, w
      <4> QED
        BY <4>1, <4>2
    <3> HIDE DEF half, cost
    <3>6. -Pnl(t, t.stop) <= p.risk + EntryCost(t)
      BY <2>4 DEF Holds
    <3>7. -Pnl(t, price) <= p.risk + (EntryCost(t) + (IF HitsStop(t, k) THEN 0 ELSE half))
      <4>1. CASE price = t.stop
        BY <3>3, <3>4, <3>6, <4>1, PnlType
      <4>2. CASE ~HitsStop(t, k) /\ price = t.target
        <5>1. Pnl(t, t.stop) <= Pnl(t, t.target)
          BY <2>4, <3>3, PnlOrder DEF Holds, Ordered
        <5> QED
          BY <3>3, <3>4, <3>6, <4>2, <5>1, PnlType
      <4>3. CASE ~HitsStop(t, k) /\ price = Exit(t, k)
        <5>1. Pnl(t, t.stop) - half <= Pnl(t, Exit(t, k))
          BY <2>4, <4>3, ExitWithinSpread DEF Holds, half
        <5> QED
          BY <3>3, <3>4, <3>6, <4>3, <5>1, PnlType
      <4> QED
        BY <2>4, <4>1, <4>2, <4>3 DEF LeftAt
    <3>8. -Pnl(t, price) <= p.risk + Magnitude(t.units) * cost * PipCents
      BY <3>5, <3>7
    <3> QED
      BY <2>2, <3>1, <3>2, <3>8 DEF cost, CostsWhatWasApproved
  <2> QED
    BY <1>1, <2>1, <2>3, <2>4, Recorded
<1>2. ReplayInv /\ [Next]_vars => [CostsWhatWasApproved]_vars
  BY <1>1
<1> QED
  BY <1>2, ReplayInvariant, PTL DEF Spec, LossWithinRisk

\* ---- the download ---------------------------------------------------------------

\* What the arguments of main are.
LEMMA DownloadTypes ==
    /\ Gran \in Nat /\ Gran > 0
    /\ Start \in Nat /\ End \in Nat /\ Start < End
    /\ PageSize \in Nat /\ PageSize > 0
    /\ Pairs \in Seq(STRING)
    /\ LastTime \in Nat
BY HistoryAssumption

\* ---- order --------------------------------------------------------------------

\* Candles are finitely many.
LEMMA TimesFinite ==
    ASSUME NEW S \in SUBSET Times
    PROVE  S \in SUBSET Nat /\ IsFiniteSet(S)
<1>1. LastTime \in Nat
  BY DownloadTypes
<1>2. S \in SUBSET Nat /\ \A t \in S : t <= LastTime
  BY <1>1 DEF Times
<1> QED
  BY <1>1, <1>2, FS_BoundedSetOfNaturals

\* The last candle of a page.
LEMMA LatestCandle ==
    ASSUME NEW S \in SUBSET Times, S # {}
    PROVE  Max(S) \in S /\ \A t \in S : t <= Max(S)
<1>1. S \in SUBSET Nat /\ LastTime \in Nat /\ \A t \in S : t <= LastTime
  BY TimesFinite, DownloadTypes DEF Times
<1>2. \E t \in S : \A u \in S : t >= u
  <2>1. S \in SUBSET (0..LastTime)
    BY <1>1
  <2> QED
    BY <1>1, <2>1, GreatestMember
<1> QED
  BY <1>1, <1>2 DEF Max

\* The candles of a pair lie on a grid.
LEMMA Grid ==
    ASSUME NEW t \in Times, NEW u \in Times, t < u
    PROVE  t + Gran <= u
<1>1. Gran \in Nat \ {0} /\ t \in Nat /\ u \in Nat /\ t % Gran = 0 /\ u % Gran = 0
  BY DownloadTypes DEF Times
<1> DEFINE k == t \div Gran
           m == u \div Gran
<1>2. k \in Int /\ m \in Int /\ t = k * Gran /\ u = m * Gran
  BY <1>1
<1> HIDE DEF k, m
<1>3. k + 1 <= m
  <2> SUFFICES ASSUME m <= k PROVE FALSE
    BY <1>2
  <2>1. m * Gran <= k * Gran
    BY <1>1, <1>2
  <2> QED
    BY <1>1, <1>2, <2>1
<1>4. (k + 1) * Gran <= m * Gran
  BY <1>1, <1>2, <1>3
<1>5. (k + 1) * Gran = k * Gran + Gran
  BY <1>1, <1>2
<1> QED
  BY <1>1, <1>2, <1>4, <1>5

IsOrdered(S) == \E s \in [1..Cardinality(S) -> S] : Ascending(s) /\ ToSet(s) = S

\* A page with one later candle can be put in order too.
LEMMA OrderOfMore ==
    ASSUME NEW S \in SUBSET Nat, IsFiniteSet(S), NEW x \in S,
           \A t \in S : t <= x, IsOrdered(S \ {x})
    PROVE  IsOrdered(S)
<1> DEFINE n == Cardinality(S \ {x})
<1>1. n \in Nat /\ Cardinality(S) = n + 1
  <2>1. IsFiniteSet(S \ {x}) /\ n = Cardinality(S) - 1
    BY FS_RemoveElement
  <2>2. n \in Nat /\ Cardinality(S) \in Nat
    BY <2>1, FS_CardinalityType
  <2> HIDE DEF n
  <2> QED
    BY <2>1, <2>2
<1>2. PICK s \in [1..n -> S \ {x}] : Ascending(s) /\ ToSet(s) = S \ {x}
  BY DEF IsOrdered
<1> DEFINE f == [k \in 1..(n + 1) |-> IF k = n + 1 THEN x ELSE s[k]]
<1> HIDE DEF n
<1>3. f \in [1..(n + 1) -> S]
  BY <1>1, <1>2
<1>4. Ascending(f)
  <2> SUFFICES ASSUME NEW a \in 1..(n + 1), NEW b \in 1..(n + 1), a < b
               PROVE  f[a] < f[b]
    BY <1>3 DEF Ascending
  <2>1. CASE b = n + 1
    <3>1. a \in 1..n /\ f[a] = s[a] /\ f[b] = x
      BY <1>1, <2>1
    <3>2. s[a] \in S \ {x}
      BY <1>2, <3>1
    <3>3. s[a] \in Nat /\ x \in Nat /\ s[a] <= x /\ s[a] # x
      BY <3>2
    <3>4. s[a] < x
      BY <3>3
    <3> QED
      BY <3>1, <3>4
  <2>2. CASE b # n + 1
    <3>1. a \in 1..n /\ b \in 1..n /\ f[a] = s[a] /\ f[b] = s[b]
      BY <1>1, <2>2
    <3> QED
      BY <1>2, <3>1 DEF Ascending
  <2> QED
    BY <2>1, <2>2
<1>5. ToSet(f) = S
  <2>1. ToSet(f) \subseteq S
    BY <1>3 DEF ToSet
  <2>2. ASSUME NEW t \in S PROVE t \in ToSet(f)
    <3>1. CASE t = x
      BY <1>1, <1>3, <3>1 DEF ToSet
    <3>2. CASE t # x
      <4>1. PICK k \in 1..n : t = s[k]
        BY <1>2, <3>2 DEF ToSet
      <4>2. k \in 1..(n + 1) /\ f[k] = t
        BY <1>1, <4>1
      <4> QED
        BY <1>3, <4>2 DEF ToSet
    <3> QED
      BY <3>1, <3>2
  <2> QED
    BY <2>1, <2>2
<1> QED
  BY <1>1, <1>3, <1>4, <1>5 DEF IsOrdered

\* A page can be put in order.
LEMMA OrderExists ==
    ASSUME NEW D \in SUBSET Times
    PROVE  \A S \in SUBSET D : IsOrdered(S)
<1> DEFINE F == {S \in SUBSET D : ~IsOrdered(S)}
<1>1. D \in SUBSET Nat /\ IsFiniteSet(D)
  BY TimesFinite
<1> SUFFICES ASSUME F # {} PROVE FALSE
  OBVIOUS
<1>2. PICK S \in F : \A x \in S : S \ {x} \notin F
  BY <1>1, SmallestSet
<1>3. S \in SUBSET Times /\ S \in SUBSET Nat /\ IsFiniteSet(S) /\ ~IsOrdered(S)
  BY <1>1, TimesFinite
<1>4. CASE S = {}
  <2>1. Cardinality(S) = 0
    BY <1>4, FS_EmptySet
  <2> DEFINE s == [k \in 1..0 |-> 0]
  <2>2. s \in [1..Cardinality(S) -> S] /\ Ascending(s) /\ ToSet(s) = S
    BY <1>4, <2>1 DEF Ascending, ToSet
  <2> QED
    BY <1>3, <2>2 DEF IsOrdered
<1>5. CASE S # {}
  <2>1. Max(S) \in S /\ \A t \in S : t <= Max(S)
    BY <1>3, <1>5, LatestCandle
  <2>2. IsOrdered(S \ {Max(S)})
    BY <1>2, <2>1
  <2> QED
    BY <1>3, <2>1, <2>2, OrderOfMore
<1> QED
  BY <1>4, <1>5

\* A page in order holds what the page holds.
LEMMA InOrderIs ==
    ASSUME NEW S \in SUBSET Times
    PROVE  /\ InOrder(S) \in Seq(Nat)
           /\ Ascending(InOrder(S)) /\ ToSet(InOrder(S)) = S
<1>1. S \in SUBSET Nat /\ Cardinality(S) \in Nat
  BY TimesFinite, FS_CardinalityType
<1>2. IsOrdered(S)
  BY OrderExists
<1>3. /\ InOrder(S) \in [1..Cardinality(S) -> S]
      /\ Ascending(InOrder(S)) /\ ToSet(InOrder(S)) = S
  <2> DEFINE P(s) == Ascending(s) /\ ToSet(s) = S
  <2>1. \E s \in [1..Cardinality(S) -> S] : P(s)
    BY <1>2 DEF IsOrdered
  <2>2. InOrder(S) = CHOOSE s \in [1..Cardinality(S) -> S] : P(s)
    BY Zenon DEF InOrder
  <2> HIDE DEF P
  <2>3. InOrder(S) \in [1..Cardinality(S) -> S] /\ P(InOrder(S))
    BY <2>1, <2>2, Zenon
  <2> QED
    BY <2>3 DEF P
<1>4. InOrder(S) \in [1..Cardinality(S) -> Nat]
  BY <1>1, <1>3
<1> QED
  BY <1>1, <1>3, <1>4

\* Sorting leaves alone what is in order.
LEMMA SortedIs ==
    ASSUME NEW s \in Seq(Nat), Ascending(s)
    PROVE  Sorted(s) = s
<1>1. Len(s) \in Nat /\ DOMAIN s = 1..Len(s) /\ \A n \in 1..Len(s) : s[n] \in Nat
  OBVIOUS
<1>2. ASSUME NEW n \in 1..Len(s) PROVE Place(s, n) = n
  <2>1. {m \in DOMAIN s : s[m] < s[n] \/ (s[m] = s[n] /\ m <= n)} = 1..n
    <3>1. ASSUME NEW m \in DOMAIN s, m <= n
          PROVE  s[m] < s[n] \/ (s[m] = s[n] /\ m <= n)
      BY <1>1, <1>2, <3>1 DEF Ascending
    <3>2. ASSUME NEW m \in DOMAIN s, ~(m <= n)
          PROVE  ~(s[m] < s[n] \/ (s[m] = s[n] /\ m <= n))
      <4>1. s[n] < s[m]
        BY <1>1, <1>2, <3>2 DEF Ascending
      <4> QED
        BY <1>1, <1>2, <3>2, <4>1
    <3> QED
      BY <1>1, <1>2, <3>1, <3>2
  <2>2. Cardinality(1..n) = n
    BY <1>1, FS_Interval
  <2> QED
    BY <2>1, <2>2 DEF Place
<1>3. ASSUME NEW k \in 1..Len(s)
      PROVE  s[CHOOSE n \in DOMAIN s : Place(s, n) = k] = s[k]
  BY <1>1, <1>2
<1>4. Sorted(s) = [k \in 1..Len(s) |-> s[k]]
  BY <1>1, <1>3 DEF Sorted
<1> QED
  BY <1>1, <1>4

\* What is appended behind stays in order.
LEMMA AppendedInOrder ==
    ASSUME NEW s \in Seq(Nat), NEW e \in Seq(Nat), Ascending(s), Ascending(e),
           \A t \in ToSet(s), u \in ToSet(e) : t < u
    PROVE  /\ s \o e \in Seq(Nat) /\ Ascending(s \o e)
           /\ ToSet(s \o e) = ToSet(s) \cup ToSet(e)
<1>1. /\ s \o e \in Seq(Nat) /\ Len(s \o e) = Len(s) + Len(e)
      /\ DOMAIN (s \o e) = 1..(Len(s) + Len(e))
      /\ Len(s) \in Nat /\ Len(e) \in Nat
      /\ DOMAIN s = 1..Len(s) /\ DOMAIN e = 1..Len(e)
  OBVIOUS
<1>2. \A n \in 1..(Len(s) + Len(e)) :
         (s \o e)[n] = IF n <= Len(s) THEN s[n] ELSE e[n - Len(s)]
  OBVIOUS
<1> DEFINE c == s \o e
<1>3. \A n \in 1..(Len(s) + Len(e)) : n > Len(s) => n - Len(s) \in 1..Len(e)
  BY <1>1
<1>4. \A n \in 1..Len(e) : n + Len(s) \in 1..(Len(s) + Len(e)) /\ c[n + Len(s)] = e[n]
  BY <1>1, <1>2
<1>5. \A n \in 1..Len(s) : n \in 1..(Len(s) + Len(e)) /\ c[n] = s[n]
  BY <1>1, <1>2
<1>6. ToSet(c) = ToSet(s) \cup ToSet(e)
  <2>1. ToSet(c) \subseteq ToSet(s) \cup ToSet(e)
    <3> SUFFICES ASSUME NEW n \in 1..(Len(s) + Len(e))
                 PROVE  c[n] \in ToSet(s) \cup ToSet(e)
      BY <1>1 DEF ToSet
    <3>1. CASE n <= Len(s)
      <4>1. c[n] = s[n] /\ n \in DOMAIN s
        BY <1>1, <1>2, <3>1
      <4> QED
        BY <4>1 DEF ToSet
    <3>2. CASE n > Len(s)
      <4>1. c[n] = e[n - Len(s)] /\ n - Len(s) \in DOMAIN e
        BY <1>1, <1>2, <1>3, <3>2
      <4> QED
        BY <4>1 DEF ToSet
    <3> QED
      BY <1>1, <3>1, <3>2
  <2> HIDE DEF c
  <2>2. ToSet(s) \subseteq ToSet(c)
    BY <1>1, <1>5 DEF ToSet, c
  <2>3. ToSet(e) \subseteq ToSet(c)
    BY <1>1, <1>4 DEF ToSet, c
  <2> QED
    BY <2>1, <2>2, <2>3
<1>7. Ascending(c)
  <2> SUFFICES ASSUME NEW m \in 1..(Len(s) + Len(e)), NEW n \in 1..(Len(s) + Len(e)), m < n
               PROVE  c[m] < c[n]
    BY <1>1 DEF Ascending
  <2>1. CASE n <= Len(s)
    <3>1. m \in DOMAIN s /\ n \in DOMAIN s /\ c[m] = s[m] /\ c[n] = s[n]
      BY <1>1, <1>2, <2>1
    <3> QED
      BY <3>1 DEF Ascending
  <2>2. CASE m > Len(s)
    <3>1. /\ m - Len(s) \in DOMAIN e /\ n - Len(s) \in DOMAIN e /\ m - Len(s) < n - Len(s)
          /\ c[m] = e[m - Len(s)] /\ c[n] = e[n - Len(s)]
      BY <1>1, <1>2, <1>3, <2>2
    <3> QED
      BY <3>1 DEF Ascending
  <2>3. CASE m <= Len(s) /\ n > Len(s)
    <3>1. /\ m \in DOMAIN s /\ n - Len(s) \in DOMAIN e
          /\ c[m] = s[m] /\ c[n] = e[n - Len(s)]
      BY <1>1, <1>2, <1>3, <2>3
    <3>2. s[m] \in ToSet(s) /\ e[n - Len(s)] \in ToSet(e)
      BY <3>1 DEF ToSet
    <3> QED
      BY <3>1, <3>2
  <2> QED
    BY <1>1, <2>1, <2>2, <2>3
<1> QED
  BY <1>1, <1>6, <1>7

\* ---- pages ----------------------------------------------------------------------

\* The first of what is found leave no gap, and are all when they are few.
LEMMA FirstBegin ==
    ASSUME NEW found \in SUBSET Times, NEW n \in Nat
    PROVE  /\ Begins(FirstOf(n, found), found)
           /\ Cardinality(FirstOf(n, found)) < n => FirstOf(n, found) = found
<1> DEFINE Before(t) == {u \in found : u < t}
<1>1. found \in SUBSET Nat /\ IsFiniteSet(found)
  BY TimesFinite
<1>2. \A S \in SUBSET found : IsFiniteSet(S) /\ Cardinality(S) \in Nat
  BY <1>1, FS_Subset, FS_CardinalityType
<1>3. FirstOf(n, found) = {t \in found : Cardinality(Before(t)) < n}
  BY DEF FirstOf
<1>4. ASSUME NEW t \in FirstOf(n, found), NEW u \in found, u < t
      PROVE  u \in FirstOf(n, found)
  <2>1. Before(u) \in SUBSET Before(t) /\ Before(t) \in SUBSET found
    <3>1. t \in Nat /\ u \in Nat
      BY <1>1, <1>3
    <3>2. ASSUME NEW v \in found, v < u PROVE v < t
      BY <1>1, <1>4, <3>1, <3>2
    <3> QED
      BY <3>2
  <2>2. Cardinality(Before(u)) <= Cardinality(Before(t))
    BY <1>2, <2>1, FS_Subset
  <2>3. Cardinality(Before(u)) \in Nat /\ Cardinality(Before(t)) \in Nat
    BY <1>2, <2>1
  <2>4. Cardinality(Before(t)) < n
    BY <1>3
  <2> HIDE DEF Before
  <2>5. Cardinality(Before(u)) < n
    BY <2>2, <2>3, <2>4
  <2> QED
    BY <1>3, <2>5
<1>5. ASSUME Cardinality(FirstOf(n, found)) < n, FirstOf(n, found) # found
      PROVE  FALSE
  <2> DEFINE missed == found \ FirstOf(n, found)
  <2>1. missed \in SUBSET Nat /\ missed # {}
    BY <1>1, <1>3, <1>5
  <2>2. PICK t \in missed : \A u \in missed : t <= u
    BY <2>1, LeastMember
  <2>3. Before(t) \in SUBSET FirstOf(n, found) /\ FirstOf(n, found) \in SUBSET found
    BY <1>1, <1>3, <2>1, <2>2
  <2>4. Cardinality(Before(t)) <= Cardinality(FirstOf(n, found))
    BY <1>2, <2>3, FS_Subset
  <2>5. /\ Cardinality(Before(t)) \in Nat /\ Cardinality(FirstOf(n, found)) \in Nat
        /\ t \in found /\ t \notin FirstOf(n, found)
    BY <1>2, <2>3
  <2> HIDE DEF Before, missed
  <2>6. Cardinality(Before(t)) < n
    BY <1>5, <2>4, <2>5
  <2> QED
    BY <1>3, <2>5, <2>6
<1> QED
  BY <1>3, <1>4, <1>5 DEF Begins

\* The complete candles of the pair in work from the cursor on.
Ahead == {t \in traded[Pair] : t > cursor - Gran /\ t + Gran <= now}

\* A page leaves no gap behind the cursor, and when it is short it is all there is.
LEMMA PageBegins ==
    ASSUME traded[Pair] \in SUBSET Times, now \in Nat, cursor \in Nat
    PROVE  /\ Begins(RequestPage, Ahead)
           /\ Cardinality(RequestPage) < PageSize => RequestPage = Ahead
<1> DEFINE found == {t \in traded[Pair] : t > cursor - Gran /\ t <= now}
           sent == FirstOf(PageSize, found)
<1>1. Gran \in Nat /\ PageSize \in Nat /\ found \in SUBSET Times
  BY DownloadTypes
<1>2. traded[Pair] \in SUBSET Nat /\ found \in SUBSET Nat
  BY <1>1, TimesFinite
<1>3. RequestPage = {t \in sent : t + Gran <= now}
  BY DEF RequestPage, ParseCandlePage, Response, Complete
<1>4. Ahead = {t \in found : t + Gran <= now}
  BY <1>1, <1>2 DEF Ahead
<1>5. Begins(sent, found) /\ (Cardinality(sent) < PageSize => sent = found)
  BY <1>1, FirstBegin
<1>6. sent \in SUBSET found
  BY <1>5 DEF Begins
<1> HIDE DEF found, sent
<1>7. Begins(RequestPage, Ahead)
  BY <1>1, <1>2, <1>3, <1>4, <1>5, <1>6 DEF Begins
<1>8. ASSUME Cardinality(RequestPage) < PageSize PROVE RequestPage = Ahead
  <2>1. CASE Cardinality(sent) < PageSize
    BY <1>3, <1>4, <1>5, <2>1
  <2>2. CASE ~(Cardinality(sent) < PageSize)
    <3>1. sent # RequestPage
      BY <1>8, <2>2
    <3>2. PICK e \in sent : ~(e + Gran <= now)
      BY <1>3, <3>1
    <3>3. ASSUME NEW t \in Ahead PROVE t \in RequestPage
      <4>1. t \in found /\ t \in Nat /\ e \in Nat /\ t + Gran <= now
        BY <1>2, <1>4, <1>6
      <4>2. t < e
        BY <1>1, <3>2, <4>1
      <4>3. t \in sent
        BY <1>5, <4>1, <4>2 DEF Begins
      <4> QED
        BY <1>3, <4>1, <4>3
    <3> QED
      BY <1>7, <3>3 DEF Begins
  <2> QED
    BY <2>1, <2>2
<1> QED
  BY <1>7, <1>8

\* ---- ranges ---------------------------------------------------------------------

\* Of the candle that was forming when main started, complete or nothing: one
\* at most completes later.
LEMMA OneForming ==
    ASSUME NEW p, traded[p] \in SUBSET Times, NEW a \in Nat, NEW b \in Nat,
           End <= a, a <= b
    PROVE  InRange(p, a) \in {InRange(p, End), InRange(p, b)}
<1>1. traded[p] \in SUBSET Nat /\ Gran \in Nat /\ Start \in Nat /\ End \in Nat
  BY TimesFinite, DownloadTypes
<1>2. CASE InRange(p, a) = InRange(p, End)
  BY <1>2
<1>3. CASE InRange(p, a) # InRange(p, End)
  <2>1. InRange(p, End) \subseteq InRange(p, a) /\ InRange(p, a) \subseteq InRange(p, b)
    BY <1>1 DEF InRange
  <2>2. PICK t \in InRange(p, a) : t \notin InRange(p, End)
    BY <1>3, <2>1
  <2>3. ASSUME NEW u \in InRange(p, b), u \notin InRange(p, a) PROVE FALSE
    <3>1. /\ t \in Times /\ u \in Times /\ t \in Nat /\ u \in Nat
          /\ t + Gran > End /\ u + Gran > End /\ t < End /\ u < End
          /\ t + Gran <= a /\ ~(u + Gran <= a)
      BY <1>1, <2>2, <2>3 DEF InRange
    <3>2. t < u
      BY <1>1, <3>1
    <3>3. t + Gran <= u
      BY <3>1, <3>2, Grid
    <3> QED
      BY <1>1, <3>1, <3>3
  <2> QED
    BY <2>1, <2>3
<1> QED
  BY <1>2, <1>3

\* A range that is settled begins what the range has by now.
LEMMA RangesBegin ==
    ASSUME NEW p, traded[p] \in SUBSET Times, NEW a \in Nat, NEW b \in Nat, a <= b
    PROVE  Begins(InRange(p, a), InRange(p, b))
<1>1. traded[p] \in SUBSET Nat /\ Gran \in Nat /\ Start \in Nat /\ End \in Nat
  BY TimesFinite, DownloadTypes
<1> QED
  BY <1>1 DEF InRange, Begins

\* The beginning of a beginning.
LEMMA BeginsTransitive ==
    ASSUME NEW S, NEW T, NEW U, Begins(S, T), Begins(T, U), U \in SUBSET Nat
    PROVE  Begins(S, U)
BY DEF Begins

\* What is written of rows in order begins them.
LEMMA CutBegins ==
    ASSUME NEW s \in Seq(Nat), Ascending(s), NEW n \in Nat, n <= Len(s)
    PROVE  LET cut == SubSeq(s, 1, n)
           IN  cut \in Seq(Nat) /\ Ascending(cut) /\ Begins(ToSet(cut), ToSet(s))
<1> DEFINE cut == SubSeq(s, 1, n)
<1>1. /\ Len(s) \in Nat /\ DOMAIN s = 1..Len(s)
      /\ \A k \in 1..Len(s) : s[k] \in Nat
  OBVIOUS
<1>2. cut \in Seq(Nat) /\ DOMAIN cut = 1..n /\ \A k \in 1..n : cut[k] = s[k]
  BY <1>1
<1> HIDE DEF cut
<1>3. \A k \in 1..n : k \in DOMAIN s
  BY <1>1
<1>4. Ascending(cut)
  BY <1>2, <1>3 DEF Ascending
<1>5. ToSet(cut) \subseteq ToSet(s)
  BY <1>2, <1>3 DEF ToSet
<1>6. ASSUME NEW k \in 1..n, NEW m \in DOMAIN s, s[m] < cut[k]
      PROVE  s[m] \in ToSet(cut)
  <2>1. m \in 1..n
    <3> SUFFICES ASSUME m > n PROVE FALSE
      BY <1>1
    <3>1. k < m
      BY <1>1, <1>6
    <3>2. s[k] < s[m]
      BY <1>3, <3>1 DEF Ascending
    <3> QED
      BY <1>1, <1>2, <1>3, <1>6, <3>2
  <2> QED
    BY <1>2, <2>1 DEF ToSet
<1>7. Begins(ToSet(cut), ToSet(s))
  <2> SUFFICES ASSUME NEW t \in ToSet(cut), NEW u \in ToSet(s), u < t
               PROVE  u \in ToSet(cut)
    BY <1>5 DEF Begins
  <2>1. PICK k \in 1..n : t = cut[k]
    BY <1>2 DEF ToSet
  <2>2. PICK m \in DOMAIN s : u = s[m]
    BY DEF ToSet
  <2> QED
    BY <1>6, <2>1, <2>2
<1> QED
  BY <1>2, <1>4, <1>7 DEF cut
\* ---- the inductive invariant -----------------------------------------------------

\* All the candles of a pair's range, as far as it has settled.
Settled(S, p) == \E until \in {End, now} : S = InRange(p, until)

\* While main asks for pages, it has every candle up to the cursor.
Collected ==
    /\ cursor \in Nat /\ Start <= cursor /\ cursor < End
    /\ ToSet(result) = {t \in traded[Pair] : t > Start - Gran /\ t <= cursor - Gran}

\* When it writes, it has every candle of the range.
Fetched == Settled(ToSet(result), Pair)

FileOf(p, file) ==
    /\ file.rows \in Seq(Nat) /\ Ascending(file.rows)
    /\ Begins(ToSet(file.rows), InRange(p, now))

Typed ==
    /\ traded \in [ToSet(Pairs) -> SUBSET Times]
    /\ now \in Nat /\ End <= now
    /\ todo \in Seq(ToSet(Pairs))
    /\ DOMAIN files = ToSet(Pairs)
    /\ result \in Seq(Nat) /\ Ascending(result)

DownloadInv ==
    /\ Typed
    /\ pc \in {"fetch", "write"} => todo # <<>>
    /\ pc = "fetch" => Collected
    /\ pc = "write" => Fetched
    /\ \A p \in ToSet(Pairs) : FileOf(p, files[p])
    /\ HistoryComplete

\* The pair in work is one of the arguments.
LEMMA PairInWork ==
    ASSUME Typed, todo # <<>>
    PROVE  /\ Pair \in ToSet(Pairs) /\ traded[Pair] \in SUBSET Times
           /\ Tail(todo) \in Seq(ToSet(Pairs))
           /\ ToSet(todo) = {Pair} \cup ToSet(Tail(todo))
<1> DEFINE S == ToSet(Pairs)
<1>1. todo \in Seq(S)
  BY DEF Typed
<1> HIDE DEF S
<1>2. /\ Len(todo) \in Nat /\ Len(todo) # 0 /\ DOMAIN todo = 1..Len(todo)
      /\ Head(todo) = todo[1] /\ todo[1] \in S
      /\ Tail(todo) \in Seq(S) /\ DOMAIN Tail(todo) = 1..(Len(todo) - 1)
      /\ \A n \in 1..(Len(todo) - 1) : Tail(todo)[n] = todo[n + 1]
  BY <1>1
<1>3. ToSet(todo) = {todo[1]} \cup ToSet(Tail(todo))
  <2>1. ASSUME NEW n \in 1..Len(todo) PROVE todo[n] \in {todo[1]} \cup ToSet(Tail(todo))
    <3>1. CASE n = 1
      BY <3>1
    <3>2. CASE n # 1
      <4>1. n - 1 \in 1..(Len(todo) - 1) /\ (n - 1) + 1 = n
        BY <1>2, <3>2
      <4>2. todo[n] = Tail(todo)[n - 1]
        BY <1>2, <4>1
      <4> QED
        BY <1>2, <4>1, <4>2 DEF ToSet
    <3> QED
      BY <3>1, <3>2
  <2>2. ASSUME NEW n \in 1..(Len(todo) - 1) PROVE Tail(todo)[n] \in ToSet(todo)
    <3>1. n + 1 \in 1..Len(todo)
      BY <1>2
    <3> QED
      BY <1>2, <3>1 DEF ToSet
  <2>3. todo[1] \in ToSet(todo)
    BY <1>2 DEF ToSet
  <2> QED
    BY <1>2, <2>1, <2>2, <2>3 DEF ToSet
<1> QED
  BY <1>2, <1>3 DEF Typed, Pair, S

\* The invariant holds when main starts.
LEMMA DownloadStarts == DownloadInit => DownloadInv
<1> SUFFICES ASSUME DownloadInit PROVE DownloadInv
  OBVIOUS
<1>1. /\ Pairs \in Seq(STRING) /\ Start \in Nat /\ End \in Nat /\ Start < End
      /\ Gran \in Nat
  BY DownloadTypes
<1>2. todo = Pairs /\ pc = NextPair(Pairs) /\ cursor = Start /\ result = <<>> /\ now = End
  BY DEF DownloadInit
<1>3. \A p \in ToSet(Pairs) : files[p].rows = <<>>
  BY DEF DownloadInit
<1>4. ToSet(<<>>) = {} /\ Ascending(<<>>) /\ <<>> \in Seq(Nat)
  BY DEF ToSet, Ascending
<1>5. Pairs \in Seq(ToSet(Pairs))
  BY <1>1 DEF ToSet
<1>6. Typed
  BY <1>1, <1>2, <1>4, <1>5 DEF Typed, DownloadInit
<1>7. ASSUME Pairs # <<>> PROVE Collected
  <2>1. traded[Pair] \in SUBSET Nat
    BY <1>2, <1>6, <1>7, PairInWork, TimesFinite
  <2>2. {t \in traded[Pair] : t > Start - Gran /\ t <= Start - Gran} = {}
    BY <1>1, <2>1
  <2> QED
    BY <1>1, <1>2, <1>4, <2>2 DEF Collected
<1>8. \A p \in ToSet(Pairs) : FileOf(p, files[p])
  BY <1>3, <1>4 DEF FileOf, Begins
<1>9. HistoryComplete
  BY <1>2 DEF HistoryComplete
<1>10. /\ pc \in {"fetch", "write"} => todo # <<>>
       /\ pc = "fetch" => Pairs # <<>>
       /\ pc # "write"
  BY <1>2 DEF NextPair
<1> QED
  BY <1>6, <1>7, <1>8, <1>9, <1>10 DEF DownloadInv

\* What a page adds: every candle up to the next cursor, or, at the last page,
\* every candle of the range, whatever made it the last.
LEMMA PageCollects ==
    ASSUME Typed, todo # <<>>, Collected
    PROVE  LET got == result \o New(RequestPage)
               next == AfterLast(RequestPage)
           IN  /\ got \in Seq(Nat) /\ Ascending(got)
               /\ AsksAgain(RequestPage) =>
                     /\ next \in Nat /\ Start <= next /\ next < End
                     /\ ToSet(got) =
                           {t \in traded[Pair] : t > Start - Gran /\ t <= next - Gran}
               /\ ~AsksAgain(RequestPage) => ToSet(got) = InRange(Pair, now)
<1> DEFINE page == RequestPage
           got == result \o New(page)
           all == traded[Pair]
           new == {t \in page : t < End}
<1>1. /\ Gran \in Nat /\ Gran > 0 /\ Start \in Nat /\ End \in Nat
      /\ PageSize \in Nat /\ PageSize > 0
  BY DownloadTypes
<1>2. /\ all \in SUBSET Times /\ all \in SUBSET Nat
      /\ now \in Nat /\ End <= now
      /\ result \in Seq(Nat) /\ Ascending(result)
  BY PairInWork, TimesFinite DEF Typed
<1>3. /\ cursor \in Nat /\ Start <= cursor /\ cursor < End
      /\ ToSet(result) = {t \in all : t > Start - Gran /\ t <= cursor - Gran}
  BY DEF Collected
<1>4. /\ Begins(page, Ahead) /\ (Cardinality(page) < PageSize => page = Ahead)
      /\ page \in SUBSET all /\ page \in SUBSET Times /\ page \in SUBSET Nat
      /\ \A t \in page : t > cursor - Gran /\ t + Gran <= now
  <2>1. Begins(page, Ahead) /\ (Cardinality(page) < PageSize => page = Ahead)
    BY <1>2, <1>3, PageBegins
  <2>2. page \in SUBSET Ahead
    BY <2>1 DEF Begins
  <2>3. /\ Ahead \in SUBSET all
        /\ \A t \in Ahead : t > cursor - Gran /\ t + Gran <= now
    BY DEF Ahead
  <2> HIDE DEF page, all
  <2> QED
    BY <1>2, <2>1, <2>2, <2>3
<1> HIDE DEF all, page
<1>5. New(page) = InOrder(new)
  <2>1. {t \in page : t < End /\ t \notin ToSet(result)} = new
    <3>1. ASSUME NEW t \in page PROVE t \notin ToSet(result)
      BY <1>1, <1>3, <1>4
    <3> QED
      BY <3>1
  <2> QED
    BY <2>1 DEF New, page
<1>6. /\ New(page) \in Seq(Nat) /\ Ascending(New(page)) /\ ToSet(New(page)) = new
  <2>1. new \in SUBSET Times
    BY <1>4
  <2> HIDE DEF new
  <2> QED
    BY <1>5, <2>1, InOrderIs
<1>7. /\ got \in Seq(Nat) /\ Ascending(got) /\ ToSet(got) = ToSet(result) \cup new
  <2>1. \A t \in ToSet(result), u \in ToSet(New(page)) : t < u
    <3>1. ASSUME NEW t \in ToSet(result), NEW u \in page PROVE t < u
      <4>1. t \in Nat /\ u \in Nat /\ t <= cursor - Gran /\ u > cursor - Gran
        BY <1>2, <1>3, <1>4
      <4> QED
        BY <1>1, <1>3, <4>1
    <3> QED
      BY <1>6, <3>1
  <2> HIDE DEF new
  <2> QED
    BY <1>2, <1>6, <2>1, AppendedInOrder
<1> HIDE DEF got
<1>8. page # {} =>
         /\ AfterLast(page) = Max(page) + Gran
         /\ Max(page) \in page /\ \A t \in page : t <= Max(page)
         /\ AfterLast(page) > cursor
  <2>1. page # {} => Max(page) \in page /\ \A t \in page : t <= Max(page)
    BY <1>4, LatestCandle
  <2>2. page # {} => Max(page) \in Nat /\ Max(page) > cursor - Gran
    BY <1>4, <2>1
  <2>3. AfterLast(page) = Max(page) + Gran
    BY DEF AfterLast
  <2> HIDE DEF new
  <2> QED
    BY <1>1, <1>3, <2>1, <2>2, <2>3
<1>9. page = {} => Cardinality(page) = 0
  BY FS_EmptySet
<1>10. ASSUME AsksAgain(page)
       PROVE  /\ AfterLast(page) \in Nat /\ Start <= AfterLast(page)
              /\ AfterLast(page) < End
              /\ ToSet(got) =
                    {t \in all : t > Start - Gran /\ t <= AfterLast(page) - Gran}
  <2>1. AfterLast(page) < End /\ page # {}
    BY <1>1, <1>9, <1>10 DEF AsksAgain
  <2> DEFINE m == Max(page)
  <2>2. /\ AfterLast(page) = m + Gran /\ m \in page /\ \A t \in page : t <= m
        /\ m \in Nat /\ m \in all /\ m > cursor - Gran /\ m + Gran <= now
    BY <1>4, <1>8, <2>1
  <2> HIDE DEF m
  <2>3. new = page
    <3>1. ASSUME NEW t \in page PROVE t < End
      BY <1>1, <1>4, <2>1, <2>2
    <3> QED
      BY <3>1
  <2>4. ASSUME NEW t \in all, t > cursor - Gran, t <= m PROVE t \in page
    <3>1. t \in Ahead
      BY <1>1, <1>2, <1>3, <2>2, <2>4 DEF Ahead, all
    <3>2. t = m \/ t < m
      BY <1>2, <2>2, <2>4
    <3> QED
      BY <1>4, <2>2, <3>1, <3>2 DEF Begins
  <2>5. ToSet(got) = {t \in all : t > Start - Gran /\ t <= m}
    <3>1. ASSUME NEW t \in all PROVE t \in ToSet(got) <=> t > Start - Gran /\ t <= m
      <4>1. t \in Nat
        BY <1>2
      <4>2. t \in ToSet(got) <=> (t > Start - Gran /\ t <= cursor - Gran) \/ t \in page
        BY <1>3, <1>7, <2>3
      <4>3. t \in page <=> t > cursor - Gran /\ t <= m
        BY <1>4, <2>2, <2>4
      <4> HIDE DEF new
      <4> QED
        BY <1>1, <1>3, <2>2, <4>1, <4>2, <4>3
    <3>2. ToSet(got) \subseteq all
      BY <1>3, <1>4, <1>7
    <3> QED
      BY <3>1, <3>2
  <2> QED
    BY <1>1, <1>3, <2>1, <2>2, <2>5
<1>11. ASSUME ~AsksAgain(page) PROVE ToSet(got) = InRange(Pair, now)
  <2>1. ASSUME NEW t \in Ahead, t < End PROVE t \in page
    <3>1. CASE Cardinality(page) < PageSize
      BY <1>4, <3>1
    <3>2. CASE ~(Cardinality(page) < PageSize)
      <4>1. page # {}
        BY <1>1, <1>9, <3>2
      <4>2. Cardinality(page) >= PageSize
        <5>1. Cardinality(page) \in Nat
          BY <1>4, TimesFinite, FS_CardinalityType
        <5> QED
          BY <1>1, <3>2, <5>1
      <4>3. AfterLast(page) \in Int /\ ~(AfterLast(page) < End)
        <5>1. AfterLast(page) > cursor /\ AfterLast(page) = Max(page) + Gran /\ Max(page) \in Nat
          BY <1>4, <1>8, <4>1
        <5>2. ~(AfterLast(page) < End)
          BY <1>11, <4>2, <5>1 DEF AsksAgain
        <5> QED
          BY <1>1, <5>1, <5>2
      <4>4. t \in Times /\ t \in Nat /\ Max(page) \in Times /\ Max(page) \in Nat
        BY <1>2, <1>4, <1>8, <4>1 DEF Ahead, all
      <4>5. ~(Max(page) < t)
        BY <1>1, <1>8, <2>1, <4>1, <4>3, <4>4, Grid
      <4>6. t = Max(page) \/ t < Max(page)
        BY <4>4, <4>5
      <4> QED
        BY <1>4, <1>8, <2>1, <4>1, <4>6 DEF Begins
    <3> QED
      BY <3>1, <3>2
  <2>2. ASSUME NEW t \in all
        PROVE  t \in ToSet(got) <=> t > Start - Gran /\ t < End /\ t + Gran <= now
    <3>1. t \in Nat
      BY <1>2
    <3>2. t \in ToSet(got) <=> \/ t > Start - Gran /\ t <= cursor - Gran
                               \/ t \in page /\ t < End
      BY <1>3, <1>7
    <3>3. t \in page /\ t < End <=> t > cursor - Gran /\ t < End /\ t + Gran <= now
      <4>1. t \in page => t > cursor - Gran /\ t + Gran <= now
        BY <1>4
      <4>2. t > cursor - Gran /\ t + Gran <= now => t \in Ahead
        BY DEF Ahead, all
      <4> QED
        BY <2>1, <4>1, <4>2
    <3> HIDE DEF new
    <3> QED
      BY <1>1, <1>2, <1>3, <3>1, <3>2, <3>3
  <2>3. ToSet(got) \subseteq all
    BY <1>3, <1>4, <1>7
  <2>4. InRange(Pair, now) = {t \in all : t > Start - Gran /\ t < End /\ t + Gran <= now}
    BY DEF InRange, all
  <2> QED
    BY <2>2, <2>3, <2>4
<1> QED
  BY <1>7, <1>10, <1>11 DEF page, got, all

\* What has settled stays so while the clock runs on.
LEMMA SettledStays ==
    ASSUME NEW S, NEW p, traded[p] \in SUBSET Times, Settled(S, p),
           now \in Nat, End <= now, now' \in Nat, now <= now', traded' = traded
    PROVE  Settled(S, p)'
<1>1. End \in Nat
  BY DownloadTypes
<1>2. PICK until \in {End, now} : S = InRange(p, until)
  BY DEF Settled
<1>3. InRange(p, now) \in {InRange(p, End), InRange(p, now')}
  BY OneForming
<1>4. \E u \in {End, now'} : S = InRange(p, u)
  BY <1>2, <1>3
<1>5. PICK u \in {End, now'} : S = InRange(p, u)
  BY <1>4
<1>6. InRange(p, u) = {t \in traded'[p] : t > Start - Gran /\ t < End /\ t + Gran <= u}
  BY DEF InRange
<1> QED
  BY <1>5, <1>6 DEF Settled, InRange

\* What has settled begins what there is.
LEMMA SettledBegins ==
    ASSUME NEW S, NEW p, traded[p] \in SUBSET Times, Settled(S, p),
           now \in Nat, End <= now
    PROVE  Begins(S, InRange(p, now))
<1>1. End \in Nat
  BY DownloadTypes
<1>2. PICK until \in {End, now} : S = InRange(p, until)
  BY DEF Settled
<1>3. until \in Nat /\ until <= now
  BY <1>1, <1>2
<1> QED
  BY <1>2, <1>3, RangesBegin

\* A file that begins the history begins what the history grows to.
LEMMA FileStays ==
    ASSUME NEW p, NEW file, traded[p] \in SUBSET Times, FileOf(p, file),
           now \in Nat, now' \in Nat, now <= now', traded' = traded
    PROVE  FileOf(p, file)'
<1>1. Begins(InRange(p, now), InRange(p, now'))
  BY RangesBegin
<1> DEFINE later == InRange(p, now')
<1>2. later = {t \in traded'[p] : t > Start - Gran /\ t < End /\ t + Gran <= now'}
  BY DEF InRange
<1>3. later \in SUBSET Nat
  BY TimesFinite DEF InRange
<1>4. Begins(ToSet(file.rows), InRange(p, now))
  BY DEF FileOf
<1> HIDE DEF later
<1>5. Begins(ToSet(file.rows), later)
  BY <1>1, <1>3, <1>4, BeginsTransitive DEF later
<1>6. later = InRange(p, now)'
  BY <1>2 DEF InRange
<1> QED
  BY <1>5, <1>6 DEF FileOf

\* The clock and main's requests leave the files what they are.
LEMMA FilesStay ==
    ASSUME DownloadInv, now' \in Nat, now <= now',
           UNCHANGED <<traded, todo, files>>
    PROVE  (\A p \in ToSet(Pairs) : FileOf(p, files[p]))' /\ HistoryComplete'
<1>1. /\ now \in Nat /\ End <= now
      /\ \A p \in ToSet(Pairs) : traded[p] \in SUBSET Times
  BY DEF DownloadInv, Typed
<1>2. ASSUME NEW p \in ToSet(Pairs) PROVE FileOf(p, files[p])'
  <2>1. PICK file : file = files[p]
    OBVIOUS
  <2>2. FileOf(p, file)
    BY <2>1 DEF DownloadInv
  <2>3. FileOf(p, file)'
    BY <1>1, <2>2, FileStays
  <2>4. file = files'[p]
    BY <2>1
  <2> QED
    BY <2>3, <2>4 DEF FileOf
<1>3. ASSUME NEW p \in ToSet(Pairs), p \notin ToSet(todo)
      PROVE  /\ Ascending(files[p].rows)
             /\ Settled(ToSet(files[p].rows), p)'
  <2>1. PICK S : S = ToSet(files[p].rows)
    OBVIOUS
  <2>2. Ascending(files[p].rows) /\ Settled(S, p)
    BY <1>3, <2>1 DEF DownloadInv, HistoryComplete, Settled
  <2>3. Settled(S, p)'
    BY <1>1, <2>2, SettledStays
  <2>4. S = ToSet(files'[p].rows)
    BY <2>1
  <2> QED
    BY <2>2, <2>3, <2>4 DEF Settled
<1>4. HistoryComplete'
  BY <1>3 DEF HistoryComplete, Settled
<1> QED
  BY <1>2, <1>4

\* A page keeps the invariant.
LEMMA FetchStep ==
    ASSUME DownloadInv, FetchPage
    PROVE  DownloadInv'
<1>1. /\ Typed /\ todo # <<>> /\ Collected /\ now \in Nat
      /\ UNCHANGED <<traded, now, todo, files>>
  BY DEF DownloadInv, Typed, FetchPage, clock
<1>2. PICK got : got = result \o New(RequestPage)
  OBVIOUS
<1>3. PICK next : next = AfterLast(RequestPage)
  OBVIOUS
<1>4. /\ got \in Seq(Nat) /\ Ascending(got)
      /\ AsksAgain(RequestPage) =>
            /\ next \in Nat /\ Start <= next /\ next < End
            /\ ToSet(got) = {t \in traded[Pair] : t > Start - Gran /\ t <= next - Gran}
      /\ ~AsksAgain(RequestPage) => ToSet(got) = InRange(Pair, now)
  BY <1>1, <1>2, <1>3, PageCollects
<1>5. /\ result' = got
      /\ IF AsksAgain(RequestPage) THEN cursor' = next /\ pc' = pc ELSE pc' = "write"
      /\ pc = "fetch"
  BY <1>2, <1>3 DEF FetchPage
<1>6. Typed'
  BY <1>1, <1>4, <1>5 DEF Typed
<1>7. pc' = "fetch" => Collected'
  BY <1>1, <1>4, <1>5 DEF Collected, Pair
<1>8. pc' = "write" => Fetched'
  <2> SUFFICES ASSUME pc' = "write" PROVE Fetched'
    OBVIOUS
  <2>1. ToSet(got) = InRange(Pair, now)
    BY <1>4, <1>5
  <2>2. InRange(Pair, now) = InRange(Pair, now)'
    BY <1>1 DEF InRange, Pair
  <2> QED
    BY <1>5, <2>1, <2>2 DEF Fetched, Settled
<1>9. (\A p \in ToSet(Pairs) : FileOf(p, files[p]))' /\ HistoryComplete'
  BY <1>1, FilesStay
<1>10. (pc \in {"fetch", "write"} => todo # <<>>)'
  BY <1>1
<1> QED
  BY <1>6, <1>7, <1>8, <1>9, <1>10 DEF DownloadInv

\* A file that is written whole keeps the invariant.
LEMMA WriteStep ==
    ASSUME DownloadInv, Write
    PROVE  DownloadInv'
<1>1. /\ Typed /\ todo # <<>> /\ Fetched /\ now \in Nat /\ End <= now
      /\ result \in Seq(Nat) /\ Ascending(result)
      /\ UNCHANGED <<traded, now>>
  BY DEF DownloadInv, Typed, Write, clock
<1>2. PICK p : p = Pair
  OBVIOUS
<1>3. PICK rows : rows = result
  OBVIOUS
<1>4. PICK rest : rest = Tail(todo)
  OBVIOUS
<1>5. /\ p \in ToSet(Pairs) /\ traded[p] \in SUBSET Times
      /\ rest \in Seq(ToSet(Pairs)) /\ ToSet(todo) = {p} \cup ToSet(rest)
  BY <1>1, <1>2, <1>4, PairInWork
<1>6. /\ rows \in Seq(Nat) /\ Ascending(rows) /\ Settled(ToSet(rows), p)
      /\ Begins(ToSet(rows), InRange(p, now))
  BY <1>1, <1>2, <1>3, <1>5, SettledBegins DEF Fetched
<1>7. Rows = rows
  BY <1>3, <1>6, SortedIs DEF Rows
<1>8. /\ files' = [files EXCEPT ![p] = [rows |-> rows, tail |-> "whole"]]
      /\ todo' = rest /\ pc' = NextPair(rest)
      /\ cursor' = Start /\ result' = <<>>
  BY <1>2, <1>4, <1>7 DEF Write, Written
<1>9. <<>> \in Seq(Nat) /\ Ascending(<<>>) /\ ToSet(<<>>) = {}
  BY DEF Ascending, ToSet
<1>10. Typed'
  BY <1>1, <1>5, <1>8, <1>9 DEF Typed
<1>11. DOMAIN files = ToSet(Pairs)
  BY <1>1 DEF Typed
<1>12. files'[p].rows = rows /\ \A q \in ToSet(Pairs) : q # p => files'[q] = files[q]
  BY <1>5, <1>8, <1>11
<1>13. ASSUME NEW q \in ToSet(Pairs) PROVE FileOf(q, files[q])'
  <2>1. CASE q = p
    <3>1. InRange(p, now)' = InRange(p, now)
      BY <1>1 DEF InRange
    <3> QED
      BY <1>6, <1>12, <2>1, <3>1 DEF FileOf
  <2>2. CASE q # p
    <3>1. FileOf(q, files[q]) /\ files'[q] = files[q]
      BY <1>12, <2>2 DEF DownloadInv
    <3>2. InRange(q, now)' = InRange(q, now)
      BY <1>1 DEF InRange
    <3> QED
      BY <3>1, <3>2 DEF FileOf
  <2> QED
    BY <2>1, <2>2
<1>14. ASSUME NEW q \in ToSet(Pairs), q \notin ToSet(rest)
       PROVE  /\ Ascending(files'[q].rows)
              /\ \E until \in {End, now'} : ToSet(files'[q].rows) = InRange(q, until)'
  <2>1. \A until : InRange(q, until)' = InRange(q, until)
    BY <1>1 DEF InRange
  <2>2. CASE q = p
    BY <1>1, <1>6, <1>12, <2>1, <2>2 DEF Settled
  <2>3. CASE q # p
    <3>1. q \notin ToSet(todo) /\ files'[q] = files[q]
      BY <1>5, <1>12, <1>14, <2>3
    <3> QED
      BY <1>1, <2>1, <3>1 DEF DownloadInv, HistoryComplete
  <2> QED
    BY <2>2, <2>3
<1>15. HistoryComplete'
  BY <1>8, <1>14 DEF HistoryComplete
<1>16. /\ (pc \in {"fetch", "write"} => todo # <<>>)'
       /\ pc' # "write"
  BY <1>8 DEF NextPair
<1>17. pc' = "fetch" => Collected'
  <2> SUFFICES ASSUME pc' = "fetch" PROVE Collected'
    OBVIOUS
  <2>1. Typed' /\ todo' # <<>>
    BY <1>10, <1>16
  <2>2. traded'[Pair'] \in SUBSET Times
    <3>1. todo' \in Seq(ToSet(Pairs)) /\ Head(todo') \in ToSet(Pairs)
      BY <1>5, <1>8, <2>1
    <3> QED
      BY <1>10, <3>1 DEF Typed, Pair
  <2>3. traded'[Pair'] \in SUBSET Nat
    BY <2>2, TimesFinite
  <2>4. Start \in Nat /\ End \in Nat /\ Start < End /\ Gran \in Nat
    BY DownloadTypes
  <2>5. {t \in traded'[Pair'] : t > Start - Gran /\ t <= Start - Gran} = {}
    BY <2>3, <2>4
  <2> QED
    BY <1>8, <1>9, <2>4, <2>5 DEF Collected
<1>18. (\A q \in ToSet(Pairs) : FileOf(q, files[q]))'
  BY <1>13
<1> QED
  BY <1>10, <1>15, <1>16, <1>17, <1>18 DEF DownloadInv

\* A file that is cut keeps the invariant.
LEMMA WriteCutStep ==
    ASSUME DownloadInv, WriteCut
    PROVE  DownloadInv'
<1>1. /\ Typed /\ todo # <<>> /\ Fetched /\ now \in Nat /\ End <= now
      /\ result \in Seq(Nat) /\ Ascending(result)
      /\ UNCHANGED <<traded, now, todo, cursor, result>>
      /\ pc' = "dead"
  BY DEF DownloadInv, Typed, WriteCut, clock
<1>2. PICK p : p = Pair
  OBVIOUS
<1>3. PICK rows : rows = result
  OBVIOUS
<1>4. /\ p \in ToSet(Pairs) /\ traded[p] \in SUBSET Times
      /\ p \in ToSet(todo)
  BY <1>1, <1>2, PairInWork
<1>5. /\ rows \in Seq(Nat) /\ Ascending(rows)
      /\ Begins(ToSet(rows), InRange(p, now))
  BY <1>1, <1>2, <1>3, <1>4, SettledBegins DEF Fetched
<1>6. Rows = rows
  BY <1>3, <1>5, SortedIs DEF Rows
<1>7. PICK n \in 0..Len(rows) :
         \E tail : files' = [files EXCEPT ![p] = [rows |-> SubSeq(rows, 1, n), tail |-> tail]]
  BY <1>2, <1>6 DEF WriteCut, Written
<1> DEFINE cut == SubSeq(rows, 1, n)
<1>8. cut \in Seq(Nat) /\ Ascending(cut) /\ Begins(ToSet(cut), ToSet(rows))
  <2>1. n \in Nat /\ n <= Len(rows)
    BY <1>5
  <2> QED
    BY <1>5, <2>1, CutBegins
<1> HIDE DEF cut
<1>9. Begins(ToSet(cut), InRange(p, now))
  <2>1. InRange(p, now) \in SUBSET Nat
    BY <1>4, TimesFinite DEF InRange
  <2> QED
    BY <1>5, <1>8, <2>1, BeginsTransitive
<1>10. PICK tail : files' = [files EXCEPT ![p] = [rows |-> cut, tail |-> tail]]
  BY <1>7 DEF cut
<1>11. DOMAIN files = ToSet(Pairs)
  BY <1>1 DEF Typed
<1>12. files'[p].rows = cut /\ \A q \in ToSet(Pairs) : q # p => files'[q] = files[q]
  BY <1>4, <1>10, <1>11
<1>13. Typed'
  BY <1>1, <1>4, <1>10 DEF Typed
<1>14. ASSUME NEW q \in ToSet(Pairs) PROVE FileOf(q, files[q])'
  <2>1. InRange(q, now)' = InRange(q, now)
    BY <1>1 DEF InRange
  <2>2. CASE q = p
    BY <1>8, <1>9, <1>12, <2>1, <2>2 DEF FileOf
  <2>3. CASE q # p
    <3>1. FileOf(q, files[q]) /\ files'[q] = files[q]
      BY <1>12, <2>3 DEF DownloadInv
    <3> QED
      BY <2>1, <3>1 DEF FileOf
  <2> QED
    BY <2>2, <2>3
<1>15. ASSUME NEW q \in ToSet(Pairs), q \notin ToSet(todo)
       PROVE  /\ Ascending(files'[q].rows)
              /\ \E until \in {End, now'} : ToSet(files'[q].rows) = InRange(q, until)'
  <2>1. \A until : InRange(q, until)' = InRange(q, until)
    BY <1>1 DEF InRange
  <2>2. files'[q] = files[q]
    BY <1>4, <1>12, <1>15
  <2> QED
    BY <1>1, <1>15, <2>1, <2>2 DEF DownloadInv, HistoryComplete
<1>16. HistoryComplete'
  BY <1>1, <1>15 DEF HistoryComplete
<1>17. (\A q \in ToSet(Pairs) : FileOf(q, files[q]))'
  BY <1>14
<1> QED
  BY <1>1, <1>13, <1>16, <1>17 DEF DownloadInv

\* Retries, the end of main and the clock: what was fetched stays.
LEMMA WaitStep ==
    ASSUME DownloadInv, Retry \/ Dies \/ TimePasses \/ UNCHANGED download
    PROVE  DownloadInv'
<1>1. /\ UNCHANGED <<traded, todo, cursor, result, files>>
      /\ pc' = pc \/ pc' = "dead"
  BY DEF Retry, Dies, TimePasses, download, clock
<1>2. now' \in Nat /\ now <= now' /\ now \in Nat /\ End <= now
  <2>1. now \in Nat /\ End <= now /\ End \in Nat
    BY DownloadTypes DEF DownloadInv, Typed
  <2>2. now' = now \/ now' = now + 1
    BY DEF Retry, Dies, TimePasses, download, clock
  <2> QED
    BY <2>1, <2>2
<1>3. Typed'
  <2>1. Typed /\ End \in Nat
    BY DownloadTypes DEF DownloadInv
  <2> QED
    BY <1>1, <1>2, <2>1 DEF Typed
<1>4. (pc \in {"fetch", "write"} => todo # <<>>)'
  BY <1>1 DEF DownloadInv
<1>5. pc' = "fetch" => Collected'
  BY <1>1 DEF DownloadInv, Collected, Pair
<1>6. pc' = "write" => Fetched'
  <2> SUFFICES ASSUME pc' = "write" PROVE Fetched'
    OBVIOUS
  <2>1. pc = "write" /\ Typed /\ todo # <<>> /\ Fetched
    BY <1>1 DEF DownloadInv
  <2>2. PICK p : p = Pair
    OBVIOUS
  <2>3. PICK S : S = ToSet(result)
    OBVIOUS
  <2>4. traded[p] \in SUBSET Times /\ Settled(S, p)
    BY <2>1, <2>2, <2>3, PairInWork DEF Fetched
  <2>5. Settled(S, p)'
    BY <1>1, <1>2, <2>4, SettledStays
  <2>6. p = Pair' /\ S = ToSet(result')
    BY <1>1, <2>2, <2>3 DEF Pair
  <2> QED
    BY <2>5, <2>6 DEF Fetched, Settled
<1>7. (\A p \in ToSet(Pairs) : FileOf(p, files[p]))' /\ HistoryComplete'
  BY <1>1, <1>2, FilesStay
<1> QED
  BY <1>3, <1>4, <1>5, <1>6, <1>7 DEF DownloadInv

\* The invariant always holds.
LEMMA DownloadKeeps == DownloadSpec => []DownloadInv
<1>1. DownloadInv /\ [DownloadNext]_download => DownloadInv'
  <2> SUFFICES ASSUME DownloadInv, [DownloadNext]_download PROVE DownloadInv'
    OBVIOUS
  <2>1. CASE FetchPage
    BY <2>1, FetchStep
  <2>2. CASE Write
    BY <2>2, WriteStep
  <2>3. CASE WriteCut
    BY <2>3, WriteCutStep
  <2>4. CASE Retry \/ Dies \/ TimePasses \/ UNCHANGED download
    BY <2>4, WaitStep
  <2> QED
    BY <2>1, <2>2, <2>3, <2>4 DEF DownloadNext, Main
<1> QED
  BY <1>1, DownloadStarts, PTL DEF DownloadSpec

\* A pair that main is done with has every candle of its range, whatever gaps
\* the history has, wherever the pages end and however long they are.
THEOREM HistoryIsComplete == DownloadSpec => []HistoryComplete
<1>1. DownloadInv => HistoryComplete
  BY DEF DownloadInv
<1> QED
  BY <1>1, DownloadKeeps, PTL

\* Whatever happens to the download, a file that load_csv accepts replays a
\* gapless beginning of the pair's history.
THEOREM FilesReplayPrefix == DownloadSpec => []ReplaysPrefix
<1>1. DownloadInv => ReplaysPrefix
  <2> SUFFICES ASSUME DownloadInv, NEW p \in ToSet(Pairs), NEW candles \in ToSet(Load(files[p]))
               PROVE  Ascending(candles) /\ Begins(ToSet(candles), InRange(p, now))
    BY DEF ReplaysPrefix
  <2>1. PICK rows : rows = files[p].rows
    OBVIOUS
  <2>2. /\ rows \in Seq(Nat) /\ Ascending(rows) /\ Begins(ToSet(rows), InRange(p, now))
        /\ traded[p] \in SUBSET Times
    BY <2>1 DEF DownloadInv, FileOf, Typed
  <2>3. candles = Sorted(Front(rows)) \/ candles = Sorted(rows)
    BY <2>1 DEF Load, ToSet
  <2>4. CASE candles = Sorted(rows)
    BY <2>2, <2>4, SortedIs
  <2>5. CASE candles = Sorted(Front(rows))
    <3>1. CASE rows = <<>>
      <4>1. Front(rows) = <<>> /\ Ascending(<<>>) /\ ToSet(<<>>) = {}
        BY <2>2, <3>1 DEF Front, Ascending, ToSet
      <4>2. candles = <<>>
        <5>1. <<>> \in Seq(Nat)
          OBVIOUS
        <5> QED
          BY <2>5, <4>1, <5>1, SortedIs
      <4> QED
        BY <4>1, <4>2 DEF Begins
    <3>2. CASE rows # <<>>
      <4>1. Len(rows) - 1 \in Nat /\ Len(rows) - 1 <= Len(rows)
        BY <2>2, <3>2
      <4>2. /\ Front(rows) \in Seq(Nat) /\ Ascending(Front(rows))
            /\ Begins(ToSet(Front(rows)), ToSet(rows))
        BY <2>2, <4>1, CutBegins DEF Front
      <4>3. candles = Front(rows)
        BY <2>5, <4>2, SortedIs
      <4>4. InRange(p, now) \in SUBSET Nat
        BY <2>2, TimesFinite DEF InRange
      <4> QED
        BY <2>2, <4>2, <4>3, <4>4, BeginsTransitive
    <3> QED
      BY <3>1, <3>2
  <2> QED
    BY <2>3, <2>4, <2>5
<1> QED
  BY <1>1, DownloadKeeps, PTL
==============================================================================
