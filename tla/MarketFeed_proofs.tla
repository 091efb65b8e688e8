--------------------------- MODULE MarketFeed_proofs ---------------------------
(***************************************************************************)
(* The candles of MarketFeed, for any pairs, timeframes, ticks, reconnects *)
(* and restarts.  First the arithmetic: a bucket kept up to date candle by *)
(* candle is the last group of backtest.aggregate, and what it emits is    *)
(* what the backtest feeds next.  Then the stream: a candle is made of the *)
(* ticks of one minute and one connection.  Then the two together, with    *)
(* the windows and the warm-up.                                            *)
(***************************************************************************)
EXTENDS MarketFeed, FiniteSetTheorems, SequenceTheorems, WellFoundedInduction, TLAPS

\* ---- Buckets of time ------------------------------------------------------

\* The library's fact about division, in one line.
LEMMA DivMod ==
    ASSUME NEW x \in Nat, NEW r \in Nat \ {0}
    PROVE  /\ x \div r \in Nat /\ x % r \in 0..(r - 1)
           /\ x = r * (x \div r) + (x % r)
<1>1. x \div r \in Int /\ x % r \in 0..(r - 1)
  OBVIOUS
<1>2. x = r * (x \div r) + (x % r)
  OBVIOUS
<1>3. x \div r >= 0
  OBVIOUS
<1> QED
  BY <1>1, <1>2, <1>3

\* A time at which a bucket of w minutes begins.
Aligned(t, w) == \E q \in Nat : t = w * q

\* A time lies in its bucket.
LEMMA BucketHolds ==
    ASSUME NEW t \in Nat, NEW w \in Nat \ {0}
    PROVE  /\ BucketStart(t, w) \in Nat /\ Aligned(BucketStart(t, w), w)
           /\ BucketStart(t, w) <= t /\ t < BucketStart(t, w) + w
<1>1. /\ t \div w \in Nat /\ t % w \in 0..(w - 1)
      /\ t = w * (t \div w) + (t % w)
  BY DivMod
<1> DEFINE q == t \div w
           p == w * q
<1>2. BucketStart(t, w) = t - (t % w)
  BY DEF BucketStart
<1>3. p \in Nat /\ t = p + (t % w)
  <2> HIDE DEF q
  <2>1. q \in Nat
    BY <1>1 DEF q
  <2> QED
    BY <1>1, <2>1 DEF q
<1>4. Aligned(p, w)
  BY <1>1 DEF Aligned
<1> HIDE DEF p, q
<1>5. BucketStart(t, w) = p
  BY <1>1, <1>2, <1>3
<1> QED
  BY <1>1, <1>3, <1>4, <1>5

\* Between two starts of buckets lies a whole bucket.
LEMMA AlignedApart ==
    ASSUME NEW w \in Nat \ {0}, NEW s, NEW t, Aligned(s, w), Aligned(t, w), s < t
    PROVE  s + w <= t
<1>1. PICK p \in Nat : s = w * p
  BY DEF Aligned
<1>2. PICK q \in Nat : t = w * q
  BY DEF Aligned
<1> DEFINE d == q - p
<1>3. d \in Int /\ w * d = w * q - w * p
  OBVIOUS
<1>4. w * q \in Int /\ w * p \in Int /\ w * p < w * q
  BY <1>1, <1>2
<1> HIDE DEF d
<1>5. d >= 1
  <2>1. d <= 0 => w * d <= 0
    BY <1>3
  <2> QED
    BY <1>3, <1>4, <2>1
<1>6. w * d >= w
  BY <1>3, <1>5
<1> QED
  BY <1>1, <1>2, <1>3, <1>4, <1>6

\* A bucket that is over by the time t begins a bucket or more before t's own.
LEMMA BucketOver ==
    ASSUME NEW w \in Nat \ {0}, NEW t \in Nat, NEW s \in Nat, Aligned(s, w)
    PROVE  /\ s + w <= t <=> s < BucketStart(t, w)
           /\ s + w <= t <=> s + w <= BucketStart(t, w)
<1> DEFINE b == BucketStart(t, w)
<1>1. b \in Nat /\ Aligned(b, w) /\ b <= t /\ t < b + w
  BY BucketHolds
<1> HIDE DEF b
<1>2. s < b => s + w <= b
  BY <1>1, AlignedApart
<1>3. b < s => b + w <= s
  BY <1>1, AlignedApart
<1> QED
  BY <1>1, <1>2, <1>3 DEF b

\* Later times have later buckets.
LEMMA BucketsInOrder ==
    ASSUME NEW w \in Nat \ {0}, NEW s \in Nat, NEW t \in Nat, s <= t
    PROVE  /\ BucketStart(s, w) <= BucketStart(t, w)
           /\ BucketStart(s, w) # BucketStart(t, w)
                => BucketStart(s, w) + w <= BucketStart(t, w)
<1> DEFINE a == BucketStart(s, w)
           b == BucketStart(t, w)
<1>1. a \in Nat /\ Aligned(a, w) /\ a <= s /\ s < a + w
  BY BucketHolds
<1>2. b \in Nat /\ Aligned(b, w) /\ b <= t /\ t < b + w
  BY BucketHolds
<1> HIDE DEF a, b
<1>3. (a < b => a + w <= b) /\ (b < a => b + w <= a)
  BY <1>1, <1>2, AlignedApart
<1> QED
  BY <1>1, <1>2, <1>3 DEF a, b

\* A minute is the bucket of its own ticks.
LEMMA MinuteBucket ==
    ASSUME NEW t \in Nat
    PROVE  BucketStart(t, 1) = t
BY DEF BucketStart

\* ---- What a bucket holds --------------------------------------------------

\* b is made of the candles of the group, which has a first and a last one.
MadeOf(b, candles, group, start) ==
    /\ b.time = start
    /\ \E n \in group : b.open = candles[n].open /\ \A m \in group : n <= m
    /\ \E n \in group : b.high = candles[n].high
    /\ \A m \in group : candles[m].high <= b.high
    /\ \E n \in group : b.low = candles[n].low
    /\ \A m \in group : b.low <= candles[m].low
    /\ \E n \in group : b.close = candles[n].close /\ \A m \in group : m <= n

\* The CHOOSE of Max and Min finds what it should.
LEMMA MaxIs ==
    ASSUME NEW T \in SUBSET Int, NEW x \in T, \A y \in T : y <= x
    PROVE  Max(T) = x
<1>1. \A z \in T : (\A y \in T : z >= y) => z = x
  OBVIOUS
<1>2. \A y \in T : x >= y
  OBVIOUS
<1> QED
  BY <1>1, <1>2 DEF Max

LEMMA MinIs ==
    ASSUME NEW T \in SUBSET Int, NEW x \in T, \A y \in T : x <= y
    PROVE  Min(T) = x
<1>1. \A z \in T : (\A y \in T : z <= y) => z = x
  OBVIOUS
<1> QED
  BY <1>1 DEF Min

\* A candle made of a group is what the backtest's aggregate makes of it.
LEMMA AggregatedIs ==
    ASSUME NEW group \in SUBSET Nat, NEW candles, NEW start,
           \A n \in group : candles[n] \in Candle,
           NEW b \in Candle, MadeOf(b, candles, group, start)
    PROVE  Aggregated(candles, group, start) = b
<1> DEFINE highs == {candles[n].high : n \in group}
           lows == {candles[n].low : n \in group}
<1>1. \A n \in group : candles[n].high \in Int /\ candles[n].low \in Int
  BY DEF Candle
<1>2. highs \in SUBSET Int /\ b.high \in highs /\ \A y \in highs : y <= b.high
  BY <1>1 DEF MadeOf
<1>3. lows \in SUBSET Int /\ b.low \in lows /\ \A y \in lows : b.low <= y
  BY <1>1 DEF MadeOf
<1>4. group \in SUBSET Int
  OBVIOUS
<1> HIDE DEF highs, lows
<1>5. Max(highs) = b.high /\ Min(lows) = b.low
  BY <1>2, <1>3, MaxIs, MinIs
<1>6. candles[Min(group)].open = b.open
  <2>1. PICK n \in group : b.open = candles[n].open /\ \A m \in group : n <= m
    BY DEF MadeOf
  <2>2. Min(group) = n
    BY <1>4, <2>1, MinIs
  <2> QED
    BY <2>1, <2>2
<1>7. candles[Max(group)].close = b.close
  <2>1. PICK n \in group : b.close = candles[n].close /\ \A m \in group : m <= n
    BY DEF MadeOf
  <2>2. Max(group) = n
    BY <1>4, <2>1, MaxIs
  <2> QED
    BY <2>1, <2>2
<1>8. b.time = start
  BY DEF MadeOf
<1>9. b = [time |-> b.time, open |-> b.open, high |-> b.high, low |-> b.low,
           close |-> b.close]
  BY DEF Candle
<1> QED
  BY <1>5, <1>6, <1>7, <1>8, <1>9 DEF Aggregated, highs, lows

\* _Bucket of a first candle ...
LEMMA MadeOfOne ==
    ASSUME NEW c \in Candle, NEW n \in Nat, NEW candles, candles[n] = c,
           NEW w \in Nat \ {0}
    PROVE  /\ Opened(c, w) \in Candle
           /\ MadeOf(Opened(c, w), candles, {n}, BucketStart(c.time, w))
<1>1. BucketStart(c.time, w) \in Nat
  BY BucketHolds DEF Candle
<1>2. c.open \in Int /\ c.high \in Int /\ c.low \in Int /\ c.close \in Int
  BY DEF Candle
<1> QED
  BY <1>1, <1>2 DEF Opened, MadeOf, Candle

\* ... and of one candle more, later than the others.
LEMMA MadeOfMore ==
    ASSUME NEW b \in Candle, NEW c \in Candle, NEW group \in SUBSET Nat,
           NEW candles, NEW start, MadeOf(b, candles, group, start),
           \A m \in group : candles[m] \in Candle,
           NEW longer, \A m \in group : longer[m] = candles[m],
           NEW n \in Nat, \A m \in group : m < n, longer[n] = c
    PROVE  /\ Extended(b, c) \in Candle
           /\ MadeOf(Extended(b, c), longer, group \cup {n}, start)
<1> DEFINE high == IF b.high >= c.high THEN b.high ELSE c.high
           low == IF b.low <= c.low THEN b.low ELSE c.low
           e == Extended(b, c)
<1>1. /\ b.high \in Int /\ c.high \in Int /\ b.low \in Int /\ c.low \in Int
      /\ b.time \in Nat /\ b.open \in Int /\ c.close \in Int
  BY DEF Candle
<1>2. Max({b.high, c.high}) = high
  <2> DEFINE T == {b.high, c.high}
  <2>1. T \in SUBSET Int /\ high \in T /\ \A y \in T : y <= high
    BY <1>1
  <2> HIDE DEF T, high
  <2> QED
    BY <2>1, MaxIs DEF T
<1>3. Min({b.low, c.low}) = low
  <2> DEFINE T == {b.low, c.low}
  <2>1. T \in SUBSET Int /\ low \in T /\ \A y \in T : low <= y
    BY <1>1
  <2> HIDE DEF T, low
  <2> QED
    BY <2>1, MinIs DEF T
<1>4. e = [time |-> b.time, open |-> b.open, high |-> high, low |-> low,
           close |-> c.close]
  BY <1>2, <1>3 DEF Extended
<1>5. /\ e.time = b.time /\ e.open = b.open /\ e.high = high /\ e.low = low
      /\ e.close = c.close /\ e \in Candle
  BY <1>1, <1>4 DEF Candle
<1> HIDE DEF e
<1>6. \A m \in group : longer[m].high \in Int /\ longer[m].low \in Int
  BY DEF Candle
<1>7. e.time = start
  BY <1>5 DEF MadeOf
<1>8. \E k \in group \cup {n} :
         e.open = longer[k].open /\ \A m \in group \cup {n} : k <= m
  <2>1. PICK k \in group : b.open = candles[k].open /\ \A m \in group : k <= m
    BY DEF MadeOf
  <2>2. k <= n
    <3>1. k < n /\ k \in Int
      OBVIOUS
    <3> QED
      BY <3>1
  <2> QED
    BY <1>5, <2>1, <2>2
<1>9. \E k \in group \cup {n} : e.high = longer[k].high
  BY <1>5 DEF MadeOf
<1>10. \A m \in group \cup {n} : longer[m].high <= e.high
  BY <1>1, <1>5, <1>6 DEF MadeOf
<1>11. \E k \in group \cup {n} : e.low = longer[k].low
  BY <1>5 DEF MadeOf
<1>12. \A m \in group \cup {n} : e.low <= longer[m].low
  BY <1>1, <1>5, <1>6 DEF MadeOf
<1>13. \E k \in group \cup {n} :
          e.close = longer[k].close /\ \A m \in group \cup {n} : m <= k
  <2>1. ASSUME NEW m \in group PROVE m <= n
    <3>1. m < n /\ m \in Nat
      OBVIOUS
    <3> QED
      BY <3>1
  <2>2. n <= n
    OBVIOUS
  <2> QED
    BY <1>5, <2>1, <2>2
<1>14. MadeOf(e, longer, group \cup {n}, start)
  BY <1>7, <1>8, <1>9, <1>10, <1>11, <1>12, <1>13 DEF MadeOf
<1> QED
  BY <1>5, <1>14 DEF e

\* It depends on the group's own candles only.
LEMMA MadeOfSame ==
    ASSUME NEW b, NEW candles, NEW group, NEW start,
           MadeOf(b, candles, group, start),
           NEW other, \A m \in group : other[m] = candles[m]
    PROVE  MadeOf(b, other, group, start)
BY DEF MadeOf

\* ---- Candles in the order of time -----------------------------------------

\* Every set of naturals has a least member.
LEMMA LeastMember ==
    ASSUME NEW T \in SUBSET Nat, T # {}
    PROVE  \E n \in T : \A m \in T : n <= m
<1>1. PICK n \in T : \A m \in T : <<m, n>> \notin OpToRel(<, Nat)
  BY NatLessThanWellFounded, WFMin
<1>2. \A m \in T : ~(m < n)
  BY <1>1 DEF OpToRel
<1> QED
  BY <1>2

\* No two candles begin at the same time.
Apart(S) ==
    /\ IsFiniteSet(S)
    /\ \A c \in S : c.time \in Nat
    /\ \A c, d \in S : c.time = d.time => c = d

LEMMA ApartParts ==
    ASSUME NEW S, Apart(S), NEW T \in SUBSET S
    PROVE  Apart(T)
BY FS_Subset DEF Apart

\* One of them is the last.
LEMMA LastOfAll ==
    ASSUME NEW S, Apart(S), S # {}
    PROVE  \E c \in S : \A d \in S \ {c} : d.time < c.time
<1> DEFINE Has(R) == \E c \in R : \A d \in R \ {c} : d.time < c.time
           Bad == {k \in Nat : \E R : /\ Apart(R) /\ R # {} /\ Cardinality(R) = k
                                      /\ ~Has(R)}
<1>1. SUFFICES ASSUME Bad # {} PROVE FALSE
  <2>1. IsFiniteSet(S) /\ Cardinality(S) \in Nat
    BY FS_CardinalityType DEF Apart
  <2>2. Bad = {} => Has(S)
    BY <2>1
  <2> QED
    BY <2>2
<1>2. Bad \in SUBSET Nat
  OBVIOUS
<1>3. PICK k \in Bad : \A m \in Bad : k <= m
  <2> HIDE DEF Bad
  <2> QED
    BY <1>1, <1>2, LeastMember
<1>4. PICK R : Apart(R) /\ R # {} /\ Cardinality(R) = k /\ ~Has(R)
  OBVIOUS
<1>5. PICK a \in R : TRUE
  BY <1>4
<1> DEFINE rest == R \ {a}
<1>6. /\ IsFiniteSet(R) /\ IsFiniteSet(rest) /\ Cardinality(rest) = k - 1
      /\ k \in Nat /\ k - 1 \in Nat
  <2>1. IsFiniteSet(R)
    BY <1>4 DEF Apart
  <2>2. /\ IsFiniteSet(rest) /\ Cardinality(R) \in Nat
        /\ Cardinality(rest) = Cardinality(R) - 1 /\ Cardinality(rest) \in Nat
    BY <2>1, FS_RemoveElement, FS_CardinalityType
  <2> QED
    BY <1>4, <2>1, <2>2
<1>7. Apart(rest)
  BY <1>4, ApartParts
<1>8. CASE rest = {}
  <2>1. Has(R)
    BY <1>5, <1>8
  <2> QED
    BY <1>4, <2>1
<1>9. CASE rest # {}
  <2>1. Has(rest)
    <3>1. k - 1 \notin Bad
      <4> HIDE DEF Bad
      <4>1. ~(k <= k - 1)
        BY <1>6
      <4> QED
        BY <1>3, <4>1
    <3> HIDE DEF Has, rest
    <3> QED
      BY <1>6, <1>7, <1>9, <3>1
  <2>2. PICK c \in rest : \A d \in rest \ {c} : d.time < c.time
    BY <2>1
  <2>3. a.time \in Nat /\ c.time \in Nat /\ a.time # c.time
    BY <1>4, <1>5, <2>2 DEF Apart
  <2>4. CASE a.time < c.time
    <3>1. \A d \in R \ {c} : d.time < c.time
      BY <2>2, <2>4
    <3> QED
      BY <1>4, <2>2, <3>1
  <2>5. CASE c.time < a.time
    <3>1. \A d \in R \ {a} : d.time < a.time
      <4> SUFFICES ASSUME NEW d \in R \ {a} PROVE d.time < a.time
        OBVIOUS
      <4>1. d.time \in Nat /\ (d = c \/ d.time < c.time)
        BY <1>4, <2>2 DEF Apart
      <4> QED
        BY <2>3, <2>5, <4>1
    <3> QED
      BY <1>4, <1>5, <3>1
  <2> QED
    BY <2>3, <2>4, <2>5
<1> QED
  BY <1>8, <1>9

Rank(S, c) == Cardinality({d \in S : d.time < c.time})

LEMMA InOrderType ==
    ASSUME NEW S
    PROVE  InOrder(S) \in [1..Cardinality(S) -> Range(InOrder(S))]
BY Zenon DEF InOrder, Range

\* A later candle comes at the end.
LEMMA InOrderAppend ==
    ASSUME NEW S, IsFiniteSet(S), \A d \in S : d.time \in Nat,
           NEW c, c.time \in Nat, \A d \in S : d.time < c.time
    PROVE  /\ IsFiniteSet(S \cup {c}) /\ Cardinality(S) \in Nat
           /\ Cardinality(S \cup {c}) = Cardinality(S) + 1
           /\ InOrder(S \cup {c})
                = [n \in 1..(Cardinality(S) + 1) |->
                      IF n = Cardinality(S) + 1 THEN c ELSE InOrder(S)[n]]
<1> DEFINE more == S \cup {c}
           k == Cardinality(S)
<1>1. c \notin S
  <2>1. ~(c.time < c.time)
    OBVIOUS
  <2> QED
    BY <2>1
<1>2. k \in Nat /\ IsFiniteSet(more) /\ Cardinality(more) = k + 1
  BY <1>1, FS_CardinalityType, FS_AddElement
<1>3. Rank(more, c) = k
  <2>1. {d \in more : d.time < c.time} = S
    BY <1>1
  <2> QED
    BY <2>1 DEF Rank
<1>4. ASSUME NEW x \in S
      PROVE  Rank(more, x) = Rank(S, x) /\ Rank(S, x) \in Nat /\ Rank(S, x) < k
  <2>1. {d \in more : d.time < x.time} = {d \in S : d.time < x.time}
    <3>1. c.time > x.time /\ x.time \in Nat
      OBVIOUS
    <3>2. ~(c.time < x.time)
      BY <3>1
    <3> QED
      BY <3>2
  <2> DEFINE below == {d \in S : d.time < x.time}
  <2>2. below \subseteq S /\ below # S
    <3>1. ~(x.time < x.time)
      OBVIOUS
    <3> QED
      BY <3>1
  <2>3. Cardinality(below) \in Nat /\ Cardinality(below) < k
    <3> HIDE DEF below
    <3>1. IsFiniteSet(below) /\ Cardinality(below) <= k
      BY <2>2, FS_Subset
    <3>2. Cardinality(below) = k => below = S
      BY <2>2, FS_Subset
    <3>3. Cardinality(below) \in Nat
      BY <3>1, FS_CardinalityType
    <3> QED
      BY <1>2, <2>2, <3>1, <3>2, <3>3
  <2> QED
    BY <2>1, <2>3 DEF Rank
<1> DEFINE Place(T, n) == {x \in T : Rank(T, x) = n - 1}
<1>5. ASSUME NEW T
      PROVE  InOrder(T) = [n \in 1..Cardinality(T) |-> CHOOSE x \in T : Rank(T, x) = n - 1]
  BY DEF InOrder, Rank
<1>6. ASSUME NEW n \in 1..(k + 1)
      PROVE  InOrder(more)[n] = IF n = k + 1 THEN c ELSE InOrder(S)[n]
  <2>1. InOrder(more)[n] = CHOOSE x \in more : Rank(more, x) = n - 1
    BY <1>2, <1>5
  <2>2. CASE n = k + 1
    <3>1. \A x \in more : Rank(more, x) = n - 1 <=> x = c
      BY <1>2, <1>3, <1>4, <2>2
    <3> HIDE DEF more
    <3>2. c \in more
      BY DEF more
    <3> QED
      BY <2>1, <2>2, <3>1, <3>2
  <2>3. CASE n # k + 1
    <3>1. n \in 1..k /\ n - 1 # k
      BY <1>2, <2>3
    <3>2. InOrder(S)[n] = CHOOSE x \in S : Rank(S, x) = n - 1
      BY <1>5, <3>1
    <3>3. \A x : (x \in more /\ Rank(more, x) = n - 1)
                   <=> (x \in S /\ Rank(S, x) = n - 1)
      BY <1>3, <1>4, <3>1
    <3>4. (CHOOSE x \in more : Rank(more, x) = n - 1)
            = (CHOOSE x \in S : Rank(S, x) = n - 1)
      <4> HIDE DEF more, k
      <4> QED
        BY <3>3, Zenon
    <3>5. InOrder(more)[n] = InOrder(S)[n]
      <4> HIDE DEF more
      <4> QED
        BY <2>1, <3>2, <3>4, Zenon
    <3> QED
      BY <2>3, <3>5
  <2> QED
    BY <2>2, <2>3
<1>7. InOrder(more) = [n \in 1..(k + 1) |-> InOrder(more)[n]]
  <2>1. InOrder(more) \in [1..Cardinality(more) -> Range(InOrder(more))]
    BY InOrderType
  <2> QED
    BY <1>2, <2>1
<1> QED
  BY <1>2, <1>6, <1>7

\* In time order, and all of S.
Ascending(s) == \A m, n \in DOMAIN s : m < n => s[m].time < s[n].time

\* What backtest.aggregate returns is sorted and has every bucket once.
LEMMA InOrderSorted ==
    ASSUME NEW S, Apart(S)
    PROVE  /\ InOrder(S) \in [1..Cardinality(S) -> S]
           /\ InOrder(S) \in Seq(S) /\ Len(InOrder(S)) = Cardinality(S)
           /\ Cardinality(S) \in Nat /\ Ascending(InOrder(S))
<1> DEFINE Good(R) == /\ InOrder(R) \in [1..Cardinality(R) -> R]
                      /\ Ascending(InOrder(R))
           Bad == {k \in Nat : \E R : Apart(R) /\ Cardinality(R) = k /\ ~Good(R)}
<1>1. IsFiniteSet(S) /\ Cardinality(S) \in Nat
  BY FS_CardinalityType DEF Apart
<1>2. ASSUME Good(S)
      PROVE  InOrder(S) \in Seq(S) /\ Len(InOrder(S)) = Cardinality(S)
  <2>1. InOrder(S) \in [1..Cardinality(S) -> S]
    BY <1>2
  <2> HIDE DEF Good
  <2> QED
    BY <1>1, <2>1
<1>3. SUFFICES ASSUME Bad # {} PROVE FALSE
  <2>1. Bad = {} => Good(S)
    BY <1>1
  <2> HIDE DEF Bad
  <2> QED
    BY <1>1, <1>2, <2>1
<1>4. Bad \in SUBSET Nat
  OBVIOUS
<1>5. PICK k \in Bad : \A m \in Bad : k <= m
  <2> HIDE DEF Bad
  <2> QED
    BY <1>3, <1>4, LeastMember
<1>6. PICK R : Apart(R) /\ Cardinality(R) = k /\ ~Good(R)
  OBVIOUS
<1>7. R # {}
  <2>1. SUFFICES ASSUME R = {} PROVE Good(R)
    BY <1>6
  <2>2. Cardinality(R) = 0
    BY <2>1, FS_EmptySet
  <2>3. InOrder(R) \in [1..Cardinality(R) -> Range(InOrder(R))]
    BY InOrderType
  <2>4. 1..Cardinality(R) = {}
    BY <2>2
  <2>5. DOMAIN InOrder(R) = {}
    BY <2>3, <2>4
  <2>6. InOrder(R) \in [1..Cardinality(R) -> R]
    BY <2>3, <2>4
  <2> QED
    BY <2>5, <2>6 DEF Ascending
<1>8. PICK c \in R : \A d \in R \ {c} : d.time < c.time
  BY <1>6, <1>7, LastOfAll
<1> DEFINE rest == R \ {c}
<1>9. /\ IsFiniteSet(rest) /\ rest \cup {c} = R /\ Apart(rest)
      /\ c.time \in Nat /\ \A d \in rest : d.time \in Nat
  <2>1. Apart(rest)
    BY <1>6, ApartParts
  <2> QED
    BY <1>6, <1>8, <2>1 DEF Apart
<1> DEFINE j == Cardinality(rest)
<1>10. \A d \in rest : d.time < c.time
  BY <1>8
<1>11. /\ j \in Nat /\ Cardinality(R) = j + 1
       /\ InOrder(R) = [n \in 1..(j + 1) |-> IF n = j + 1 THEN c ELSE InOrder(rest)[n]]
  <2> HIDE DEF rest
  <2>1. /\ j \in Nat /\ Cardinality(rest \cup {c}) = j + 1
        /\ InOrder(rest \cup {c})
             = [n \in 1..(j + 1) |-> IF n = j + 1 THEN c ELSE InOrder(rest)[n]]
    BY <1>9, <1>10, InOrderAppend
  <2> QED
    BY <1>9, <2>1
<1>12. Good(rest)
  <2>1. k \in Nat /\ j = k - 1 /\ j \in Nat
    BY <1>6, <1>11
  <2>2. j \notin Bad
    <3> HIDE DEF Bad, j
    <3>1. ~(k <= j)
      BY <2>1
    <3> QED
      BY <1>5, <3>1
  <2> HIDE DEF Good, rest
  <2> QED
    BY <1>9, <2>1, <2>2
<1>13. InOrder(R) \in [1..(j + 1) -> R]
  <2>1. \A n \in 1..(j + 1) : n # j + 1 => n \in 1..j
    BY <1>11
  <2>2. \A n \in 1..j : InOrder(rest)[n] \in R
    BY <1>12
  <2> HIDE DEF j
  <2> QED
    BY <1>11, <2>1, <2>2
<1>14. ASSUME NEW m \in 1..(j + 1), NEW n \in 1..(j + 1), m < n
       PROVE  InOrder(R)[m].time < InOrder(R)[n].time
  <2>1. m \in 1..j /\ m # j + 1
    BY <1>11, <1>14
  <2>2. InOrder(R)[m] = InOrder(rest)[m] /\ InOrder(rest)[m] \in rest
    <3>1. InOrder(rest)[m] \in rest
      BY <1>12, <2>1
    <3> HIDE DEF rest, j
    <3> QED
      BY <1>11, <2>1, <3>1
  <2>3. CASE n = j + 1
    <3>1. InOrder(R)[n] = c
      <4> HIDE DEF rest, j
      <4> QED
        BY <1>11, <2>3
    <3> QED
      BY <1>10, <2>2, <3>1
  <2>4. CASE n # j + 1
    <3>1. n \in 1..j /\ InOrder(R)[n] = InOrder(rest)[n]
      <4> HIDE DEF rest, j
      <4> QED
        BY <1>11, <2>4
    <3>2. DOMAIN InOrder(rest) = 1..j
      BY <1>12
    <3>3. InOrder(rest)[m].time < InOrder(rest)[n].time
      BY <1>12, <1>14, <2>1, <3>1, <3>2 DEF Ascending
    <3> QED
      BY <2>2, <3>1, <3>3
  <2> QED
    BY <2>3, <2>4
<1>15. Good(R)
  <2>1. DOMAIN InOrder(R) = 1..(j + 1)
    BY <1>13
  <2>2. Ascending(InOrder(R))
    BY <1>14, <2>1 DEF Ascending
  <2> QED
    BY <1>11, <1>13, <2>2
<1> QED
  BY <1>6, <1>15

\* ---- What the backtest cuts out of the same candles -----------------------

Starts(candles, minutes) ==
    {BucketStart(candles[n].time, minutes) : n \in DOMAIN candles}

\* Its buckets before the one that starts at end.
Before(candles, minutes, end) ==
    {Aggregated(candles, Group(candles, start, minutes), start) :
        start \in {s \in Starts(candles, minutes) : s < end}}

Timed(candles) ==
    /\ IsFiniteSet(DOMAIN candles)
    /\ \A n \in DOMAIN candles : candles[n].time \in Nat

LEMMA StartsType ==
    ASSUME NEW candles, Timed(candles), NEW w \in Nat \ {0}
    PROVE  /\ IsFiniteSet(Starts(candles, w))
           /\ \A s \in Starts(candles, w) : s \in Nat /\ Aligned(s, w)
<1> DEFINE D == DOMAIN candles
           S == Starts(candles, w)
           f == [n \in D |-> BucketStart(candles[n].time, w)]
<1>1. f \in Surjection(D, S)
  BY DEF Surjection, Starts
<1>2. IsFiniteSet(S)
  <2> HIDE DEF D, S, f
  <2>1. IsFiniteSet(D)
    BY DEF Timed, D
  <2> QED
    BY <1>1, <2>1, FS_Surjection
<1>3. ASSUME NEW n \in D
      PROVE  /\ BucketStart(candles[n].time, w) \in Nat
             /\ Aligned(BucketStart(candles[n].time, w), w)
  BY BucketHolds DEF Timed
<1> QED
  BY <1>2, <1>3 DEF Starts

\* aggregate makes one candle of a bucket.
LEMMA BucketsApart ==
    ASSUME NEW candles, Timed(candles), NEW w \in Nat \ {0}
    PROVE  /\ Apart(Aggregate(candles, w))
           /\ \A c \in Aggregate(candles, w) : c.time \in Nat /\ Aligned(c.time, w)
<1> DEFINE S == Starts(candles, w)
           A == Aggregate(candles, w)
           cut(s) == Aggregated(candles, Group(candles, s, w), s)
           f == [s \in S |-> cut(s)]
<1>1. IsFiniteSet(S) /\ \A s \in S : s \in Nat /\ Aligned(s, w)
  BY StartsType
<1>2. A = {cut(s) : s \in S}
  BY DEF Aggregate, Starts
<1>3. \A s \in S : cut(s).time = s
  BY DEF Aggregated
<1> HIDE DEF S, A, cut
<1>4. f \in Surjection(S, A)
  BY <1>2 DEF Surjection
<1>5. IsFiniteSet(A)
  <2> HIDE DEF f
  <2> QED
    BY <1>1, <1>4, FS_Surjection
<1>6. \A c \in A : c.time \in Nat /\ Aligned(c.time, w)
  BY <1>1, <1>2, <1>3
<1>7. \A c, d \in A : c.time = d.time => c = d
  BY <1>2, <1>3
<1> QED
  BY <1>5, <1>6, <1>7 DEF Apart, A

\* Run has fed the buckets before the one under way.
LEMMA FedIs ==
    ASSUME NEW candles, Timed(candles), NEW w \in Nat \ {0}, NEW t \in Nat
    PROVE  /\ FedBy(candles, w, t) = InOrder(Before(candles, w, BucketStart(t, w)))
           /\ Before(candles, w, BucketStart(t, w))
                = {c \in Aggregate(candles, w) : c.time + w <= t}
<1> DEFINE S == Starts(candles, w)
           cut(s) == Aggregated(candles, Group(candles, s, w), s)
<1>1. \A s \in S : s + w <= t <=> s < BucketStart(t, w)
  BY StartsType, BucketOver
<1>2. \A s : cut(s).time = s
  BY DEF Aggregated
<1>3. Aggregate(candles, w) = {cut(s) : s \in S}
  BY DEF Aggregate, Starts
<1>4. Before(candles, w, BucketStart(t, w)) = {cut(s) : s \in {r \in S : r < BucketStart(t, w)}}
  BY DEF Before
<1> HIDE DEF S, cut
<1>5. Before(candles, w, BucketStart(t, w)) = {c \in Aggregate(candles, w) : c.time + w <= t}
  BY <1>1, <1>2, <1>3, <1>4
<1> QED
  BY <1>5 DEF FedBy

\* What is fed is in order, and over.
LEMMA FedSorted ==
    ASSUME NEW candles, Timed(candles), NEW w \in Nat \ {0}, NEW t \in Nat
    PROVE  /\ FedBy(candles, w, t) \in Seq(Aggregate(candles, w))
           /\ Ascending(FedBy(candles, w, t))
           /\ \A n \in 1..Len(FedBy(candles, w, t)) :
                 /\ FedBy(candles, w, t)[n] \in Aggregate(candles, w)
                 /\ FedBy(candles, w, t)[n].time \in Nat
                 /\ Aligned(FedBy(candles, w, t)[n].time, w)
                 /\ FedBy(candles, w, t)[n].time + w <= t
<1> DEFINE A == Aggregate(candles, w)
           B == {c \in A : c.time + w <= t}
<1>1. Apart(A) /\ \A c \in A : c.time \in Nat /\ Aligned(c.time, w)
  BY BucketsApart
<1>2. FedBy(candles, w, t) = InOrder(B)
  BY DEF FedBy
<1>3. B \in SUBSET A
  OBVIOUS
<1>4. \A c \in B : c \in A /\ c.time \in Nat /\ Aligned(c.time, w) /\ c.time + w <= t
  BY <1>1
<1> HIDE DEF A, B
<1>5. Apart(B)
  BY <1>1, <1>3, ApartParts
<1>6. InOrder(B) \in Seq(B) /\ Ascending(InOrder(B))
  BY <1>5, InOrderSorted
<1>7. InOrder(B) \in Seq(A)
  BY <1>3, <1>6
<1>8. \A n \in 1..Len(InOrder(B)) : InOrder(B)[n] \in B
  BY <1>6
<1> QED
  BY <1>2, <1>4, <1>6, <1>7, <1>8 DEF A

\* The bucket that a resampler holds after the candles fed to it.
Holds(bucket, candles, w) ==
    IF candles = <<>> THEN bucket = <<>>
    ELSE LET start == BucketStart(candles[Len(candles)].time, w)
         IN  \E b \in Candle :
                /\ bucket = <<b>>
                /\ MadeOf(b, candles, Group(candles, start, w), start)

Rising(candles) ==
    /\ candles \in Seq(Candle)
    /\ Ascending(candles)

\* One candle more: the bucket it joins or begins ...
LEMMA HoldsMore ==
    ASSUME NEW candles, Rising(candles), NEW c \in Candle, Rising(Append(candles, c)),
           NEW w \in Nat \ {0}, NEW bucket, Holds(bucket, candles, w)
    PROVE  Holds(Added(bucket, c, w), Append(candles, c), w)
<1> DEFINE more == Append(candles, c)
           last == Len(candles) + 1
           start == BucketStart(c.time, w)
<1>1. /\ candles \in Seq(Candle) /\ Len(candles) \in Nat /\ last \in Nat
      /\ DOMAIN candles = 1..Len(candles) /\ DOMAIN more = 1..last
      /\ Len(more) = last /\ more[last] = c
      /\ \A n \in 1..Len(candles) : more[n] = candles[n] /\ candles[n] \in Candle
      /\ more # <<>>
  BY AppendProperties DEF Rising
<1>2. start \in Nat
  BY BucketHolds DEF Candle
<1> HIDE DEF more, last, start
<1> DEFINE Goal == \E b \in Candle :
                      /\ Added(bucket, c, w) = <<b>>
                      /\ MadeOf(b, more, Group(more, start, w), start)
<1>3. SUFFICES Goal
  BY <1>1 DEF Holds, more, start
<1>4. Group(more, start, w) = Group(candles, start, w) \cup {last}
  BY <1>1 DEF Group, last, start
<1>5. ASSUME Group(candles, start, w) = {}, Added(bucket, c, w) = <<Opened(c, w)>>
      PROVE  Goal
  <2>1. Group(more, start, w) = {last}
    BY <1>4, <1>5
  <2>2. /\ Opened(c, w) \in Candle
        /\ MadeOf(Opened(c, w), more, {last}, BucketStart(c.time, w))
    BY <1>1, MadeOfOne
  <2> QED
    BY <1>5, <2>1, <2>2 DEF start
<1>6. CASE candles = <<>>
  <2>1. bucket = <<>>
    BY <1>6 DEF Holds
  <2>2. Group(candles, start, w) = {}
    BY <1>6 DEF Group
  <2> QED
    BY <1>5, <2>1, <2>2 DEF Added
<1>7. CASE candles # <<>>
  <2> DEFINE current == BucketStart(candles[Len(candles)].time, w)
  <2>1. PICK b \in Candle :
           /\ bucket = <<b>>
           /\ MadeOf(b, candles, Group(candles, current, w), current)
    BY <1>7 DEF Holds
  <2>2. b.time = current /\ bucket # <<>> /\ bucket[1] = b
    BY <2>1 DEF MadeOf
  <2>3. Len(candles) \in 1..Len(candles)
    BY <1>1, <1>7
  <2>4. CASE current = start
    <3>1. Added(bucket, c, w) = <<Extended(b, c)>>
      BY <2>2, <2>4 DEF Added, Crosses, start
    <3> DEFINE G == Group(candles, start, w)
    <3>2. /\ G \in SUBSET Nat
          /\ \A m \in G : candles[m] \in Candle /\ more[m] = candles[m] /\ m < last
      BY <1>1 DEF Group, last
    <3>3. MadeOf(b, candles, G, start)
      BY <2>1, <2>4
    <3> HIDE DEF G
    <3>4. /\ Extended(b, c) \in Candle
          /\ MadeOf(Extended(b, c), more, G \cup {last}, start)
      BY <1>1, <3>2, <3>3, MadeOfMore
    <3> QED
      BY <1>4, <3>1, <3>4 DEF G
  <2>5. CASE current # start
    <3>1. Added(bucket, c, w) = <<Opened(c, w)>>
      BY <2>2, <2>5 DEF Added, Crosses, start
    <3>2. Group(candles, start, w) = {}
      <4> SUFFICES ASSUME NEW n \in 1..Len(candles),
                          BucketStart(candles[n].time, w) = start
                   PROVE  FALSE
        BY <1>1 DEF Group
      <4> DEFINE x == candles[n].time
                 y == candles[Len(candles)].time
      <4>1. x \in Nat /\ y \in Nat /\ c.time \in Nat
        BY <1>1, <2>3 DEF Candle
      <4>2. x <= y
        BY <1>1, <2>3, <4>1 DEF Rising, Ascending
      <4>3. y < c.time
        <5>1. Len(candles) \in DOMAIN more /\ last \in DOMAIN more /\ Len(candles) < last
          BY <1>1, <2>3 DEF last
        <5>2. more[Len(candles)].time < more[last].time
          BY <5>1 DEF Rising, Ascending, more
        <5> QED
          BY <1>1, <2>3, <5>2
      <4> HIDE DEF x, y
      <4>4. BucketStart(x, w) <= BucketStart(y, w) /\ BucketStart(y, w) <= BucketStart(c.time, w)
        BY <4>1, <4>2, <4>3, BucketsInOrder
      <4>5. BucketStart(x, w) \in Nat /\ BucketStart(y, w) \in Nat
        BY <4>1, BucketHolds
      <4> QED
        BY <1>2, <2>5, <4>4, <4>5 DEF x, y, start
    <3> QED
      BY <1>5, <3>1, <3>2
  <2> QED
    BY <2>4, <2>5
<1> QED
  BY <1>6, <1>7

\* A bounded set of naturals has a greatest member.
LEMMA GreatestMember ==
    ASSUME NEW T \in SUBSET Nat, T # {}, NEW bound \in Nat, \A n \in T : n <= bound
    PROVE  \E n \in T : \A m \in T : m <= n
<1> DEFINE R == {bound - n : n \in T}
<1>1. R \in SUBSET Nat /\ R # {}
  <2>1. \A n \in T : bound - n \in Nat
    OBVIOUS
  <2> QED
    BY <2>1
<1> HIDE DEF R
<1>2. PICK r \in R : \A m \in R : r <= m
  BY <1>1, LeastMember
<1>3. PICK n \in T : r = bound - n
  BY <1>2 DEF R
<1>4. ASSUME NEW m \in T PROVE m <= n
  <2>1. r <= bound - m
    BY <1>2 DEF R
  <2> QED
    BY <1>3, <2>1
<1> QED
  BY <1>3, <1>4

\* The places of a bucket, which has a first and a last one.
Places(group) ==
    /\ group \in SUBSET Nat /\ group # {}
    /\ \E bound \in Nat : \A n \in group : n <= bound

\* A bucket depends on its own candles only.
LEMMA AggregatedSame ==
    ASSUME NEW group, Places(group),
           NEW candles, NEW other, \A n \in group : other[n] = candles[n],
           NEW start
    PROVE  Aggregated(other, group, start) = Aggregated(candles, group, start)
<1>1. Min(group) \in group
  <2>1. PICK n \in group : \A m \in group : n <= m
    BY LeastMember DEF Places
  <2> QED
    BY <2>1, MinIs DEF Places
<1>2. Max(group) \in group
  <2>1. PICK n \in group : \A m \in group : m <= n
    BY GreatestMember DEF Places
  <2> QED
    BY <2>1, MaxIs DEF Places
<1>3. /\ {other[n].high : n \in group} = {candles[n].high : n \in group}
      /\ {other[n].low : n \in group} = {candles[n].low : n \in group}
  OBVIOUS
<1> QED
  BY <1>1, <1>2, <1>3 DEF Aggregated

\* What is fed when the last of the candles is.
Fed(candles, w) ==
    IF candles = <<>> THEN <<>>
    ELSE FedBy(candles, w, candles[Len(candles)].time)

LEMMA RisingTimed ==
    ASSUME NEW candles, Rising(candles)
    PROVE  /\ Timed(candles) /\ Len(candles) \in Nat
           /\ DOMAIN candles = 1..Len(candles)
           /\ \A n \in 1..Len(candles) : candles[n] \in Candle /\ candles[n].time \in Nat
           /\ candles # <<>> => Len(candles) \in 1..Len(candles)
<1>1. /\ Len(candles) \in Nat /\ DOMAIN candles = 1..Len(candles)
      /\ \A n \in 1..Len(candles) : candles[n] \in Candle
      /\ candles # <<>> => Len(candles) \in 1..Len(candles)
  BY DEF Rising
<1>2. IsFiniteSet(1..Len(candles))
  BY <1>1, FS_Interval
<1> QED
  BY <1>1, <1>2 DEF Timed, Candle

\* No candle starts a bucket after the last one's.
LEMMA StartsOrdered ==
    ASSUME NEW candles, Rising(candles), candles # <<>>, NEW w \in Nat \ {0}
    PROVE  \A s \in Starts(candles, w) :
              s <= BucketStart(candles[Len(candles)].time, w)
<1>1. ASSUME NEW n \in 1..Len(candles)
      PROVE  BucketStart(candles[n].time, w)
                <= BucketStart(candles[Len(candles)].time, w)
  <2>1. /\ candles[n].time \in Nat /\ candles[Len(candles)].time \in Nat
        /\ Len(candles) \in Nat /\ Len(candles) \in DOMAIN candles /\ n \in DOMAIN candles
    BY RisingTimed
  <2>2. candles[n].time <= candles[Len(candles)].time
    BY <2>1 DEF Rising, Ascending
  <2> QED
    BY <2>1, <2>2, BucketsInOrder
<1> QED
  BY <1>1, RisingTimed DEF Starts

\* ... and what the resampler returns is what the backtest feeds next.
LEMMA FedMore ==
    ASSUME NEW candles, Rising(candles), NEW c \in Candle, Rising(Append(candles, c)),
           NEW w \in Nat \ {0}, NEW bucket, Holds(bucket, candles, w)
    PROVE  Fed(Append(candles, c), w) = Fed(candles, w) \o Emitted(bucket, c, w)
<1> DEFINE more == Append(candles, c)
           end == BucketStart(c.time, w)
           cut(s) == Aggregated(candles, Group(candles, s, w), s)
<1>1. /\ Len(candles) \in Nat /\ Len(more) = Len(candles) + 1
      /\ DOMAIN candles = 1..Len(candles) /\ DOMAIN more = 1..(Len(candles) + 1)
      /\ more[Len(candles) + 1] = c /\ more # <<>>
      /\ \A n \in 1..Len(candles) : more[n] = candles[n]
      /\ Timed(candles) /\ Timed(more) /\ c.time \in Nat
  <2>1. candles \in Seq(Candle)
    BY DEF Rising
  <2>2. Timed(candles) /\ Timed(more)
    BY RisingTimed
  <2>3. c.time \in Nat
    BY DEF Candle
  <2>4. /\ Len(candles) \in Nat /\ DOMAIN candles = 1..Len(candles)
        /\ Len(more) = Len(candles) + 1 /\ more \in Seq(Candle)
        /\ more[Len(candles) + 1] = c
        /\ \A n \in 1..Len(candles) : more[n] = candles[n]
    BY <2>1, AppendProperties
  <2> HIDE DEF more
  <2>5. DOMAIN more = 1..(Len(candles) + 1) /\ more # <<>>
    BY <2>4
  <2> QED
    BY <2>2, <2>3, <2>4, <2>5
<1>2. end \in Nat
  BY <1>1, BucketHolds
<1>3. Fed(more, w) = InOrder(Before(more, w, end))
  BY <1>1, FedIs DEF Fed
<1> HIDE DEF more, end
<1>4. Starts(more, w) = Starts(candles, w) \cup {end}
  BY <1>1 DEF Starts, end
<1>5. ASSUME NEW s \in Starts(candles, w), s < end
      PROVE  Aggregated(more, Group(more, s, w), s) = cut(s)
  <2> DEFINE G == Group(candles, s, w)
  <2>1. s \in Nat /\ s # end
    BY <1>1, <1>2, <1>5, StartsType
  <2>2. Group(more, s, w) = G
    BY <1>1, <2>1 DEF Group, end
  <2>3. G \in SUBSET Nat /\ G # {} /\ \A n \in G : n <= Len(candles) /\ more[n] = candles[n]
    BY <1>1 DEF Group, Starts
  <2> HIDE DEF G
  <2>4. Places(G) /\ \A n \in G : more[n] = candles[n]
    BY <1>1, <2>3 DEF Places
  <2>5. Aggregated(more, G, s) = Aggregated(candles, G, s)
    BY <2>4, AggregatedSame
  <2> QED
    BY <2>2, <2>5 DEF G
<1>6. Before(more, w, end) = {cut(s) : s \in {r \in Starts(candles, w) : r < end}}
  <2>1. ~(end < end)
    BY <1>2
  <2> HIDE DEF cut
  <2>2. Before(more, w, end)
          = {Aggregated(more, Group(more, s, w), s) : s \in {r \in Starts(candles, w) : r < end}}
    BY <1>4, <2>1 DEF Before
  <2> QED
    BY <1>5, <2>2
<1>7. CASE candles = <<>>
  <2>1. Starts(candles, w) = {}
    BY <1>7 DEF Starts
  <2>2. Before(more, w, end) = {}
    BY <1>6, <2>1
  <2>3. InOrder({}) = <<>>
    <3>1. Apart({}) /\ Cardinality({}) = 0
      BY FS_EmptySet DEF Apart
    <3>2. InOrder({}) \in Seq({}) /\ Len(InOrder({})) = 0
      BY <3>1, InOrderSorted
    <3> QED
      BY <3>2
  <2>4. Fed(candles, w) = <<>> /\ bucket = <<>>
    BY <1>7 DEF Fed, Holds
  <2>5. Emitted(bucket, c, w) = <<>>
    BY <2>4 DEF Emitted, Crosses
  <2> QED
    BY <1>3, <2>2, <2>3, <2>4, <2>5 DEF more
<1>8. CASE candles # <<>>
  <2> DEFINE t == candles[Len(candles)].time
             current == BucketStart(t, w)
             S == Before(candles, w, current)
  <2>1. PICK b \in Candle :
           /\ bucket = <<b>>
           /\ MadeOf(b, candles, Group(candles, current, w), current)
    BY <1>8 DEF Holds
  <2>2. b.time = current /\ bucket # <<>> /\ bucket[1] = b
    BY <2>1 DEF MadeOf
  <2>3. Len(candles) \in DOMAIN candles /\ t \in Nat
    BY <1>1, <1>8, RisingTimed
  <2>4. current \in Nat /\ current \in Starts(candles, w)
    BY <2>3, BucketHolds DEF Starts
  <2>5. \A s \in Starts(candles, w) : s \in Nat /\ s <= current
    BY <1>1, <1>8, StartsOrdered, StartsType
  <2>6. Fed(candles, w) = InOrder(S) /\ S = {x \in Aggregate(candles, w) : x.time + w <= t}
    BY <1>1, <1>8, <2>3, FedIs DEF Fed
  <2>7. S = {cut(s) : s \in {r \in Starts(candles, w) : r < current}}
    BY DEF Before
  <2>8. Apart(S)
    BY <1>1, <2>6, BucketsApart, ApartParts
  <2> HIDE DEF S, current, cut
  <2>9. CASE current = end
    <3>1. Emitted(bucket, c, w) = <<>>
      BY <2>2, <2>9 DEF Emitted, Crosses, end
    <3>2. Before(more, w, end) = S
      BY <1>6, <2>7, <2>9
    <3>3. InOrder(S) \in Seq(S)
      BY <2>8, InOrderSorted
    <3> QED
      BY <1>3, <2>6, <3>1, <3>2, <3>3 DEF more
  <2>10. CASE current # end
    <3>1. Emitted(bucket, c, w) = <<b>>
      BY <2>1, <2>2, <2>10 DEF Emitted, Crosses, end
    <3>2. current < end
      <4>1. t < c.time
        <5>1. Len(candles) \in DOMAIN more /\ Len(candles) + 1 \in DOMAIN more
          BY <1>1, <2>3
        <5>2. more[Len(candles)].time < more[Len(candles) + 1].time
          BY <1>1, <5>1 DEF Rising, Ascending, more
        <5> QED
          BY <1>1, <2>3, <5>2
      <4>2. current <= end
        BY <1>1, <2>3, <4>1, BucketsInOrder DEF current, end
      <4> QED
        BY <1>2, <2>4, <2>10, <4>2
    <3>3. Before(more, w, end) = S \cup {cut(current)}
      <4>1. {r \in Starts(candles, w) : r < end}
              = {r \in Starts(candles, w) : r < current} \cup {current}
        <5>1. \A r \in Starts(candles, w) : r < end /\ (r < current \/ r = current)
          BY <1>2, <2>4, <2>5, <3>2
        <5> QED
          BY <2>4, <5>1
      <4> QED
        BY <1>6, <2>7, <4>1
    <3>4. cut(current) = b
      <4> DEFINE G == Group(candles, current, w)
      <4>1. G \in SUBSET Nat /\ \A n \in G : candles[n] \in Candle
        BY <1>1, RisingTimed DEF Group
      <4>2. MadeOf(b, candles, G, current)
        BY <2>1 DEF current
      <4> HIDE DEF G
      <4>3. Aggregated(candles, G, current) = b
        BY <4>1, <4>2, AggregatedIs
      <4> QED
        BY <4>3 DEF G, cut
    <3>5. IsFiniteSet(S) /\ \A d \in S : d.time \in Nat /\ d.time < b.time
      <4>1. \A s : cut(s).time = s
        BY DEF cut, Aggregated
      <4>2. \A d \in S : d.time < current
        BY <2>7, <4>1
      <4> QED
        BY <2>2, <2>8, <4>2 DEF Apart, current
    <3>6. /\ Cardinality(S) \in Nat
          /\ InOrder(S \cup {b})
               = [n \in 1..(Cardinality(S) + 1) |->
                     IF n = Cardinality(S) + 1 THEN b ELSE InOrder(S)[n]]
      <4>1. b.time \in Nat
        BY DEF Candle
      <4> QED
        BY <3>5, <4>1, InOrderAppend
    <3>7. InOrder(S) \in Seq(S) /\ Len(InOrder(S)) = Cardinality(S)
      BY <2>8, InOrderSorted
    <3>8. InOrder(S \cup {b}) = InOrder(S) \o <<b>>
      <4> DEFINE f == InOrder(S)
                 k == Cardinality(S)
      <4>1. f \in Seq(S) /\ Len(f) = k /\ k \in Nat
        BY <3>6, <3>7
      <4> HIDE DEF f, k
      <4>2. f \o <<b>> = [n \in 1..(k + 1) |-> IF n = k + 1 THEN b ELSE f[n]]
        BY <4>1
      <4> QED
        BY <3>6, <4>2 DEF f, k
    <3> QED
      BY <1>3, <2>6, <3>1, <3>3, <3>4, <3>8 DEF more
  <2> QED
    BY <2>9, <2>10
<1> QED
  BY <1>7, <1>8

\* ---- Rolling windows ------------------------------------------------------

\* A deque keeps the last MaxLen of what was appended ...
LEMMA WindowIs ==
    ASSUME NEW A, NEW s \in Seq(A)
    PROVE  /\ Window(s) \in Seq(A)
           /\ Len(Window(s)) = IF Len(s) <= MaxLen THEN Len(s) ELSE MaxLen
           /\ \A n \in 1..Len(Window(s)) :
                 /\ n + (Len(s) - Len(Window(s))) \in 1..Len(s)
                 /\ Window(s)[n] = s[n + (Len(s) - Len(Window(s)))]
<1>1. MaxLen \in Nat \ {0} /\ Len(s) \in Nat
  BY FeedAssumption DEF FeedAssumption
<1>2. CASE Len(s) <= MaxLen
  BY <1>1, <1>2 DEF Window
<1>3. CASE ~(Len(s) <= MaxLen)
  <2> DEFINE m == Len(s) - MaxLen + 1
             t == SubSeq(s, m, Len(s))
  <2>1. m \in 1..Len(s) /\ Len(s) - m + 1 = MaxLen
    BY <1>1, <1>3
  <2>2. Window(s) = t
    BY <1>3 DEF Window
  <2> HIDE DEF m
  <2>3. /\ t \in Seq(A) /\ Len(t) = MaxLen
        /\ \A n \in 1..MaxLen : t[n] = s[m + n - 1]
    BY <1>1, <2>1
  <2> HIDE DEF t
  <2>4. ASSUME NEW n \in 1..MaxLen
        PROVE  /\ n + (Len(s) - MaxLen) \in 1..Len(s)
               /\ t[n] = s[n + (Len(s) - MaxLen)]
    <3>1. m + n - 1 = n + (Len(s) - MaxLen) /\ n + (Len(s) - MaxLen) \in 1..Len(s)
      BY <1>1, <1>3 DEF m
    <3> QED
      BY <2>3, <3>1
  <2> QED
    BY <1>3, <2>2, <2>3, <2>4
<1> QED
  BY <1>2, <1>3

LEMMA SameSequence ==
    ASSUME NEW A, NEW B, NEW s \in Seq(A), NEW t \in Seq(B), Len(s) = Len(t),
           \A n \in 1..Len(s) : s[n] = t[n]
    PROVE  s = t
OBVIOUS

\* What fell out of a window does not come back.
LEMMA WindowMore ==
    ASSUME NEW A, NEW s \in Seq(A), NEW e \in Seq(A)
    PROVE  Window(Window(s) \o e) = Window(s \o e)
<1> DEFINE v == Window(s)
           x == v \o e
           y == s \o e
           d == Len(s) - Len(v)
<1>1. /\ v \in Seq(A) /\ Len(v) = IF Len(s) <= MaxLen THEN Len(s) ELSE MaxLen
      /\ \A n \in 1..Len(v) : n + d \in 1..Len(s) /\ v[n] = s[n + d]
  BY WindowIs
<1>2. MaxLen \in Nat \ {0} /\ Len(s) \in Nat /\ Len(v) \in Nat /\ Len(e) \in Nat
  BY <1>1, FeedAssumption DEF FeedAssumption
<1>3. d \in Nat /\ Len(s) = Len(v) + d
  BY <1>1, <1>2
<1> HIDE DEF v
<1>4. /\ x \in Seq(A) /\ Len(x) = Len(v) + Len(e)
      /\ \A n \in 1..Len(x) : x[n] = IF n <= Len(v) THEN v[n] ELSE e[n - Len(v)]
  <2>1. v \in Seq(A)
    BY <1>1
  <2> QED
    BY <2>1
<1>5. /\ y \in Seq(A) /\ Len(y) = Len(s) + Len(e)
      /\ \A n \in 1..Len(y) : y[n] = IF n <= Len(s) THEN s[n] ELSE e[n - Len(s)]
  BY <1>2
<1> HIDE DEF x, y, d
<1>6. ASSUME NEW n \in 1..Len(x)
      PROVE  n + d \in 1..Len(y) /\ x[n] = y[n + d]
  <2>1. n + d \in 1..Len(y) /\ n \in Nat
    BY <1>2, <1>3, <1>4, <1>5
  <2>2. CASE n <= Len(v)
    <3>1. n \in 1..Len(v) /\ n + d <= Len(s)
      BY <1>2, <1>3, <2>1, <2>2
    <3> QED
      BY <1>1, <1>4, <1>5, <2>1, <2>2, <3>1
  <2>3. CASE ~(n <= Len(v))
    <3>1. ~(n + d <= Len(s)) /\ n - Len(v) = (n + d) - Len(s)
      BY <1>2, <1>3, <2>1, <2>3
    <3> QED
      BY <1>4, <1>5, <2>1, <2>3, <3>1
  <2> QED
    BY <2>2, <2>3
<1> DEFINE p == Window(x)
           q == Window(y)
           dp == Len(x) - Len(p)
           dq == Len(y) - Len(q)
<1>7. /\ p \in Seq(A) /\ Len(p) = IF Len(x) <= MaxLen THEN Len(x) ELSE MaxLen
      /\ \A n \in 1..Len(p) : n + dp \in 1..Len(x) /\ p[n] = x[n + dp]
  BY <1>4, WindowIs
<1>8. /\ q \in Seq(A) /\ Len(q) = IF Len(y) <= MaxLen THEN Len(y) ELSE MaxLen
      /\ \A n \in 1..Len(q) : n + dq \in 1..Len(y) /\ q[n] = y[n + dq]
  BY <1>5, WindowIs
<1>9. Len(x) \in Nat /\ Len(y) \in Nat /\ Len(p) \in Nat /\ Len(q) \in Nat
  BY <1>4, <1>5, <1>7, <1>8
<1> HIDE DEF p, q
<1>10. Len(p) = Len(q) /\ dq = dp + d /\ dp \in Nat /\ dq \in Nat
  <2>1. Len(s) <= MaxLen \/ Len(v) = MaxLen
    BY <1>1
  <2>2. Len(s) <= MaxLen => d = 0
    BY <1>1, <1>2, <1>3
  <2>3. Len(x) + d = Len(y)
    BY <1>2, <1>3, <1>4, <1>5
  <2>4. Len(v) = MaxLen => Len(x) >= MaxLen
    BY <1>2, <1>4
  <2>5. (Len(x) <= MaxLen => Len(p) = Len(x)) /\ (~(Len(x) <= MaxLen) => Len(p) = MaxLen)
    BY <1>7
  <2>6. (Len(y) <= MaxLen => Len(q) = Len(y)) /\ (~(Len(y) <= MaxLen) => Len(q) = MaxLen)
    BY <1>8
  <2> QED
    BY <1>2, <1>3, <1>9, <2>1, <2>2, <2>3, <2>4, <2>5, <2>6
<1> HIDE DEF dp, dq
<1>11. ASSUME NEW n \in 1..Len(p) PROVE p[n] = q[n]
  <2>1. n + dp \in 1..Len(x) /\ p[n] = x[n + dp]
    BY <1>7
  <2>2. x[n + dp] = y[(n + dp) + d]
    BY <1>6, <2>1
  <2>3. (n + dp) + d = n + dq
    BY <1>3, <1>10
  <2>4. q[n] = y[n + dq]
    BY <1>8, <1>10
  <2> QED
    BY <2>1, <2>2, <2>3, <2>4
<1>12. p = q
  BY <1>7, <1>8, <1>10, <1>11, SameSequence
<1> QED
  BY <1>12 DEF p, q, x, y, v

LEMMA WindowAscending ==
    ASSUME NEW A, NEW s \in Seq(A), Ascending(s)
    PROVE  Ascending(Window(s))
<1> DEFINE v == Window(s)
           d == Len(s) - Len(v)
<1>1. /\ v \in Seq(A) /\ Len(s) \in Nat
      /\ \A n \in 1..Len(v) : n + d \in 1..Len(s) /\ v[n] = s[n + d]
  BY WindowIs
<1>2. Len(v) \in Nat /\ DOMAIN v = 1..Len(v) /\ DOMAIN s = 1..Len(s)
  BY <1>1
<1> HIDE DEF v
<1>3. ASSUME NEW m \in 1..Len(v), NEW n \in 1..Len(v), m < n
      PROVE  v[m].time < v[n].time
  <2>1. m + d < n + d
    BY <1>1, <1>2, <1>3
  <2>2. m + d \in DOMAIN s /\ n + d \in DOMAIN s
    BY <1>1, <1>2
  <2>3. s[m + d].time < s[n + d].time
    BY <2>1, <2>2 DEF Ascending
  <2> QED
    BY <1>1, <2>3
<1> QED
  BY <1>2, <1>3 DEF Ascending, v

LEMMA JoinedAscending ==
    ASSUME NEW A, NEW s \in Seq(A), NEW t \in Seq(A), Ascending(s), Ascending(t),
           \A m \in 1..Len(s), n \in 1..Len(t) : s[m].time < t[n].time
    PROVE  s \o t \in Seq(A) /\ Ascending(s \o t)
<1> DEFINE y == s \o t
<1>1. /\ y \in Seq(A) /\ Len(y) = Len(s) + Len(t)
      /\ Len(s) \in Nat /\ Len(t) \in Nat
      /\ DOMAIN s = 1..Len(s) /\ DOMAIN t = 1..Len(t) /\ DOMAIN y = 1..(Len(s) + Len(t))
      /\ \A n \in 1..(Len(s) + Len(t)) :
            y[n] = IF n <= Len(s) THEN s[n] ELSE t[n - Len(s)]
  OBVIOUS
<1> HIDE DEF y
<1>2. ASSUME NEW m \in 1..(Len(s) + Len(t)), NEW n \in 1..(Len(s) + Len(t)), m < n
      PROVE  y[m].time < y[n].time
  <2>1. CASE n <= Len(s)
    <3>1. m \in 1..Len(s) /\ n \in 1..Len(s) /\ m <= Len(s)
      BY <1>1, <1>2, <2>1
    <3>2. s[m].time < s[n].time
      BY <1>1, <1>2, <3>1 DEF Ascending
    <3> QED
      BY <1>1, <2>1, <3>1, <3>2
  <2>2. CASE ~(n <= Len(s))
    <3>1. n - Len(s) \in 1..Len(t) /\ y[n] = t[n - Len(s)]
      BY <1>1, <2>2
    <3>2. CASE m <= Len(s)
      <4>1. m \in 1..Len(s) /\ y[m] = s[m]
        BY <1>1, <3>2
      <4> QED
        BY <3>1, <4>1
    <3>3. CASE ~(m <= Len(s))
      <4>1. m - Len(s) \in 1..Len(t) /\ y[m] = t[m - Len(s)]
        BY <1>1, <3>3
      <4>2. m - Len(s) < n - Len(s)
        BY <1>1, <1>2
      <4>3. t[m - Len(s)].time < t[n - Len(s)].time
        BY <1>1, <3>1, <4>1, <4>2 DEF Ascending
      <4> QED
        BY <3>1, <4>1, <4>3
    <3> QED
      BY <3>2, <3>3
  <2> QED
    BY <2>1, <2>2
<1>3. Ascending(y)
  BY <1>1, <1>2 DEF Ascending
<1> QED
  BY <1>1, <1>3 DEF y

\* ---- The stream -----------------------------------------------------------

Tick == [instrument : Instruments, at : Nat, price : Int, by : Nat]

StreamInv ==
    /\ now \in Nat /\ connection \in Nat /\ connections \in Nat
    /\ connection <= connections
    /\ quotes \in Seq(Tick)
    /\ \A n \in 1..Len(quotes) : quotes[n].at <= now /\ quotes[n].by <= connections
    /\ \A m, n \in 1..Len(quotes) : m <= n => quotes[m].at <= quotes[n].at

\* The ticks of i in the minute that came over the connection k.
InMinute(i, k, minute) == {n \in Over(i, k) : quotes[n].at = minute}

OfMinute(i, k, c) == MadeOf(c, Ticks(Of(i)), InMinute(i, k, c.time), c.time)

\* The aggregator of i holds the last minute of the connection.
AggregatorHolds(i) ==
    IF Over(i, connection) = {} THEN agg[i] = <<>>
    ELSE /\ agg[i] = <<agg[i][1]>> /\ agg[i][1] \in Candle
         /\ OfMinute(i, connection, agg[i][1])
         /\ \A n \in Over(i, connection) : quotes[n].at <= agg[i][1].time

\* What it emitted are whole minutes, the aggregator's is a later one.
Emissions(i) ==
    /\ Rising(live[i])
    /\ \A n \in 1..Len(live[i]) :
          /\ live[i][n].time < now
          /\ \E k \in 1..connections : OfMinute(i, k, live[i][n])
    /\ connection # 0 /\ agg[i] # <<>>
         => \A n \in 1..Len(live[i]) : live[i][n].time < agg[i][1].time

FeedInv ==
    /\ DOMAIN agg = Instruments /\ DOMAIN live = Instruments
    /\ connection # 0 => \A i \in Instruments : AggregatorHolds(i)
    /\ \A i \in Instruments : Emissions(i)

\* ---- The market state -----------------------------------------------------

Loaded(i, tf, since) ==
    /\ warm[i][tf] \in Seq(Aggregate(Ticks(Of(i)), tf))
    /\ Ascending(warm[i][tf])
    /\ \A n \in 1..Len(warm[i][tf]) :
          /\ warm[i][tf][n].time \in Nat /\ Aligned(warm[i][tf][n].time, tf)
          /\ warm[i][tf][n].time + tf <= since

Streamed(i, tf) == IF tf = 1 THEN live[i] ELSE Fed(live[i], tf)

MarketInv ==
    /\ DOMAIN resampled = Instruments /\ DOMAIN series = Instruments
    /\ \A i \in Instruments : \A w \in Widths : Holds(resampled[i][w], live[i], w)
    /\ \A i \in Instruments : \A tf \in Timeframes :
          series[i][tf] = Window(warm[i][tf] \o Streamed(i, tf))

\* What the warm-up brought was over at the last boot, when the stream began.
WarmInv ==
    \E since \in 0..now : \A i \in Instruments :
        /\ \A tf \in Timeframes : Loaded(i, tf, since)
        /\ \A n \in 1..Len(live[i]) : since <= live[i][n].time
        /\ connection # 0 /\ agg[i] # <<>> => since <= agg[i][1].time

\* ---- What is not torn -----------------------------------------------------

\* Every minute of the connection k but its last was emitted.
Covered(i, k) ==
    \A m, n \in Over(i, k) : quotes[m].at < quotes[n].at
       => \E x \in 1..Len(live[i]) :
             live[i][x].time = quotes[m].at /\ OfMinute(i, k, live[i][x])

\* So it is for the connections since the last boot, old being those before.
CoverInv ==
    \E old \in 0..connections :
        /\ connection # 0 => old < connection
        /\ \A i \in Instruments :
              /\ \A n \in 1..Len(live[i]) :
                    \E k \in (old + 1)..connections : OfMinute(i, k, live[i][n])
              /\ \A k \in (old + 1)..connections : Covered(i, k)

\* ---- One tick -------------------------------------------------------------

Told(j, price) ==
    /\ quotes' = Append(quotes, [instrument |-> j, at |-> now, price |-> price,
                                 by |-> connection])
    /\ UNCHANGED <<now, connection, connections>>

Place == Len(quotes) + 1

\* What a tick changes: the list of ticks ...
LEMMA ToldTicks ==
    ASSUME StreamInv, NEW j \in Instruments, NEW price \in Prices, Told(j, price)
    PROVE  /\ Len(quotes) \in Nat /\ DOMAIN quotes = 1..Len(quotes)
           /\ quotes' \in Seq(Tick) /\ Len(quotes') = Place
           /\ DOMAIN quotes' = 1..Place
           /\ \A n \in 1..Len(quotes) : quotes'[n] = quotes[n]
           /\ quotes'[Place] = [instrument |-> j, at |-> now, price |-> price,
                                by |-> connection]
<1> DEFINE tick == [instrument |-> j, at |-> now, price |-> price, by |-> connection]
<1>1. tick \in Tick
  BY FeedAssumption DEF StreamInv, Tick, FeedAssumption
<1>2. quotes \in Seq(Tick) /\ quotes' = Append(quotes, tick)
  BY DEF StreamInv, Told
<1> HIDE DEF tick
<1>3. /\ Len(quotes) \in Nat /\ DOMAIN quotes = 1..Len(quotes)
      /\ quotes' \in Seq(Tick) /\ Len(quotes') = Place
      /\ \A n \in 1..Len(quotes) : quotes'[n] = quotes[n]
      /\ quotes'[Place] = tick
  BY <1>1, <1>2, AppendProperties DEF Place
<1> QED
  BY <1>3 DEF tick

\* The bounds of what was quoted.
LEMMA StreamType ==
    ASSUME StreamInv
    PROVE  /\ Len(quotes) \in Nat /\ DOMAIN quotes = 1..Len(quotes)
           /\ \A n \in 1..Len(quotes) :
                 /\ quotes[n].at \in Nat /\ quotes[n].by \in Nat
                 /\ quotes[n].price \in Int /\ quotes[n].instrument \in Instruments
                 /\ quotes[n].at <= now /\ quotes[n].by <= connections
           /\ \A i, k : Over(i, k) \subseteq Of(i)
           /\ \A i : Of(i) \subseteq 1..Len(quotes)
<1>1. quotes \in Seq(Tick)
  BY DEF StreamInv
<1>2. /\ Len(quotes) \in Nat /\ DOMAIN quotes = 1..Len(quotes)
      /\ \A n \in 1..Len(quotes) : quotes[n] \in Tick
  BY <1>1
<1>3. \A n \in 1..Len(quotes) : quotes[n].at <= now /\ quotes[n].by <= connections
  BY DEF StreamInv
<1> QED
  BY <1>2, <1>3 DEF Tick, Of, Over

\* ... and the places of the pair, the connection and the minute.
LEMMA ToldPlaces ==
    ASSUME StreamInv, NEW j \in Instruments, NEW price \in Prices, Told(j, price)
    PROVE  /\ \A i : Of(i)' = IF i = j THEN Of(i) \cup {Place} ELSE Of(i)
           /\ \A i, k : Over(i, k)' = IF i = j /\ k = connection
                                      THEN Over(i, k) \cup {Place} ELSE Over(i, k)
           /\ \A i, k, minute :
                 InMinute(i, k, minute)'
                   = IF i = j /\ k = connection /\ minute = now
                     THEN InMinute(i, k, minute) \cup {Place} ELSE InMinute(i, k, minute)
<1>1. /\ Len(quotes) \in Nat /\ DOMAIN quotes = 1..Len(quotes)
      /\ DOMAIN quotes' = 1..(Len(quotes) + 1)
      /\ \A n \in 1..Len(quotes) : quotes'[n] = quotes[n]
      /\ quotes'[Place].instrument = j /\ quotes'[Place].at = now
      /\ quotes'[Place].by = connection
  <2>1. quotes'[Place] = [instrument |-> j, at |-> now, price |-> price, by |-> connection]
    BY ToldTicks
  <2>2. /\ Len(quotes) \in Nat /\ DOMAIN quotes = 1..Len(quotes)
        /\ DOMAIN quotes' = 1..Place
        /\ \A n \in 1..Len(quotes) : quotes'[n] = quotes[n]
    BY ToldTicks
  <2> QED
    BY <2>1, <2>2 DEF Place
<1>2. DOMAIN quotes' = DOMAIN quotes \cup {Place} /\ Place \notin DOMAIN quotes
  BY <1>1 DEF Place
<1>3. \A n \in DOMAIN quotes : quotes'[n] = quotes[n]
  BY <1>1
<1>4. \A i : Of(i)' = IF i = j THEN Of(i) \cup {Place} ELSE Of(i)
  BY <1>1, <1>2, <1>3 DEF Of
<1>5. \A i : Of(i) \subseteq DOMAIN quotes
  BY DEF Of
<1>6. \A i, k : Over(i, k)' = IF i = j /\ k = connection
                              THEN Over(i, k) \cup {Place} ELSE Over(i, k)
  BY <1>1, <1>2, <1>3, <1>4, <1>5 DEF Over
<1>7. \A i, k : Over(i, k) \subseteq DOMAIN quotes
  BY <1>5 DEF Over
<1>8. \A i, k, minute :
         InMinute(i, k, minute)'
           = IF i = j /\ k = connection /\ minute = now
             THEN InMinute(i, k, minute) \cup {Place} ELSE InMinute(i, k, minute)
  BY <1>1, <1>2, <1>3, <1>6, <1>7 DEF InMinute
<1> QED
  BY <1>4, <1>6, <1>8

\* A minute that gets no tick stays what it was.
LEMMA MinuteKept ==
    ASSUME StreamInv, NEW j \in Instruments, NEW price \in Prices, Told(j, price),
           NEW i \in Instruments, NEW k, NEW c, OfMinute(i, k, c),
           ~(i = j /\ k = connection /\ c.time = now)
    PROVE  OfMinute(i, k, c)'
<1> DEFINE G == InMinute(i, k, c.time)
           T == Ticks(Of(i))
           U == Ticks(Of(i))'
<1>1. InMinute(i, k, c.time)' = G
  BY ToldPlaces
<1>2. G \subseteq Of(i) /\ Of(i) \subseteq 1..Len(quotes)
  BY StreamType DEF InMinute
<1>3. \A n \in G : U[n] = T[n]
  <2>1. \A n \in G : quotes'[n] = quotes[n] /\ n \in Of(i) /\ n \in Of(i)'
    BY <1>2, ToldTicks, ToldPlaces
  <2> QED
    BY <2>1 DEF Ticks
<1>4. MadeOf(c, T, G, c.time)
  BY DEF OfMinute
<1> HIDE DEF G, T, U
<1>5. MadeOf(c, U, G, c.time)
  BY <1>3, <1>4, MadeOfSame
<1> QED
  BY <1>1, <1>5 DEF OfMinute, U

LEMMA MinutesSame ==
    ASSUME quotes' = quotes, NEW i, NEW k, NEW c, OfMinute(i, k, c)
    PROVE  OfMinute(i, k, c)'
BY DEF OfMinute, Ticks, InMinute, Over, Of

\* A minute with a candle had a tick, and is not in the future.
LEMMA MinutePast ==
    ASSUME StreamInv, NEW i, NEW k, NEW c, OfMinute(i, k, c)
    PROVE  /\ c.time \in Nat /\ c.time <= now
           /\ InMinute(i, k, c.time) # {} /\ Over(i, k) # {}
<1>1. PICK n \in InMinute(i, k, c.time) : TRUE
  BY DEF OfMinute, MadeOf
<1>2. n \in Over(i, k) /\ quotes[n].at = c.time /\ n \in 1..Len(quotes)
  BY <1>1, StreamType DEF InMinute
<1> QED
  BY <1>1, <1>2, StreamType

\* What the aggregator of j does with the tick.
LEMMA TickAdded ==
    ASSUME StreamInv, NEW j \in Instruments, NEW price \in Prices, Told(j, price),
           AggregatorHolds(j), connection # 0
    PROVE  LET tick == PriceCandle(now, price)
               b == agg[j][1]
               more == Added(agg[j], tick, 1)
           IN  /\ more = <<more[1]>> /\ more[1] \in Candle
               /\ MadeOf(more[1], Ticks(Of(j))', InMinute(j, connection, now)', now)
               /\ more[1].time = now
               /\ \/ agg[j] = <<>> /\ Emitted(agg[j], tick, 1) = <<>>
                  \/ agg[j] # <<>> /\ b.time = now /\ Emitted(agg[j], tick, 1) = <<>>
                  \/ agg[j] # <<>> /\ b.time < now /\ Emitted(agg[j], tick, 1) = <<b>>
<1> DEFINE tick == PriceCandle(now, price)
           b == agg[j][1]
           T == Ticks(Of(j))
           U == Ticks(Of(j))'
           G == InMinute(j, connection, now)
           open == Opened(tick, 1)
<1>1. now \in Nat /\ price \in Int
  BY FeedAssumption DEF StreamInv, FeedAssumption
<1>2. tick \in Candle /\ tick.time = now /\ BucketStart(tick.time, 1) = now
  BY <1>1, MinuteBucket DEF PriceCandle, Candle
<1>3. InMinute(j, connection, now)' = G \cup {Place}
  BY ToldPlaces DEF Told
<1>4. /\ G \subseteq Of(j) /\ Of(j) \subseteq 1..Len(quotes) /\ Len(quotes) \in Nat
  BY StreamType DEF InMinute
<1>5. Place \in Nat /\ Place \in Of(j)' /\ \A n \in G : n < Place /\ n \in Nat
  BY <1>4, ToldPlaces DEF Place
<1>6. U[Place] = tick
  <2>1. quotes'[Place].at = now /\ quotes'[Place].price = price
    <3>1. quotes'[Place] = [instrument |-> j, at |-> now, price |-> price,
                            by |-> connection]
      BY ToldTicks
    <3> QED
      BY <3>1
  <2>2. U[Place] = PriceCandle(quotes'[Place].at, quotes'[Place].price)
    BY <1>5 DEF Ticks
  <2> QED
    BY <2>1, <2>2
<1>7. \A n \in G : U[n] = T[n] /\ T[n] \in Candle
  <2>1. \A n \in G : quotes'[n] = quotes[n] /\ n \in Of(j) /\ n \in Of(j)'
    BY <1>4, ToldTicks, ToldPlaces
  <2>2. \A n \in G : quotes[n].at \in Nat /\ quotes[n].price \in Int
    BY <1>4, StreamType
  <2> QED
    BY <2>1, <2>2 DEF Ticks, PriceCandle, Candle
<1>8. open.time = now
  BY <1>2 DEF Opened
<1> HIDE DEF G, T, U, tick, open, b
<1>9. ASSUME G = {}
      PROVE  open \in Candle /\ MadeOf(open, U, G \cup {Place}, now)
  <2>1. open \in Candle /\ MadeOf(open, U, {Place}, BucketStart(tick.time, 1))
    BY <1>2, <1>5, <1>6, MadeOfOne DEF open
  <2> QED
    BY <1>2, <1>9, <2>1
<1>10. CASE Over(j, connection) = {}
  <2>1. agg[j] = <<>> /\ G = {}
    BY <1>10 DEF AggregatorHolds, G, InMinute
  <2>2. Added(agg[j], tick, 1) = <<open>> /\ Emitted(agg[j], tick, 1) = <<>>
    BY <2>1 DEF Added, Emitted, Crosses, open
  <2> QED
    BY <1>3, <1>8, <1>9, <2>1, <2>2 DEF U, tick
<1>11. CASE Over(j, connection) # {}
  <2>1. /\ agg[j] = <<b>> /\ agg[j] # <<>> /\ b \in Candle
        /\ OfMinute(j, connection, b)
        /\ \A n \in Over(j, connection) : quotes[n].at <= b.time
    BY <1>11 DEF AggregatorHolds, b
  <2>2. b.time \in Nat /\ b.time <= now
    BY <2>1, MinutePast
  <2>3. CASE b.time = now
    <3> DEFINE e == Extended(b, tick)
    <3>1. Added(agg[j], tick, 1) = <<e>> /\ Emitted(agg[j], tick, 1) = <<>>
      BY <1>2, <2>1, <2>3 DEF Added, Emitted, Crosses, b
    <3>2. MadeOf(b, T, G, now)
      BY <2>1, <2>3 DEF OfMinute, T, G
    <3>3. e \in Candle /\ MadeOf(e, U, G \cup {Place}, now)
      <4>1. /\ \A n \in G : T[n] \in Candle
            /\ \A n \in G : U[n] = T[n]
            /\ \A n \in G : n < Place
            /\ G \in SUBSET Nat
        BY <1>5, <1>7
      <4> QED
        BY <1>2, <1>5, <1>6, <2>1, <3>2, <4>1, MadeOfMore
    <3>4. e.time = now
      BY <2>3 DEF Extended
    <3> HIDE DEF e
    <3> QED
      BY <1>3, <2>1, <2>3, <3>1, <3>3, <3>4 DEF U, tick, b
  <2>4. CASE b.time # now
    <3>1. Added(agg[j], tick, 1) = <<open>> /\ Emitted(agg[j], tick, 1) = <<b>>
      BY <1>2, <2>1, <2>4 DEF Added, Emitted, Crosses, open, b
    <3>2. b.time < now
      BY <1>1, <2>2, <2>4
    <3>3. G = {}
      <4> SUFFICES ASSUME NEW n \in G PROVE FALSE
        OBVIOUS
      <4>1. n \in Over(j, connection) /\ quotes[n].at = now
        BY DEF G, InMinute
      <4> QED
        BY <1>1, <2>1, <2>2, <3>2, <4>1
    <3> QED
      BY <1>3, <1>8, <1>9, <2>1, <3>1, <3>2, <3>3 DEF U, tick, b
  <2> QED
    BY <2>3, <2>4
<1> QED
  BY <1>10, <1>11

\* ---- The steps of the stream ----------------------------------------------

\* The stream brings a tick of j ...
Streams(j, price) ==
    /\ Told(j, price) /\ connection # 0 /\ UNCHANGED warm
    /\ agg' = [agg EXCEPT ![j] = Added(agg[j], PriceCandle(now, price), 1)]

\* ... within the minute under way, or closing the minute b.
Joins(j, price) ==
    /\ Streams(j, price) /\ UNCHANGED market
    /\ agg[j] = <<>> \/ agg[j][1].time = now

Closes(j, price, b) ==
    /\ Streams(j, price) /\ Processed(j, b)
    /\ agg[j] = <<b>> /\ b \in Candle /\ b.time < now

\* A tick that no connection hears, the clock, the end of a connection.
Passes ==
    /\ \/ quotes' = quotes
       \/ \E j \in Instruments : \E price \in Prices : Told(j, price) /\ connection = 0
    /\ now' \in Nat /\ now <= now' /\ connections' = connections
    /\ connection' = connection \/ connection' = 0
    /\ UNCHANGED <<agg, market, warm>>

\* Every step is one of these.
LEMMA FeedMoves ==
    ASSUME StreamInv, FeedInv, [Next]_vars
    PROVE  \/ \E j \in Instruments : \E price \in Prices : Joins(j, price)
           \/ \E j \in Instruments : \E price \in Prices : \E b : Closes(j, price, b)
           \/ Passes \/ Connect \/ Restart
<1> USE DEF StreamInv
<1>1. ASSUME NEW j \in Instruments, NEW price \in Prices, Quote(j, price)
      PROVE  Joins(j, price) \/ (\E b : Closes(j, price, b)) \/ Passes
  <2>1. Told(j, price) /\ UNCHANGED <<warm, connection, connections, now>>
    BY <1>1 DEF Quote, Told
  <2>2. CASE connection = 0
    BY <1>1, <2>1, <2>2 DEF Quote, Passes, market
  <2>3. CASE connection # 0
    <3> DEFINE tick == PriceCandle(now, price)
               b == agg[j][1]
    <3>1. AggregatorHolds(j)
      BY <2>3 DEF FeedInv
    <3>2. \/ agg[j] = <<>> /\ Emitted(agg[j], tick, 1) = <<>>
          \/ agg[j] # <<>> /\ b.time = now /\ Emitted(agg[j], tick, 1) = <<>>
          \/ agg[j] # <<>> /\ b.time < now /\ Emitted(agg[j], tick, 1) = <<b>>
      BY <2>1, <2>3, <3>1, TickAdded
    <3>3. agg[j] # <<>> => agg[j] = <<b>> /\ b \in Candle
      BY <3>1 DEF AggregatorHolds
    <3>4. Received(j, price)
      BY <1>1, <2>3 DEF Quote
    <3>5. Streams(j, price)
      BY <2>1, <2>3, <3>4 DEF Received, Streams
    <3> HIDE DEF tick, b
    <3>6. Emitted(agg[j], tick, 1) = <<>> => UNCHANGED market
      BY <3>4 DEF Received, tick
    <3>7. Emitted(agg[j], tick, 1) = <<b>> => Processed(j, b)
      <4>1. SUFFICES ASSUME Emitted(agg[j], tick, 1) = <<b>> PROVE Processed(j, b)
        OBVIOUS
      <4>2. <<b>> # <<>> /\ <<b>>[1] = b
        OBVIOUS
      <4> QED
        BY <3>4, <4>1, <4>2 DEF Received, tick
    <3> QED
      BY <3>2, <3>3, <3>5, <3>6, <3>7 DEF Joins, Closes, b
  <2> QED
    BY <2>2, <2>3
<1>2. CASE Minute
  BY <1>2 DEF Minute, Passes, stream
<1>3. CASE Disconnect
  BY <1>3 DEF Disconnect, Passes
<1>4. CASE UNCHANGED vars
  BY <1>4 DEF vars, stream, Passes
<1> QED
  BY <1>1, <1>2, <1>3, <1>4 DEF Next

\* The clock, the connections and the ticks keep their order.
LEMMA StreamStep ==
    ASSUME StreamInv, [Next]_vars
    PROVE  StreamInv'
<1>1. ASSUME NEW j \in Instruments, NEW price \in Prices, Told(j, price)
      PROVE  StreamInv'
  <2>1. /\ Len(quotes) \in Nat /\ quotes' \in Seq(Tick) /\ Len(quotes') = Place
        /\ \A n \in 1..Len(quotes) : quotes'[n] = quotes[n]
        /\ quotes'[Place] = [instrument |-> j, at |-> now, price |-> price,
                             by |-> connection]
    BY <1>1, ToldTicks
  <2>2. quotes'[Place].at = now /\ quotes'[Place].by = connection
    BY <2>1
  <2>3. /\ now' = now /\ connection' = connection /\ connections' = connections
        /\ now \in Nat /\ connection \in Nat /\ connections \in Nat
        /\ connection <= connections
    BY <1>1 DEF Told, StreamInv
  <2>4. ASSUME NEW n \in 1..Len(quotes')
        PROVE  quotes'[n].at <= now /\ quotes'[n].by <= connections
    <3>1. n \in 1..Len(quotes) \/ n = Place
      BY <2>1 DEF Place
    <3> QED
      BY <2>1, <2>2, <2>3, <3>1 DEF StreamInv
  <2>5. ASSUME NEW m \in 1..Len(quotes'), NEW n \in 1..Len(quotes'), m <= n
        PROVE  quotes'[m].at <= quotes'[n].at
    <3>1. CASE n = Place
      BY <2>2, <2>4, <3>1
    <3>2. CASE n # Place
      <4>1. m \in 1..Len(quotes) /\ n \in 1..Len(quotes)
        BY <2>1, <2>5, <3>2 DEF Place
      <4>2. quotes[m].at <= quotes[n].at
        BY <2>5, <4>1 DEF StreamInv
      <4> QED
        BY <2>1, <4>1, <4>2
    <3> QED
      BY <3>1, <3>2
  <2> QED
    BY <2>1, <2>3, <2>4, <2>5 DEF StreamInv
<1>2. CASE Minute
  BY <1>2, StreamType DEF Minute, stream, StreamInv
<1>3. CASE Connect
  BY <1>3, StreamType DEF Connect, StreamInv
<1>4. CASE Disconnect \/ Restart
  BY <1>4 DEF Disconnect, Restart, StreamInv
<1>5. CASE UNCHANGED vars
  BY <1>5 DEF vars, stream, StreamInv
<1> QED
  BY <1>1, <1>2, <1>3, <1>4, <1>5 DEF Next, Quote, Told

\* After the tick every aggregator holds its minute again.
LEMMA TickHeld ==
    ASSUME StreamInv, StreamInv', FeedInv, NEW j \in Instruments,
           NEW price \in Prices, Streams(j, price)
    PROVE  /\ DOMAIN agg' = Instruments
           /\ \A i \in Instruments : AggregatorHolds(i)'
           /\ agg'[j] # <<>> /\ agg'[j][1].time = now
           /\ \A i \in Instruments \ {j} : agg'[i] = agg[i]
<1> DEFINE more == Added(agg[j], PriceCandle(now, price), 1)
<1>1. /\ Told(j, price) /\ connection # 0 /\ connection' = connection /\ now' = now
      /\ AggregatorHolds(j)
  BY DEF Streams, Told, FeedInv
<1>2. /\ more = <<more[1]>> /\ more[1] \in Candle
      /\ MadeOf(more[1], Ticks(Of(j))', InMinute(j, connection, now)', now)
      /\ more[1].time = now
  BY <1>1, TickAdded
<1>3. /\ DOMAIN agg' = Instruments /\ agg'[j] = more
      /\ \A i \in Instruments \ {j} : agg'[i] = agg[i]
  BY DEF Streams, FeedInv
<1> HIDE DEF more
<1>4. more # <<>>
  <2>1. \A x : <<x>> # <<>>
    OBVIOUS
  <2> QED
    BY <1>2, <2>1
<1>5. AggregatorHolds(j)'
  <2>1. Place \in Over(j, connection)'
    BY <1>1, ToldPlaces DEF Told
  <2>2. \A n \in Over(j, connection)' : quotes'[n].at <= now
    <3>1. \A n \in 1..Len(quotes') : quotes'[n].at <= now
      BY <1>1 DEF StreamInv
    <3>2. Over(j, connection)' \subseteq DOMAIN quotes'
      BY DEF Over, Of
    <3>3. DOMAIN quotes' = 1..Len(quotes')
      BY <1>1, ToldTicks
    <3> QED
      BY <3>1, <3>2, <3>3
  <2>3. agg'[j] = <<more[1]>> /\ agg'[j][1] = more[1]
    BY <1>2, <1>3
  <2>4. OfMinute(j, connection, agg[j][1])'
    BY <1>1, <1>2, <2>3 DEF OfMinute
  <2> QED
    BY <1>2, <2>1, <2>2, <2>3, <2>4 DEF AggregatorHolds
<1>6. ASSUME NEW i \in Instruments \ {j}
      PROVE  AggregatorHolds(i)'
  <2>1. agg'[i] = agg[i] /\ AggregatorHolds(i)
    BY <1>1, <1>3 DEF FeedInv
  <2>2. Over(i, connection)' = Over(i, connection)
    BY <1>1, ToldPlaces DEF Told
  <2>3. CASE Over(i, connection) = {}
    BY <2>1, <2>2, <2>3 DEF AggregatorHolds
  <2>4. CASE Over(i, connection) # {}
    <3> DEFINE c == agg[i][1]
    <3>1. /\ agg[i] = <<c>> /\ c \in Candle /\ OfMinute(i, connection, c)
          /\ \A n \in Over(i, connection) : quotes[n].at <= c.time
      BY <2>1, <2>4 DEF AggregatorHolds
    <3>2. PICK d : d = c
      OBVIOUS
    <3>3. PICK k : k = connection
      OBVIOUS
    <3>4. OfMinute(i, k, d)'
      <4>1. OfMinute(i, k, d)
        BY <3>1, <3>2, <3>3
      <4> HIDE DEF c
      <4> QED
        BY <1>1, <4>1, MinuteKept
    <3>5. OfMinute(i, connection, agg[i][1])'
      BY <1>1, <2>1, <3>2, <3>3, <3>4 DEF OfMinute
    <3>6. \A n \in Over(i, connection)' : quotes'[n].at <= agg'[i][1].time
      <4>1. \A n \in Over(i, connection) : quotes'[n] = quotes[n]
        BY <1>1, StreamType, ToldTicks
      <4> QED
        BY <2>1, <2>2, <3>1, <4>1
    <3> QED
      BY <2>1, <2>2, <2>4, <3>1, <3>5, <3>6 DEF AggregatorHolds
  <2> QED
    BY <2>3, <2>4
<1> QED
  BY <1>2, <1>3, <1>4, <1>5, <1>6

\* No step makes a candle of two connections, or of half a minute.
LEMMA FeedStep ==
    ASSUME StreamInv, StreamInv', FeedInv, [Next]_vars
    PROVE  FeedInv'
<1> USE DEF FeedInv
<1>0. /\ now \in Nat /\ connection \in Nat /\ connections \in Nat
      /\ connection <= connections
      /\ \A i \in Instruments : Emissions(i)
  BY DEF StreamInv
<1>1. ASSUME NEW j \in Instruments, NEW price \in Prices, Told(j, price),
             NEW i \in Instruments,
             NEW c \in Candle, c.time < now, \E k \in 1..connections : OfMinute(i, k, c)
      PROVE  \E k \in 1..connections' : OfMinute(i, k, c)'
  <2>1. PICK k \in 1..connections : OfMinute(i, k, c)
    BY <1>1
  <2>2. c.time # now /\ connections' = connections
    BY <1>0, <1>1 DEF Told, Candle
  <2>3. OfMinute(i, k, c)'
    BY <1>1, <2>1, <2>2, MinuteKept
  <2> QED
    BY <2>1, <2>2, <2>3
<1>2. ASSUME NEW j \in Instruments, NEW price \in Prices, Joins(j, price)
      PROVE  FeedInv'
  <2>1. /\ DOMAIN agg' = Instruments /\ \A i \in Instruments : AggregatorHolds(i)'
        /\ agg'[j][1].time = now
        /\ \A i \in Instruments \ {j} : agg'[i] = agg[i]
    BY <1>2, TickHeld DEF Joins
  <2>2. /\ Told(j, price) /\ live' = live /\ now' = now
        /\ connection # 0 /\ connection' = connection
    BY <1>2 DEF Joins, Streams, Told, market
  <2>3. ASSUME NEW i \in Instruments PROVE Emissions(i)'
    <3>1. /\ Rising(live[i])
          /\ \A n \in 1..Len(live[i]) :
                /\ live[i][n] \in Candle /\ live[i][n].time < now
                /\ \E k \in 1..connections : OfMinute(i, k, live[i][n])
      BY <1>0, RisingTimed DEF Emissions
    <3>2. ASSUME NEW n \in 1..Len(live[i])
          PROVE  \E k \in 1..connections' : OfMinute(i, k, live[i][n])'
      <4>1. PICK c \in Candle : c = live[i][n]
        BY <3>1
      <4>2. \E k \in 1..connections' : OfMinute(i, k, c)'
        BY <1>1, <2>2, <3>1, <4>1
      <4> QED
        BY <2>2, <4>1, <4>2 DEF OfMinute
    <3>3. ASSUME NEW n \in 1..Len(live[i]), agg'[i] # <<>>
          PROVE  live[i][n].time < agg'[i][1].time
      <4>1. CASE i = j
        BY <2>1, <3>1, <4>1
      <4>2. CASE i # j
        BY <1>0, <2>1, <2>2, <3>3, <4>2 DEF Emissions
      <4> QED
        BY <4>1, <4>2
    <3> QED
      BY <2>2, <3>1, <3>2, <3>3 DEF Emissions
  <2>4. DOMAIN live' = Instruments
    BY <2>2
  <2> QED
    BY <2>1, <2>3, <2>4
<1>3. ASSUME NEW j \in Instruments, NEW price \in Prices, NEW b, Closes(j, price, b)
      PROVE  FeedInv'
  <2>1. /\ DOMAIN agg' = Instruments /\ \A i \in Instruments : AggregatorHolds(i)'
        /\ agg'[j][1].time = now
        /\ \A i \in Instruments \ {j} : agg'[i] = agg[i]
    BY <1>3, TickHeld DEF Closes
  <2>2. /\ Told(j, price) /\ live' = [live EXCEPT ![j] = Append(@, b)] /\ now' = now
        /\ connection # 0 /\ connection' = connection
        /\ agg[j] = <<b>> /\ b \in Candle /\ b.time < now
    BY <1>3 DEF Closes, Streams, Told, Processed
  <2>3. DOMAIN live' = Instruments /\ live'[j] = Append(live[j], b)
        /\ \A i \in Instruments \ {j} : live'[i] = live[i]
    BY <2>2
  <2>4. ASSUME NEW i \in Instruments
        PROVE  /\ Rising(live[i]) /\ live[i] \in Seq(Candle) /\ Len(live[i]) \in Nat
               /\ \A n \in 1..Len(live[i]) :
                     /\ live[i][n] \in Candle /\ live[i][n].time < now
                     /\ \E k \in 1..connections : OfMinute(i, k, live[i][n])
               /\ agg[i] # <<>> => \A n \in 1..Len(live[i]) :
                                     live[i][n].time < agg[i][1].time
    BY <1>0, <2>2, RisingTimed DEF Emissions, Rising
  <2>5. ASSUME NEW i \in Instruments \ {j} PROVE Emissions(i)'
    <3>1. ASSUME NEW n \in 1..Len(live[i])
          PROVE  \E k \in 1..connections' : OfMinute(i, k, live[i][n])'
      <4>1. PICK c \in Candle : c = live[i][n]
        BY <2>4
      <4>2. \E k \in 1..connections' : OfMinute(i, k, c)'
        BY <1>1, <2>2, <2>4, <4>1
      <4> QED
        BY <2>3, <4>1, <4>2 DEF OfMinute
    <3> QED
      BY <2>1, <2>2, <2>3, <2>4, <3>1 DEF Emissions
  <2>6. Emissions(j)'
    <3> DEFINE L == Len(live[j])
               more == Append(live[j], b)
    <3>1. /\ L \in Nat /\ more \in Seq(Candle) /\ Len(more) = L + 1
          /\ more[L + 1] = b /\ DOMAIN more = 1..(L + 1) /\ DOMAIN live[j] = 1..L
          /\ \A n \in 1..L : more[n] = live[j][n]
      <4>1. live[j] \in Seq(Candle)
        BY <2>4
      <4>2. b \in Candle
        BY <2>2
      <4> QED
        BY <4>1, <4>2, AppendProperties
    <3>2. \A n \in 1..L : live[j][n].time < b.time
      <4>1. agg[j] # <<>> /\ agg[j][1] = b
        BY <2>2
      <4> QED
        BY <2>4, <4>1
    <3> HIDE DEF more, L
    <3>3. \A n \in 1..(L + 1) : n \in 1..L \/ n = L + 1
      BY <3>1
    <3>4. Ascending(more)
      <4> SUFFICES ASSUME NEW m \in 1..(L + 1), NEW n \in 1..(L + 1), m < n
                   PROVE  more[m].time < more[n].time
        BY <3>1 DEF Ascending
      <4>1. m \in 1..L
        BY <3>1
      <4>2. CASE n \in 1..L
        <5>1. live[j][m].time < live[j][n].time
          BY <2>4, <3>1, <4>1, <4>2 DEF Rising, Ascending
        <5> QED
          BY <3>1, <4>1, <4>2, <5>1
      <4>3. CASE n = L + 1
        BY <3>1, <3>2, <4>1, <4>3
      <4> QED
        BY <3>3, <4>2, <4>3
    <3>5. Rising(more)
      BY <3>1, <3>4 DEF Rising
    <3>6. \A n \in 1..(L + 1) : more[n] \in Candle /\ more[n].time < now
      BY <2>2, <2>4, <3>1, <3>3 DEF L
    <3>7. \E k \in 1..connections : OfMinute(j, k, b)
      <4>1. agg[j] # <<>> /\ agg[j][1] = b /\ AggregatorHolds(j)
        BY <2>2
      <4>2. OfMinute(j, connection, b)
        BY <4>1 DEF AggregatorHolds
      <4>3. connection \in 1..connections
        BY <1>0, <2>2
      <4> QED
        BY <4>2, <4>3
    <3>8. ASSUME NEW n \in 1..(L + 1)
          PROVE  \E k \in 1..connections' : OfMinute(j, k, live[j][n])'
      <4>1. PICK c \in Candle : c = more[n]
        BY <3>6
      <4>2. \E k \in 1..connections : OfMinute(j, k, c)
        BY <2>4, <3>1, <3>3, <3>7, <4>1 DEF L
      <4>3. \E k \in 1..connections' : OfMinute(j, k, c)'
        BY <1>1, <2>2, <3>6, <4>1, <4>2
      <4>4. live'[j][n] = c
        BY <2>3, <4>1 DEF more
      <4> QED
        BY <4>3, <4>4 DEF OfMinute
    <3> QED
      BY <2>1, <2>2, <2>3, <3>1, <3>5, <3>6, <3>8 DEF Emissions, more
  <2> QED
    BY <2>1, <2>3, <2>5, <2>6
<1>4. CASE Passes
  <2>1. /\ UNCHANGED <<agg, live>> /\ connections' = connections
        /\ connection' = connection \/ connection' = 0
        /\ now' \in Nat /\ now <= now'
    BY <1>4 DEF Passes, market
  <2>2. ASSUME NEW i \in Instruments, connection' # 0
        PROVE  AggregatorHolds(i)'
    <3>1. connection' = connection /\ quotes' = quotes
      BY <1>4, <2>1, <2>2 DEF Passes, Told
    <3>2. AggregatorHolds(i)
      BY <2>2, <3>1
    <3> QED
      BY <2>1, <3>1, <3>2 DEF AggregatorHolds, OfMinute, Over, Of, Ticks, InMinute
  <2>3. ASSUME NEW i \in Instruments PROVE Emissions(i)'
    <3>1. /\ Rising(live[i])
          /\ \A n \in 1..Len(live[i]) :
                /\ live[i][n] \in Candle /\ live[i][n].time < now /\ live[i][n].time \in Nat
                /\ \E k \in 1..connections : OfMinute(i, k, live[i][n])
      BY <1>0, RisingTimed DEF Emissions
    <3>2. ASSUME NEW n \in 1..Len(live[i])
          PROVE  \E k \in 1..connections' : OfMinute(i, k, live[i][n])'
      <4>1. PICK c \in Candle : c = live[i][n]
        BY <3>1
      <4>2. PICK k \in 1..connections : OfMinute(i, k, c)
        BY <3>1, <4>1
      <4>3. OfMinute(i, k, c)'
        <5>1. CASE quotes' = quotes
          BY <4>2, <5>1, MinutesSame
        <5>2. ASSUME NEW j \in Instruments, NEW price \in Prices, Told(j, price),
                     connection = 0
              PROVE  OfMinute(i, k, c)'
          BY <4>2, <5>2, MinuteKept
        <5> QED
          BY <1>4, <5>1, <5>2 DEF Passes
      <4> QED
        BY <2>1, <4>1, <4>3 DEF OfMinute
    <3>3. \A n \in 1..Len(live[i]) : live[i][n].time < now'
      BY <1>0, <2>1, <3>1
    <3> QED
      BY <1>0, <2>1, <3>1, <3>2, <3>3 DEF Emissions
  <2> QED
    BY <2>1, <2>2, <2>3
<1>5. CASE Connect
  <2>1. /\ connection' = connections + 1 /\ connections' = connections + 1
        /\ agg' = NoBuckets /\ quotes' = quotes /\ live' = live /\ now' = now
    BY <1>5 DEF Connect, market
  <2>2. ASSUME NEW i \in Instruments PROVE AggregatorHolds(i)'
    <3>1. Over(i, connections + 1) = {}
      BY <1>0, StreamType DEF Over
    <3>2. Over(i, connection)' = {}
      BY <2>1, <3>1 DEF Over, Of
    <3> QED
      BY <2>1, <3>2 DEF AggregatorHolds, NoBuckets
  <2>3. ASSUME NEW i \in Instruments PROVE Emissions(i)'
    <3>1. /\ Rising(live[i])
          /\ \A n \in 1..Len(live[i]) :
                /\ live[i][n] \in Candle /\ live[i][n].time < now
                /\ \E k \in 1..connections : OfMinute(i, k, live[i][n])
      BY <1>0, RisingTimed DEF Emissions
    <3>2. ASSUME NEW n \in 1..Len(live[i])
          PROVE  \E k \in 1..connections' : OfMinute(i, k, live[i][n])'
      <4>1. PICK k \in 1..connections : OfMinute(i, k, live[i][n])
        BY <3>1
      <4>2. k \in 1..connections'
        BY <1>0, <2>1
      <4>3. OfMinute(i, k, live[i][n])'
        BY <2>1, <4>1 DEF OfMinute, Ticks, InMinute, Over, Of
      <4> QED
        BY <4>2, <4>3
    <3>3. agg'[i] = <<>>
      BY <2>1 DEF NoBuckets
    <3> QED
      BY <2>1, <3>1, <3>2, <3>3 DEF Emissions
  <2> QED
    BY <2>1, <2>2, <2>3 DEF NoBuckets
<1>6. CASE Restart
  <2>1. connection' = 0 /\ agg' = NoBuckets /\ live' = NoBuckets
    BY <1>6 DEF Restart
  <2>2. Rising(<<>>) /\ Len(<<>>) = 0
    BY DEF Rising, Ascending
  <2>3. ASSUME NEW i \in Instruments PROVE Emissions(i)'
    <3>1. live'[i] = <<>>
      BY <2>1 DEF NoBuckets
    <3> QED
      BY <2>1, <2>2, <3>1 DEF Emissions
  <2> QED
    BY <2>1, <2>3 DEF NoBuckets
<1> QED
  BY <1>2, <1>3, <1>4, <1>5, <1>6, FeedMoves

\* ---- The steps of the market ----------------------------------------------

\* A timeframe is one minute or a width.
LEMMA TimeframeType ==
    /\ \A tf \in Timeframes : tf \in Nat \ {0}
    /\ \A w \in Widths : w \in Nat \ {0} /\ w # 1 /\ w \in Timeframes
    /\ \A tf \in Timeframes : tf = 1 \/ tf \in Widths
BY FeedAssumption DEF FeedAssumption, Timeframes

LEMMA TicksTimed ==
    ASSUME StreamInv, NEW i
    PROVE  Timed(Ticks(Of(i)))
<1> DEFINE D == Of(i)
           T == Ticks(D)
<1>1. D \subseteq 1..Len(quotes) /\ Len(quotes) \in Nat
  BY StreamType
<1>2. \A n \in D : quotes[n].at \in Nat
  BY <1>1, StreamType
<1>3. IsFiniteSet(D)
  <2> HIDE DEF D
  <2>1. IsFiniteSet(1..Len(quotes))
    BY <1>1, FS_Interval
  <2> QED
    BY <1>1, <2>1, FS_Subset
<1>4. DOMAIN T = D /\ \A n \in D : T[n].time \in Nat
  BY <1>2 DEF Ticks, PriceCandle
<1> QED
  BY <1>3, <1>4 DEF Timed

LEMMA StreamedType ==
    ASSUME NEW i, Rising(live[i]), NEW tf \in Timeframes
    PROVE  \E A : Streamed(i, tf) \in Seq(A)
<1>1. CASE tf = 1
  BY <1>1 DEF Streamed, Rising
<1>2. CASE tf # 1 /\ live[i] = <<>>
  <2>1. <<>> \in Seq({})
    OBVIOUS
  <2> QED
    BY <1>2, <2>1 DEF Streamed, Fed
<1>3. CASE tf # 1 /\ live[i] # <<>>
  <2>1. Timed(live[i]) /\ live[i][Len(live[i])].time \in Nat
    BY <1>3, RisingTimed
  <2>2. FedBy(live[i], tf, live[i][Len(live[i])].time) \in Seq(Aggregate(live[i], tf))
    BY <2>1, FedSorted, TimeframeType
  <2> QED
    BY <1>3, <2>2 DEF Streamed, Fed
<1> QED
  BY <1>1, <1>2, <1>3

\* What comes to a window of what was loaded and streamed.
LEMMA SeriesMore ==
    ASSUME NEW A, NEW B, NEW C, NEW loaded \in Seq(A), NEW str \in Seq(B), NEW e \in Seq(C)
    PROVE  Window(Window(loaded \o str) \o e) = Window(loaded \o (str \o e))
<1> DEFINE D == A \cup B \cup C
<1>1. loaded \in Seq(D) /\ str \in Seq(D) /\ e \in Seq(D)
  OBVIOUS
<1> HIDE DEF D
<1>2. loaded \o str \in Seq(D)
  BY <1>1
<1>3. (loaded \o str) \o e = loaded \o (str \o e)
  BY <1>1
<1>4. Window(Window(loaded \o str) \o e) = Window((loaded \o str) \o e)
  BY <1>1, <1>2, WindowMore
<1> QED
  BY <1>3, <1>4

\* The resamplers and the windows follow the minutes of the stream.
LEMMA MarketStep ==
    ASSUME StreamInv, FeedInv, FeedInv', MarketInv, WarmInv, [Next]_vars
    PROVE  MarketInv'
<1>1. ASSUME UNCHANGED <<market, warm>>
      PROVE  MarketInv'
  BY <1>1 DEF market, MarketInv, Streamed
<1>2. ASSUME NEW j \in Instruments, NEW price \in Prices, NEW b, Closes(j, price, b)
      PROVE  MarketInv'
  <2>1. /\ b \in Candle /\ warm' = warm
        /\ live' = [live EXCEPT ![j] = Append(@, b)]
        /\ resampled' = [resampled EXCEPT ![j] =
                            [w \in Widths |-> Added(resampled[j][w], b, w)]]
        /\ series' = [series EXCEPT ![j] =
              [tf \in Timeframes |->
                  Window(series[j][tf] \o
                         (IF tf = 1 THEN <<b>> ELSE Emitted(resampled[j][tf], b, tf)))]]
        /\ DOMAIN live = Instruments /\ DOMAIN resampled = Instruments
        /\ DOMAIN series = Instruments
    BY <1>2 DEF Closes, Streams, Processed, FeedInv, MarketInv
  <2>2. /\ live'[j] = Append(live[j], b)
        /\ \A w \in Widths : resampled'[j][w] = Added(resampled[j][w], b, w)
        /\ \A i \in Instruments \ {j} :
              /\ live'[i] = live[i] /\ resampled'[i] = resampled[i]
              /\ series'[i] = series[i]
        /\ DOMAIN resampled' = Instruments /\ DOMAIN series' = Instruments
    BY <2>1
  <2>3. \A tf \in Timeframes :
           series'[j][tf] = Window(series[j][tf] \o
                (IF tf = 1 THEN <<b>> ELSE Emitted(resampled[j][tf], b, tf)))
    BY <2>1
  <2>4. Rising(live[j]) /\ Rising(Append(live[j], b))
    <3>1. Rising(live[j])
      BY DEF FeedInv, Emissions
    <3>2. Rising(live'[j])
      BY DEF FeedInv, Emissions
    <3> QED
      BY <2>2, <3>1, <3>2
  <2>5. \A w \in Widths : Holds(resampled[j][w], live[j], w)
    BY DEF MarketInv
  <2>6. ASSUME NEW i \in Instruments, NEW w \in Widths
        PROVE  Holds(resampled'[i][w], live'[i], w)
    <3>1. CASE i = j
      <4>1. Holds(Added(resampled[j][w], b, w), Append(live[j], b), w)
        BY <2>1, <2>4, <2>5, HoldsMore, TimeframeType
      <4> QED
        BY <2>2, <3>1, <4>1
    <3>2. CASE i # j
      BY <2>2, <3>2 DEF MarketInv
    <3> QED
      BY <3>1, <3>2
  <2>7. ASSUME NEW i \in Instruments, NEW tf \in Timeframes
        PROVE  series'[i][tf] = Window(warm'[i][tf] \o Streamed(i, tf)')
    <3>1. CASE i # j
      <4>1. Streamed(i, tf)' = Streamed(i, tf)
        BY <2>2, <3>1 DEF Streamed
      <4> QED
        BY <2>1, <2>2, <3>1, <4>1 DEF MarketInv
    <3>2. CASE i = j
      <4> DEFINE e == IF tf = 1 THEN <<b>> ELSE Emitted(resampled[j][tf], b, tf)
                 str == Streamed(j, tf)
                 loaded == warm[j][tf]
      <4>1. Streamed(j, tf)' = str \o e
        <5>1. CASE tf = 1
          <6>1. live[j] \in Seq(Candle)
            BY <2>4 DEF Rising
          <6>2. Append(live[j], b) = live[j] \o <<b>>
            BY <2>1, <6>1
          <6> QED
            BY <2>2, <5>1, <6>2 DEF Streamed
        <5>2. CASE tf # 1
          <6>1. tf \in Widths /\ tf \in Nat \ {0}
            BY <5>2, TimeframeType
          <6>2. Fed(Append(live[j], b), tf)
                  = Fed(live[j], tf) \o Emitted(resampled[j][tf], b, tf)
            BY <2>1, <2>4, <2>5, <6>1, FedMore
          <6> QED
            BY <2>2, <5>2, <6>2 DEF Streamed
        <5> QED
          BY <5>1, <5>2
      <4>2. e \in Seq(Candle)
        <5>1. CASE tf = 1
          BY <2>1, <5>1
        <5>2. CASE tf # 1
          <6>1. Holds(resampled[j][tf], live[j], tf)
            BY <2>5, <5>2, TimeframeType
          <6>2. resampled[j][tf] = <<>> \/ \E c \in Candle : resampled[j][tf] = <<c>>
            BY <6>1 DEF Holds
          <6>3. <<>> \in Seq(Candle) /\ \A c \in Candle : <<c>> \in Seq(Candle)
            OBVIOUS
          <6> QED
            BY <5>2, <6>2, <6>3 DEF Emitted
        <5> QED
          BY <5>1, <5>2
      <4>3. PICK B : str \in Seq(B)
        BY <2>4, StreamedType
      <4>4. PICK A : loaded \in Seq(A)
        BY DEF WarmInv, Loaded
      <4>5. series[j][tf] = Window(loaded \o str)
        BY DEF MarketInv
      <4>6. series'[j][tf] = Window(series[j][tf] \o e)
        BY <2>3
      <4> HIDE DEF e, str, loaded
      <4>7. Window(Window(loaded \o str) \o e) = Window(loaded \o (str \o e))
        BY <4>2, <4>3, <4>4, SeriesMore
      <4> QED
        BY <2>1, <3>2, <4>1, <4>5, <4>6, <4>7 DEF loaded
    <3> QED
      BY <3>1, <3>2
  <2> QED
    BY <2>2, <2>6, <2>7 DEF MarketInv
<1>3. CASE Restart
  <2>1. /\ live' = NoBuckets /\ resampled' = NoResampled
        /\ series' = [i \in Instruments |-> [tf \in Timeframes |-> Window(warm'[i][tf])]]
    BY <1>3 DEF Restart
  <2>2. PICK loaded \in SUBSET (Instruments \X Timeframes) :
           warm' = [i \in Instruments |-> [tf \in Timeframes |->
                      IF <<i, tf>> \in loaded THEN History(i, tf) ELSE <<>>]]
    BY <1>3 DEF Restart
  <2>3. ASSUME NEW i \in Instruments, NEW tf \in Timeframes
        PROVE  series'[i][tf] = Window(warm'[i][tf] \o Streamed(i, tf)')
    <3>1. Streamed(i, tf)' = <<>>
      BY <2>1 DEF Streamed, Fed, NoBuckets
    <3>2. \E A : warm'[i][tf] \in Seq(A)
      <4>1. History(i, tf) \in Seq(Aggregate(Ticks(Of(i)), tf))
        <5>1. now \in Nat
          BY DEF StreamInv
        <5> QED
          BY <5>1, TicksTimed, FedSorted, TimeframeType DEF History
      <4>2. <<>> \in Seq({})
        OBVIOUS
      <4>3. warm'[i][tf] = IF <<i, tf>> \in loaded THEN History(i, tf) ELSE <<>>
        BY <2>2
      <4> QED
        BY <4>1, <4>2, <4>3
    <3>3. warm'[i][tf] \o <<>> = warm'[i][tf]
      BY <3>2
    <3> QED
      BY <2>1, <3>1, <3>3
  <2>4. ASSUME NEW i \in Instruments, NEW w \in Widths
        PROVE  Holds(resampled'[i][w], live'[i], w)
    BY <2>1 DEF Holds, NoBuckets, NoResampled
  <2>5. DOMAIN resampled' = Instruments /\ DOMAIN series' = Instruments
    BY <2>1 DEF NoResampled
  <2> QED
    BY <2>3, <2>4, <2>5 DEF MarketInv
<1> QED
  BY <1>1, <1>2, <1>3, FeedMoves DEF Joins, Streams, Passes, Connect

\* A bucket that is over gets no more ticks.
LEMMA BucketKept ==
    ASSUME StreamInv, NEW j \in Instruments, NEW price \in Prices, Told(j, price),
           NEW i \in Instruments, NEW w \in Nat \ {0},
           NEW c \in Aggregate(Ticks(Of(i)), w), c.time + w <= now
    PROVE  c \in Aggregate(Ticks(Of(i))', w)
<1> DEFINE T == Ticks(Of(i))
           U == Ticks(Of(i))'
<1>1. PICK s \in Starts(T, w) : c = Aggregated(T, Group(T, s, w), s)
  BY DEF Aggregate, Starts
<1>2. c.time = s
  BY <1>1 DEF Aggregated
<1>3. s \in Nat /\ Aligned(s, w) /\ now \in Nat
  BY TicksTimed, StartsType DEF StreamInv
<1>4. BucketStart(now, w) # s
  BY <1>2, <1>3, BucketOver
<1>5. /\ DOMAIN T = Of(i) /\ Of(i) \subseteq 1..Len(quotes) /\ Len(quotes) \in Nat
      /\ DOMAIN U = DOMAIN T \/ DOMAIN U = DOMAIN T \cup {Place}
  BY StreamType, ToldPlaces DEF Ticks
<1>6. \A n \in DOMAIN T : U[n] = T[n] /\ n \in DOMAIN U
  <2>1. \A n \in DOMAIN T : quotes'[n] = quotes[n] /\ n \in Of(i)'
    BY <1>5, ToldTicks, ToldPlaces
  <2> QED
    BY <1>5, <2>1 DEF Ticks
<1>7. Place \in DOMAIN U => U[Place].time = now
  <2>1. quotes'[Place] = [instrument |-> j, at |-> now, price |-> price,
                          by |-> connection]
    BY ToldTicks
  <2>2. quotes'[Place].at = now
    BY <2>1
  <2> QED
    BY <2>2 DEF Ticks, PriceCandle
<1> DEFINE G == Group(T, s, w)
<1>8. Group(U, s, w) = G
  <2> HIDE DEF T, U
  <2> QED
    BY <1>4, <1>5, <1>6, <1>7 DEF Group
<1>9. G # {}
  <2>1. s \in Starts(T, w)
    OBVIOUS
  <2> QED
    BY <2>1 DEF Starts, Group
<1>10. Places(G) /\ \A n \in G : U[n] = T[n]
  BY <1>5, <1>6, <1>9 DEF Group, Places
<1> HIDE DEF T, U, G
<1>11. Aggregated(U, G, s) = Aggregated(T, G, s)
  BY <1>10, AggregatedSame
<1>12. s \in {BucketStart(U[n].time, w) : n \in DOMAIN U}
  BY <1>6 DEF Starts
<1> QED
  BY <1>1, <1>8, <1>11, <1>12 DEF Aggregate, G, U

LEMMA BucketSame ==
    ASSUME quotes' = quotes, NEW i
    PROVE  Ticks(Of(i))' = Ticks(Of(i))
BY DEF Ticks, Of

\* What was loaded stays the broker's, and is over before the stream begins.
LEMMA WarmStep ==
    ASSUME StreamInv, StreamInv', FeedInv, WarmInv, [Next]_vars
    PROVE  WarmInv'
<1>0. now \in Nat /\ now' \in Nat
  BY DEF StreamInv
<1>1. PICK since \in 0..now : \A i \in Instruments :
          /\ \A tf \in Timeframes : Loaded(i, tf, since)
          /\ \A n \in 1..Len(live[i]) : since <= live[i][n].time
          /\ connection # 0 /\ agg[i] # <<>> => since <= agg[i][1].time
  BY DEF WarmInv
<1>2. ASSUME now <= now', warm' = warm,
             \/ quotes' = quotes
             \/ \E j \in Instruments : \E price \in Prices : Told(j, price),
             \A i \in Instruments :
                /\ \A n \in 1..Len(live'[i]) : since <= live'[i][n].time
                /\ connection' # 0 /\ agg'[i] # <<>> => since <= agg'[i][1].time
      PROVE  WarmInv'
  <2>1. since \in 0..now'
    BY <1>0, <1>2
  <2>2. ASSUME NEW i \in Instruments, NEW tf \in Timeframes PROVE Loaded(i, tf, since)'
    <3> DEFINE h == warm[i][tf]
               A == Aggregate(Ticks(Of(i)), tf)
               B == Aggregate(Ticks(Of(i))', tf)
    <3>1. /\ h \in Seq(A) /\ tf \in Nat \ {0} /\ since \in Int /\ since <= now
          /\ \A n \in 1..Len(h) : h[n].time \in Nat /\ h[n].time + tf <= since
      BY <1>0, <1>1, TimeframeType DEF Loaded
    <3>2. \A n \in 1..Len(h) : h[n] \in A /\ h[n].time + tf <= now
      <4> HIDE DEF h, A
      <4> QED
        BY <1>0, <3>1
    <3>3. \A n \in 1..Len(h) : h[n] \in B
      <4>1. CASE quotes' = quotes
        <5>1. A = B
          BY <4>1, BucketSame
        <5> QED
          BY <3>2, <5>1
      <4>2. ASSUME NEW j \in Instruments, NEW price \in Prices, Told(j, price),
                   NEW n \in 1..Len(h)
            PROVE  h[n] \in B
        <5>1. PICK c : c = h[n]
          OBVIOUS
        <5>2. c \in Aggregate(Ticks(Of(i)), tf) /\ c.time + tf <= now
          BY <3>2, <5>1
        <5>3. c \in Aggregate(Ticks(Of(i))', tf)
          BY <3>1, <4>2, <5>2, BucketKept
        <5> QED
          BY <5>1, <5>3
      <4> QED
        BY <1>2, <4>1, <4>2
    <3>4. h \in Seq(B)
      <4> HIDE DEF h, A, B
      <4> QED
        BY <3>1, <3>3
    <3>5. warm'[i][tf] = h /\ Aggregate(Ticks(Of(i)), tf)' = B
      BY <1>2
    <3> HIDE DEF B
    <3> QED
      BY <1>1, <3>4, <3>5 DEF Loaded
  <2> QED
    BY <1>2, <2>1, <2>2 DEF WarmInv
<1>3. ASSUME NEW j \in Instruments, NEW price \in Prices, Streams(j, price)
      PROVE  /\ now <= now' /\ warm' = warm
             /\ \A i \in Instruments : agg'[i] # <<>> => since <= agg'[i][1].time
  <2>1. /\ agg'[j][1].time = now
        /\ \A i \in Instruments \ {j} : agg'[i] = agg[i]
    BY <1>3, TickHeld
  <2>2. now' = now /\ warm' = warm /\ connection # 0
    BY <1>3 DEF Streams, Told
  <2>3. since <= now
    BY <1>0
  <2> QED
    BY <1>0, <1>1, <2>1, <2>2, <2>3
<1>4. ASSUME NEW j \in Instruments, NEW price \in Prices, Joins(j, price)
      PROVE  WarmInv'
  <2>1. live' = live
    BY <1>4 DEF Joins, market
  <2> QED
    BY <1>1, <1>2, <1>3, <1>4, <2>1 DEF Joins, Streams
<1>5. ASSUME NEW j \in Instruments, NEW price \in Prices, NEW b, Closes(j, price, b)
      PROVE  WarmInv'
  <2>1. /\ live' = [live EXCEPT ![j] = Append(@, b)] /\ DOMAIN live = Instruments
        /\ live[j] \in Seq(Candle) /\ b \in Candle /\ agg[j] = <<b>> /\ connection # 0
    BY <1>5 DEF Closes, Streams, Processed, FeedInv, Emissions, Rising
  <2>2. /\ live'[j] = Append(live[j], b)
        /\ \A i \in Instruments \ {j} : live'[i] = live[i]
    BY <2>1
  <2>3. since <= b.time
    <3>1. agg[j] # <<>> /\ agg[j][1] = b
      BY <2>1
    <3> QED
      BY <1>1, <2>1, <3>1
  <2>4. \A n \in 1..Len(live'[j]) : since <= live'[j][n].time
    <3>1. /\ Len(live'[j]) = Len(live[j]) + 1 /\ Len(live[j]) \in Nat
          /\ live'[j][Len(live[j]) + 1] = b
          /\ \A n \in 1..Len(live[j]) : live'[j][n] = live[j][n]
      BY <2>1, <2>2, AppendProperties
    <3>2. \A n \in 1..Len(live[j]) : since <= live[j][n].time
      BY <1>1
    <3>3. \A n \in 1..Len(live'[j]) : n \in 1..Len(live[j]) \/ n = Len(live[j]) + 1
      BY <3>1
    <3> QED
      BY <2>3, <3>1, <3>2, <3>3
  <2> QED
    BY <1>1, <1>2, <1>3, <1>5, <2>2, <2>4 DEF Closes, Streams
<1>6. CASE Passes
  BY <1>1, <1>2, <1>6 DEF Passes, market
<1>7. CASE Connect
  BY <1>0, <1>1, <1>2, <1>7 DEF Connect, market, NoBuckets
<1>8. CASE Restart
  <2>1. connection' = 0 /\ live' = NoBuckets /\ now' = now
    BY <1>8 DEF Restart
  <2>2. PICK loaded \in SUBSET (Instruments \X Timeframes) :
           warm' = [i \in Instruments |-> [tf \in Timeframes |->
                      IF <<i, tf>> \in loaded THEN History(i, tf) ELSE <<>>]]
    BY <1>8 DEF Restart
  <2>3. ASSUME NEW i \in Instruments, NEW tf \in Timeframes
        PROVE  Loaded(i, tf, now)'
    <3> DEFINE h == History(i, tf)
    <3>1. /\ h \in Seq(Aggregate(Ticks(Of(i)), tf)) /\ Ascending(h)
          /\ \A n \in 1..Len(h) :
                h[n].time \in Nat /\ Aligned(h[n].time, tf) /\ h[n].time + tf <= now
      BY <1>0, TicksTimed, FedSorted, TimeframeType DEF History
    <3> HIDE DEF h
    <3>2. warm'[i][tf] = h \/ warm'[i][tf] = <<>>
      BY <2>2 DEF h
    <3>3. CASE warm'[i][tf] = h
      <4>1. Ticks(Of(i))' = Ticks(Of(i))
        BY <1>8, BucketSame DEF Restart
      <4> QED
        BY <2>1, <3>1, <3>3, <4>1 DEF Loaded
    <3>4. CASE warm'[i][tf] = <<>>
      <4>1. <<>> \in Seq({}) /\ Len(<<>>) = 0 /\ Ascending(<<>>)
        BY DEF Ascending
      <4> QED
        BY <3>4, <4>1 DEF Loaded
    <3> QED
      BY <3>2, <3>3, <3>4
  <2>4. now \in 0..now'
    BY <1>0, <2>1
  <2>5. \A i \in Instruments : \A n \in 1..Len(live'[i]) : now <= live'[i][n].time
    BY <2>1 DEF NoBuckets
  <2> QED
    BY <2>1, <2>3, <2>4, <2>5 DEF WarmInv, Loaded
<1> QED
  BY <1>4, <1>5, <1>6, <1>7, <1>8, FeedMoves

\* ---- The theorems ---------------------------------------------------------

IInv == StreamInv /\ FeedInv /\ MarketInv /\ WarmInv

\* The inductive invariant holds.
LEMMA FeedInvariant == Spec => []IInv
<1>1. Init => IInv
  <2> SUFFICES ASSUME Init PROVE IInv
    OBVIOUS
  <2>1. StreamInv
    BY DEF Init, StreamInv
  <2>2. Rising(<<>>) /\ Len(<<>>) = 0 /\ Ascending(<<>>)
    BY DEF Rising, Ascending
  <2>3. FeedInv
    BY <2>2 DEF Init, FeedInv, Emissions, NoBuckets
  <2>4. Window(<<>> \o <<>>) = <<>>
    BY FeedAssumption DEF FeedAssumption, Window
  <2>5. MarketInv
    <3>1. ASSUME NEW i \in Instruments, NEW tf \in Timeframes
          PROVE  series[i][tf] = Window(warm[i][tf] \o Streamed(i, tf))
      BY <2>4 DEF Init, Empty, NoBuckets, Streamed, Fed
    <3> QED
      BY <3>1, TimeframeType DEF Init, MarketInv, NoResampled, NoBuckets, Empty, Holds
  <2>6. WarmInv
    <3>1. <<>> \in Seq({}) /\ 0 \in 0..0
      OBVIOUS
    <3> QED
      BY <2>2, <3>1 DEF Init, WarmInv, Loaded, Empty, NoBuckets
  <2> QED
    BY <2>1, <2>3, <2>5, <2>6 DEF IInv
<1>2. IInv /\ [Next]_vars => IInv'
  BY StreamStep, FeedStep, MarketStep, WarmStep DEF IInv
<1> QED
  BY <1>1, <1>2, PTL DEF Spec

\* No 1M candle mixes two connections, and none lacks a tick of its own:
\* MinuteOfOneConnection, for any number of pairs, ticks and reconnects.
THEOREM WholeMinutes == Spec => []MinuteOfOneConnection
<1>1. IInv => MinuteOfOneConnection
  <2> SUFFICES ASSUME StreamInv, FeedInv, NEW i \in Instruments,
                      NEW n \in DOMAIN live[i]
               PROVE  \E k \in 1..connections :
                         live[i][n] \in Aggregate(Ticks(Over(i, k)), 1)
    BY DEF IInv, MinuteOfOneConnection
  <2> DEFINE c == live[i][n]
  <2>1. n \in 1..Len(live[i]) /\ c \in Candle
    BY RisingTimed DEF FeedInv, Emissions
  <2>2. PICK k \in 1..connections : OfMinute(i, k, c)
    BY <2>1 DEF FeedInv, Emissions
  <2> DEFINE T == Ticks(Over(i, k))
             G == InMinute(i, k, c.time)
  <2>3. /\ Over(i, k) \subseteq Of(i) /\ Of(i) \subseteq 1..Len(quotes)
        /\ G \subseteq Over(i, k)
    BY StreamType DEF InMinute
  <2>4. \A m \in Over(i, k) : /\ T[m] = Ticks(Of(i))[m] /\ T[m] \in Candle
                              /\ T[m].time = quotes[m].at
    <3>1. \A m \in Over(i, k) : quotes[m].at \in Nat /\ quotes[m].price \in Int
      BY <2>3, StreamType
    <3> QED
      BY <2>3, <3>1 DEF Ticks, PriceCandle, Candle
  <2>5. DOMAIN T = Over(i, k)
    BY DEF Ticks
  <2>6. MadeOf(c, T, G, c.time)
    <3>1. MadeOf(c, Ticks(Of(i)), G, c.time)
      BY <2>2 DEF OfMinute
    <3>2. \A m \in G : T[m] = Ticks(Of(i))[m]
      BY <2>3, <2>4
    <3> HIDE DEF T, G, c
    <3> QED
      BY <3>1, <3>2, MadeOfSame
  <2>7. Group(T, c.time, 1) = G
    <3>1. \A m \in Over(i, k) : BucketStart(T[m].time, 1) = quotes[m].at
      BY <2>3, <2>4, StreamType, MinuteBucket
    <3> QED
      BY <2>5, <3>1 DEF Group, InMinute
  <2>8. Aggregated(T, G, c.time) = c
    <3>1. G \in SUBSET Nat /\ \A m \in G : T[m] \in Candle
      BY <2>3, <2>4, StreamType
    <3> HIDE DEF T, G, c
    <3> QED
      BY <2>1, <2>6, <3>1, AggregatedIs
  <2>9. c.time \in {BucketStart(T[m].time, 1) : m \in DOMAIN T}
    <3>1. PICK m \in G : TRUE
      BY <2>2, MinutePast
    <3>2. m \in DOMAIN T /\ T[m].time = c.time /\ c.time \in Nat
      BY <2>2, <2>3, <2>4, <2>5, <3>1, MinutePast DEF InMinute
    <3>3. BucketStart(T[m].time, 1) = c.time
      BY <3>2, MinuteBucket
    <3> QED
      BY <3>2, <3>3
  <2>10. c \in Aggregate(T, 1)
    <3> HIDE DEF T, G, c
    <3> QED
      BY <2>7, <2>8, <2>9 DEF Aggregate
  <2> QED
    BY <2>10
<1> QED
  BY <1>1, FeedInvariant, PTL

\* The candles that the bot builds online are those that the backtest cuts out
\* of the same minutes, at the same moment: MarketIsReplay, for any timeframes.
THEOREM LiveIsBacktest == Spec => []MarketIsReplay
<1>1. IInv => MarketIsReplay
  <2> SUFFICES ASSUME FeedInv, MarketInv, NEW i \in Instruments, NEW w \in Widths
               PROVE  series[i][w] = Window(warm[i][w] \o
                          (IF live[i] = <<>> THEN <<>>
                           ELSE FedBy(live[i], w, Last(live[i]).time)))
    BY DEF IInv, MarketIsReplay
  <2>1. series[i][w] = Window(warm[i][w] \o Streamed(i, w))
    BY TimeframeType DEF MarketInv
  <2>2. Streamed(i, w) = Fed(live[i], w)
    BY TimeframeType DEF Streamed
  <2> QED
    BY <2>1, <2>2 DEF Fed, Last
<1> QED
  BY <1>1, FeedInvariant, PTL

\* No timeframe goes back, not even where the warm-up ends: SeriesOrdered.
THEOREM CandlesInOrder == Spec => []SeriesOrdered
<1>1. IInv => SeriesOrdered
  <2> SUFFICES ASSUME FeedInv, MarketInv, WarmInv,
                      NEW i \in Instruments, NEW tf \in Timeframes
               PROVE  \A n \in 1..(Len(series[i][tf]) - 1) :
                         series[i][tf][n].time < series[i][tf][n + 1].time
    BY DEF IInv, SeriesOrdered
  <2> DEFINE loaded == warm[i][tf]
             str == Streamed(i, tf)
  <2>1. series[i][tf] = Window(loaded \o str)
    BY DEF MarketInv
  <2>2. tf \in Nat \ {0} /\ Rising(live[i])
    BY TimeframeType DEF FeedInv, Emissions
  <2>3. PICK since : /\ Loaded(i, tf, since) /\ since \in Int
                     /\ \A n \in 1..Len(live[i]) : since <= live[i][n].time
    BY DEF WarmInv
  <2>4. PICK A : loaded \in Seq(A)
    BY <2>3 DEF Loaded
  <2>5. /\ Ascending(loaded)
        /\ \A m \in 1..Len(loaded) :
              /\ loaded[m].time \in Nat /\ Aligned(loaded[m].time, tf)
              /\ loaded[m].time + tf <= since
    BY <2>3 DEF Loaded
  <2> DEFINE Follows == /\ Ascending(str)
                        /\ \A m \in 1..Len(loaded), n \in 1..Len(str) :
                              loaded[m].time < str[n].time
  <2>6. ASSUME tf = 1 PROVE Follows
    <3>1. str = live[i] /\ Ascending(str)
      BY <2>2, <2>6 DEF Streamed, Rising
    <3>2. \A n \in 1..Len(live[i]) : live[i][n].time \in Nat
      BY <2>2, RisingTimed
    <3>3. ASSUME NEW m \in 1..Len(loaded), NEW n \in 1..Len(str)
          PROVE  loaded[m].time < str[n].time
      <4>1. loaded[m].time \in Nat /\ loaded[m].time + 1 <= since
        BY <2>5, <2>6
      <4>2. str[n].time \in Nat /\ since <= str[n].time
        BY <2>3, <3>1, <3>2
      <4> HIDE DEF str, loaded
      <4> QED
        BY <2>3, <4>1, <4>2
    <3> QED
      BY <3>1, <3>3
  <2>7. ASSUME tf # 1, live[i] = <<>> PROVE Follows
    <3>1. str = <<>> /\ Len(<<>>) = 0 /\ <<>> \in Seq({})
      BY <2>7 DEF Streamed, Fed
    <3> QED
      BY <3>1 DEF Ascending
  <2>8. ASSUME tf # 1, live[i] # <<>> PROVE Follows
    <3> DEFINE t == live[i][Len(live[i])].time
               fed == FedBy(live[i], tf, t)
    <3>1. Timed(live[i]) /\ t \in Nat /\ str = fed
      BY <2>2, <2>8, RisingTimed DEF Streamed, Fed
    <3>2. /\ fed \in Seq(Aggregate(live[i], tf)) /\ Ascending(fed)
          /\ \A n \in 1..Len(fed) : fed[n] \in Aggregate(live[i], tf)
      BY <2>2, <3>1, FedSorted
    <3> HIDE DEF fed, t
    <3>3. ASSUME NEW c \in Aggregate(live[i], tf), NEW m \in 1..Len(loaded)
          PROVE  loaded[m].time < c.time
      <4>1. PICK k \in 1..Len(live[i]) : c.time = BucketStart(live[i][k].time, tf)
        <5>1. PICK start \in {BucketStart(live[i][k].time, tf) : k \in DOMAIN live[i]} :
                 c = Aggregated(live[i], Group(live[i], start, tf), start)
          BY DEF Aggregate
        <5>2. c.time = start
          BY <5>1 DEF Aggregated
        <5> QED
          BY <2>2, <5>1, <5>2, RisingTimed
      <4>2. live[i][k].time \in Nat /\ since <= live[i][k].time
        BY <2>2, <2>3, RisingTimed
      <4> DEFINE x == loaded[m].time
                 y == live[i][k].time
      <4>3. x \in Nat /\ Aligned(x, tf) /\ x + tf <= y
        BY <2>2, <2>3, <2>5, <4>2
      <4> HIDE DEF x, y
      <4>4. y \in Nat
        BY <4>2 DEF y
      <4>5. x < BucketStart(y, tf)
        BY <2>2, <4>3, <4>4, BucketOver
      <4> QED
        BY <4>1, <4>5 DEF x, y
    <3>4. \A m \in 1..Len(loaded), n \in 1..Len(fed) : loaded[m].time < fed[n].time
      BY <3>2, <3>3
    <3> QED
      BY <3>1, <3>2, <3>4
  <2>9. Follows /\ \E B : str \in Seq(B)
    <3>1. \E B : str \in Seq(B)
      BY <2>2, StreamedType
    <3> QED
      BY <2>6, <2>7, <2>8, <3>1
  <2>10. PICK B : str \in Seq(B)
    BY <2>9
  <2> HIDE DEF loaded, str
  <2> DEFINE C == A \cup B
  <2>11. loaded \in Seq(C) /\ str \in Seq(C)
    BY <2>4, <2>10
  <2> HIDE DEF C
  <2>12. loaded \o str \in Seq(C) /\ Ascending(loaded \o str)
    BY <2>5, <2>9, <2>11, JoinedAscending
  <2>13. series[i][tf] \in Seq(C) /\ Ascending(series[i][tf])
    BY <2>1, <2>12, WindowIs, WindowAscending
  <2> DEFINE s == series[i][tf]
  <2>14. DOMAIN s = 1..Len(s) /\ Len(s) \in Nat
    BY <2>13
  <2> HIDE DEF s
  <2>15. ASSUME NEW n \in 1..(Len(s) - 1) PROVE s[n].time < s[n + 1].time
    <3>1. n \in DOMAIN s /\ n + 1 \in DOMAIN s /\ n < n + 1
      BY <2>14
    <3>2. Ascending(s)
      BY <2>13 DEF s
    <3> QED
      BY <3>1, <3>2 DEF Ascending
  <2> QED
    BY <2>15 DEF s
<1> QED
  BY <1>1, FeedInvariant, PTL

\* ---- What is not torn -----------------------------------------------------

\* A step of the stream, as far as quotes and emissions go.
Goes(j, price, b) == Joins(j, price) \/ Closes(j, price, b)

\* What was emitted stays what it is until the process ends.
LEMMA LiveKept ==
    ASSUME StreamInv, FeedInv,
           \/ \E j \in Instruments : \E price \in Prices : \E b : Goes(j, price, b)
           \/ Passes \/ Connect,
           NEW i \in Instruments, NEW x \in 1..Len(live[i])
    PROVE  /\ x \in 1..Len(live'[i]) /\ live'[i][x] = live[i][x]
           /\ \A k \in Nat \ {0} : OfMinute(i, k, live[i][x]) => OfMinute(i, k, live[i][x])'
<1> DEFINE c == live[i][x]
<1>0. /\ live[i] \in Seq(Candle) /\ Len(live[i]) \in Nat /\ c \in Candle
      /\ c.time \in Nat /\ c.time < now /\ now \in Nat
  BY RisingTimed DEF FeedInv, Emissions, Rising, StreamInv
<1>1. /\ x \in 1..Len(live'[i]) /\ live'[i][x] = c
      /\ \/ quotes' = quotes
         \/ \E j \in Instruments : \E price \in Prices : Told(j, price)
  <2>1. CASE live' = live
    BY <2>1 DEF Goes, Joins, Closes, Streams, Passes, Connect
  <2>2. ASSUME NEW j \in Instruments, NEW price \in Prices, NEW b, Closes(j, price, b)
        PROVE  x \in 1..Len(live'[i]) /\ live'[i][x] = c /\ Told(j, price)
    <3>1. /\ live' = [live EXCEPT ![j] = Append(@, b)] /\ DOMAIN live = Instruments
          /\ b \in Candle /\ Told(j, price)
      BY <2>2 DEF Closes, Processed, FeedInv, Streams
    <3>2. CASE i = j
      <4>1. live'[i] = Append(live[i], b)
        BY <3>1, <3>2
      <4> QED
        BY <1>0, <3>1, <4>1, AppendProperties
    <3>3. CASE i # j
      BY <3>1, <3>3
    <3> QED
      BY <3>1, <3>2, <3>3
  <2> QED
    BY <2>1, <2>2 DEF Goes, Joins, Passes, Connect, market
<1>2. ASSUME NEW k \in Nat \ {0}, OfMinute(i, k, c)
      PROVE  OfMinute(i, k, live[i][x])'
  <2>1. PICK d : d = c
    OBVIOUS
  <2>2. OfMinute(i, k, d) /\ d.time # now
    BY <1>0, <1>2, <2>1
  <2>3. CASE quotes' = quotes
    BY <1>1, <2>1, <2>2, <2>3, MinutesSame DEF OfMinute
  <2>4. ASSUME NEW j \in Instruments, NEW price \in Prices, Told(j, price)
        PROVE  OfMinute(i, k, d)'
    <3> HIDE DEF c
    <3> QED
      BY <2>2, <2>4, MinuteKept
  <2>5. OfMinute(i, k, d)' => OfMinute(i, k, live[i][x])'
    BY <1>1, <2>1 DEF OfMinute
  <2> HIDE DEF c
  <2> QED
    BY <1>1, <2>3, <2>4, <2>5
<1> QED
  BY <1>1, <1>2

\* A connection that gets no tick of i stays covered.
LEMMA CoverKept ==
    ASSUME StreamInv, FeedInv,
           \/ \E j \in Instruments : \E price \in Prices : \E b : Goes(j, price, b)
           \/ Passes \/ Connect,
           NEW i \in Instruments, NEW k \in Nat \ {0}, Covered(i, k),
           NEW m \in Over(i, k), NEW n \in Over(i, k), quotes[m].at < quotes[n].at
    PROVE  \E x \in 1..Len(live'[i]) :
              live'[i][x].time = quotes[m].at /\ OfMinute(i, k, live[i][x])'
<1>1. PICK x \in 1..Len(live[i]) :
         live[i][x].time = quotes[m].at /\ OfMinute(i, k, live[i][x])
  BY DEF Covered
<1> QED
  BY <1>1, LiveKept

\* A tick of the connection leaves every minute before its own emitted.
LEMMA TickCovered ==
    ASSUME StreamInv, FeedInv, NEW j \in Instruments, NEW price \in Prices, NEW b,
           Goes(j, price, b), Covered(j, connection)
    PROVE  Covered(j, connection)'
<1>0. /\ Streams(j, price) /\ Told(j, price) /\ connection' = connection /\ now' = now
      /\ connection \in Nat \ {0} /\ now \in Nat /\ AggregatorHolds(j)
  BY DEF Goes, Joins, Closes, Streams, Told, StreamInv, FeedInv
<1>1. /\ Over(j, connection)' = Over(j, connection) \cup {Place}
      /\ Over(j, connection) \subseteq 1..Len(quotes)
      /\ quotes'[Place].at = now /\ Len(quotes) \in Nat
      /\ \A n \in 1..Len(quotes) :
            quotes'[n] = quotes[n] /\ quotes[n].at \in Nat /\ quotes[n].at <= now
  <2>1. quotes'[Place] = [instrument |-> j, at |-> now, price |-> price,
                          by |-> connection]
    BY <1>0, ToldTicks
  <2>2. quotes'[Place].at = now
    BY <2>1
  <2> QED
    BY <1>0, <2>2, ToldTicks, ToldPlaces, StreamType DEF Told
<1>2. ASSUME NEW m \in Over(j, connection), NEW n \in Over(j, connection),
             quotes[m].at < quotes[n].at
      PROVE  \E x \in 1..Len(live'[j]) :
                live'[j][x].time = quotes[m].at /\ OfMinute(j, connection, live[j][x])'
  <2>1. PICK k \in Nat \ {0} : k = connection
    BY <1>0
  <2>2. \E x \in 1..Len(live'[j]) :
           live'[j][x].time = quotes[m].at /\ OfMinute(j, k, live[j][x])'
    BY <1>2, <2>1, CoverKept
  <2>3. \A x : OfMinute(j, k, live[j][x])' <=> OfMinute(j, connection, live[j][x])'
    BY <1>0, <2>1 DEF OfMinute
  <2> QED
    BY <2>2, <2>3
<1>3. ASSUME NEW m \in Over(j, connection), quotes[m].at < now
      PROVE  \E x \in 1..Len(live'[j]) :
                live'[j][x].time = quotes[m].at /\ OfMinute(j, connection, live[j][x])'
  <2> DEFINE c == agg[j][1]
  <2>1. /\ agg[j] = <<c>> /\ agg[j] # <<>> /\ c \in Candle
        /\ OfMinute(j, connection, c) /\ quotes[m].at <= c.time
    BY <1>0, <1>3 DEF AggregatorHolds
  <2>2. PICK n \in InMinute(j, connection, c.time) : TRUE
    BY <2>1, MinutePast
  <2>3. n \in Over(j, connection) /\ quotes[n].at = c.time
    BY <2>2 DEF InMinute
  <2>4. CASE quotes[m].at < c.time
    BY <1>2, <2>3, <2>4
  <2>5. CASE quotes[m].at = c.time
    <3>1. Closes(j, price, b) /\ c.time # now
      BY <1>1, <1>3, <2>1, <2>5 DEF Goes, Joins
    <3>2. /\ agg[j] = <<b>> /\ b \in Candle /\ b.time < now
          /\ live' = [live EXCEPT ![j] = Append(@, b)] /\ DOMAIN live = Instruments
          /\ live[j] \in Seq(Candle)
      BY <3>1 DEF Closes, Processed, FeedInv, Emissions, Rising
    <3>3. c = b
      BY <3>2
    <3>4. /\ live'[j] = Append(live[j], b)
          /\ Len(live'[j]) = Len(live[j]) + 1 /\ Len(live[j]) \in Nat
          /\ live'[j][Len(live[j]) + 1] = b
      <4>1. live'[j] = Append(live[j], b)
        BY <3>2
      <4> QED
        BY <3>2, <4>1, AppendProperties
    <3>5. OfMinute(j, connection, b)'
      <4>1. PICK d : d = b
        OBVIOUS
      <4>2. PICK k : k = connection
        OBVIOUS
      <4>3. OfMinute(j, k, d) /\ d.time # now
        BY <2>1, <3>1, <3>3, <4>1, <4>2
      <4>4. OfMinute(j, k, d)'
        <5> HIDE DEF c
        <5> QED
          BY <1>0, <4>3, MinuteKept
      <4> QED
        BY <1>0, <4>1, <4>2, <4>4 DEF OfMinute
    <3> DEFINE x == Len(live[j]) + 1
    <3>6. x \in 1..Len(live'[j]) /\ live'[j][x] = b
      BY <3>4
    <3>7. PICK y \in 1..Len(live'[j]) : live'[j][y] = b
      BY <3>6
    <3>8. OfMinute(j, connection, live[j][y])'
      BY <3>5, <3>7 DEF OfMinute
    <3>9. live'[j][y].time = quotes[m].at
      BY <2>5, <3>3, <3>7
    <3> QED
      BY <3>7, <3>8, <3>9
  <2> QED
    BY <1>1, <2>1, <2>4, <2>5 DEF Candle
<1>4. ASSUME NEW m \in Over(j, connection)', NEW n \in Over(j, connection)',
             quotes'[m].at < quotes'[n].at
      PROVE  \E x \in 1..Len(live'[j]) :
                live'[j][x].time = quotes'[m].at /\ OfMinute(j, connection, live[j][x])'
  <2>1. \A y \in Over(j, connection)' :
           quotes'[y].at \in Nat /\ quotes'[y].at <= now
    BY <1>0, <1>1
  <2>2. m # Place
    BY <1>0, <1>1, <1>4, <2>1
  <2>3. m \in Over(j, connection) /\ quotes'[m] = quotes[m]
    BY <1>1, <2>2
  <2>4. CASE n = Place
    BY <1>1, <1>3, <1>4, <2>3, <2>4
  <2>5. CASE n # Place
    <3>1. n \in Over(j, connection) /\ quotes'[n] = quotes[n]
      BY <1>1, <2>5
    <3> QED
      BY <1>2, <1>4, <2>3, <3>1
  <2> QED
    BY <2>4, <2>5
<1> QED
  BY <1>4 DEF Covered

\* No step leaves a gap in the minutes of a connection that lives on.
LEMMA CoverStep ==
    ASSUME StreamInv, FeedInv, CoverInv, [Next]_vars
    PROVE  CoverInv'
<1>0. /\ connection \in Nat /\ connections \in Nat /\ connection <= connections
      /\ now \in Nat
  BY DEF StreamInv
<1>1. PICK old \in 0..connections :
        /\ connection # 0 => old < connection
        /\ \A i \in Instruments :
              /\ \A n \in 1..Len(live[i]) :
                    \E k \in (old + 1)..connections : OfMinute(i, k, live[i][n])
              /\ \A k \in (old + 1)..connections : Covered(i, k)
  BY DEF CoverInv
<1>2. \A k \in (old + 1)..connections : k \in Nat \ {0}
  BY <1>0
<1>3. ASSUME NEW j \in Instruments, NEW price \in Prices, NEW b, Goes(j, price, b)
      PROVE  CoverInv'
  <2>1. /\ Told(j, price) /\ connection' = connection /\ connections' = connections
        /\ connection # 0 /\ old < connection /\ old \in Nat
    BY <1>0, <1>1, <1>3 DEF Goes, Joins, Closes, Streams, Told
  <2>2. ASSUME NEW i \in Instruments, NEW n \in 1..Len(live'[i])
        PROVE  \E k \in (old + 1)..connections' : OfMinute(i, k, live[i][n])'
    <3>1. CASE n \in 1..Len(live[i])
      <4>1. PICK k \in (old + 1)..connections : OfMinute(i, k, live[i][n])
        BY <1>1, <3>1
      <4>2. OfMinute(i, k, live[i][n])'
        BY <1>2, <1>3, <3>1, <4>1, LiveKept
      <4> QED
        BY <2>1, <4>1, <4>2
    <3>2. CASE n \notin 1..Len(live[i])
      <4>1. Closes(j, price, b) /\ i = j
        <5>1. Closes(j, price, b)
          BY <1>3, <3>2 DEF Goes, Joins, market
        <5>2. live' = [live EXCEPT ![j] = Append(@, b)] /\ DOMAIN live = Instruments
          BY <5>1 DEF Closes, Processed, FeedInv
        <5> QED
          BY <3>2, <5>1, <5>2
      <4>2. /\ agg[j] = <<b>> /\ b \in Candle /\ b.time < now
            /\ live' = [live EXCEPT ![j] = Append(@, b)] /\ DOMAIN live = Instruments
            /\ live[j] \in Seq(Candle)
        BY <4>1 DEF Closes, Processed, FeedInv, Emissions, Rising
      <4>3. /\ live'[j] = Append(live[j], b) /\ live'[j][n] = b
        <5>1. live'[j] = Append(live[j], b)
          BY <4>2
        <5>2. n = Len(live[j]) + 1 /\ Len(live[j]) \in Nat
          BY <3>2, <4>1, <4>2, <5>1, AppendProperties
        <5> QED
          BY <4>2, <5>1, <5>2, AppendProperties
      <4>4. OfMinute(j, connection, b)
        <5>1. AggregatorHolds(j) /\ agg[j] # <<>> /\ agg[j][1] = b
          BY <2>1, <4>2 DEF FeedInv
        <5> QED
          BY <5>1 DEF AggregatorHolds
      <4>5. PICK d : d = b
        OBVIOUS
      <4>6. PICK k \in (old + 1)..connections : k = connection
        BY <1>0, <2>1
      <4>7. OfMinute(j, k, d)'
        <5>1. OfMinute(j, k, d) /\ d.time # now
          BY <1>0, <4>2, <4>4, <4>5, <4>6 DEF Candle
        <5> QED
          BY <2>1, <5>1, MinuteKept
      <4>8. OfMinute(i, k, live[i][n])'
        BY <4>1, <4>3, <4>5, <4>7 DEF OfMinute
      <4> QED
        BY <2>1, <4>6, <4>8
    <3> QED
      BY <3>1, <3>2
  <2>3. ASSUME NEW i \in Instruments, NEW k \in (old + 1)..connections
        PROVE  Covered(i, k)'
    <3>1. CASE i = j /\ k = connection
      <4>1. Covered(j, connection)
        BY <1>1, <3>1
      <4>2. Covered(j, connection)'
        BY <1>3, <4>1, TickCovered
      <4> QED
        BY <2>1, <3>1, <4>2 DEF Covered, OfMinute, InMinute, Over
    <3>2. CASE ~(i = j /\ k = connection)
      <4>1. Over(i, k)' = Over(i, k)
        BY <2>1, <3>2, ToldPlaces
      <4>2. \A m \in Over(i, k) : quotes'[m] = quotes[m]
        BY <2>1, ToldTicks, StreamType
      <4>3. Covered(i, k)
        BY <1>1
      <4>4. ASSUME NEW m \in Over(i, k), NEW n \in Over(i, k),
                   quotes[m].at < quotes[n].at
            PROVE  \E x \in 1..Len(live'[i]) :
                      live'[i][x].time = quotes[m].at /\ OfMinute(i, k, live[i][x])'
        BY <1>2, <1>3, <4>3, <4>4, CoverKept
      <4> QED
        BY <4>1, <4>2, <4>4 DEF Covered
    <3> QED
      BY <3>1, <3>2
  <2> QED
    BY <1>1, <2>1, <2>2, <2>3 DEF CoverInv
<1>4. CASE Passes
  <2>1. /\ live' = live /\ connections' = connections
        /\ connection' = connection \/ connection' = 0
        /\ \/ quotes' = quotes
           \/ \E j \in Instruments : \E price \in Prices : Told(j, price) /\ connection = 0
    BY <1>4 DEF Passes, market
  <2>2. ASSUME NEW i \in Instruments, NEW n \in 1..Len(live'[i])
        PROVE  \E k \in (old + 1)..connections' : OfMinute(i, k, live[i][n])'
    <3>1. PICK k \in (old + 1)..connections : OfMinute(i, k, live[i][n])
      BY <1>1, <2>1, <2>2
    <3>2. OfMinute(i, k, live[i][n])'
      BY <1>2, <1>4, <2>1, <2>2, <3>1, LiveKept
    <3> QED
      BY <2>1, <3>1, <3>2
  <2>3. ASSUME NEW i \in Instruments, NEW k \in (old + 1)..connections
        PROVE  Covered(i, k)'
    <3>1. Over(i, k)' = Over(i, k) /\ \A m \in Over(i, k) : quotes'[m] = quotes[m]
      <4>1. CASE quotes' = quotes
        BY <4>1 DEF Over, Of
      <4>2. ASSUME NEW j \in Instruments, NEW price \in Prices, Told(j, price),
                   connection = 0
            PROVE  Over(i, k)' = Over(i, k) /\ \A m \in Over(i, k) : quotes'[m] = quotes[m]
        BY <1>2, <4>2, ToldPlaces, ToldTicks, StreamType
      <4> QED
        BY <2>1, <4>1, <4>2
    <3>2. Covered(i, k)
      BY <1>1
    <3>3. ASSUME NEW m \in Over(i, k), NEW n \in Over(i, k),
                 quotes[m].at < quotes[n].at
          PROVE  \E x \in 1..Len(live'[i]) :
                    live'[i][x].time = quotes[m].at /\ OfMinute(i, k, live[i][x])'
      BY <1>2, <1>4, <3>2, <3>3, CoverKept
    <3> QED
      BY <3>1, <3>3 DEF Covered
  <2> QED
    BY <1>1, <2>1, <2>2, <2>3 DEF CoverInv
<1>5. CASE Connect
  <2>1. /\ connection' = connections + 1 /\ connections' = connections + 1
        /\ quotes' = quotes /\ live' = live
    BY <1>5 DEF Connect, market
  <2>2. old \in 0..connections' /\ old < connection'
    BY <1>0, <2>1
  <2>3. ASSUME NEW i \in Instruments, NEW n \in 1..Len(live'[i])
        PROVE  \E k \in (old + 1)..connections' : OfMinute(i, k, live[i][n])'
    <3>1. PICK k \in (old + 1)..connections : OfMinute(i, k, live[i][n])
      BY <1>1, <2>1, <2>3
    <3>2. OfMinute(i, k, live[i][n])'
      BY <2>1, <3>1 DEF OfMinute, Ticks, InMinute, Over, Of
    <3>3. k \in (old + 1)..connections'
      BY <1>0, <2>1
    <3> QED
      BY <3>2, <3>3
  <2>4. ASSUME NEW i \in Instruments, NEW k \in (old + 1)..connections'
        PROVE  Covered(i, k)'
    <3>1. CASE k \in (old + 1)..connections
      <4>1. Covered(i, k)
        BY <1>1, <3>1
      <4> QED
        BY <2>1, <4>1 DEF Covered, OfMinute, Ticks, InMinute, Over, Of
    <3>2. CASE k \notin (old + 1)..connections
      <4>1. k = connections + 1
        BY <1>0, <2>1, <3>2
      <4>2. Over(i, k) = {}
        BY <1>0, <4>1, StreamType DEF Over
      <4>3. Over(i, k)' = {}
        BY <2>1, <4>2 DEF Over, Of
      <4> QED
        BY <4>3 DEF Covered
    <3> QED
      BY <3>1, <3>2
  <2> QED
    BY <2>2, <2>3, <2>4 DEF CoverInv
<1>6. CASE Restart
  <2>1. connection' = 0 /\ connections' = connections /\ live' = NoBuckets
    BY <1>6 DEF Restart
  <2>2. connections \in 0..connections' /\ (connections + 1)..connections' = {}
    BY <1>0, <2>1
  <2>3. \A i \in Instruments : 1..Len(live'[i]) = {}
    BY <2>1 DEF NoBuckets
  <2> QED
    BY <2>1, <2>2, <2>3 DEF CoverInv
<1> QED
  BY <1>3, <1>4, <1>5, <1>6, FeedMoves DEF Goes

\* A bounded group has a greatest value.
LEMMA Attained ==
    ASSUME NEW group, Places(group), NEW f, \A n \in group : f[n] \in Int
    PROVE  \E n \in group : \A m \in group : f[m] <= f[n]
<1> DEFINE Part(b) == {n \in group : n <= b}
           Tops(b) == \E n \in Part(b) : \A m \in Part(b) : f[m] <= f[n]
           bad == {b \in Nat : Part(b) # {} /\ ~Tops(b)}
<1>1. group \in SUBSET Nat /\ group # {}
  BY DEF Places
<1>2. bad = {}
  <2> SUFFICES ASSUME bad # {} PROVE FALSE
    OBVIOUS
  <2>1. bad \in SUBSET Nat
    OBVIOUS
  <2>2. PICK b \in bad : \A a \in bad : b <= a
    <3> HIDE DEF bad
    <3> QED
      BY <2>1, LeastMember
  <2>3. b \in Nat /\ Part(b) # {} /\ ~Tops(b)
    BY <2>2
  <2> DEFINE below == Part(b - 1)
  <2>4. below = Part(b) \ {b} /\ below \subseteq Part(b)
    <3>1. \A n \in group : n <= b - 1 <=> (n <= b /\ n # b)
      BY <1>1, <2>3
    <3> QED
      BY <3>1
  <2>5. CASE below = {}
    <3>1. Part(b) = {b}
      BY <2>3, <2>4, <2>5
    <3> QED
      BY <2>3, <3>1
  <2>6. CASE below # {}
    <3>1. b - 1 \in Nat
      <4>1. PICK n \in group : n <= b - 1
        BY <2>6
      <4>2. n \in Nat
        BY <1>1
      <4> QED
        BY <2>3, <4>1, <4>2
    <3>2. b - 1 \notin bad
      BY <2>2, <2>3, <3>1
    <3>3. PICK n \in below : \A m \in below : f[m] <= f[n]
      BY <2>6, <3>1, <3>2
    <3>4. n \in Part(b) /\ f[n] \in Int
      BY <2>4, <3>3
    <3>5. CASE b \notin group
      <4>1. Part(b) = below
        BY <2>4, <3>5
      <4> QED
        BY <2>3, <3>3, <4>1
    <3>6. CASE b \in group
      <4>1. Part(b) = below \cup {b} /\ b \in Part(b) /\ f[b] \in Int
        BY <1>1, <2>4, <3>6
      <4>2. CASE f[b] <= f[n]
        BY <2>3, <3>3, <3>4, <4>1, <4>2
      <4>3. CASE f[n] <= f[b]
        <5>1. \A m \in below : f[m] <= f[b]
          BY <3>3, <3>4, <4>1, <4>3
        <5> QED
          BY <2>3, <4>1, <5>1
      <4> QED
        BY <3>4, <4>1, <4>2, <4>3
    <3> QED
      BY <3>5, <3>6
  <2> QED
    BY <2>5, <2>6
<1>3. PICK b \in Nat : \A n \in group : n <= b
  BY DEF Places
<1>4. Part(b) = group
  BY <1>3
<1>5. b \notin bad
  BY <1>2
<1> QED
  BY <1>1, <1>3, <1>4, <1>5

\* What the backtest's aggregate makes of a group is made of the group.
LEMMA AggregatedMade ==
    ASSUME NEW group, Places(group), NEW candles, NEW start \in Nat,
           \A n \in group : candles[n] \in Candle
    PROVE  /\ Aggregated(candles, group, start) \in Candle
           /\ MadeOf(Aggregated(candles, group, start), candles, group, start)
<1> DEFINE up == [n \in group |-> candles[n].high]
           down == [n \in group |-> 0 - candles[n].low]
<1>1. /\ group \in SUBSET Nat /\ group # {}
      /\ \A n \in group : /\ candles[n].open \in Int /\ candles[n].close \in Int
                          /\ candles[n].high \in Int /\ candles[n].low \in Int
  BY DEF Places, Candle
<1>2. PICK first \in group : \A m \in group : first <= m
  BY <1>1, LeastMember
<1>3. PICK last \in group : \A m \in group : m <= last
  <2>1. PICK bound \in Nat : \A n \in group : n <= bound
    BY DEF Places
  <2> QED
    BY <1>1, <2>1, GreatestMember
<1>4. PICK top \in group : \A m \in group : candles[m].high <= candles[top].high
  <2>1. \A n \in group : up[n] \in Int
    BY <1>1
  <2>2. \E n \in group : \A m \in group : up[m] <= up[n]
    <3> HIDE DEF up
    <3> QED
      BY <2>1, Attained
  <2> QED
    BY <2>2
<1>5. PICK bottom \in group : \A m \in group : candles[bottom].low <= candles[m].low
  <2>1. \A n \in group : down[n] \in Int
    BY <1>1
  <2>2. PICK n \in group : \A m \in group : down[m] <= down[n]
    <3> HIDE DEF down
    <3> QED
      BY <2>1, Attained
  <2>3. \A m \in group : candles[n].low <= candles[m].low
    BY <1>1, <2>2
  <2> QED
    BY <2>3
<1> DEFINE b == [time |-> start, open |-> candles[first].open,
                 high |-> candles[top].high, low |-> candles[bottom].low,
                 close |-> candles[last].close]
<1>6. b \in Candle
  BY <1>1 DEF Candle
<1>7. /\ b.time = start /\ b.open = candles[first].open /\ b.high = candles[top].high
      /\ b.low = candles[bottom].low /\ b.close = candles[last].close
  OBVIOUS
<1> HIDE DEF b
<1>8. MadeOf(b, candles, group, start)
  BY <1>2, <1>3, <1>4, <1>5, <1>7 DEF MadeOf
<1>9. Aggregated(candles, group, start) = b
  BY <1>1, <1>6, <1>8, AggregatedIs
<1> QED
  BY <1>6, <1>8, <1>9

\* A bucket of buckets is the bucket of all that they are made of.
LEMMA MadeOfTwice ==
    ASSUME NEW c \in Candle, NEW candles, NEW group \in SUBSET Nat, NEW start,
           MadeOf(c, candles, group, start),
           NEW ticks, NEW part, NEW places \in SUBSET Nat,
           \A m \in places : ticks[m] \in Candle,
           \A h \in group : /\ candles[h] \in Candle /\ part[h] \subseteq places
                            /\ MadeOf(candles[h], ticks, part[h], candles[h].time),
           \A m \in places : \E h \in group : m \in part[h],
           \A g, h \in group : g < h => \A m \in part[g], n \in part[h] : m <= n
    PROVE  MadeOf(c, ticks, places, start)
<1>1. /\ \A m \in places : ticks[m].high \in Int /\ ticks[m].low \in Int
      /\ \A h \in group : candles[h].high \in Int /\ candles[h].low \in Int
      /\ c.high \in Int /\ c.low \in Int
  BY DEF Candle
<1>2. c.time = start
  BY DEF MadeOf
<1>3. \E n \in places : c.open = ticks[n].open /\ \A m \in places : n <= m
  <2>1. PICK h \in group : c.open = candles[h].open /\ \A g \in group : h <= g
    BY DEF MadeOf
  <2>2. PICK n \in part[h] : candles[h].open = ticks[n].open /\ \A m \in part[h] : n <= m
    BY DEF MadeOf
  <2>3. ASSUME NEW m \in places PROVE n <= m
    <3>1. PICK g \in group : m \in part[g]
      OBVIOUS
    <3>2. h = g \/ h < g
      BY <2>1
    <3> QED
      BY <2>2, <3>1, <3>2
  <2> QED
    BY <2>1, <2>2, <2>3
<1>4. \E n \in places : c.close = ticks[n].close /\ \A m \in places : m <= n
  <2>1. PICK h \in group : c.close = candles[h].close /\ \A g \in group : g <= h
    BY DEF MadeOf
  <2>2. PICK n \in part[h] : candles[h].close = ticks[n].close /\ \A m \in part[h] : m <= n
    BY DEF MadeOf
  <2>3. ASSUME NEW m \in places PROVE m <= n
    <3>1. PICK g \in group : m \in part[g]
      OBVIOUS
    <3>2. h = g \/ g < h
      BY <2>1
    <3> QED
      BY <2>2, <3>1, <3>2
  <2> QED
    BY <2>1, <2>2, <2>3
<1>5. \E n \in places : c.high = ticks[n].high
  <2>1. PICK h \in group : c.high = candles[h].high
    BY DEF MadeOf
  <2>2. PICK n \in part[h] : candles[h].high = ticks[n].high
    BY DEF MadeOf
  <2> QED
    BY <2>1, <2>2
<1>6. \E n \in places : c.low = ticks[n].low
  <2>1. PICK h \in group : c.low = candles[h].low
    BY DEF MadeOf
  <2>2. PICK n \in part[h] : candles[h].low = ticks[n].low
    BY DEF MadeOf
  <2> QED
    BY <2>1, <2>2
<1>7. ASSUME NEW m \in places PROVE ticks[m].high <= c.high /\ c.low <= ticks[m].low
  <2>1. PICK h \in group : m \in part[h]
    OBVIOUS
  <2>2. ticks[m].high <= candles[h].high /\ candles[h].low <= ticks[m].low
    BY <2>1 DEF MadeOf
  <2>3. candles[h].high <= c.high /\ c.low <= candles[h].low
    BY DEF MadeOf
  <2> QED
    BY <1>1, <2>2, <2>3
<1> QED
  BY <1>2, <1>3, <1>4, <1>5, <1>6, <1>7 DEF MadeOf

\* The ticks of i in the bucket.
Inside(i, start, minutes) ==
    {n \in Of(i) : BucketStart(quotes[n].at, minutes) = start}

\* The ticks are candles, and the broker's bucket is the ticks inside.
LEMMA TicksType ==
    ASSUME StreamInv, NEW i
    PROVE  /\ DOMAIN Ticks(Of(i)) = Of(i)
           /\ \A n \in Of(i) : /\ Ticks(Of(i))[n] \in Candle
                               /\ Ticks(Of(i))[n].time = quotes[n].at
           /\ \A start, minutes : Group(Ticks(Of(i)), start, minutes)
                                    = Inside(i, start, minutes)
<1>1. \A n \in Of(i) : quotes[n].at \in Nat /\ quotes[n].price \in Int
  BY StreamType
<1>2. /\ DOMAIN Ticks(Of(i)) = Of(i)
      /\ \A n \in Of(i) : /\ Ticks(Of(i))[n] \in Candle
                          /\ Ticks(Of(i))[n].time = quotes[n].at
  BY <1>1 DEF Ticks, PriceCandle, Candle
<1> QED
  BY <1>2 DEF Group, Inside

\* What is made of the ticks inside is the broker's own candle.
LEMMA TrueCandle ==
    ASSUME StreamInv, NEW i, NEW c \in Candle, NEW tf \in Nat \ {0},
           MadeOf(c, Ticks(Of(i)), Inside(i, c.time, tf), c.time)
    PROVE  c \in Aggregate(Ticks(Of(i)), tf)
<1> DEFINE T == Ticks(Of(i))
           G == Inside(i, c.time, tf)
<1>1. /\ DOMAIN T = Of(i) /\ G \subseteq Of(i) /\ G \in SUBSET Nat
      /\ \A n \in G : T[n] \in Candle
      /\ \A n \in Of(i) : T[n].time = quotes[n].at
      /\ Group(T, c.time, tf) = G
  BY TicksType, StreamType DEF Inside
<1>2. PICK n \in G : TRUE
  BY DEF MadeOf
<1>3. n \in DOMAIN T /\ BucketStart(T[n].time, tf) = c.time
  BY <1>1, <1>2 DEF Inside
<1> HIDE DEF T, G
<1>4. Aggregated(T, G, c.time) = c
  BY <1>1, AggregatedIs DEF T, G
<1> QED
  BY <1>1, <1>3, <1>4 DEF Aggregate, T

LEMMA CoverInvariant == Spec => []CoverInv
<1>1. Init => CoverInv
  BY DEF Init, CoverInv, NoBuckets
<1>2. IInv /\ CoverInv /\ [Next]_vars => CoverInv'
  BY CoverStep DEF IInv
<1> QED
  BY <1>1, <1>2, FeedInvariant, PTL DEF Spec

\* A candle of a timeframe was loaded, or it was streamed.
LEMMA SeriesFrom ==
    ASSUME FeedInv, MarketInv, WarmInv, NEW i \in Instruments, NEW tf \in Timeframes,
           NEW n \in DOMAIN series[i][tf]
    PROVE  \/ series[i][tf][n] \in Aggregate(Ticks(Of(i)), tf)
           \/ \E y \in 1..Len(Streamed(i, tf)) :
                 series[i][tf][n] = Streamed(i, tf)[y]
<1> DEFINE A == Aggregate(Ticks(Of(i)), tf)
           loaded == warm[i][tf]
           str == Streamed(i, tf)
           s == series[i][tf]
<1>1. s = Window(loaded \o str) /\ loaded \in Seq(A)
  BY DEF MarketInv, WarmInv, Loaded
<1>2. PICK B : str \in Seq(B)
  BY StreamedType DEF FeedInv, Emissions
<1> HIDE DEF A, loaded, str, s
<1> DEFINE C == A \cup B
<1>3. loaded \in Seq(C) /\ str \in Seq(C)
  BY <1>1, <1>2
<1> HIDE DEF C
<1>4. loaded \o str \in Seq(C)
  BY <1>3
<1>5. s \in Seq(C) /\ \A m \in 1..Len(s) :
         \E x \in 1..Len(loaded \o str) : s[m] = (loaded \o str)[x]
  BY <1>1, <1>4, WindowIs
<1>6. n \in 1..Len(s)
  BY <1>5 DEF s
<1>7. PICK x \in 1..Len(loaded \o str) : s[n] = (loaded \o str)[x]
  BY <1>5, <1>6
<1>8. CASE x <= Len(loaded)
  <2>1. s[n] = loaded[x] /\ x \in 1..Len(loaded)
    BY <1>3, <1>7, <1>8
  <2>2. s[n] \in A
    BY <1>1, <2>1
  <2> QED
    BY <2>2 DEF A, s
<1>9. CASE x > Len(loaded)
  <2>1. s[n] = str[x - Len(loaded)] /\ x - Len(loaded) \in 1..Len(str)
    BY <1>3, <1>7, <1>9
  <2> QED
    BY <2>1 DEF s, str
<1>10. x <= Len(loaded) \/ x > Len(loaded)
  BY <1>1
<1> QED
  BY <1>8, <1>9, <1>10

\* The ticks inside came over the connection k, and so did what closed them.
Untorn(i, start, tf, k) ==
    /\ k # 0
    /\ \A m \in Covering(i, start, tf) : quotes[m].by = k

\* One level: the ticks of the minute.
LEMMA UntornMinute ==
    ASSUME StreamInv, NEW i, NEW c \in Candle, NEW k0, OfMinute(i, k0, c),
           NEW k, Untorn(i, c.time, 1, k)
    PROVE  c \in Aggregate(Ticks(Of(i)), 1)
<1> DEFINE G == Inside(i, c.time, 1)
           M == InMinute(i, k0, c.time)
<1>1. \A n \in Of(i) : BucketStart(quotes[n].at, 1) = quotes[n].at
  BY StreamType, MinuteBucket
<1>2. G = {n \in Of(i) : quotes[n].at = c.time}
  BY <1>1 DEF Inside
<1>3. \A n \in G : quotes[n].by = k
  BY DEF Untorn, Covering, Inside
<1>4. M \subseteq G
  BY <1>2, StreamType DEF InMinute
<1>5. PICK m \in M : TRUE
  BY MinutePast
<1>6. k = k0
  BY <1>3, <1>4, <1>5 DEF InMinute, Over
<1>7. G \subseteq M
  BY <1>2, <1>3, <1>6 DEF InMinute, Over
<1>8. MadeOf(c, Ticks(Of(i)), G, c.time)
  BY <1>4, <1>7 DEF OfMinute
<1> HIDE DEF G
<1> QED
  BY <1>8, TrueCandle DEF G

\* Two levels: the minutes of the bucket, and the ticks of the minutes.
LEMMA UntornBucket ==
    ASSUME StreamInv, FeedInv, CoverInv, NEW i \in Instruments, NEW w \in Nat \ {0},
           NEW y \in 1..Len(Fed(live[i], w)), NEW k,
           Untorn(i, Fed(live[i], w)[y].time, w, k)
    PROVE  Fed(live[i], w)[y] \in Aggregate(Ticks(Of(i)), w)
<1> DEFINE L == live[i]
           last == Len(L)
           t == L[last].time
           T == Ticks(Of(i))
<1>1. PICK c : c = Fed(L, w)[y]
  OBVIOUS
<1>2. L # <<>>
  <2>1. Len(<<>>) = 0
    OBVIOUS
  <2> QED
    BY <2>1 DEF Fed
<1>3. /\ Rising(L) /\ Timed(L) /\ Len(L) \in Nat /\ DOMAIN L = 1..Len(L)
      /\ \A h \in 1..Len(L) : L[h] \in Candle /\ L[h].time \in Nat
      /\ last \in 1..Len(L)
  BY <1>2, RisingTimed DEF FeedInv, Emissions
<1>4. c \in Aggregate(L, w) /\ c.time \in Nat /\ c.time + w <= t
  <2>1. Fed(L, w) = FedBy(L, w, t)
    BY <1>2 DEF Fed
  <2>2. t \in Nat
    BY <1>3
  <2> HIDE DEF L, t
  <2>3. /\ FedBy(L, w, t)[y] \in Aggregate(L, w)
        /\ FedBy(L, w, t)[y].time \in Nat
        /\ FedBy(L, w, t)[y].time + w <= t
    <3>1. y \in 1..Len(FedBy(L, w, t))
      BY <2>1 DEF L
    <3> QED
      BY <1>3, <2>2, <3>1, FedSorted
  <2> QED
    BY <1>1, <2>1, <2>3
<1> DEFINE s == c.time
           H == Group(L, s, w)
           I == Inside(i, s, w)
           part == [h \in H |-> InMinute(i, k, L[h].time)]
<1>5. /\ c = Aggregated(L, H, s) /\ H # {} /\ H \subseteq 1..Len(L)
      /\ \A h \in 1..Len(L) : h \in H <=> BucketStart(L[h].time, w) = s
  <2>1. PICK start \in {BucketStart(L[n].time, w) : n \in DOMAIN L} :
           c = Aggregated(L, Group(L, start, w), start)
    BY <1>4 DEF Aggregate
  <2>2. s = start
    BY <2>1 DEF Aggregated
  <2> QED
    BY <1>3, <2>1, <2>2 DEF Group
<1>6. c \in Candle /\ MadeOf(c, L, H, s)
  <2>1. Places(H) /\ \A h \in H : L[h] \in Candle
    BY <1>3, <1>5 DEF Places
  <2> HIDE DEF L, H
  <2> QED
    BY <1>4, <1>5, <2>1, AggregatedMade
<1>7. Untorn(i, s, w, k) /\ k # 0
  BY <1>1 DEF Untorn
<1>8. PICK old \in 0..connections :
         /\ \A h \in 1..Len(L) : \E j \in (old + 1)..connections : OfMinute(i, j, L[h])
         /\ \A j \in (old + 1)..connections : Covered(i, j)
  BY DEF CoverInv
<1>9. /\ \A n \in Of(i) : n \in Nat /\ quotes[n].at \in Nat
      /\ Of(i) \subseteq 1..Len(quotes)
      /\ \A j : \A n \in Over(i, j) : n \in Of(i) /\ quotes[n].by = j
  BY StreamType DEF Over
<1>10. \A n \in I : n \in Of(i) /\ n \in Over(i, k)
  BY <1>7 DEF Untorn, Covering, Inside, Over
<1>11. \A h \in H : OfMinute(i, k, L[h]) /\ k \in (old + 1)..connections
  <2> SUFFICES ASSUME NEW h \in H
               PROVE  OfMinute(i, k, L[h]) /\ k \in (old + 1)..connections
    OBVIOUS
  <2>1. PICK j \in (old + 1)..connections : OfMinute(i, j, L[h])
    BY <1>5, <1>8
  <2>2. PICK m \in InMinute(i, j, L[h].time) : TRUE
    BY <2>1, MinutePast
  <2>3. m \in Over(i, j) /\ quotes[m].at = L[h].time
    BY <2>2 DEF InMinute
  <2>4. m \in I
    BY <1>5, <1>9, <2>3 DEF Inside
  <2>5. j = k
    BY <1>9, <1>10, <2>3, <2>4
  <2> QED
    BY <2>1, <2>5
<1>12. Covered(i, k)
  BY <1>5, <1>8, <1>11
<1>13. PICK a \in Over(i, k) : quotes[a].at >= s + w
  <2> DEFINE after == {n \in Of(i) : quotes[n].at >= s + w}
  <2>1. after \in SUBSET Nat
    BY <1>9
  <2>2. after # {}
    <3>1. PICK j \in (old + 1)..connections : OfMinute(i, j, L[last])
      BY <1>3, <1>8
    <3>2. PICK m \in InMinute(i, j, L[last].time) : TRUE
      BY <3>1, MinutePast
    <3>3. m \in Of(i) /\ quotes[m].at = t
      BY <1>9, <3>2 DEF InMinute
    <3>4. quotes[m].at >= s + w
      BY <1>3, <1>4, <3>3
    <3> QED
      BY <3>3, <3>4
  <2>3. PICK n \in after : \A m \in after : n <= m
    <3> HIDE DEF after
    <3> QED
      BY <2>1, <2>2, LeastMember
  <2>4. Min(after) = n
    <3> HIDE DEF after
    <3>1. after \in SUBSET Int
      BY <2>1
    <3> QED
      BY <2>3, <3>1, MinIs
  <2>5. n \in Covering(i, s, w)
    BY <2>2, <2>4 DEF Covering
  <2>6. quotes[n].by = k
    BY <1>7, <2>5 DEF Untorn
  <2> QED
    BY <2>3, <2>6 DEF Over
<1>14. \A m \in I : \E h \in H : m \in part[h]
  <2> SUFFICES ASSUME NEW m \in I PROVE \E h \in H : m \in part[h]
    OBVIOUS
  <2>1. m \in Over(i, k) /\ quotes[m].at \in Nat /\ BucketStart(quotes[m].at, w) = s
    BY <1>9, <1>10 DEF Inside
  <2>2. quotes[m].at < s + w
    BY <2>1, BucketHolds
  <2>3. quotes[m].at < quotes[a].at
    BY <1>4, <1>9, <1>13, <2>1, <2>2
  <2>4. PICK h \in 1..Len(L) : L[h].time = quotes[m].at
    BY <1>12, <1>13, <2>1, <2>3 DEF Covered
  <2>5. h \in H /\ m \in InMinute(i, k, L[h].time)
    BY <1>5, <2>1, <2>4 DEF InMinute
  <2> QED
    BY <2>5
<1>15. \A h \in H : /\ L[h] \in Candle /\ part[h] \subseteq I
                    /\ MadeOf(L[h], T, part[h], L[h].time)
  <2> SUFFICES ASSUME NEW h \in H
               PROVE  /\ L[h] \in Candle /\ part[h] \subseteq I
                      /\ MadeOf(L[h], T, part[h], L[h].time)
    OBVIOUS
  <2>1. part[h] \subseteq I
    BY <1>5, <1>9 DEF InMinute, Inside
  <2>2. MadeOf(L[h], T, part[h], L[h].time)
    BY <1>11 DEF OfMinute
  <2> QED
    BY <1>3, <1>5, <2>1, <2>2
<1>16. \A g, h \in H : g < h => \A m \in part[g], n \in part[h] : m <= n
  <2> SUFFICES ASSUME NEW g \in H, NEW h \in H, g < h,
                      NEW m \in part[g], NEW n \in part[h]
               PROVE  m <= n
    OBVIOUS
  <2>1. L[g].time < L[h].time
    BY <1>3, <1>5 DEF Rising, Ascending
  <2>2. quotes[m].at = L[g].time /\ quotes[n].at = L[h].time
    BY DEF InMinute
  <2>3. m \in 1..Len(quotes) /\ n \in 1..Len(quotes)
    BY <1>9 DEF InMinute
  <2>4. n <= m => quotes[n].at <= quotes[m].at
    BY <2>3 DEF StreamInv
  <2>5. L[g].time \in Nat /\ L[h].time \in Nat
    BY <1>3, <1>5
  <2>6. ~(n <= m)
    BY <2>1, <2>2, <2>4, <2>5
  <2>7. m \in Int /\ n \in Int
    BY <1>9, <2>3
  <2> QED
    BY <2>6, <2>7
<1>17. \A m \in I : T[m] \in Candle
  BY <1>10, TicksType
<1>18. I \in SUBSET Nat /\ H \in SUBSET Nat
  BY <1>3, <1>5, <1>9, <1>10
<1> HIDE DEF L, H, I, T, part, t, last
<1>19. MadeOf(c, T, I, s)
  BY <1>6, <1>14, <1>15, <1>16, <1>17, <1>18, MadeOfTwice
<1>20. c \in Aggregate(T, w)
  BY <1>6, <1>19, TrueCandle DEF T, I
<1> QED
  BY <1>1, <1>20 DEF T, L

\* What came whole over one connection is the broker's own candle, however
\* many disconnects and restarts there were before: UntornCandlesTrue.
THEOREM UntornIsTrue == Spec => []UntornCandlesTrue
<1>1. IInv /\ CoverInv => UntornCandlesTrue
  <2> SUFFICES ASSUME StreamInv, FeedInv, MarketInv, WarmInv, CoverInv,
                      NEW i \in Instruments, NEW tf \in Timeframes,
                      NEW n \in DOMAIN series[i][tf],
                      LET by == {quotes[m].by :
                                    m \in Covering(i, series[i][tf][n].time, tf)}
                      IN  Cardinality(by) = 1 /\ by # {0}
               PROVE  series[i][tf][n] \in Aggregate(Ticks(Of(i)), tf)
    BY DEF IInv, UntornCandlesTrue
  <2>1. PICK c : c = series[i][tf][n]
    OBVIOUS
  <2>2. PICK k : Untorn(i, c.time, tf, k)
    <3> DEFINE V == Covering(i, c.time, tf)
               by == {quotes[m].by : m \in V}
    <3>1. Cardinality(by) = 1 /\ by # {0}
      BY <2>1
    <3>2. IsFiniteSet(by)
      <4>1. IsFiniteSet(V)
        <5>1. IsFiniteSet(Of(i))
          BY TicksTimed, TicksType DEF Timed
        <5>2. \E z : V \subseteq Of(i) \cup {z}
          <6>1. V \subseteq Of(i) \cup {Min({m \in Of(i) : quotes[m].at >= c.time + tf})}
            BY DEF Covering
          <6> QED
            BY <6>1
        <5>3. PICK z : V \subseteq Of(i) \cup {z}
          BY <5>2
        <5> HIDE DEF V
        <5> QED
          BY <5>1, <5>3, FS_AddElement, FS_Subset
      <4> DEFINE of == [m \in V |-> quotes[m].by]
      <4>2. of \in Surjection(V, by)
        BY DEF Surjection
      <4> HIDE DEF V, by, of
      <4> QED
        BY <4>1, <4>2, FS_Surjection
    <3> HIDE DEF by
    <3>3. PICK k : by = {k}
      BY <3>1, <3>2, FS_Singleton
    <3>4. k # 0
      BY <3>1, <3>3
    <3>5. \A m \in V : quotes[m].by = k
      BY <3>3 DEF by
    <3> QED
      BY <3>4, <3>5 DEF Untorn
  <2>3. CASE c \in Aggregate(Ticks(Of(i)), tf)
    BY <2>1, <2>3
  <2>4. ASSUME NEW y \in 1..Len(Streamed(i, tf)), c = Streamed(i, tf)[y], tf = 1
        PROVE  c \in Aggregate(Ticks(Of(i)), tf)
    <3>1. c = live[i][y] /\ y \in 1..Len(live[i])
      BY <2>4 DEF Streamed
    <3>2. c \in Candle /\ \E k0 : OfMinute(i, k0, c)
      BY <3>1, RisingTimed DEF FeedInv, Emissions
    <3> QED
      BY <2>2, <2>4, <3>2, UntornMinute
  <2>5. ASSUME NEW y \in 1..Len(Streamed(i, tf)), c = Streamed(i, tf)[y], tf # 1
        PROVE  c \in Aggregate(Ticks(Of(i)), tf)
    <3>1. c = Fed(live[i], tf)[y] /\ y \in 1..Len(Fed(live[i], tf))
      BY <2>5 DEF Streamed
    <3> QED
      BY <2>2, <3>1, UntornBucket, TimeframeType
  <2> QED
    BY <2>1, <2>3, <2>4, <2>5, SeriesFrom
<1> QED
  BY <1>1, FeedInvariant, CoverInvariant, PTL
=============================================================================
