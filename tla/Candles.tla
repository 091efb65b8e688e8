------------------------------- MODULE Candles -------------------------------
(***************************************************************************)
(* The bucket arithmetic of stream.py and of the backtest.  Times are      *)
(* minutes; the order of ticks within a minute is that of their arrival.   *)
(* TickAggregator and CandleResampler are one operator here: a tick is the *)
(* candle of one price.  A bucket under construction is <<>> or <<bucket>>.*)
(***************************************************************************)
EXTENDS Integers, SequencesExt, FiniteSetsExt

Candle == [time : Nat, open : Int, high : Int, low : Int, close : Int]

PriceCandle(at, price) ==
    [time |-> at, open |-> price, high |-> price, low |-> price,
     close |-> price]

\* _bucket_start; both 15 and 60 divide the day, so midnight changes nothing.
BucketStart(at, minutes) == at - (at % minutes)

Opened(c, minutes) ==
    [time |-> BucketStart(c.time, minutes), open |-> c.open, high |-> c.high,
     low |-> c.low, close |-> c.close]

Extended(bucket, c) ==
    [time |-> bucket.time, open |-> bucket.open,
     high |-> Max({bucket.high, c.high}), low |-> Min({bucket.low, c.low}),
     close |-> c.close]

Crosses(current, c, minutes) ==
    current # <<>> /\ current[1].time # BucketStart(c.time, minutes)

\* Mutant: the candle that crosses the boundary is not kept.
AddedAfterReset(current, c, minutes) ==
    IF Crosses(current, c, minutes) THEN <<>>
    ELSE IF current = <<>> THEN <<Opened(c, minutes)>>
    ELSE <<Extended(current[1], c)>>

\* The bucket after add_tick or add.
Added(current, c, minutes) ==
    IF current = <<>> \/ Crosses(current, c, minutes)
    THEN <<Opened(c, minutes)>>
    ELSE <<Extended(current[1], c)>>

\* Mutant: the candle that proves the bucket closed is counted in.
EmittedWithNext(current, c, minutes) ==
    IF Crosses(current, c, minutes) THEN <<Extended(current[1], c)>> ELSE <<>>

\* What add_tick or add returns.
Emitted(current, c, minutes) ==
    IF Crosses(current, c, minutes) THEN current ELSE <<>>

-----------------------------------------------------------------------------
\* backtest.aggregate, which sees all of its candles at once: a function from
\* places to candles.
Group(candles, start, minutes) ==
    {n \in DOMAIN candles : BucketStart(candles[n].time, minutes) = start}

Aggregated(candles, group, start) ==
    [time |-> start, open |-> candles[Min(group)].open,
     high |-> Max({candles[n].high : n \in group}),
     low |-> Min({candles[n].low : n \in group}),
     close |-> candles[Max(group)].close]

Aggregate(candles, minutes) ==
    {Aggregated(candles, Group(candles, start, minutes), start) :
        start \in {BucketStart(candles[n].time, minutes) : n \in DOMAIN candles}}

\* sorted(buckets): the nth is the one that n - 1 come before.
InOrder(buckets) ==
    [n \in 1..Cardinality(buckets) |->
        CHOOSE c \in buckets :
            Cardinality({d \in buckets : d.time < c.time}) = n - 1]

\* The candles Backtester.run has fed by the time t: those that end by t.
FedBy(candles, minutes, t) ==
    InOrder({c \in Aggregate(candles, minutes) : c.time + minutes <= t})
=============================================================================
