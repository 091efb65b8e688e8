------------------------------ MODULE MarketFeed ------------------------------
(***************************************************************************)
(* From the broker's ticks to the candles in MarketState: the stream, lost *)
(* and made again, its TickAggregators, the CandleResamplers of the        *)
(* engine, the warm-up after a restart, and the rolling windows.           *)
(*                                                                         *)
(* A candle that add_tick emits goes through a FIFO queue to process_event *)
(* (module LiveRunner); nothing here depends on when it arrives, so both   *)
(* happen in one step.                                                     *)
(***************************************************************************)
EXTENDS Candles

CONSTANTS
    Instruments,
    Widths,         \* the higher timeframes, in minutes
    MaxLen,         \* data.MAXLEN
    Prices,         \* bound: the mid prices quoted
    MaxMinute,      \* bound: the clock
    MaxTicks,       \* bound: ticks
    MaxConnections, \* bound: connections ever made
    MaxBoots        \* bound: restarts of the process

ASSUME FeedAssumption ==
    /\ Widths \subseteq Nat \ {0, 1}
    /\ MaxLen \in Nat \ {0}
    /\ Prices \subseteq Int
    /\ {MaxMinute, MaxTicks, MaxConnections, MaxBoots} \subseteq Nat

Timeframes == {1} \cup Widths

VARIABLES
    now,            \* minute of the wall clock
    quotes,         \* the broker: all ticks, with the connection that got them
    connection,     \* number of the connection, 0 when there is none
    connections,    \* connections made so far
    boots,          \* restarts so far (for the bound)
    agg,            \* instrument -> bucket of its TickAggregator
    resampled,      \* instrument -> width -> bucket of its CandleResampler
    series,         \* MarketState: instrument -> timeframe -> candles
    warm,           \* observer: what the warm-up loaded
    live            \* observer: instrument -> 1M candles emitted since boot

stream == <<connection, connections, agg>>
market == <<resampled, series, live>>
vars == <<now, quotes, boots, stream, market, warm>>

Empty == [i \in Instruments |-> [tf \in Timeframes |-> <<>>]]
NoBuckets == [i \in Instruments |-> <<>>]
NoResampled == [i \in Instruments |-> [w \in Widths |-> <<>>]]

Init ==
    /\ now = 0 /\ quotes = <<>> /\ boots = 0
    /\ connection = 0 /\ connections = 0
    /\ agg = NoBuckets /\ resampled = NoResampled
    /\ series = Empty /\ warm = Empty /\ live = NoBuckets

-----------------------------------------------------------------------------
\* deque(maxlen = MAXLEN)
Window(s) ==
    IF Len(s) <= MaxLen THEN s ELSE SubSeq(s, Len(s) - MaxLen + 1, Len(s))

\* The places of the broker's ticks of i, and the ticks as candles of one price.
Of(i) == {n \in DOMAIN quotes : quotes[n].instrument = i}

Ticks(places) == [n \in places |-> PriceCandle(quotes[n].at, quotes[n].price)]

\* Those that came over the connection k.
Over(i, k) == {n \in Of(i) : quotes[n].by = k}

\* LiveEngine._process for the 1M candle c of i, as far as candles go.
Processed(i, c) ==
    /\ live' = [live EXCEPT ![i] = Append(@, c)]
    /\ resampled' = [resampled EXCEPT ![i] =
                        [w \in Widths |-> Added(resampled[i][w], c, w)]]
    /\ series' = [series EXCEPT ![i] =
          [tf \in Timeframes |->
              Window(series[i][tf] \o
                     (IF tf = 1 THEN <<c>>
                      ELSE Emitted(resampled[i][tf], c, tf)))]]

\* One PRICE message of _stream_once.
Received(i, price) ==
    LET tick == PriceCandle(now, price)
        emitted == Emitted(agg[i], tick, 1)
    IN  /\ agg' = [agg EXCEPT ![i] = Added(agg[i], tick, 1)]
        /\ IF emitted # <<>> THEN Processed(i, emitted[1])
           ELSE UNCHANGED market

\* The broker quotes a price, and the stream delivers it if there is one.
Quote(i, price) ==
    /\ Len(quotes) < MaxTicks
    /\ quotes' = Append(quotes, [instrument |-> i, at |-> now, price |-> price,
                                 by |-> connection])
    /\ IF connection # 0 THEN Received(i, price)
       ELSE UNCHANGED <<agg, market>>
    /\ UNCHANGED <<now, boots, connection, connections, warm>>

Minute ==
    /\ now < MaxMinute
    /\ now' = now + 1
    /\ UNCHANGED <<quotes, boots, stream, market, warm>>

\* Mutant: the aggregators keep what they had before the disconnect.
ConnectKeeping ==
    /\ connection = 0 /\ connections < MaxConnections
    /\ connection' = connections + 1 /\ connections' = connections + 1
    /\ UNCHANGED <<now, quotes, boots, agg, market, warm>>

\* iter_events calls _stream_once again, which resets every aggregator.
Connect ==
    /\ connection = 0 /\ connections < MaxConnections
    /\ connection' = connections + 1 /\ connections' = connections + 1
    /\ agg' = NoBuckets
    /\ UNCHANGED <<now, quotes, boots, market, warm>>

Disconnect ==
    /\ connection # 0
    /\ connection' = 0
    /\ UNCHANGED <<now, quotes, boots, connections, agg, market, warm>>

\* Mutant: fetch_candles keeps the candle that is not complete yet.
HistoryWithCurrent(i, tf) == InOrder(Aggregate(Ticks(Of(i)), tf))

\* fetch_candles: the broker's own complete candles.
History(i, tf) == FedBy(Ticks(Of(i)), tf, now)

\* The process ends, starts again and warms up; a fetch that fails is skipped.
Restart ==
    /\ boots < MaxBoots
    /\ boots' = boots + 1
    /\ connection' = 0
    /\ agg' = NoBuckets /\ resampled' = NoResampled /\ live' = NoBuckets
    /\ \E loaded \in SUBSET (Instruments \X Timeframes) :
          warm' = [i \in Instruments |-> [tf \in Timeframes |->
                      IF <<i, tf>> \in loaded THEN History(i, tf) ELSE <<>>]]
    /\ series' = [i \in Instruments |-> [tf \in Timeframes |->
                      Window(warm'[i][tf])]]
    /\ UNCHANGED <<now, quotes, connections>>

Next ==
    \/ \E i \in Instruments, price \in Prices : Quote(i, price)
    \/ Minute \/ Connect \/ Disconnect \/ Restart

Spec == Init /\ [][Next]_vars

-----------------------------------------------------------------------------
\* backtest.py:4: "what you validate is exactly what you'll run".  The higher
\* timeframes the resamplers build online, candle by candle, are those the
\* backtest's aggregate cuts out of the same 1M candles with all of them in
\* hand, and they are there at the same moment, never before their end.
MarketIsReplay ==
    \A i \in Instruments, w \in Widths :
        LET fed == IF live[i] = <<>> THEN <<>>
                   ELSE FedBy(live[i], w, Last(live[i]).time)
        IN  series[i][w] = Window(warm[i][w] \o fed)

\* stream.py:346: "stale partial candles from before a disconnect are never
\* emitted".  Every 1M candle has all the ticks of its minute that came over
\* one connection, and no others.
MinuteOfOneConnection ==
    \A i \in Instruments : \A n \in DOMAIN live[i] :
        \E k \in 1..connections :
            live[i][n] \in Aggregate(Ticks(Over(i, k)), 1)

\* A timeframe never goes back: not at a reconnect, and not where the warm-up
\* ends and the stream begins.
SeriesOrdered ==
    \A i \in Instruments, tf \in Timeframes :
        \A n \in 1..(Len(series[i][tf]) - 1) :
            series[i][tf][n].time < series[i][tf][n + 1].time

\* The ticks of the bucket and the one after it, which closes it.
Covering(i, start, minutes) ==
    LET inside == {n \in Of(i) : BucketStart(quotes[n].at, minutes) = start}
        after == {n \in Of(i) : quotes[n].at >= start + minutes}
    IN  inside \cup (IF after = {} THEN {} ELSE {Min(after)})

\* A candle is the broker's own candle whenever the ticks of its bucket and
\* the one that closed it came over one connection: neither a resampler that
\* lived through earlier disconnects nor the warm-up leaves a trace in it.
UntornCandlesTrue ==
    \A i \in Instruments, tf \in Timeframes : \A n \in DOMAIN series[i][tf] :
        LET c == series[i][tf][n]
            by == {quotes[m].by : m \in Covering(i, c.time, tf)}
        IN  (Cardinality(by) = 1 /\ by # {0})
              => c \in Aggregate(Ticks(Of(i)), tf)
=============================================================================
